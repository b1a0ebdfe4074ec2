--------------------------- MODULE LoadBalancing ---------------------------
(***************************************************************************)
(* The load-balancing part of serversInfo.go: which positions of the live  *)
(* server list a strategy may pick, and how the latency estimator reorders *)
(* that list.  Pure operators over a sequence of server records with an    *)
(* rtt field; module ServersInfo uses them inside getOne.                  *)
(*                                                                         *)
(* Go slices are indexed from 0 and TLA+ sequences from 1: the candidate   *)
(* returned by getCandidate is the model's index minus one.  Latencies are *)
(* whole milliseconds.                                                     *)
(***************************************************************************)
EXTENDS Integers, Sequences

CONSTANTS Strategy,  \* lb_strategy: one of Strategies
          LbN        \* the n of an LBStrategyPN

Strategies == {"p2", "pn", "ph", "first", "random"}

ASSUME StrategyAssumption == Strategy \in Strategies
\* config.go accepts "p<n>" for n > 0 only.
ASSUME LbNAssumption == LbN \in Nat \ {0}

MinOf(a, b) == IF a < b THEN a ELSE b
MaxOf(a, b) == IF a < b THEN b ELSE a

\* getActiveCount of the five strategies.
ActiveCount(count) ==
  CASE Strategy = "p2"     -> MinOf(count, 2)
    [] Strategy = "pn"     -> MinOf(count, LbN)
    [] Strategy = "ph"     -> MaxOf(MinOf(count, 2), count \div 2)
    [] Strategy = "first"  -> 1
    [] Strategy = "random" -> count

\* The positions getCandidate can return: every strategy draws uniformly
\* among its active servers.
Candidates(count) == 1 .. ActiveCount(count)

-----------------------------------------------------------------------------
(***************************************************************************)
(* One left-to-right bubble pass over the latencies.  The element carried  *)
(* along when position i has been visited is the last of the largest ones  *)
(* among 1..i; it is dropped at i when its successor is at least as large, *)
(* and otherwise the successor takes place i.                              *)
(***************************************************************************)
IsCarried(s, i, k) ==
  /\ \A j \in 1 .. i : s[j].rtt <= s[k].rtt
  /\ \A j \in k + 1 .. i : s[j].rtt < s[k].rtt

Carried(s, i) == CHOOSE k \in 1 .. i : IsCarried(s, i, k)

\* The position whose element a pass over s leaves at position i.
BubbleSource(s, i) ==
  IF i < Len(s) /\ s[Carried(s, i)].rtt > s[i + 1].rtt
    THEN i + 1
    ELSE Carried(s, i)

BubblePass(s) == [i \in 1 .. Len(s) |-> s[BubbleSource(s, i)]]

Swap(s, i, j) == [s EXCEPT ![i] = s[j], ![j] = s[i]]

WithRtt(s, i, rtt) == [s EXCEPT ![i] = [@ EXCEPT !.rtt = rtt]]

\* The moving average after adding a sample, once it has been set (VariableEWMA,
\* vendored): somewhere between the two.
Averages(old, sample) == MinOf(old, sample) .. MaxOf(old, sample)

(***************************************************************************)
(* estimatorUpdate: the lists the estimator can leave when the strategy    *)
(* has picked position cur.  A candidate outside the active servers is     *)
(* drawn; it takes the picked server's place when it is faster, and when   *)
(* it is much slower than the active ones and has been idle for a minute,  *)
(* its average is lowered to give it a new chance.                         *)
(***************************************************************************)
SecondChance(s, cand) ==
  /\ s[cand].rtt > 0
  /\ s[cand].rtt >= 2 * (s[1].rtt + s[ActiveCount(Len(s))].rtt)

\* Mutant of EstimatorSteps: a new chance makes the candidate active at once.
EstimatorStepsHasty(s, cur, cand) ==
  IF s[cur].rtt >= 0 /\ s[cand].rtt >= s[cur].rtt /\ SecondChance(s, cand)
    THEN {Swap(s, cand, cur)}
    ELSE {s}

EstimatorSteps(s, cur, cand) ==
  IF s[cur].rtt < 0
    THEN {WithRtt(s, cur, s[cand].rtt)}
  ELSE IF s[cand].rtt < s[cur].rtt
    THEN {BubblePass(Swap(s, cand, cur))}
  ELSE IF SecondChance(s, cand)
    THEN {s} \cup {BubblePass(WithRtt(s, cand, avg)) :
                     avg \in Averages(s[cand].rtt, s[cand].rtt \div 2)}
  ELSE {s}

EstimatorUpdate(s, cur) ==
  IF ActiveCount(Len(s)) = Len(s)
    THEN {s}
    ELSE UNION {EstimatorSteps(s, cur, cand) : cand \in ActiveCount(Len(s)) + 1 .. Len(s)}
=============================================================================
