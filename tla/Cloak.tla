-------------------------------- MODULE Cloak --------------------------------
(***************************************************************************)
(* Cloaking (plugin_cloak.go): the answers to queries for a name that has  *)
(* rules, from concurrent sessions which refresh its addresses, and those  *)
(* for other names and records, which take the same lock.                  *)
(*                                                                         *)
(* Addresses are versions: the addresses that the system resolver found in *)
(* one lookup of the target.  A list of addresses that is being filled is  *)
(* Partial.  Reverse lookups are left out.                                 *)
(***************************************************************************)
EXTENDS Integers, FiniteSets

CONSTANTS Sessions,
          TTL,       \* cloak_ttl
          MaxTime    \* bound: the time

Nil == 0
Partial == -1
Never == -1     \* lastUpdate is nil

ASSUME CloakAssumption == TTL \in Nat /\ MaxTime \in Nat

\* The time to live of an answer is positive if the configured one is.
Lifetimes == IF TTL = 0 THEN {0} ELSE 1..TTL

VARIABLES lines,        \* the rules for the name: each is an "ip" or a "target"
          time,
          cloakedName,  \* its addresses, and when they were looked up
          readers,      \* the RWMutex: the sessions that hold it to read,
          writer,       \* or to write
          session

cloakVars == <<lines, time, cloakedName, readers, writer, session>>

\* Addresses from rules are never looked up, even if another rule has a target.
IsIP == "ip" \in lines

Idle == [pc |-> "idle"]

Goto(s, pc) == session' = [session EXCEPT ![s].pc = pc]

-----------------------------------------------------------------------------
(***************************************************************************)
(* Eval                                                                    *)
(***************************************************************************)
CloakQuery(s) ==
  /\ session[s].pc = "idle"
  /\ session' = [session EXCEPT ![s] = [pc |-> "rlock", now |-> time, ttl |-> TTL, seen |-> Nil, overlapped |-> FALSE]]
  /\ UNCHANGED <<time, cloakedName, readers, writer>>

RLock(s, from, to) ==
  /\ session[s].pc = from
  /\ writer = {}
  /\ readers' = readers \cup {s}
  /\ Goto(s, to)
  /\ UNCHANGED <<time, cloakedName, writer>>

\* uint32 of the seconds since the last update.  The session's time may be
\* earlier than the last update: what a negative number is converted to depends
\* on the processor.
Elapsed(s) == IF session[s].now >= cloakedName.lastUpdate THEN {session[s].now - cloakedName.lastUpdate} ELSE {0, TTL}

\* Mutant of Leave: a query for other records is answered with the lock held.
LeaveLocked(s) ==
  /\ session[s].pc = "examine"
  /\ \/ Goto(s, "unmatched") /\ readers' = readers \ {s}
     \/ Goto(s, "rejected") /\ UNCHANGED readers
  /\ UNCHANGED <<time, cloakedName, writer>>

\* A query for a name without a rule goes on, and one for records other than
\* addresses is answered without any.
Leave(s) ==
  /\ session[s].pc = "examine"
  /\ Goto(s, "unmatched") \/ Goto(s, "rejected")
  /\ readers' = readers \ {s}
  /\ UNCHANGED <<time, cloakedName, writer>>

Examine(s) ==
  /\ session[s].pc = "examine"
  /\ \E e \in IF cloakedName.lastUpdate = Never THEN {0} ELSE Elapsed(s) :
       IF ~IsIP /\ (cloakedName.addresses = Nil \/ (cloakedName.lastUpdate # Never /\ e >= TTL))
         THEN Goto(s, "lookup")
         ELSE session' = [session EXCEPT ![s].pc = "len", ![s].ttl = TTL - e]
  /\ readers' = readers \ {s}
  /\ UNCHANGED <<time, cloakedName, writer>>

\* Mutant of Lookup: the entry is refreshed without the lock.
LookupUnlocked(s) ==
  /\ session[s].pc = "lookup"
  /\ Goto(s, "uncloaked") \/ Goto(s, "clear")
  /\ UNCHANGED <<time, cloakedName, readers, writer>>

\* The lookup of the target fails, and the query goes on as if the name had no
\* rule, or it succeeds.
Lookup(s) ==
  /\ session[s].pc = "lookup"
  /\ Goto(s, "uncloaked") \/ Goto(s, "lock")
  /\ UNCHANGED <<time, cloakedName, readers, writer>>

Lock(s) ==
  /\ session[s].pc = "lock"
  /\ writer = {} /\ readers = {}
  /\ writer' = {s}
  /\ Goto(s, "clear")
  /\ UNCHANGED <<time, cloakedName, readers>>

\* The addresses are replaced one after the other.  A session that is reading them
\* meanwhile is overlapped (history).
Clear(s) ==
  /\ session[s].pc = "clear"
  /\ cloakedName' = [addresses |-> Nil, lastUpdate |-> session[s].now]
  /\ session' = [t \in Sessions |-> IF t = s THEN [session[s] EXCEPT !.pc = "fill"]
                                    ELSE IF session[t].pc \in {"len", "read"}
                                    THEN [session[t] EXCEPT !.overlapped = TRUE] ELSE session[t]]
  /\ UNCHANGED <<time, readers, writer>>

Fill(s) ==
  /\ session[s].pc = "fill"
  /\ IF cloakedName.addresses = Nil THEN cloakedName' = [cloakedName EXCEPT !.addresses = Partial] /\ UNCHANGED session
     ELSE cloakedName' = [cloakedName EXCEPT !.addresses = session[s].now + 1] /\ Goto(s, "unlock")
  /\ UNCHANGED <<time, readers, writer>>

Unlock(s) ==
  /\ session[s].pc = "unlock"
  /\ writer' = {}
  /\ Goto(s, "relock")
  /\ UNCHANGED <<time, cloakedName, readers>>

RUnlock(s) ==
  /\ session[s].pc = "runlock"
  /\ readers' = readers \ {s}
  /\ Goto(s, "len")
  /\ UNCHANGED <<time, cloakedName, writer>>

\* The addresses are read without the lock, in two steps.  The outcome of a
\* list that changed between them is undefined.
ReadLen(s) ==
  /\ session[s].pc = "len"
  /\ session' = [session EXCEPT ![s].pc = "read", ![s].seen = cloakedName.addresses]
  /\ UNCHANGED <<time, cloakedName, readers, writer>>

Read(s) ==
  /\ session[s].pc = "read"
  /\ Goto(s, IF session[s].seen # cloakedName.addresses THEN "torn"
             ELSE IF session[s].seen \in {Nil, Partial} THEN "incomplete" ELSE "cloaked")
  /\ UNCHANGED <<time, cloakedName, readers, writer>>

Final == {"cloaked", "uncloaked", "torn", "incomplete", "unmatched", "rejected"}

End(s) ==
  /\ session[s].pc \in Final
  /\ session' = [session EXCEPT ![s] = Idle]
  /\ UNCHANGED <<time, cloakedName, readers, writer>>

CloakTick == /\ time < MaxTime
             /\ time' = time + 1
             /\ UNCHANGED <<cloakedName, readers, writer, session>>

CloakInit ==
  /\ lines \in {{"ip"}, {"target"}, {"ip", "target"}}
  /\ time = 0 /\ readers = {} /\ writer = {}
  /\ cloakedName = [addresses |-> IF IsIP THEN 1 ELSE Nil, lastUpdate |-> Never]
  /\ session = [s \in Sessions |-> Idle]

CloakStep(s) ==
  \/ RLock(s, "rlock", "examine") \/ Leave(s) \/ Examine(s) \/ Lookup(s)
  \/ Lock(s) \/ Clear(s) \/ Fill(s) \/ Unlock(s) \/ RLock(s, "relock", "runlock") \/ RUnlock(s)
  \/ ReadLen(s) \/ Read(s) \/ End(s)

CloakNext == /\ CloakTick \/ \E s \in Sessions : CloakQuery(s) \/ CloakStep(s)
             /\ UNCHANGED lines

CloakSpec == CloakInit /\ [][CloakNext]_cloakVars

\* Goroutines run, lookups end, and the RWMutex is fair to all who wait for it.
FairCloakSpec == CloakSpec /\ \A s \in Sessions : SF_cloakVars(CloakStep(s) /\ UNCHANGED lines)

-----------------------------------------------------------------------------
\* Types.  The time to live of an answer, in particular, is at most the configured
\* one, and is not zero unless that is (plugin_cloak.go:156-163).
CloakTypeOK ==
  /\ time \in 0..MaxTime
  /\ cloakedName \in [addresses : {Partial, Nil} \cup 1..(MaxTime + 1), lastUpdate : {Never} \cup 0..MaxTime]
  /\ readers \subseteq Sessions /\ Cardinality(writer) <= 1
  /\ \A s \in Sessions : session[s].pc # "idle" => session[s].now \in 0..MaxTime /\ session[s].ttl \in Lifetimes

\* An answer has all the addresses of one lookup unless another session has
\* begun to refresh them since the lock was released: the lock protects the
\* entry up to there, on all paths (plugin_cloak.go:143-192), and not when the
\* addresses are copied (plugin_cloak.go:195-211).
CompleteUnlessOverlapped ==
  \A s \in Sessions : session[s].pc \in {"torn", "incomplete"} => session[s].overlapped

\* All queries are answered or go on, on all paths with the lock released: no
\* session waits for it for ever (plugin_cloak.go:143-192).
SessionsEnd == \A s \in Sessions : session[s].pc = "rlock" ~> session[s].pc \in Final

-----------------------------------------------------------------------------
(***************************************************************************)
(* What a document or a comment says and the code does not do: no run      *)
(* checks these, and each has a counterexample (see the README).           *)
(***************************************************************************)

\* "Cloaking returns a predefined address for a specific name": the answer has
\* the addresses of one lookup.
AnswersComplete == \A s \in Sessions : session[s].pc \notin {"torn", "incomplete"}

\* "Cloaking returns a predefined address for a specific name": once its
\* addresses are known, the query is not sent to the servers.
StaysCloaked ==
  [][\A s \in Sessions : cloakedName.addresses > Nil =>
       session'[s].pc # "uncloaked" \/ session[s].pc = "uncloaked"]_cloakVars
=============================================================================
