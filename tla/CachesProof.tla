---------------------------- MODULE CachesProof ----------------------------
(***************************************************************************)
(* What the proxy has looked up and shares among its goroutines is right,  *)
(* however many of them refresh it at the same time: the addresses of      *)
(* cloaked names (Cloak) and the keys of Oblivious DoH targets             *)
(* (ObliviousDoH).                                                         *)
(*                                                                         *)
(* CloakInv says who holds the lock, and when addresses are missing.  IInv *)
(* says that no fetch knows a key that was not made yet, or that was       *)
(* refused before it began.  From the same invariants, neither a session   *)
(* nor a fetch ever goes back.                                             *)
(***************************************************************************)
EXTENDS Cloak, ObliviousDoH, FiniteSetTheorems, TLAPS

-----------------------------------------------------------------------------
(***************************************************************************)
(* The addresses of a cloaked name                                         *)
(***************************************************************************)
CloakPcs == {"rlock", "examine", "lookup", "lock", "clear", "fill", "unlock", "relock", "runlock",
             "len", "read"} \cup Final

Reading == {"examine", "runlock"}
Writing == {"clear", "fill", "unlock"}
Refreshed == {"unlock", "relock", "runlock"}

Versions == {Partial, Nil} \cup 1..(MaxTime + 1)

CloakSession == [pc : CloakPcs, now : 0..MaxTime, ttl : Lifetimes, seen : Versions, overlapped : BOOLEAN]

CloakTypes ==
  /\ time \in 0..MaxTime
  /\ cloakedName \in [addresses : Versions, lastUpdate : {Never} \cup 0..MaxTime]
  /\ session \in [Sessions -> {Idle} \cup CloakSession]
  /\ readers \subseteq Sessions
  /\ writer = {} \/ \E s \in Sessions : writer = {s}

\* The lock: who is where it is needed holds it, alone if to write.
LockInv ==
  /\ \A s \in Sessions : s \in readers <=> session[s].pc \in Reading
  /\ \A s \in Sessions : s \in writer <=> session[s].pc \in Writing
  /\ writer = {} \/ readers = {}

Filling == \E s \in Sessions : session[s].pc = "fill"

\* Addresses from rules are never replaced.  Others are missing before the first
\* lookup, and while a session that has the lock replaces them.
EntryInv ==
  /\ IsIP => /\ cloakedName = [addresses |-> 1, lastUpdate |-> Never]
             /\ \A s \in Sessions : session[s].pc \notin {"lookup", "lock"} \cup Writing \cup Refreshed
  /\ ~Filling => cloakedName.addresses > Nil \/ (cloakedName.addresses = Nil /\ cloakedName.lastUpdate = Never)
  /\ \A s \in Sessions : session[s].pc \in Refreshed \cup {"fill"} => cloakedName.lastUpdate # Never

\* A session reads without the lock what it has seen with it, until it is
\* overlapped.
ReadInv ==
  \A s \in Sessions : session[s].pc \in {"len", "read"} /\ ~session[s].overlapped =>
    /\ ~Filling
    /\ cloakedName.addresses > Nil
    /\ session[s].pc = "read" => session[s].seen = cloakedName.addresses

CloakInv == CloakTypes /\ LockInv /\ EntryInv /\ ReadInv /\ CompleteUnlessOverlapped

USE DEF CloakPcs, Reading, Writing, Refreshed, Versions, Final, Nil, Partial, Never

\* A session that serves a query has its fields.
LEMMA ServesQuery ==
  ASSUME CloakTypes, NEW s \in Sessions, session[s].pc # "idle"
  PROVE  session[s] \in CloakSession
  BY DEF CloakTypes, Idle

\* One session goes on.
LEMMA Goes ==
  ASSUME CloakTypes, NEW s \in Sessions, session[s].pc # "idle", NEW l \in CloakPcs, Goto(s, l)
  PROVE  /\ session' \in [Sessions -> {Idle} \cup CloakSession]
         /\ session'[s].pc = l
         /\ session'[s].overlapped = session[s].overlapped
         /\ session'[s].seen = session[s].seen
         /\ \A t \in Sessions \ {s} : session'[t] = session[t]
<1>1. session[s] \in CloakSession
  BY ServesQuery
<1>2. /\ session'[s] = [session[s] EXCEPT !.pc = l]
      /\ \A t \in Sessions \ {s} : session'[t] = session[t]
      /\ DOMAIN session' = Sessions /\ session' = [t \in Sessions |-> session'[t]]
  BY Zenon DEF Goto, CloakTypes
<1>3. session'[s] \in CloakSession
  BY <1>1, <1>2 DEF CloakSession
<1> QED BY <1>1, <1>2, <1>3 DEF CloakSession, CloakTypes

\* The first state.
LEMMA CloakInitInv == CloakInit => CloakInv
<1> SUFFICES ASSUME CloakInit PROVE CloakInv
  OBVIOUS
<1>1. CloakTypes
  BY CloakAssumption DEF CloakInit, CloakTypes, Idle
<1>2. \A s \in Sessions : session[s].pc = "idle"
  BY DEF CloakInit, Idle
<1> QED BY <1>1, <1>2 DEF CloakInit, CloakInv, LockInv, EntryInv, ReadInv, Filling, CompleteUnlessOverlapped

\* A session takes the lock to examine the entry.
LEMMA RLockFirstCloak ==
  ASSUME CloakInv, UNCHANGED lines, NEW s \in Sessions, RLock(s, "rlock", "examine") PROVE CloakInv'
<1>a. /\ session' \in [Sessions -> {Idle} \cup CloakSession]
      /\ session'[s].pc = "examine"
      /\ session'[s].overlapped = session[s].overlapped
      /\ session'[s].seen = session[s].seen
      /\ \A t \in Sessions \ {s} : session'[t] = session[t]
  BY Goes DEF CloakInv, RLock
<1>1. CloakTypes'
  BY <1>a DEF CloakInv, RLock, CloakTypes
<1>2. LockInv'
  BY <1>a DEF CloakInv, RLock, LockInv, CloakTypes
<1>3. EntryInv'
  BY <1>a DEF CloakInv, RLock, EntryInv, LockInv, IsIP, Filling
<1>4. ReadInv'
  BY <1>a DEF CloakInv, RLock, ReadInv, LockInv, EntryInv, Filling, CloakTypes, IsIP
<1>5. CompleteUnlessOverlapped'
  BY <1>a DEF CloakInv, RLock, CompleteUnlessOverlapped, ReadInv, EntryInv
<1> QED BY <1>1, <1>2, <1>3, <1>4, <1>5 DEF CloakInv

\* A session takes the lock again.
LEMMA RLockAgainCloak ==
  ASSUME CloakInv, UNCHANGED lines, NEW s \in Sessions, RLock(s, "relock", "runlock") PROVE CloakInv'
<1>a. /\ session' \in [Sessions -> {Idle} \cup CloakSession]
      /\ session'[s].pc = "runlock"
      /\ session'[s].overlapped = session[s].overlapped
      /\ session'[s].seen = session[s].seen
      /\ \A t \in Sessions \ {s} : session'[t] = session[t]
  BY Goes DEF CloakInv, RLock
<1>1. CloakTypes'
  BY <1>a DEF CloakInv, RLock, CloakTypes
<1>2. LockInv'
  BY <1>a DEF CloakInv, RLock, LockInv, CloakTypes
<1>3. EntryInv'
  BY <1>a DEF CloakInv, RLock, EntryInv, LockInv, IsIP, Filling
<1>4. ReadInv'
  BY <1>a DEF CloakInv, RLock, ReadInv, LockInv, EntryInv, Filling, CloakTypes, IsIP
<1>5. CompleteUnlessOverlapped'
  BY <1>a DEF CloakInv, RLock, CompleteUnlessOverlapped, ReadInv, EntryInv
<1> QED BY <1>1, <1>2, <1>3, <1>4, <1>5 DEF CloakInv

\* The lookup ends.
LEMMA LookupCloak == ASSUME CloakInv, UNCHANGED lines, NEW s \in Sessions, Lookup(s) PROVE CloakInv'
<1>a. /\ session' \in [Sessions -> {Idle} \cup CloakSession]
      /\ session'[s].pc \in {"uncloaked", "lock"}
      /\ session'[s].overlapped = session[s].overlapped
      /\ session'[s].seen = session[s].seen
      /\ \A t \in Sessions \ {s} : session'[t] = session[t]
  BY Goes DEF CloakInv, Lookup
<1>1. CloakTypes'
  BY <1>a DEF CloakInv, Lookup, CloakTypes
<1>2. LockInv'
  BY <1>a DEF CloakInv, Lookup, LockInv, CloakTypes
<1>3. EntryInv'
  BY <1>a DEF CloakInv, Lookup, EntryInv, LockInv, IsIP, Filling
<1>4. ReadInv'
  BY <1>a DEF CloakInv, Lookup, ReadInv, LockInv, EntryInv, Filling, CloakTypes, IsIP
<1>5. CompleteUnlessOverlapped'
  BY <1>a DEF CloakInv, Lookup, CompleteUnlessOverlapped, ReadInv, EntryInv
<1> QED BY <1>1, <1>2, <1>3, <1>4, <1>5 DEF CloakInv

\* A session takes the lock to replace the addresses.
LEMMA LockCloak == ASSUME CloakInv, UNCHANGED lines, NEW s \in Sessions, Lock(s) PROVE CloakInv'
<1>a. /\ session' \in [Sessions -> {Idle} \cup CloakSession]
      /\ session'[s].pc = "clear"
      /\ session'[s].overlapped = session[s].overlapped
      /\ session'[s].seen = session[s].seen
      /\ \A t \in Sessions \ {s} : session'[t] = session[t]
  BY Goes DEF CloakInv, Lock
<1>1. CloakTypes'
  BY <1>a DEF CloakInv, Lock, CloakTypes
<1>2. LockInv'
  BY <1>a DEF CloakInv, Lock, LockInv, CloakTypes
<1>3. EntryInv'
  BY <1>a DEF CloakInv, Lock, EntryInv, LockInv, IsIP, Filling
<1>4. ReadInv'
  BY <1>a DEF CloakInv, Lock, ReadInv, LockInv, EntryInv, Filling, CloakTypes, IsIP
<1>5. CompleteUnlessOverlapped'
  BY <1>a DEF CloakInv, Lock, CompleteUnlessOverlapped, ReadInv, EntryInv
<1> QED BY <1>1, <1>2, <1>3, <1>4, <1>5 DEF CloakInv

\* It releases it.
LEMMA UnlockCloak == ASSUME CloakInv, UNCHANGED lines, NEW s \in Sessions, Unlock(s) PROVE CloakInv'
<1>a. /\ session' \in [Sessions -> {Idle} \cup CloakSession]
      /\ session'[s].pc = "relock"
      /\ session'[s].overlapped = session[s].overlapped
      /\ session'[s].seen = session[s].seen
      /\ \A t \in Sessions \ {s} : session'[t] = session[t]
  BY Goes DEF CloakInv, Unlock
<1>1. CloakTypes'
  BY <1>a DEF CloakInv, Unlock, CloakTypes
<1>2. LockInv'
  BY <1>a DEF CloakInv, Unlock, LockInv, CloakTypes
<1>3. EntryInv'
  BY <1>a DEF CloakInv, Unlock, EntryInv, LockInv, IsIP, Filling
<1>4. ReadInv'
  BY <1>a DEF CloakInv, Unlock, ReadInv, LockInv, EntryInv, Filling, CloakTypes, IsIP
<1>5. CompleteUnlessOverlapped'
  BY <1>a DEF CloakInv, Unlock, CompleteUnlessOverlapped, ReadInv, EntryInv
<1> QED BY <1>1, <1>2, <1>3, <1>4, <1>5 DEF CloakInv

\* A session that has refreshed the addresses begins to read them.
LEMMA RUnlockCloak == ASSUME CloakInv, UNCHANGED lines, NEW s \in Sessions, RUnlock(s) PROVE CloakInv'
<1>a. /\ session' \in [Sessions -> {Idle} \cup CloakSession]
      /\ session'[s].pc = "len"
      /\ session'[s].overlapped = session[s].overlapped
      /\ session'[s].seen = session[s].seen
      /\ \A t \in Sessions \ {s} : session'[t] = session[t]
  BY Goes DEF CloakInv, RUnlock
<1>1. CloakTypes'
  BY <1>a DEF CloakInv, RUnlock, CloakTypes
<1>2. LockInv'
  BY <1>a DEF CloakInv, RUnlock, LockInv, CloakTypes
<1>3. EntryInv'
  BY <1>a DEF CloakInv, RUnlock, EntryInv, LockInv, IsIP, Filling
<1>4. ReadInv'
  BY <1>a DEF CloakInv, RUnlock, ReadInv, LockInv, EntryInv, Filling, CloakTypes, IsIP
<1>5. CompleteUnlessOverlapped'
  BY <1>a DEF CloakInv, RUnlock, CompleteUnlessOverlapped, ReadInv, EntryInv
<1> QED BY <1>1, <1>2, <1>3, <1>4, <1>5 DEF CloakInv

\* The addresses are read.
LEMMA ReadCloak == ASSUME CloakInv, UNCHANGED lines, NEW s \in Sessions, Read(s) PROVE CloakInv'
<1> DEFINE l == IF session[s].seen # cloakedName.addresses THEN "torn"
                ELSE IF session[s].seen \in {Nil, Partial} THEN "incomplete" ELSE "cloaked"
<1>a. /\ session' \in [Sessions -> {Idle} \cup CloakSession]
      /\ session'[s].pc = l
      /\ session'[s].overlapped = session[s].overlapped
      /\ \A t \in Sessions \ {s} : session'[t] = session[t]
  <2>1. l \in CloakPcs /\ Goto(s, l) /\ session[s].pc # "idle"
    BY DEF Read
  <2> HIDE DEF l
  <2> QED BY <2>1, Goes DEF CloakInv
<1>b. session'[s].pc \in {"torn", "incomplete", "cloaked"}
  BY <1>a
<1>c. session[s].pc = "read"
  BY DEF Read
<1>d. l \in {"torn", "incomplete"} => session[s].overlapped
  BY <1>c DEF CloakInv, ReadInv
<1> HIDE DEF l
<1>1. CloakTypes'
  BY <1>a DEF CloakInv, Read, CloakTypes
<1>2. LockInv'
  BY <1>a, <1>b DEF CloakInv, Read, LockInv, CloakTypes
<1>3. EntryInv'
  BY <1>a, <1>b DEF CloakInv, Read, EntryInv, LockInv, IsIP, Filling
<1>4. ReadInv'
  BY <1>a, <1>b DEF CloakInv, Read, ReadInv, Filling
<1>5. CompleteUnlessOverlapped'
  BY <1>a, <1>d DEF CloakInv, CompleteUnlessOverlapped
<1> QED BY <1>1, <1>2, <1>3, <1>4, <1>5 DEF CloakInv

\* A session examines the entry: it reads it, or looks its target up.
LEMMA ExamineCloak == ASSUME CloakInv, UNCHANGED lines, NEW s \in Sessions, Examine(s) PROVE CloakInv'
<1>s. session[s] \in CloakSession /\ session[s].pc = "examine" /\ s \in readers /\ writer = {}
  BY ServesQuery DEF CloakInv, Examine, LockInv
<1>f. ~Filling
  BY <1>s DEF CloakInv, LockInv, Filling
<1>a. /\ session' \in [Sessions -> {Idle} \cup CloakSession]
      /\ session'[s].overlapped = session[s].overlapped
      /\ \A t \in Sessions \ {s} : session'[t] = session[t]
      /\ \/ session'[s].pc = "lookup" /\ ~IsIP
         \/ session'[s].pc = "len" /\ cloakedName.addresses > Nil
  <2>1. PICK e \in IF cloakedName.lastUpdate = Never THEN {0} ELSE Elapsed(s) :
          IF ~IsIP /\ (cloakedName.addresses = Nil \/ (cloakedName.lastUpdate # Never /\ e >= TTL))
            THEN Goto(s, "lookup")
            ELSE session' = [session EXCEPT ![s].pc = "len", ![s].ttl = TTL - e]
    BY DEF Examine
  <2>2. e \in Nat /\ (IsIP \/ cloakedName.lastUpdate = Never => e = 0)
    BY <1>s, CloakAssumption, <2>1 DEF CloakInv, CloakTypes, CloakSession, Elapsed, EntryInv
  <2>3. CASE ~IsIP /\ (cloakedName.addresses = Nil \/ (cloakedName.lastUpdate # Never /\ e >= TTL))
    BY <2>1, <2>3, <1>s, Goes DEF CloakInv
  <2>4. CASE ~(~IsIP /\ (cloakedName.addresses = Nil \/ (cloakedName.lastUpdate # Never /\ e >= TTL)))
    <3>1. TTL - e \in Lifetimes
      BY <2>2, <2>4, CloakAssumption DEF Lifetimes
    <3>2. /\ session'[s] = [session[s] EXCEPT !.pc = "len", !.ttl = TTL - e]
          /\ \A t \in Sessions \ {s} : session'[t] = session[t]
          /\ session' = [t \in Sessions |-> session'[t]]
      BY Zenon, <2>1, <2>4 DEF CloakInv, CloakTypes
    <3>3. /\ session'[s] \in CloakSession /\ session'[s].pc = "len"
          /\ session'[s].overlapped = session[s].overlapped
      BY Zenon, <1>s, <3>1, <3>2 DEF CloakSession
    <3>4. cloakedName.addresses > Nil
      BY <1>f, <2>4 DEF CloakInv, EntryInv
    <3> QED BY <3>2, <3>3, <3>4 DEF CloakInv, CloakTypes
  <2> QED BY <2>3, <2>4
<1>1. CloakTypes'
  BY <1>a DEF CloakInv, Examine, CloakTypes
<1>2. LockInv'
  BY <1>a, <1>s DEF CloakInv, Examine, LockInv, CloakTypes
<1>3. EntryInv'
  BY <1>a, <1>s, <1>f DEF CloakInv, Examine, EntryInv, LockInv, IsIP, Filling
<1>4. ReadInv'
  BY <1>a, <1>s, <1>f DEF CloakInv, Examine, ReadInv, Filling
<1>5. CompleteUnlessOverlapped'
  BY <1>a DEF CloakInv, Examine, CompleteUnlessOverlapped, ReadInv, EntryInv
<1> QED BY <1>1, <1>2, <1>3, <1>4, <1>5 DEF CloakInv

\* A session has nothing to do with the entry.
LEMMA LeaveCloak == ASSUME CloakInv, UNCHANGED lines, NEW s \in Sessions, Leave(s) PROVE CloakInv'
<1>s. session[s] \in CloakSession /\ session[s].pc = "examine" /\ s \in readers /\ writer = {}
  BY ServesQuery DEF CloakInv, Leave, LockInv
<1>a. /\ session' \in [Sessions -> {Idle} \cup CloakSession]
      /\ session'[s].pc \in {"unmatched", "rejected"}
      /\ session'[s].overlapped = session[s].overlapped
      /\ \A t \in Sessions \ {s} : session'[t] = session[t]
  <2>1. PICK l \in {"unmatched", "rejected"} : Goto(s, l)
    BY DEF Leave
  <2> QED BY <1>s, <2>1, Goes DEF CloakInv
<1>1. CloakTypes'
  BY <1>a DEF CloakInv, Leave, CloakTypes
<1>2. LockInv'
  BY <1>a, <1>s DEF CloakInv, Leave, LockInv, CloakTypes
<1>3. EntryInv'
  BY <1>a, <1>s DEF CloakInv, Leave, EntryInv, LockInv, IsIP, Filling
<1>4. ReadInv'
  BY <1>a, <1>s DEF CloakInv, Leave, ReadInv, Filling
<1>5. CompleteUnlessOverlapped'
  BY <1>a DEF CloakInv, Leave, CompleteUnlessOverlapped
<1> QED BY <1>1, <1>2, <1>3, <1>4, <1>5 DEF CloakInv

\* The number of addresses is read.
LEMMA ReadLenCloak == ASSUME CloakInv, UNCHANGED lines, NEW s \in Sessions, ReadLen(s) PROVE CloakInv'
<1>a. /\ session[s] \in CloakSession /\ session[s].pc = "len"
      /\ session' \in [Sessions -> {Idle} \cup CloakSession]
      /\ session'[s].pc = "read" /\ session'[s].seen = cloakedName.addresses
      /\ session'[s].overlapped = session[s].overlapped
      /\ \A t \in Sessions \ {s} : session'[t] = session[t]
  <2>1. session[s] \in CloakSession /\ session[s].pc = "len"
    BY ServesQuery DEF CloakInv, ReadLen
  <2>2. /\ session'[s] = [session[s] EXCEPT !.pc = "read", !.seen = cloakedName.addresses]
        /\ \A t \in Sessions \ {s} : session'[t] = session[t]
        /\ session' = [t \in Sessions |-> session'[t]]
    BY Zenon DEF CloakInv, CloakTypes, ReadLen
  <2>3. cloakedName.addresses \in Versions
    BY DEF CloakInv, CloakTypes
  <2>4. /\ session'[s] \in CloakSession /\ session'[s].pc = "read"
        /\ session'[s].seen = cloakedName.addresses /\ session'[s].overlapped = session[s].overlapped
    BY Zenon, <2>1, <2>2, <2>3 DEF CloakSession
  <2> QED BY <2>1, <2>2, <2>4 DEF CloakInv, CloakTypes
<1>1. CloakTypes'
  BY <1>a DEF CloakInv, ReadLen, CloakTypes
<1>2. LockInv'
  BY <1>a DEF CloakInv, ReadLen, LockInv, CloakTypes
<1>3. EntryInv'
  BY <1>a DEF CloakInv, ReadLen, EntryInv, LockInv, IsIP, Filling
<1>4. ReadInv'
  BY <1>a DEF CloakInv, ReadLen, ReadInv, LockInv, EntryInv, Filling, CloakTypes, IsIP
<1>5. CompleteUnlessOverlapped'
  BY <1>a DEF CloakInv, ReadLen, CompleteUnlessOverlapped, ReadInv, EntryInv
<1> QED BY <1>1, <1>2, <1>3, <1>4, <1>5 DEF CloakInv

\* A session ends.
LEMMA EndCloak == ASSUME CloakInv, UNCHANGED lines, NEW s \in Sessions, End(s) PROVE CloakInv'
<1>a. /\ session' \in [Sessions -> {Idle} \cup CloakSession]
      /\ session[s].pc \in Final /\ session'[s].pc = "idle"
      /\ \A t \in Sessions \ {s} : session'[t] = session[t]
  BY DEF CloakInv, CloakTypes, End, Idle
<1>1. CloakTypes'
  BY <1>a DEF CloakInv, End, CloakTypes
<1>2. LockInv'
  BY <1>a DEF CloakInv, End, LockInv, CloakTypes
<1>3. EntryInv'
  BY <1>a DEF CloakInv, End, EntryInv, LockInv, IsIP, Filling
<1>4. ReadInv'
  BY <1>a DEF CloakInv, End, ReadInv, LockInv, EntryInv, Filling, CloakTypes, IsIP
<1>5. CompleteUnlessOverlapped'
  BY <1>a DEF CloakInv, End, CompleteUnlessOverlapped, ReadInv, EntryInv
<1> QED BY <1>1, <1>2, <1>3, <1>4, <1>5 DEF CloakInv

\* A query arrives.
LEMMA CloakQueryCloak == ASSUME CloakInv, UNCHANGED lines, NEW s \in Sessions, CloakQuery(s) PROVE CloakInv'
<1>a. /\ session' \in [Sessions -> {Idle} \cup CloakSession]
      /\ session[s].pc = "idle" /\ session'[s].pc = "rlock"
      /\ \A t \in Sessions \ {s} : session'[t] = session[t]
  BY CloakAssumption DEF CloakInv, CloakTypes, CloakQuery, CloakSession, Lifetimes
<1>1. CloakTypes'
  BY <1>a DEF CloakInv, CloakQuery, CloakTypes
<1>2. LockInv'
  BY <1>a DEF CloakInv, CloakQuery, LockInv, CloakTypes
<1>3. EntryInv'
  BY <1>a DEF CloakInv, CloakQuery, EntryInv, LockInv, IsIP, Filling
<1>4. ReadInv'
  BY <1>a DEF CloakInv, CloakQuery, ReadInv, LockInv, EntryInv, Filling, CloakTypes, IsIP
<1>5. CompleteUnlessOverlapped'
  BY <1>a DEF CloakInv, CloakQuery, CompleteUnlessOverlapped, ReadInv, EntryInv
<1> QED BY <1>1, <1>2, <1>3, <1>4, <1>5 DEF CloakInv

\* A session stores addresses.
LEMMA FillCloak == ASSUME CloakInv, UNCHANGED lines, NEW s \in Sessions, Fill(s) PROVE CloakInv'
<1>s. /\ session[s] \in CloakSession /\ session[s].pc = "fill" /\ Filling /\ writer = {s} /\ readers = {}
      /\ \A t \in Sessions \ {s} : session[t].pc \notin Writing
      /\ cloakedName.lastUpdate # Never
  BY ServesQuery DEF CloakInv, CloakTypes, Fill, LockInv, Filling, EntryInv
<1>a. /\ session' \in [Sessions -> {Idle} \cup CloakSession]
      /\ session'[s].overlapped = session[s].overlapped
      /\ \A t \in Sessions \ {s} : session'[t] = session[t]
      /\ \/ session'[s].pc = "fill"
         \/ session'[s].pc = "unlock" /\ cloakedName'.addresses > Nil
      /\ cloakedName' \in [addresses : Versions, lastUpdate : {Never} \cup 0..MaxTime]
      /\ cloakedName'.lastUpdate = cloakedName.lastUpdate
  <2>1. session[s].now + 1 \in 1..(MaxTime + 1)
    BY <1>s, CloakAssumption DEF CloakSession
  <2>2. /\ cloakedName' \in [addresses : Versions, lastUpdate : {Never} \cup 0..MaxTime]
        /\ cloakedName'.lastUpdate = cloakedName.lastUpdate
    BY <2>1 DEF Fill, CloakInv, CloakTypes
  <2>3. CASE cloakedName.addresses = Nil
    BY <1>s, <2>2, <2>3 DEF Fill, CloakInv, CloakTypes
  <2>4. CASE cloakedName.addresses # Nil
    <3>1. cloakedName'.addresses > Nil
      BY <2>1, <2>4 DEF Fill, CloakInv, CloakTypes
    <3> QED BY <1>s, <2>2, <2>4, <3>1, Goes DEF Fill, CloakInv
  <2> QED BY <2>3, <2>4
<1>r. \A t \in Sessions : session[t].pc \in {"len", "read"} => session[t].overlapped
  BY <1>s DEF CloakInv, ReadInv
<1>1. CloakTypes'
  BY <1>a DEF CloakInv, Fill, CloakTypes
<1>2. LockInv'
  BY <1>a, <1>s DEF CloakInv, Fill, LockInv, CloakTypes
<1>3. EntryInv'
  BY <1>a, <1>s DEF CloakInv, EntryInv, IsIP, Filling
<1>4. ReadInv'
  BY <1>a, <1>r DEF ReadInv
<1>5. CompleteUnlessOverlapped'
  BY <1>a DEF CloakInv, CompleteUnlessOverlapped
<1> QED BY <1>1, <1>2, <1>3, <1>4, <1>5 DEF CloakInv

\* A session begins to replace the addresses.
LEMMA ClearCloak == ASSUME CloakInv, UNCHANGED lines, NEW s \in Sessions, Clear(s) PROVE CloakInv'
<1>s. /\ session[s] \in CloakSession /\ session[s].pc = "clear" /\ writer = {s} /\ readers = {}
      /\ \A t \in Sessions \ {s} : session[t].pc \notin Writing
  BY ServesQuery DEF CloakInv, CloakTypes, Clear, LockInv
<1>a. /\ session' \in [Sessions -> {Idle} \cup CloakSession]
      /\ session'[s].pc = "fill"
      /\ \A t \in Sessions \ {s} :
           /\ session'[t].pc = session[t].pc
           /\ session[t].pc \in {"len", "read"} => session'[t].overlapped
           /\ session[t].pc \notin {"len", "read"} => session'[t] = session[t]
  <2>1. /\ session'[s] = [session[s] EXCEPT !.pc = "fill"]
        /\ \A t \in Sessions \ {s} :
             session'[t] = IF session[t].pc \in {"len", "read"}
                             THEN [session[t] EXCEPT !.overlapped = TRUE] ELSE session[t]
        /\ session' = [t \in Sessions |-> session'[t]]
    BY DEF Clear
  <2>2. session'[s] \in CloakSession /\ session'[s].pc = "fill"
    BY <1>s, <2>1 DEF CloakSession
  <2>3. ASSUME NEW t \in Sessions \ {s}
        PROVE  /\ session'[t] \in {Idle} \cup CloakSession
               /\ session'[t].pc = session[t].pc
               /\ session[t].pc \in {"len", "read"} => session'[t].overlapped
               /\ session[t].pc \notin {"len", "read"} => session'[t] = session[t]
    <3>1. CASE session[t].pc \in {"len", "read"}
      <4>1. session[t] \in CloakSession
        BY <3>1, ServesQuery DEF CloakInv
      <4> QED BY ZenonT(30), <3>1, <4>1, <2>1 DEF CloakSession
    <3>2. CASE session[t].pc \notin {"len", "read"}
      BY <3>2, <2>1 DEF CloakInv, CloakTypes
    <3> QED BY <3>1, <3>2
  <2> QED BY <2>1, <2>2, <2>3
<1>b. /\ cloakedName' \in [addresses : Versions, lastUpdate : {Never} \cup 0..MaxTime]
      /\ cloakedName'.lastUpdate # Never
  <2>1. session[s].now \in 0..MaxTime
    BY <1>s DEF CloakSession
  <2> QED BY <2>1, CloakAssumption DEF Clear
<1>1. CloakTypes'
  BY <1>a, <1>b DEF CloakInv, Clear, CloakTypes
<1>2. LockInv'
  BY <1>a, <1>s DEF CloakInv, Clear, LockInv, CloakTypes
<1>3. EntryInv'
  BY <1>a, <1>b, <1>s DEF CloakInv, EntryInv, IsIP, Filling
<1>4. ReadInv'
  BY <1>a DEF ReadInv
<1>5. CompleteUnlessOverlapped'
  BY <1>a DEF CloakInv, CompleteUnlessOverlapped
<1> QED BY <1>1, <1>2, <1>3, <1>4, <1>5 DEF CloakInv

\* Every step preserves the invariant.
LEMMA CloakNextInv == CloakInv /\ [CloakNext]_cloakVars => CloakInv'
<1> SUFFICES ASSUME CloakInv, [CloakNext]_cloakVars PROVE CloakInv'
  OBVIOUS
<1>1. CASE UNCHANGED cloakVars
  BY <1>1 DEF cloakVars, CloakInv, CloakTypes, LockInv, EntryInv, ReadInv, CompleteUnlessOverlapped, Filling, IsIP
<1>2. CASE CloakTick /\ UNCHANGED lines
  BY <1>2, CloakAssumption
  DEF CloakTick, CloakInv, CloakTypes, LockInv, EntryInv, ReadInv, CompleteUnlessOverlapped, Filling, IsIP
<1>3. ASSUME NEW s \in Sessions, CloakQuery(s) \/ CloakStep(s), UNCHANGED lines
      PROVE  CloakInv'
  BY <1>3, CloakQueryCloak, RLockFirstCloak, RLockAgainCloak, LeaveCloak, ExamineCloak, LookupCloak, LockCloak,
     ClearCloak, FillCloak, UnlockCloak, RUnlockCloak, ReadLenCloak, ReadCloak, EndCloak
  DEF CloakStep
<1> QED BY <1>1, <1>2, <1>3 DEF CloakNext

\* The invariant holds.
THEOREM CloakInvariant == CloakSpec => []CloakInv
<1>1. CloakInit => CloakInv
  BY CloakInitInv
<1>2. CloakInv /\ [CloakNext]_cloakVars => CloakInv'
  BY CloakNextInv
<1> QED BY <1>1, <1>2, PTL DEF CloakSpec

\* The variables have their types, the time to live of answers in particular.
THEOREM CloakTypeCorrect == CloakSpec => []CloakTypeOK
<1>1. CloakInv => CloakTypeOK
  <2> SUFFICES ASSUME CloakInv PROVE CloakTypeOK
    OBVIOUS
  <2>1. Cardinality(writer) <= 1
    <3>1. CASE writer = {}
      BY <3>1, FS_EmptySet
    <3>2. ASSUME NEW s \in Sessions, writer = {s} PROVE Cardinality(writer) <= 1
      BY <3>2, FS_Singleton
    <3> QED BY <3>1, <3>2 DEF CloakInv, CloakTypes
  <2>2. ASSUME NEW s \in Sessions, session[s].pc # "idle"
        PROVE  session[s].now \in 0..MaxTime /\ session[s].ttl \in Lifetimes
    BY <2>2, ServesQuery DEF CloakInv, CloakSession
  <2> QED BY <2>1, <2>2 DEF CloakInv, CloakTypes, CloakTypeOK
<1> QED BY <1>1, CloakInvariant, PTL

\* An answer has all the addresses of one lookup unless a refresh has begun
\* since the lock was released (plugin_cloak.go:143-211).
THEOREM AnswersAreComplete == CloakSpec => []CompleteUnlessOverlapped
<1>1. CloakInv => CompleteUnlessOverlapped
  BY DEF CloakInv
<1> QED BY <1>1, CloakInvariant, PTL

-----------------------------------------------------------------------------
\* How far a session is from its end, at a place of Eval.
CloakWeight(l) ==
  CASE l = "idle" -> 0 [] l \in Final -> 1
    [] l = "read" -> 2 [] l = "len" -> 3 [] l = "runlock" -> 4 [] l = "relock" -> 5
    [] l = "unlock" -> 6 [] l = "fill" -> 7 [] l = "clear" -> 9 [] l = "lock" -> 10
    [] l = "lookup" -> 11 [] l = "examine" -> 12 [] OTHER -> 13

\* The replacement of the addresses takes two steps at the same place.
CloakRank(s) == IF session[s].pc = "fill" /\ cloakedName.addresses = Nil THEN 8
                ELSE CloakWeight(session[s].pc)

Waiting == {"rlock", "relock", "lock"}

\* What a session at one of these places waits for.
LockGiven(s) == /\ writer = {}
                /\ session[s].pc = "lock" => readers = {}

SomeoneGoesOn ==
  (\E s \in Sessions : session[s].pc # "idle") =>
    \E s \in Sessions : session[s].pc # "idle" /\ (session[s].pc \in Waiting => LockGiven(s))

\* A session takes 13 steps at most, and no step of another one takes it back,
\* the replacement of the addresses it is reading included; and whenever there
\* are sessions, one of them is not waiting or has what it waits for: the lock
\* never blocks them all (plugin_cloak.go:143-211).
SessionsAdvance ==
  /\ []\A s \in Sessions : CloakRank(s) \in 0..13
  /\ [][\A s \in Sessions : /\ CloakStep(s) => CloakRank(s)' < CloakRank(s)
                            /\ session[s].pc # "idle" => CloakRank(s)' <= CloakRank(s)]_cloakVars
  /\ []SomeoneGoesOn

\* The weights, as numbers.
LEMMA CloakWeights ==
  /\ CloakWeight("idle") = 0 /\ \A l \in Final : CloakWeight(l) = 1
  /\ CloakWeight("read") = 2 /\ CloakWeight("len") = 3 /\ CloakWeight("runlock") = 4
  /\ CloakWeight("relock") = 5 /\ CloakWeight("unlock") = 6 /\ CloakWeight("fill") = 7
  /\ CloakWeight("clear") = 9 /\ CloakWeight("lock") = 10 /\ CloakWeight("lookup") = 11
  /\ CloakWeight("examine") = 12 /\ CloakWeight("rlock") = 13
  /\ \A l : CloakWeight(l) \in 0..13
  BY DEF CloakWeight

\* The rank of a session, here and after a step.
LEMMA CloakRanks ==
  ASSUME NEW s \in Sessions
  PROVE  /\ CloakRank(s) = IF session[s].pc = "fill" /\ cloakedName.addresses = Nil THEN 8
                           ELSE CloakWeight(session[s].pc)
         /\ CloakRank(s)' = IF session'[s].pc = "fill" /\ cloakedName'.addresses = Nil THEN 8
                            ELSE CloakWeight(session'[s].pc)
  BY DEF CloakRank, CloakWeight

\* A session that goes on is nearer to its end.
LEMMA CloakStepRank ==
  ASSUME CloakInv, NEW s \in Sessions, CloakStep(s)
  PROVE  /\ CloakRank(s)' < CloakRank(s)
         /\ \A t \in Sessions \ {s} : session'[t].pc = session[t].pc
         /\ cloakedName' = cloakedName \/ session[s].pc \in Writing
<1>0. session \in [Sessions -> {Idle} \cup CloakSession]
  BY DEF CloakInv, CloakTypes
<1>1. ASSUME NEW l \in CloakPcs, Goto(s, l), session[s].pc # "idle"
      PROVE  session'[s].pc = l /\ \A t \in Sessions \ {s} : session'[t].pc = session[t].pc
  BY <1>1, Goes DEF CloakInv
<1>2. CASE Fill(s) /\ cloakedName.addresses = Nil
  <2>1. session' = session /\ session[s].pc = "fill"
    BY <1>2 DEF Fill
  <2>2. cloakedName'.addresses = Partial
    BY <1>2 DEF Fill, CloakInv, CloakTypes
  <2> QED BY <1>2, <2>1, <2>2, CloakRanks, CloakWeights
<1>3. CASE Fill(s) /\ cloakedName.addresses # Nil
  <2>1. Goto(s, "unlock") /\ session[s].pc = "fill"
    BY <1>3 DEF Fill
  <2>2. session'[s].pc = "unlock" /\ \A t \in Sessions \ {s} : session'[t].pc = session[t].pc
    BY <1>1, <2>1
  <2> QED BY <1>3, <2>1, <2>2, CloakRanks, CloakWeights
<1>4. CASE Clear(s)
  <2>1. session[s].pc = "clear" /\ session[s] \in CloakSession
    BY <1>4, ServesQuery DEF Clear, CloakInv
  <2>2. session'[s].pc = "fill"
    BY <1>4, <2>1 DEF Clear, CloakSession
  <2>3. ASSUME NEW t \in Sessions \ {s} PROVE session'[t].pc = session[t].pc
    <3>1. CASE session[t].pc \in {"len", "read"}
      <4>1. session[t] \in CloakSession
        BY <3>1, ServesQuery DEF CloakInv
      <4>2. session'[t] = [session[t] EXCEPT !.overlapped = TRUE]
        BY <1>4, <3>1 DEF Clear
      <4> QED BY <4>1, <4>2 DEF CloakSession
    <3>2. CASE session[t].pc \notin {"len", "read"}
      BY <1>4, <3>2 DEF Clear
    <3> QED BY <3>1, <3>2
  <2> QED BY <2>1, <2>2, <2>3, CloakRanks, CloakWeights
<1>5. CASE Examine(s)
  <2>1. session[s].pc = "examine" /\ session[s] \in CloakSession /\ cloakedName' = cloakedName
    BY <1>5, ServesQuery DEF Examine, CloakInv
  <2>2. PICK e : \/ Goto(s, "lookup")
                 \/ session' = [session EXCEPT ![s].pc = "len", ![s].ttl = TTL - e]
    BY <1>5 DEF Examine
  <2>3. /\ session'[s].pc \in {"lookup", "len"}
        /\ \A t \in Sessions \ {s} : session'[t].pc = session[t].pc
    BY <1>0, <1>1, <2>1, <2>2 DEF CloakSession
  <2> QED BY <2>1, <2>3, CloakRanks, CloakWeights
<1>6. CASE ReadLen(s)
  <2>1. session[s].pc = "len" /\ session[s] \in CloakSession /\ cloakedName' = cloakedName
    BY <1>6, ServesQuery DEF ReadLen, CloakInv
  <2>2. session'[s].pc = "read" /\ \A t \in Sessions \ {s} : session'[t].pc = session[t].pc
    BY <1>0, <1>6, <2>1 DEF ReadLen, CloakSession
  <2> QED BY <2>1, <2>2, CloakRanks, CloakWeights
<1>7. CASE End(s)
  <2>1. session[s].pc \in Final /\ cloakedName' = cloakedName
    BY <1>7 DEF End
  <2>2. session'[s].pc = "idle" /\ \A t \in Sessions \ {s} : session'[t].pc = session[t].pc
    BY <1>0, <1>7 DEF End, Idle
  <2> QED BY <2>1, <2>2, CloakRanks, CloakWeights
<1>8. CASE RLock(s, "rlock", "examine") \/ RLock(s, "relock", "runlock") \/ Lookup(s) \/ Lock(s)
           \/ Unlock(s) \/ RUnlock(s) \/ Read(s) \/ Leave(s)
  <2>1. PICK l \in CloakPcs :
          /\ Goto(s, l) /\ cloakedName' = cloakedName
          /\ \/ session[s].pc = "rlock" /\ l = "examine"
             \/ session[s].pc = "relock" /\ l = "runlock"
             \/ session[s].pc = "lookup" /\ l \in {"uncloaked", "lock"}
             \/ session[s].pc = "lock" /\ l = "clear"
             \/ session[s].pc = "unlock" /\ l = "relock"
             \/ session[s].pc = "runlock" /\ l = "len"
             \/ session[s].pc = "read" /\ l \in Final
             \/ session[s].pc = "examine" /\ l \in Final
    BY <1>8 DEF Leave, RLock, Lookup, Lock, Unlock, RUnlock, Read
  <2>2. session'[s].pc = l /\ \A t \in Sessions \ {s} : session'[t].pc = session[t].pc
    BY <1>1, <2>1
  <2> QED BY <2>1, <2>2, CloakRanks, CloakWeights
<1> QED BY <1>2, <1>3, <1>4, <1>5, <1>6, <1>7, <1>8 DEF CloakStep

\* A session that has begun ends after 13 steps of its own at most, and the lock
\* never blocks all of them.
THEOREM SessionsAdvanceTheorem == CloakSpec => SessionsAdvance
<1> DEFINE A == \A s \in Sessions : /\ CloakStep(s) => CloakRank(s)' < CloakRank(s)
                                    /\ session[s].pc # "idle" => CloakRank(s)' <= CloakRank(s)
           B == \A s \in Sessions : CloakRank(s) \in 0..13
<1>1. CloakInv => B
  <2> SUFFICES ASSUME CloakInv, NEW s \in Sessions PROVE CloakRank(s) \in 0..13
    OBVIOUS
  <2>1. session[s].pc \in CloakPcs \cup {"idle"}
    BY DEF CloakInv, CloakTypes, CloakSession, Idle
  <2> QED BY <2>1, CloakRanks, CloakWeights
<1>2. CloakInv => SomeoneGoesOn
  <2> SUFFICES ASSUME CloakInv, NEW s \in Sessions, session[s].pc # "idle"
               PROVE  \E t \in Sessions : session[t].pc # "idle" /\ (session[t].pc \in Waiting => LockGiven(t))
    BY DEF SomeoneGoesOn
  <2>1. CASE writer = {} /\ readers = {}
    BY <2>1 DEF LockGiven
  <2>2. CASE writer # {} \/ readers # {}
    BY <2>2 DEF CloakInv, CloakTypes, LockInv, Waiting
  <2> QED BY <2>1, <2>2
<1>3. CloakInv /\ [CloakNext]_cloakVars => [A]_cloakVars
  <2> SUFFICES ASSUME CloakInv, CloakNext, NEW s \in Sessions
               PROVE  /\ CloakStep(s) => CloakRank(s)' < CloakRank(s)
                      /\ session[s].pc # "idle" => CloakRank(s)' <= CloakRank(s)
    OBVIOUS
  <2>0. CloakRank(s) \in 0..13
    BY <1>1
  <2>1. ASSUME session'[s].pc = session[s].pc, cloakedName' = cloakedName
        PROVE  CloakRank(s)' = CloakRank(s)
    BY <2>1, CloakRanks
  <2>2. CASE CloakStep(s)
    <3>1. CloakRank(s)' \in 0..13
      BY CloakRanks, CloakWeights
    <3>2. CloakRank(s)' < CloakRank(s)
      BY <2>2, CloakStepRank
    <3> QED BY <2>0, <3>1, <3>2
  <2>3. CASE ~CloakStep(s)
    <3> SUFFICES ASSUME session[s].pc # "idle" PROVE CloakRank(s)' = CloakRank(s)
      BY <2>0, <2>3
    <3>1. CASE CloakTick
      BY <2>1, <3>1 DEF CloakTick
    <3>2. ASSUME NEW t \in Sessions, CloakQuery(t) PROVE CloakRank(s)' = CloakRank(s)
      BY <2>1, <3>2 DEF CloakQuery, CloakInv, CloakTypes
    <3>3. ASSUME NEW t \in Sessions, CloakStep(t) PROVE CloakRank(s)' = CloakRank(s)
      <4>1. t # s
        BY <2>3, <3>3
      <4>2. session'[s].pc = session[s].pc /\ (cloakedName' = cloakedName \/ session[t].pc \in Writing)
        BY <3>3, <4>1, CloakStepRank
      <4>3. CASE cloakedName' = cloakedName
        BY <2>1, <4>2, <4>3
      <4>4. CASE session[t].pc \in Writing
        <5>1. session[s].pc # "fill"
          BY <4>1, <4>4 DEF CloakInv, CloakTypes, LockInv
        <5>2. CloakRank(s) = CloakWeight(session[s].pc)
          BY <5>1, CloakRanks
        <5>3. CloakRank(s)' = CloakWeight(session'[s].pc)
          BY <4>2, <5>1, CloakRanks
        <5> QED BY <4>2, <5>2, <5>3
      <4> QED BY <4>2, <4>3, <4>4
    <3> QED BY <3>1, <3>2, <3>3 DEF CloakNext
  <2> QED BY <2>2, <2>3
<1> QED BY <1>1, <1>2, <1>3, CloakInvariant, PTL DEF CloakSpec, SessionsAdvance

-----------------------------------------------------------------------------
(***************************************************************************)
(* The keys of Oblivious DoH targets                                       *)
(***************************************************************************)
Fetching == {"configs", "try", "probe", "test", "install"}

\* The target does not accept again what it has refused, so the oldest key that
\* it accepted when the fetch began is not above the one it accepts now.
SinceInv == \A a \in Fetchers : pc[a] \in Fetching => since[a] <= oldest

\* A key is tried before it is tested, and tested before it is installed.
TriedInv == \A a \in Fetchers : pc[a] \in {"probe", "test", "install"} => found[a] # None

\* Nobody knows a key that the target has not made yet.
KnownInv == /\ live.key <= newest
            /\ \A q \in Queries : used[q].key <= newest
            /\ \A a \in Fetchers : found[a].key <= newest /\ configs[a] \subseteq 1..newest

IInv == TypeOK /\ SinceInv /\ TriedInv /\ KnownInv /\ InstallsAccepted

USE DEF Keys, Labels, Fetching

\* The fields of what is known of the server are numbers.
LEMMA InfoKey == \A i \in Info : i.key \in 0..MaxKeys
  BY ObliviousDoHAssumption DEF Info, None

\* An exchange is answered only with a key that is accepted.
LEMMA AnswerAccepted ==
  ASSUME NEW k, "answer" \in Replies(k)
  PROVE  Accepted(k)
  BY DEF Replies



\* A fetch begins to ask, or fails.
LEMMA FetchConfigsStep == ASSUME IInv, NEW a \in Fetchers, FetchConfigs(a) PROVE IInv'
  <1>a. published \subseteq Keys
    BY ObliviousDoHAssumption DEF IInv, TypeOK
  <1>1. TypeOK'
    <2>1. configs' \in [Fetchers -> SUBSET Keys]
      BY ZenonT(30), <1>a DEF IInv, FetchConfigs, TypeOK
    <2>2. pc' \in [Fetchers -> Labels] /\ tries' \in [Fetchers -> 1..MaxTries]
      BY ObliviousDoHAssumption DEF IInv, FetchConfigs, TypeOK, Again
    <2> QED BY <2>1, <2>2 DEF IInv, FetchConfigs, TypeOK, target
  <1>2. SinceInv'
    BY DEF IInv, FetchConfigs, TypeOK, SinceInv, Again, target, Fetchers, Info, None
  <1>3. TriedInv'
    BY DEF IInv, FetchConfigs, TypeOK, TriedInv, Again, target, Fetchers, Info, None
  <1>4. KnownInv'
    BY ZenonT(30) DEF IInv, FetchConfigs, TypeOK, KnownInv, Again, target, Fetchers, Info, None
  <1>5. InstallsAccepted'
    BY DEF IInv, FetchConfigs, TypeOK, SinceInv, KnownInv, InstallsAccepted, Again, target,
       Fetchers, Info, None
  <1> QED BY <1>1, <1>2, <1>3, <1>4, <1>5 DEF IInv

\* The next configuration is any of those left.
LEMMA NextConfigStep == ASSUME IInv, NEW a \in Fetchers, NextConfig(a) PROVE IInv'
  <1>1. TypeOK'
    <2>1. configs' \in [Fetchers -> SUBSET Keys]
      BY DEF IInv, NextConfig, TypeOK
    <2>3. \A k \in Keys : [key |-> k, useGet |-> FALSE] \in Info
      BY DEF Info
    <2>4. found' \in [Fetchers -> Info]
      <3>1. CASE UNCHANGED found
        BY <3>1 DEF IInv, TypeOK
      <3>2. CASE ~UNCHANGED found
        <4>1. PICK k \in configs[a] : found' = [found EXCEPT ![a] = [key |-> k, useGet |-> FALSE]]
          BY <3>2 DEF NextConfig
        <4>2. k \in Keys
          BY DEF IInv, TypeOK
        <4> QED BY <4>1, <4>2, <2>3 DEF IInv, TypeOK
      <3> QED BY <3>1, <3>2
    <2>2. pc' \in [Fetchers -> Labels] /\ tries' \in [Fetchers -> 1..MaxTries]
      BY ObliviousDoHAssumption DEF IInv, NextConfig, TypeOK, Again
    <2> QED BY <2>1, <2>2, <2>4 DEF IInv, NextConfig, TypeOK, target
  <1>2. SinceInv'
    BY DEF IInv, NextConfig, TypeOK, SinceInv, Again, target, Fetchers, Info, None
  <1>3. TriedInv'
    BY DEF IInv, NextConfig, TypeOK, TriedInv, Again, target, Fetchers, Info, None
  <1>4. KnownInv'
    BY SMTT(30) DEF IInv, NextConfig, TypeOK, KnownInv, Again, target, Fetchers, Info, None
  <1>5. InstallsAccepted'
    BY DEF IInv, NextConfig, TypeOK, SinceInv, KnownInv, InstallsAccepted, Again, target,
       Fetchers, Info, None
  <1> QED BY <1>1, <1>2, <1>3, <1>4, <1>5 DEF IInv

\* The first query changes the method at most.
LEMMA ProbeStep == ASSUME IInv, NEW a \in Fetchers, Probe(a) PROVE IInv'
  <1>a. found[a] \in [key : Keys, useGet : BOOLEAN]
    BY DEF IInv, Probe, TypeOK, TriedInv, Info
  <1>b. found' \in [Fetchers -> Info] /\ \A b \in Fetchers : found'[b].key = found[b].key
    <2>1. CASE UNCHANGED found
      BY <2>1 DEF IInv, TypeOK
    <2>2. CASE found' = [found EXCEPT ![a].useGet = TRUE]
      <3> DEFINE new == [found[a] EXCEPT !.useGet = TRUE]
      <3>1. new \in Info /\ new.key = found[a].key
        BY ZenonT(30), <1>a DEF Info
      <3>2. found' = [found EXCEPT ![a] = new]
        BY <2>2
      <3> HIDE DEF new
      <3> QED BY <3>1, <3>2 DEF IInv, TypeOK
    <2> QED BY <2>1, <2>2 DEF Probe
  <1>1. TypeOK'
    BY <1>b DEF IInv, Probe, TypeOK, target
  <1>2. SinceInv'
    BY DEF IInv, Probe, TypeOK, SinceInv, target, Fetchers, Info, None
  <1>3. TriedInv'
    BY DEF IInv, Probe, TypeOK, TriedInv, target, Fetchers, Info, None
  <1>4. KnownInv'
    BY <1>b DEF IInv, Probe, TypeOK, KnownInv, target
  <1>5. InstallsAccepted'
    BY DEF IInv, Probe, TypeOK, SinceInv, KnownInv, InstallsAccepted, target, Fetchers, Info, None
  <1> QED BY <1>1, <1>2, <1>3, <1>4, <1>5 DEF IInv

\* What passes the test is accepted now.
LEMMA TestStep == ASSUME IInv, NEW a \in Fetchers, Test(a) PROVE IInv'
  <1>1. TypeOK'
    BY ObliviousDoHAssumption DEF IInv, Test, TypeOK, Again, Accepted, target, Fetchers, Info, None
  <1>2. SinceInv'
    BY DEF IInv, Test, TypeOK, SinceInv, Again, Accepted, target, Fetchers, Info, None
  <1>3. TriedInv'
    BY DEF IInv, Test, TypeOK, TriedInv, Again, Accepted, target, Fetchers, Info, None
  <1>4. KnownInv'
    BY DEF IInv, Test, TypeOK, KnownInv, Again, Accepted, target, Fetchers, Info, None
  <1>5. InstallsAccepted'
    BY AnswerAccepted DEF IInv, Test, TypeOK, SinceInv, KnownInv, InstallsAccepted, Again,
       Accepted, target, Fetchers, Info, None
  <1> QED BY <1>1, <1>2, <1>3, <1>4, <1>5 DEF IInv

\* The fetch ends.
LEMMA InstallStep == ASSUME IInv, NEW a \in Fetchers, Install(a) PROVE IInv'
  <1>1. TypeOK'
    BY DEF IInv, Install, TypeOK, target, Fetchers, Info, None
  <1>2. SinceInv'
    BY DEF IInv, Install, TypeOK, SinceInv, target, Fetchers, Info, None
  <1>3. TriedInv'
    BY DEF IInv, Install, TypeOK, TriedInv, target, Fetchers, Info, None
  <1>4. KnownInv'
    BY DEF IInv, Install, TypeOK, KnownInv, target, Fetchers, Info, None
  <1>5. InstallsAccepted'
    BY DEF IInv, Install, TypeOK, SinceInv, KnownInv, InstallsAccepted, target, Fetchers, Info, None
  <1> QED BY <1>1, <1>2, <1>3, <1>4, <1>5 DEF IInv

\* A refresh begins.
LEMMA RefreshServerStep == ASSUME IInv, RefreshServer PROVE IInv'
  <1>1. TypeOK'
    BY ObliviousDoHAssumption DEF IInv, RefreshServer, TypeOK, Begin, target, Fetchers, Info
  <1>2. SinceInv'
    BY ObliviousDoHAssumption DEF IInv, RefreshServer, TypeOK, SinceInv, Begin, target, Fetchers,
       Info, None
  <1>3. TriedInv'
    BY DEF IInv, RefreshServer, TypeOK, TriedInv, Begin, target, Fetchers, Info, None
  <1>4. KnownInv'
    BY DEF IInv, RefreshServer, TypeOK, KnownInv, Begin, target, Fetchers, Info, None
  <1>5. InstallsAccepted'
    BY DEF IInv, RefreshServer, TypeOK, SinceInv, KnownInv, InstallsAccepted, Begin, target,
       Fetchers, Info, None
  <1> QED BY <1>1, <1>2, <1>3, <1>4, <1>5 DEF IInv

\* A query finds the server.
LEMMA QueryStep == ASSUME IInv, NEW q \in Queries, Query(q) PROVE IInv'
  <1>1. TypeOK'
    BY DEF IInv, Query, TypeOK, target, Fetchers, Info, None
  <1>2. SinceInv'
    BY DEF IInv, Query, TypeOK, SinceInv, target, Fetchers, Info, None
  <1>3. TriedInv'
    BY DEF IInv, Query, TypeOK, TriedInv, target, Fetchers, Info, None
  <1>4. KnownInv'
    BY DEF IInv, Query, TypeOK, KnownInv, target, Fetchers, Info, None
  <1>5. InstallsAccepted'
    BY DEF IInv, Query, TypeOK, SinceInv, KnownInv, InstallsAccepted, target, Fetchers, Info, None
  <1> QED BY <1>1, <1>2, <1>3, <1>4, <1>5 DEF IInv

\* A query that is refused, or seems so, begins a fetch.
LEMMA AskStep == ASSUME IInv, NEW q \in Queries, Ask(q) PROVE IInv'
  <1>1. TypeOK'
    BY ObliviousDoHAssumption DEF IInv, Ask, TypeOK, Begin, target, Fetchers, Info
  <1>2. SinceInv'
    <2>1. CASE Begin(q)
      BY <2>1, ObliviousDoHAssumption DEF IInv, Ask, TypeOK, SinceInv, Begin, target
    <2>2. CASE pc' = [pc EXCEPT ![q] = "idle"] /\ UNCHANGED since
      BY <2>2 DEF IInv, Ask, TypeOK, SinceInv, target
    <2> QED BY <2>1, <2>2 DEF Ask
  <1>3. TriedInv'
    BY DEF IInv, Ask, TypeOK, TriedInv, Begin, Accepted, target, Fetchers, Info, None
  <1>4. KnownInv'
    BY DEF IInv, Ask, TypeOK, KnownInv, Begin, Accepted, target, Fetchers, Info, None
  <1>5. InstallsAccepted'
    BY SMTT(30) DEF IInv, Ask, TypeOK, SinceInv, KnownInv, InstallsAccepted, Begin, Accepted, target,
       Fetchers, Info, None
  <1> QED BY <1>1, <1>2, <1>3, <1>4, <1>5 DEF IInv

\* A query goes on after its sleep.
LEMMA SleepStep == ASSUME IInv, NEW q \in Queries, Sleep(q) PROVE IInv'
  <1>1. TypeOK'
    BY DEF IInv, Sleep, TypeOK, target, Fetchers, Info, None
  <1>2. SinceInv'
    BY DEF IInv, Sleep, TypeOK, SinceInv, target, Fetchers, Info, None
  <1>3. TriedInv'
    BY DEF IInv, Sleep, TypeOK, TriedInv, target, Fetchers, Info, None
  <1>4. KnownInv'
    BY DEF IInv, Sleep, TypeOK, KnownInv, target, Fetchers, Info, None
  <1>5. InstallsAccepted'
    BY DEF IInv, Sleep, TypeOK, SinceInv, KnownInv, InstallsAccepted, target, Fetchers, Info, None
  <1> QED BY <1>1, <1>2, <1>3, <1>4, <1>5 DEF IInv

\* The target makes a key.
LEMMA NewKeyStep == ASSUME IInv, NewKey PROVE IInv'
  <1>1. TypeOK'
    BY ObliviousDoHAssumption DEF IInv, NewKey, TypeOK, fetch, Fetchers, Info, None
  <1>2. SinceInv'
    BY DEF IInv, NewKey, TypeOK, SinceInv, fetch, Fetchers, Info, None
  <1>3. TriedInv'
    BY DEF IInv, NewKey, TypeOK, TriedInv, fetch, Fetchers, Info, None
  <1>4. KnownInv'
    BY DEF IInv, NewKey, TypeOK, KnownInv, fetch, Fetchers, Info, None
  <1>5. InstallsAccepted'
    BY DEF IInv, NewKey, TypeOK, SinceInv, KnownInv, InstallsAccepted, fetch, Fetchers, Info, None
  <1> QED BY <1>1, <1>2, <1>3, <1>4, <1>5 DEF IInv

\* The target refuses a key from now on.
LEMMA RetireStep == ASSUME IInv, Retire PROVE IInv'
  <1>1. TypeOK'
    BY ObliviousDoHAssumption DEF IInv, Retire, TypeOK, fetch, Fetchers, Info, None
  <1>2. SinceInv'
    BY DEF IInv, Retire, TypeOK, SinceInv, fetch, Fetchers, Info, None
  <1>3. TriedInv'
    BY DEF IInv, Retire, TypeOK, TriedInv, fetch, Fetchers, Info, None
  <1>4. KnownInv'
    BY DEF IInv, Retire, TypeOK, KnownInv, fetch, Fetchers, Info, None
  <1>5. InstallsAccepted'
    BY DEF IInv, Retire, TypeOK, SinceInv, KnownInv, InstallsAccepted, fetch, Fetchers, Info, None
  <1> QED BY <1>1, <1>2, <1>3, <1>4, <1>5 DEF IInv

\* The target shows its keys.
LEMMA PublishStep == ASSUME IInv, Publish PROVE IInv'
  <1>1. TypeOK'
    BY SMTT(30), ObliviousDoHAssumption DEF IInv, Publish, TypeOK, fetch, Fetchers, Info, None
  <1>2. SinceInv'
    BY DEF IInv, Publish, TypeOK, SinceInv, fetch, Fetchers, Info, None
  <1>3. TriedInv'
    BY DEF IInv, Publish, TypeOK, TriedInv, fetch, Fetchers, Info, None
  <1>4. KnownInv'
    BY DEF IInv, Publish, TypeOK, KnownInv, fetch, Fetchers, Info, None
  <1>5. InstallsAccepted'
    BY DEF IInv, Publish, TypeOK, SinceInv, KnownInv, InstallsAccepted, fetch, Fetchers, Info, None
  <1> QED BY <1>1, <1>2, <1>3, <1>4, <1>5 DEF IInv

\* Nothing is lost any more.
LEMMA CalmStep == ASSUME IInv, Calm PROVE IInv'
  <1>1. TypeOK'
    BY ZenonT(30), ObliviousDoHAssumption DEF IInv, Calm, TypeOK, fetch, Fetchers, Info, None
  <1>2. SinceInv'
    BY DEF IInv, Calm, TypeOK, SinceInv, fetch, Fetchers, Info, None
  <1>3. TriedInv'
    BY DEF IInv, Calm, TypeOK, TriedInv, fetch, Fetchers, Info, None
  <1>4. KnownInv'
    BY DEF IInv, Calm, TypeOK, KnownInv, fetch, Fetchers, Info, None
  <1>5. InstallsAccepted'
    BY DEF IInv, Calm, TypeOK, SinceInv, KnownInv, InstallsAccepted, fetch, Fetchers, Info, None
  <1> QED BY <1>1, <1>2, <1>3, <1>4, <1>5 DEF IInv

\* The invariant holds at first, and every step keeps it.
LEMMA InitLemma == Init => IInv
  BY ObliviousDoHAssumption
     DEF Init, IInv, TypeOK, SinceInv, TriedInv, KnownInv, InstallsAccepted, Fetchers, Info, None

\* Every step of the target and of the goroutines keeps IInv.
LEMMA StepLemma == IInv /\ [Next]_vars => IInv'
  <1> SUFFICES ASSUME IInv, [Next]_vars PROVE IInv'
    OBVIOUS
  <1>1. CASE UNCHANGED vars
    BY <1>1 DEF IInv, TypeOK, SinceInv, TriedInv, KnownInv, InstallsAccepted, vars, target, fetch
  <1>2. ASSUME NEW a \in Fetchers, Fetch(a) PROVE IInv'
    BY <1>2, FetchConfigsStep, NextConfigStep, ProbeStep, TestStep, InstallStep DEF Fetch
  <1>3. ASSUME NEW q \in Queries, Query(q) \/ Serve(q) PROVE IInv'
    BY <1>2, <1>3, QueryStep, AskStep, SleepStep DEF Serve, Fetchers
  <1> QED BY <1>1, <1>2, <1>3, RefreshServerStep, NewKeyStep, RetireStep, PublishStep, CalmStep
          DEF Next, Fetchers

\* What a fetch installs is a key that the target has accepted since the fetch
\* began, so not one that it had refused for being old.
THEOREM InstallsAcceptedTheorem == Spec => []InstallsAccepted
  <1>1. IInv => InstallsAccepted
    BY DEF IInv
  <1> QED BY <1>1, InitLemma, StepLemma, PTL DEF Spec

\* The variables have their types: attempts are counted up to the limit, and
\* what is tried is a set of keys.
THEOREM KeysTypeCorrect == Spec => []TypeOK
  <1>1. IInv => TypeOK
    BY DEF IInv
  <1> QED BY <1>1, InitLemma, StepLemma, PTL DEF Spec

-----------------------------------------------------------------------------
\* The parts of a query: it is sent, it fetches a key, and it ends.
Part(l) == CASE l = "idle" -> 0 [] l \in {"install", "sleep"} -> 1 [] l = "ask" -> 3 [] OTHER -> 2

\* What is left to do with a configuration: it is tried with POST, with GET,
\* and tested.
TriesLeft(l, info) == CASE l = "probe" -> (IF info.useGet THEN 2 ELSE 3) [] l = "test" -> 1 [] OTHER -> 0

\* Who fetches a key comes nearer to the end: to a later part or to a later
\* attempt, which begins with the configurations; then one of them less is
\* left; then less is left to do with it.
CloserToEnd(a) ==
  \/ Part(pc'[a]) < Part(pc[a])
  \/ /\ Part(pc[a]) = 2 /\ Part(pc'[a]) = 2
     /\ \/ tries'[a] > tries[a]
        \/ /\ tries'[a] = tries[a] /\ pc'[a] # "configs"
           /\ \/ pc[a] = "configs"
              \/ configs'[a] \subseteq configs[a] /\ configs'[a] # configs[a]
              \/ configs'[a] = configs[a] /\ TriesLeft(pc'[a], found'[a]) < TriesLeft(pc[a], found[a])

Fetched(a) == <<pc[a], tries[a], configs[a], found[a]>>

\* Every step of a query, or of a refresh, brings it nearer to its end, however
\* often it is refused and whatever is shown meanwhile, and no other step takes
\* it back: the attempts are limited, each of them tries the configurations that
\* it was shown once, and each configuration with two methods
\* (serversInfo.go:819-893, serversInfo.go:951-962, proxy.go:790-806).
UpdatesAdvance ==
  [][/\ \A q \in Queries : Serve(q) => CloserToEnd(q)
     /\ Fetch(Refresh) => CloserToEnd(Refresh)
     /\ \A a \in Fetchers : \/ pc[a] = "idle" \/ CloserToEnd(a)
                            \/ UNCHANGED Fetched(a)]_vars

\* An attempt that fails is followed by the next one, or by none.
LEMMA AgainCloser ==
  ASSUME IInv, NEW a \in Fetchers, pc[a] \in {"configs", "try", "probe", "test"}, Again(a)
  PROVE  CloserToEnd(a) /\ \A b \in Fetchers \ {a} : pc'[b] = pc[b] /\ tries'[b] = tries[b]
<1>1. pc \in [Fetchers -> Labels] /\ tries \in [Fetchers -> 1..MaxTries] /\ MaxTries \in Nat
  BY ObliviousDoHAssumption DEF IInv, TypeOK
<1>2. CASE tries[a] < MaxTries
  BY <1>1, <1>2 DEF Again, CloserToEnd, Part
<1>3. CASE ~(tries[a] < MaxTries)
  BY <1>1, <1>3 DEF Again, CloserToEnd, Part
<1> QED BY <1>2, <1>3

\* Every step of a fetch brings it nearer to its end, and leaves the others.
LEMMA FetchCloser ==
  ASSUME IInv, NEW a \in Fetchers, Fetch(a)
  PROVE  CloserToEnd(a) /\ \A b \in Fetchers \ {a} : UNCHANGED Fetched(b)
<1>1. /\ pc \in [Fetchers -> Labels] /\ tries \in [Fetchers -> 1..MaxTries] /\ MaxTries \in Nat
      /\ configs \in [Fetchers -> SUBSET Keys] /\ found \in [Fetchers -> Info]
  BY ObliviousDoHAssumption DEF IInv, TypeOK
<1>2. CASE FetchConfigs(a)
  <2>1. CASE Again(a) /\ UNCHANGED configs
    BY <1>1, <1>2, <2>1, AgainCloser DEF FetchConfigs, Fetched
  <2>2. CASE ~(Again(a) /\ UNCHANGED configs)
    BY <1>1, <1>2, <2>2 DEF FetchConfigs, Fetched, CloserToEnd, Part
  <2> QED BY <2>1, <2>2
<1>3. CASE NextConfig(a)
  <2>1. CASE configs[a] = {}
    BY <1>1, <1>3, <2>1, AgainCloser DEF NextConfig, Fetched
  <2>2. CASE configs[a] # {}
    <3>1. PICK k \in configs[a] :
            /\ configs' = [configs EXCEPT ![a] = @ \ {k}]
            /\ found' = [found EXCEPT ![a] = [key |-> k, useGet |-> FALSE]]
            /\ pc' = [pc EXCEPT ![a] = "probe"] /\ UNCHANGED tries
      BY <1>3, <2>2 DEF NextConfig
    <3>2. configs'[a] \subseteq configs[a] /\ configs'[a] # configs[a]
      BY <1>1, <3>1
    <3> QED BY <1>1, <1>3, <3>1, <3>2 DEF NextConfig, Fetched, CloserToEnd, Part
  <2> QED BY <2>1, <2>2
<1>4. CASE Probe(a)
  <2>1. pc[a] = "probe" /\ UNCHANGED <<tries, configs>>
    BY <1>4 DEF Probe
  <2>2. CASE pc' = [pc EXCEPT ![a] = "test"] /\ UNCHANGED found
    BY <1>1, <2>1, <2>2 DEF Fetched, CloserToEnd, Part, TriesLeft
  <2>3. CASE pc' = [pc EXCEPT ![a] = "try"] /\ UNCHANGED found
    BY <1>1, <2>1, <2>3 DEF Fetched, CloserToEnd, Part, TriesLeft
  <2>4. CASE ~found[a].useGet /\ found' = [found EXCEPT ![a].useGet = TRUE] /\ UNCHANGED pc
    <3>1. found[a] \in [key : Keys, useGet : BOOLEAN]
      BY <2>1 DEF IInv, TypeOK, TriedInv, Info
    <3>2. found'[a].useGet /\ \A b \in Fetchers \ {a} : found'[b] = found[b]
      BY Zenon, <1>1, <2>4, <3>1
    <3>3. TriesLeft(pc'[a], found'[a]) = 2 /\ TriesLeft(pc[a], found[a]) = 3
      BY <2>1, <2>4, <3>2 DEF TriesLeft
    <3> QED BY <1>1, <2>1, <2>4, <3>2, <3>3 DEF Fetched, CloserToEnd, Part
  <2> QED BY <1>4, <2>2, <2>3, <2>4 DEF Probe
<1>5. CASE Test(a)
  <2>1. CASE Again(a)
    BY <1>1, <1>5, <2>1, AgainCloser DEF Test, Fetched
  <2>2. CASE ~Again(a)
    <3>1. PICK l \in {"install", "try"} : pc' = [pc EXCEPT ![a] = l] /\ UNCHANGED tries
      BY <1>5, <2>2 DEF Test
    <3> QED BY <1>1, <1>5, <3>1 DEF Test, Fetched, CloserToEnd, Part, TriesLeft
  <2> QED BY <2>1, <2>2
<1>6. CASE Install(a)
  BY <1>1, <1>6 DEF Install, Fetched, CloserToEnd, Part
<1> QED BY <1>2, <1>3, <1>4, <1>5, <1>6 DEF Fetch

\* So does every step of a query.
LEMMA ServeCloser ==
  ASSUME IInv, NEW q \in Queries, Serve(q)
  PROVE  CloserToEnd(q) /\ \A b \in Fetchers \ {q} : UNCHANGED Fetched(b)
<1>1. /\ pc \in [Fetchers -> Labels] /\ tries \in [Fetchers -> 1..MaxTries]
      /\ configs \in [Fetchers -> SUBSET Keys] /\ found \in [Fetchers -> Info] /\ q \in Fetchers
  BY DEF IInv, TypeOK, Fetchers
<1>2. CASE Ask(q)
  <2>1. CASE Begin(q)
    BY <1>1, <1>2, <2>1 DEF Ask, Begin, Fetched, CloserToEnd, Part
  <2>2. CASE ~Begin(q)
    BY <1>1, <1>2, <2>2 DEF Ask, Fetched, CloserToEnd, Part
  <2> QED BY <2>1, <2>2
<1>3. CASE Sleep(q)
  BY <1>1, <1>3 DEF Sleep, Fetched, CloserToEnd, Part
<1> QED BY <1>1, <1>2, <1>3, FetchCloser DEF Serve

\* A query that is refused updates the key in a bounded number of steps, or
\* gives up (serversInfo.go:951-962, proxy.go:795-806).
THEOREM UpdatesAdvanceTheorem == Spec => UpdatesAdvance
<1> DEFINE A == /\ \A q \in Queries : Serve(q) => CloserToEnd(q)
                /\ Fetch(Refresh) => CloserToEnd(Refresh)
                /\ \A a \in Fetchers : \/ pc[a] = "idle" \/ CloserToEnd(a)
                                       \/ UNCHANGED Fetched(a)
<1>1. IInv /\ [Next]_vars => [A]_vars
  <2> SUFFICES ASSUME IInv, Next PROVE A
    OBVIOUS
  <2>0. Refresh \in Fetchers /\ Queries \subseteq Fetchers
    BY DEF Fetchers
  <2>1. \A q \in Queries : Serve(q) => CloserToEnd(q)
    BY ServeCloser
  <2>2. Fetch(Refresh) => CloserToEnd(Refresh)
    BY <2>0, FetchCloser
  <2>3. ASSUME NEW a \in Fetchers, pc[a] # "idle", ~CloserToEnd(a) PROVE UNCHANGED Fetched(a)
    <3>0. /\ pc \in [Fetchers -> Labels] /\ tries \in [Fetchers -> 1..MaxTries]
          /\ configs \in [Fetchers -> SUBSET Keys] /\ found \in [Fetchers -> Info]
      BY DEF IInv, TypeOK
    <3>1. CASE RefreshServer
      BY <2>3, <3>0, <3>1 DEF RefreshServer, Begin, Fetched
    <3>2. CASE Fetch(Refresh)
      BY <2>0, <2>3, <3>2, FetchCloser
    <3>3. ASSUME NEW q \in Queries, Query(q) PROVE UNCHANGED Fetched(a)
      BY <2>3, <3>0, <3>3 DEF Query, Fetched
    <3>4. ASSUME NEW q \in Queries, Serve(q) PROVE UNCHANGED Fetched(a)
      BY <2>3, <3>4, ServeCloser
    <3>5. CASE NewKey \/ Retire \/ Publish \/ Calm
      BY <3>5 DEF NewKey, Retire, Publish, Calm, fetch, Fetched
    <3> QED BY <3>1, <3>2, <3>3, <3>4, <3>5 DEF Next
  <2> QED BY <2>1, <2>2, <2>3
<1> QED BY <1>1, InitLemma, StepLemma, PTL DEF Spec, UpdatesAdvance
=============================================================================
