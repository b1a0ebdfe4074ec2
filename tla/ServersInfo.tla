---------------------------- MODULE ServersInfo ----------------------------
(***************************************************************************)
(* The table of servers (serversInfo.go) and the three kinds of goroutine  *)
(* that share it:                                                          *)
(*   - the refresher (StartProxy's first refresh, then the refresh loop),  *)
(*     which fetches every registered server in goroutines of its own;     *)
(*   - the updater (the prefetch loop calling updateRegisteredServers);    *)
(*   - the queries, which pick a server with getOne, report its outcome,   *)
(*     and force a refresh of an ODoH server whose key has changed.        *)
(* Everything done under one holding of the table's mutex is one step.     *)
(* Time is abstracted: a sleep ends at any moment, and whether a server    *)
(* has been idle for a minute is a free choice.                            *)
(***************************************************************************)
EXTENDS LoadBalancing, FiniteSets, Functions

CONSTANTS Names,            \* names of the servers that pass the configured filters
          Stamps,           \* what a stamp says (address, keys, protocol)
          ODoHServers,      \* the names whose servers speak ODoH
          InitialServers,   \* proxy.registeredServers after loadSources
          Queries,          \* concurrent queries
          Concurrency,      \* cert_refresh_concurrency
          MaxRtt,           \* the query timeout in the model's milliseconds
          MaxUpdates,       \* bound: changes of the source lists
          LbEstimator,      \* lb_estimator
          CertIgnoreTimestamp \* cert_ignore_timestamp

RegisteredServer == [name : Names, stamp : Stamps]
Rtts == 0 .. MaxRtt
ServerInfo == [name : Names, stamp : Stamps, initialRtt : Rtts, rtt : Rtts]

ASSUME ServersInfoAssumption ==
  /\ ODoHServers \subseteq Names
  /\ InitialServers \in Seq(RegisteredServer) \ {<<>>}
  /\ \A i, j \in 1 .. Len(InitialServers) :
       InitialServers[i].name = InitialServers[j].name
         => InitialServers[i].stamp = InitialServers[j].stamp
  /\ Concurrency \in Nat \ {0}
  /\ MaxRtt \in Nat
  /\ MaxUpdates \in Nat
  /\ LbEstimator \in BOOLEAN /\ CertIgnoreTimestamp \in BOOLEAN

VARIABLES wanted,           \* proxy.registeredServers
          registered,       \* serversInfo.registeredServers
          inner,            \* serversInfo.inner, the live servers
          snapshot,         \* refresh: its copy of registered; <<>> while it sleeps
          task,             \* refresh: the state of the goroutine for each copy entry
          updater,          \* NotStarted, 0 while it sleeps, else the entry to register next
          query,            \* the state of each query
          resolverReady,    \* xTransport.internalResolverReady
          ignoreTimestamp,  \* proxy.certIgnoreTimestamp
          updates           \* number of source changes so far

vars == <<wanted, registered, inner, snapshot, task, updater, query,
          resolverReady, ignoreTimestamp, updates>>

\* StartProxy only starts the prefetch loop after the first refresh.
NotStarted == -1

NamesOf(list) == {list[i].name : i \in 1 .. Len(list)}

UniqueNames(list) == \A i, j \in 1 .. Len(list) : list[i].name = list[j].name => i = j

PositionOf(list, name) ==
  CHOOSE i \in 1 .. Len(list) :
    list[i].name = name /\ \A j \in 1 .. i - 1 : list[j].name # name

\* Mutant of Put: the list always grows.
PutAlwaysAppending(list, item) == Append(list, item)

\* The loop shared by registerServer and refreshServer: the first entry of
\* that name is replaced, and a new name is appended.
Put(list, item) ==
  IF item.name \in NamesOf(list)
    THEN [list EXCEPT ![PositionOf(list, item.name)] = item]
    ELSE Append(list, item)

-----------------------------------------------------------------------------
(***************************************************************************)
(* refreshServer, called by a refresh goroutine or by a query.             *)
(*   fetching  the network exchange, without the lock                      *)
(*   install   fetched; about to look the name up under the lock           *)
(*   append    the name was absent; the lock was released in between       *)
(*   register  appended; about to call registerServer                      *)
(***************************************************************************)
RefreshPcs == {"fetching", "install", "append", "register"}

\* A refresh goroutine that is not started yet, or has returned.
Task == [pc : RefreshPcs \cup {"waiting", "done", "failed"}, rtt : Rtts]

\* A query without a server, using one, or about to report the failure that
\* ends a key update.  It points to a ServerInfo of that name: to the one in
\* inner while current holds, and to an object that a refresh has replaced
\* afterwards.
Query == [pc : RefreshPcs \cup {"idle", "using", "ending"},
          name : Names, current : BOOLEAN, stamp : Stamps, rtt : Rtts]

IdleQuery == [pc |-> "idle", name |-> CHOOSE n \in Names : TRUE, current |-> FALSE,
              stamp |-> CHOOSE s \in Stamps : TRUE, rtt |-> 0]

\* The new object of a refresh, whose average starts at the measured rtt.
NewServer(name, stamp, rtt) ==
  [name |-> name, stamp |-> stamp, initialRtt |-> rtt, rtt |-> rtt]

\* The queries that point to the old object of that name keep it.
Outdated(queries, name) ==
  [q \in Queries |-> IF queries[q].name = name THEN [queries[q] EXCEPT !.current = FALSE]
                                               ELSE queries[q]]

-----------------------------------------------------------------------------
(***************************************************************************)
(* noticeFailure and noticeSuccess: a sample enters the average of the     *)
(* object the query points to.  An object that a refresh has replaced is   *)
(* no longer in the list, and the sample is lost with it.                  *)
(***************************************************************************)
Sampled(list, q, sample) ==
  IF query[q].current
    THEN LET i == PositionOf(list, query[q].name)
         IN  {WithRtt(list, i, avg) : avg \in Averages(list[i].rtt, sample)}
    ELSE {list}

-----------------------------------------------------------------------------
\* The shuffled registered list holds every wanted server once.
Init ==
  /\ wanted = InitialServers
  /\ registered \in UNION {[1 .. n -> Range(InitialServers)] : n \in 1 .. Len(InitialServers)}
  /\ UniqueNames(registered) /\ Range(registered) = Range(InitialServers)
  /\ inner = <<>>
  /\ snapshot = <<>>
  /\ task = <<>>
  /\ updater = NotStarted
  /\ query = [q \in Queries |-> IdleQuery]
  /\ resolverReady = FALSE
  /\ ignoreTimestamp = CertIgnoreTimestamp
  /\ updates = 0

-----------------------------------------------------------------------------
(***************************************************************************)
(* refresh: copy the registered servers, run refreshServer for each in a   *)
(* goroutine (at most Concurrency at a time, started in order), wait for   *)
(* all of them, and sort the live servers by initial latency.              *)
(***************************************************************************)
RefreshStart ==
  /\ snapshot = <<>>
  /\ snapshot' = registered
  /\ task' = [i \in 1 .. Len(registered) |-> [pc |-> "waiting", rtt |-> 0]]
  /\ UNCHANGED <<wanted, registered, inner, updater, query, resolverReady,
                 ignoreTimestamp, updates>>

Finished(t) == t.pc \in {"done", "failed"}

\* Mutant of Running: a failed goroutine keeps its slot in countChannel.
RunningOrFailed == {i \in 1 .. Len(snapshot) : task[i].pc \notin {"waiting", "done"}}

\* The goroutines that hold a slot of countChannel.
Running == {i \in 1 .. Len(snapshot) : task[i].pc # "waiting" /\ ~Finished(task[i])}

SetTask(i, pc, rtt) == task' = [task EXCEPT ![i] = [pc |-> pc, rtt |-> rtt]]

TaskLaunch(i) ==
  /\ task[i].pc = "waiting"
  /\ \A j \in 1 .. i - 1 : task[j].pc # "waiting"
  /\ Cardinality(Running) < Concurrency
  /\ SetTask(i, "fetching", 0)
  /\ UNCHANGED <<wanted, registered, inner, snapshot, updater, query, resolverReady,
                 ignoreTimestamp, updates>>

TaskFetch(i) ==
  /\ task[i].pc = "fetching"
  /\ \E rtt \in Rtts : SetTask(i, "install", rtt)
  /\ UNCHANGED <<wanted, registered, inner, snapshot, updater, query, resolverReady,
                 ignoreTimestamp, updates>>

TaskFetchFails(i) ==
  /\ task[i].pc = "fetching"
  /\ SetTask(i, "failed", 0)
  /\ UNCHANGED <<wanted, registered, inner, snapshot, updater, query, resolverReady,
                 ignoreTimestamp, updates>>

\* Replaces the old object in place; a name seen for the first time is only
\* appended under the next holding of the lock.
TaskInstall(i) ==
  /\ task[i].pc = "install"
  /\ IF snapshot[i].name \in NamesOf(inner)
       THEN /\ inner' = Put(inner, NewServer(snapshot[i].name, snapshot[i].stamp, task[i].rtt))
            /\ query' = Outdated(query, snapshot[i].name)
            /\ SetTask(i, "done", 0)
            /\ resolverReady' = TRUE
       ELSE /\ SetTask(i, "append", task[i].rtt)
            /\ UNCHANGED <<inner, query, resolverReady>>
  /\ UNCHANGED <<wanted, registered, snapshot, updater, ignoreTimestamp, updates>>

TaskAppend(i) ==
  /\ task[i].pc = "append"
  /\ inner' = Append(inner, NewServer(snapshot[i].name, snapshot[i].stamp, task[i].rtt))
  /\ SetTask(i, "register", 0)
  /\ UNCHANGED <<wanted, registered, snapshot, updater, query, resolverReady,
                 ignoreTimestamp, updates>>

\* registerServer with the stamp of the copy, then the goroutine returns.
TaskRegister(i) ==
  /\ task[i].pc = "register"
  /\ registered' = Put(registered, snapshot[i])
  /\ SetTask(i, "done", 0)
  /\ resolverReady' = TRUE
  /\ UNCHANGED <<wanted, inner, snapshot, updater, query, ignoreTimestamp, updates>>

\* p is a stable sort of list by initial latency.
SortsByInitialRtt(p, list) ==
  \A i, j \in 1 .. Len(list) :
    i < j => \/ list[p[i]].initialRtt < list[p[j]].initialRtt
             \/ list[p[i]].initialRtt = list[p[j]].initialRtt /\ p[i] < p[j]

LiveServers == {i \in 1 .. Len(snapshot) : task[i].pc = "done"}

\* Mutant of RefreshEnd: only StartProxy's own refresh resets the flag.
RefreshEndResettingOnce ==
  /\ snapshot # <<>>
  /\ \A i \in 1 .. Len(snapshot) : Finished(task[i])
  /\ \E p \in Bijection(1 .. Len(inner), 1 .. Len(inner)) :
       /\ SortsByInitialRtt(p, inner)
       /\ inner' = [i \in 1 .. Len(inner) |-> inner[p[i]]]
  /\ ignoreTimestamp' = (ignoreTimestamp /\ (LiveServers = {} \/ updater # NotStarted))
  /\ snapshot' = <<>>
  /\ task' = <<>>
  /\ updater' = MaxOf(updater, 0)
  /\ UNCHANGED <<wanted, registered, query, resolverReady, updates>>

\* Mutant of RefreshEnd: the servers that did not answer are dropped.
RefreshEndDropping ==
  /\ snapshot # <<>>
  /\ \A i \in 1 .. Len(snapshot) : Finished(task[i])
  /\ inner' = SelectSeq(inner, LAMBDA s : \E i \in LiveServers : snapshot[i].name = s.name)
  /\ ignoreTimestamp' = (ignoreTimestamp /\ LiveServers = {})
  /\ snapshot' = <<>>
  /\ task' = <<>>
  /\ updater' = MaxOf(updater, 0)
  /\ query' = [q \in Queries |-> [query[q] EXCEPT !.current = @ /\ query[q].name \in NamesOf(inner')]]
  /\ UNCHANGED <<wanted, registered, resolverReady, updates>>

\* Every goroutine has sent its error; StartProxy and the refresh loop then
\* stop ignoring certificate timestamps if a server answered.
RefreshEnd ==
  /\ snapshot # <<>>
  /\ \A i \in 1 .. Len(snapshot) : Finished(task[i])
  /\ \E p \in Bijection(1 .. Len(inner), 1 .. Len(inner)) :
       /\ SortsByInitialRtt(p, inner)
       /\ inner' = [i \in 1 .. Len(inner) |-> inner[p[i]]]
  /\ ignoreTimestamp' = (ignoreTimestamp /\ LiveServers = {})
  /\ snapshot' = <<>>
  /\ task' = <<>>
  /\ updater' = MaxOf(updater, 0)
  /\ UNCHANGED <<wanted, registered, query, resolverReady, updates>>

-----------------------------------------------------------------------------
(***************************************************************************)
(* The updater.  wanted is its own; only registerServer touches the table. *)
(***************************************************************************)
\* One entry of a parsed source that passes the filters: every wanted entry
\* of that name gets the new stamp, and a new name is appended.
SourceEntry ==
  /\ updater = 0
  /\ updates < MaxUpdates
  /\ updates' = updates + 1
  /\ \E server \in RegisteredServer :
       wanted' = IF server.name \in NamesOf(wanted)
                   THEN [i \in 1 .. Len(wanted) |->
                           IF wanted[i].name = server.name THEN server ELSE wanted[i]]
                   ELSE Append(wanted, server)
  /\ UNCHANGED <<registered, inner, snapshot, task, updater, query, resolverReady,
                 ignoreTimestamp>>

\* All the sources are parsed: the loop over the wanted servers begins.  (An
\* unusable source makes updateRegisteredServers return instead.)
UpdaterStart ==
  /\ updater = 0
  /\ updater' = 1
  /\ UNCHANGED <<wanted, registered, inner, snapshot, task, query, resolverReady,
                 ignoreTimestamp, updates>>

\* Mutant of UpdaterRegister: only names that are not registered yet.
UpdaterRegisterNew ==
  /\ updater > 0
  /\ registered' = IF wanted[updater].name \in NamesOf(registered)
                     THEN registered ELSE Append(registered, wanted[updater])
  /\ updater' = IF updater = Len(wanted) THEN 0 ELSE updater + 1
  /\ UNCHANGED <<wanted, inner, snapshot, task, query, resolverReady, ignoreTimestamp, updates>>

UpdaterRegister ==
  /\ updater > 0
  /\ registered' = Put(registered, wanted[updater])
  /\ updater' = IF updater = Len(wanted) THEN 0 ELSE updater + 1
  /\ UNCHANGED <<wanted, inner, snapshot, task, query, resolverReady, ignoreTimestamp, updates>>

-----------------------------------------------------------------------------
(***************************************************************************)
(* Queries.                                                                *)
(***************************************************************************)
unchangedByQueries == <<wanted, registered, snapshot, task, updater, resolverReady,
                        ignoreTimestamp, updates>>

\* getOne: the server is read at the drawn position after the estimator has
\* reordered the list.
GetOne(q) ==
  /\ query[q].pc = "idle"
  /\ inner # <<>>
  /\ \E candidate \in Candidates(Len(inner)) :
       \E list \in IF LbEstimator THEN EstimatorUpdate(inner, candidate) ELSE {inner} :
         /\ inner' = list
         /\ query' = [query EXCEPT ![q] = [@ EXCEPT !.pc = "using",
                                                    !.current = TRUE,
                                                    !.name = list[candidate].name]]
  /\ UNCHANGED unchangedByQueries

\* noticeSuccess: the elapsed time counts when it is positive and below the
\* timeout.  Also the query paths that report nothing.
QuerySucceeds(q) ==
  /\ query[q].pc = "using"
  /\ inner' \in {inner} \cup UNION {Sampled(inner, q, elapsed) : elapsed \in 1 .. MaxRtt - 1}
  /\ query' = [query EXCEPT ![q] = IdleQuery]
  /\ UNCHANGED unchangedByQueries

\* noticeFailure, and the query returns.  The second case is the end of a
\* key update, whose query is failed too.
QueryFails(q) ==
  /\ query[q].pc \in {"using", "ending"}
  /\ inner' \in Sampled(inner, q, MaxRtt)
  /\ query' = [query EXCEPT ![q] = IdleQuery]
  /\ UNCHANGED unchangedByQueries

\* Somebody may be inside registerServer.
RegistrationInProgress ==
  \/ updater > 0
  \/ \E i \in 1 .. Len(snapshot) : task[i].pc = "register"

\* The registered list is read without the lock: a stamp that is being
\* replaced may be seen torn, so that any value is possible.
KeyUpdate(q) ==
  /\ query[q].pc = "using"
  /\ query[q].name \in ODoHServers \cap NamesOf(registered)
  /\ \E stamp \in {registered[PositionOf(registered, query[q].name)].stamp}
                    \cup (IF RegistrationInProgress THEN Stamps ELSE {}) :
       query' = [query EXCEPT ![q] = [@ EXCEPT !.pc = "fetching", !.stamp = stamp]]
  /\ UNCHANGED <<unchangedByQueries, inner>>

KeyFetch(q) ==
  /\ query[q].pc = "fetching"
  /\ \E rtt \in Rtts : query' = [query EXCEPT ![q] = [@ EXCEPT !.pc = "install", !.rtt = rtt]]
  /\ UNCHANGED <<unchangedByQueries, inner>>

\* The failure is noticed at once, and again when the query ends.
KeyFetchFails(q) ==
  /\ query[q].pc = "fetching"
  /\ inner' \in Sampled(inner, q, MaxRtt)
  /\ query' = [query EXCEPT ![q] = [IdleQuery EXCEPT !.pc = "ending", !.name = query[q].name,
                                                     !.current = query[q].current]]
  /\ UNCHANGED unchangedByQueries

\* A server that a query holds is in the list for good, so the branch that
\* would append it is never taken (QueriesNeverAppend).
KeyInstall(q) ==
  /\ query[q].pc = "install"
  /\ IF query[q].name \in NamesOf(inner)
       THEN /\ inner' = Put(inner, NewServer(query[q].name, query[q].stamp, query[q].rtt))
            /\ query' = Outdated([query EXCEPT ![q] = [IdleQuery EXCEPT !.pc = "ending",
                                                            !.name = query[q].name]],
                                 query[q].name)
       ELSE /\ query' = [query EXCEPT ![q] = [@ EXCEPT !.pc = "append"]]
            /\ UNCHANGED inner
  /\ UNCHANGED unchangedByQueries

-----------------------------------------------------------------------------
TaskStep(i) ==
  \/ TaskLaunch(i) \/ TaskFetch(i) \/ TaskFetchFails(i)
  \/ TaskInstall(i) \/ TaskAppend(i) \/ TaskRegister(i)

QueryStep(q) ==
  \/ GetOne(q) \/ QuerySucceeds(q) \/ QueryFails(q)
  \/ KeyUpdate(q) \/ KeyFetch(q) \/ KeyFetchFails(q) \/ KeyInstall(q)

Next ==
  \/ RefreshStart
  \/ \E i \in 1 .. Len(snapshot) : TaskStep(i)
  \/ RefreshEnd
  \/ SourceEntry \/ UpdaterStart \/ UpdaterRegister
  \/ \E q \in Queries : QueryStep(q)

Spec == Init /\ [][Next]_vars

\* The goroutines are scheduled, sleeps end and exchanges time out; a server
\* whose exchanges are tried for ever answers from time to time.
Fairness ==
  /\ WF_vars(RefreshStart) /\ WF_vars(RefreshEnd)
  /\ WF_vars(UpdaterStart) /\ WF_vars(UpdaterRegister)
  /\ \A i \in 1 .. Cardinality(Names) :
       /\ WF_vars(i \in 1 .. Len(snapshot) /\ TaskStep(i))
       /\ \A n \in Names :
            SF_vars(i \in 1 .. Len(snapshot) /\ snapshot[i].name = n /\ TaskFetch(i))

FairSpec == Spec /\ Fairness

-----------------------------------------------------------------------------
(***************************************************************************)
(* Properties.                                                             *)
(***************************************************************************)
TypeOK ==
  /\ wanted \in Seq(RegisteredServer)
  /\ registered \in Seq(RegisteredServer)
  /\ inner \in Seq(ServerInfo)
  /\ snapshot \in Seq(RegisteredServer)
  /\ task \in [1 .. Len(snapshot) -> Task]
  /\ updater \in NotStarted .. Len(wanted)
  /\ query \in [Queries -> Query]
  /\ resolverReady \in BOOLEAN
  /\ ignoreTimestamp \in BOOLEAN
  /\ updates \in 0 .. MaxUpdates

\* No server is live twice, although refreshServer releases the lock between
\* finding a name absent from inner and appending it.
UniqueServers == UniqueNames(inner)

\* Every live server is registered under a single entry, so that a key update
\* finds the stamp to refresh it with.
LiveAreRegistered == UniqueNames(registered) /\ NamesOf(inner) \subseteq NamesOf(registered)

\* The refresh forced by a query only ever replaces a server: the gap between
\* lookup and append concerns the refresh loop alone.
QueriesNeverAppend == \A q \in Queries : query[q].pc # "append"

\* The proxy only resolves host names through itself (internalResolverReady)
\* once a server is live.
ReadyOnlyWhenLive == resolverReady => inner # <<>>

\* Once a refresh that found a live server is over, certificates are never
\* accepted again without a timestamp check.
TimestampsHonoured == snapshot = <<>> /\ inner # <<>> => ~ignoreTimestamp

\* No operation on the list loses a live server: not a replacement, not the
\* estimator's swap and bubble pass, not the sort that ends a refresh.
ServersNeverLost == [][NamesOf(inner) \subseteq NamesOf(inner')]_vars

ActiveRtts == {inner[i].rtt : i \in 1 .. ActiveCount(Len(inner))}

\* A query that picks a server never exchanges an active server for a slower
\* one: every new active latency is matched by one that was at least as large.
ActiveNeverDegrades ==
  [][(\E q \in Queries : query[q].pc = "idle" /\ query'[q].pc = "using")
       => \A r \in ActiveRtts' : \E s \in ActiveRtts : r <= s]_vars

\* Each refresh comes to an end: the goroutines give their slot back.
RefreshTerminates == (snapshot # <<>>) ~> (snapshot = <<>>)

\* A stamp from the source lists finally reaches the table and the live
\* server, even if a goroutine refreshing the old stamp registers it again.
StampsConverge ==
  \A n \in Names :
    <>[](\A k \in 1 .. Len(wanted) : wanted[k].name = n =>
           /\ \E i \in 1 .. Len(registered) : registered[i] = wanted[k]
           /\ \E i \in 1 .. Len(inner) :
                inner[i].name = n /\ (n \in ODoHServers \/ inner[i].stamp = wanted[k].stamp))
=============================================================================
