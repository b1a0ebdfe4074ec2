---------------------------- MODULE ObliviousDoH ----------------------------
(***************************************************************************)
(* The keys of an Oblivious DoH target: the target publishes its keys,     *)
(* replaces them and, after a while, refuses the old ones.  Refreshes and  *)
(* queries that were refused fetch them (fetchODoHTargetInfo,              *)
(* serversInfo.go; oblivious_doh.go), all at the same time, and replace    *)
(* the server's information; queries use the one they have found           *)
(* (processIncomingQuery, proxy.go).                                       *)
(*                                                                         *)
(* Keys are numbered in the order in which the target makes them.  Every   *)
(* exchange goes through the relay, and is one step: the target looks at   *)
(* the key it is given.  What an exchange takes of slots and of answers to *)
(* clients is in QueryPath.                                                *)
(***************************************************************************)
EXTENDS Integers, FiniteSets

CONSTANTS Queries,       \* goroutines that serve a query
          MaxKeys,       \* bound on the keys that the target makes
          MaxTries,      \* 3
          MaxConfigs     \* maxODoHConfigs

Refresh == "refresh"     \* the goroutine of the certificates refresh
Fetchers == Queries \cup {Refresh}

ASSUME ObliviousDoHAssumption ==
  /\ MaxKeys \in Nat \ {0} /\ MaxTries \in Nat \ {0} /\ MaxConfigs \in Nat \ {0}
  /\ Refresh \notin Queries

Keys == 1..MaxKeys

None == [key |-> 0]

VARIABLES oldest, newest,  \* the target: it accepts the keys from oldest to newest,
          published,       \* and shows some keys to who asks for them
          lossy,           \* whether exchanges may fail
          live,            \* the server's information: a key, and useGet
          pc,              \* what each goroutine does
          used,            \* the information that a query has found
          tries,           \* i, in fetchODoHTargetInfo
          configs,         \* the keys that are still to be tried
          found,           \* what a fetch has found so far
          since            \* the oldest key that was accepted when it began (history)

target == <<oldest, newest, published, lossy>>
fetch == <<pc, tries, configs, found, since>>
vars == <<target, live, used, fetch>>

Accepted(k) == oldest <= k /\ k <= newest

-----------------------------------------------------------------------------
(***************************************************************************)
(* An exchange with the target, through the relay (external).  A key that  *)
(* is not accepted is refused with the status 401, which Fetch turns into  *)
(* an error; some relays answer 200 without a body instead.  An exchange   *)
(* that is cut after the status 200 has no body either, and an error.      *)
(***************************************************************************)
Replies(k) == (IF Accepted(k) THEN {"answer"} ELSE {"401", "empty"})
                 \cup (IF lossy THEN {"error", "cut"} ELSE {})

IsError(reply) == reply \in {"401", "error", "cut"}

-----------------------------------------------------------------------------
(***************************************************************************)
(* fetchODoHTargetInfo                                                     *)
(***************************************************************************)
Begin(a) == /\ pc' = [pc EXCEPT ![a] = "configs"] /\ tries' = [tries EXCEPT ![a] = 1]
            /\ since' = [since EXCEPT ![a] = oldest]
            /\ configs' = [configs EXCEPT ![a] = {}] /\ found' = [found EXCEPT ![a] = None]

\* Mutant of Again: an attempt that failed is not counted.
AgainAlways(a) == /\ pc' = [pc EXCEPT ![a] = "configs"]
                  /\ UNCHANGED tries

\* An attempt has failed.  After the last one, a query notices the failure and
\* sleeps for ten seconds.
Again(a) == IF tries[a] < MaxTries
              THEN pc' = [pc EXCEPT ![a] = "configs"] /\ tries' = [tries EXCEPT ![a] = @ + 1]
              ELSE pc' = [pc EXCEPT ![a] = IF a = Refresh THEN "idle" ELSE "sleep"] /\ UNCHANGED tries

\* fetchTargetConfigsFromWellKnown, parseODoHTargetConfigs, and the route: the
\* first keys that are shown, or an error.
FetchConfigs(a) ==
  /\ pc[a] = "configs"
  /\ \/ \E shown \in SUBSET published :
          /\ shown # {} /\ Cardinality(shown) <= MaxConfigs
          /\ shown = published \/ Cardinality(shown) = MaxConfigs
          /\ configs' = [configs EXCEPT ![a] = shown]
          /\ pc' = [pc EXCEPT ![a] = "try"] /\ UNCHANGED tries
     \/ (lossy \/ published = {}) /\ Again(a) /\ UNCHANGED configs
  /\ UNCHANGED <<target, live, used, found, since>>

\* The next configuration, in the order of a shuffle.
NextConfig(a) ==
  /\ pc[a] = "try"
  /\ IF configs[a] = {}
       THEN Again(a) /\ UNCHANGED <<configs, found>>
       ELSE \E k \in configs[a] : /\ configs' = [configs EXCEPT ![a] = @ \ {k}]
                                  /\ found' = [found EXCEPT ![a] = [key |-> k, useGet |-> FALSE]]
                                  /\ pc' = [pc EXCEPT ![a] = "probe"] /\ UNCHANGED tries
  /\ UNCHANGED <<target, live, used, since>>

\* A first query, with POST and then with GET: what is returned does not matter
\* as long as it is no error.
Probe(a) ==
  /\ pc[a] = "probe"
  /\ \E reply \in Replies(found[a].key) :
       IF ~IsError(reply) THEN pc' = [pc EXCEPT ![a] = "test"] /\ UNCHANGED found
       ELSE IF found[a].useGet THEN pc' = [pc EXCEPT ![a] = "try"] /\ UNCHANGED found
       ELSE found' = [found EXCEPT ![a].useGet = TRUE] /\ UNCHANGED pc
  /\ UNCHANGED <<target, live, used, tries, configs, since>>

\* Mutant of Test: the response is not decrypted.
TestStatus(a) ==
  /\ pc[a] = "test"
  /\ \E reply \in Replies(found[a].key) :
       pc' = [pc EXCEPT ![a] = IF IsError(reply) THEN "try" ELSE "install"]
  /\ UNCHANGED <<target, live, used, tries, configs, found, since>>

\* A second query, whose response is decrypted and looked at: one that is not
\* what the proxy expects ends the attempt.
Test(a) ==
  /\ pc[a] = "test"
  /\ \/ \E reply \in Replies(found[a].key) :
          pc' = [pc EXCEPT ![a] = IF reply = "answer" THEN "install" ELSE "try"] /\ UNCHANGED tries
     \/ lossy /\ Again(a)
  /\ UNCHANGED <<target, live, used, configs, found, since>>

\* refreshServer replaces the information of the server.
Install(a) ==
  /\ pc[a] = "install"
  /\ live' = found[a]
  /\ pc' = [pc EXCEPT ![a] = "idle"]
  /\ UNCHANGED <<target, used, tries, configs, found, since>>

-----------------------------------------------------------------------------
\* A refresh of the certificates comes to this server.
RefreshServer ==
  /\ pc[Refresh] = "idle"
  /\ Begin(Refresh)
  /\ UNCHANGED <<target, live, used>>

\* getOne has given the server to a query.
Query(q) ==
  /\ pc[q] = "idle" /\ live # None
  /\ used' = [used EXCEPT ![q] = live]
  /\ pc' = [pc EXCEPT ![q] = "ask"]
  /\ UNCHANGED <<target, live, tries, configs, found, since>>

\* Mutant of Ask: a response without a body is taken for another failure.
AskStatus(q) ==
  /\ pc[q] = "ask"
  /\ \E reply \in Replies(used[q].key) :
       IF reply = "401"
         THEN Begin(q)
         ELSE pc' = [pc EXCEPT ![q] = "idle"] /\ UNCHANGED <<tries, configs, found, since>>
  /\ UNCHANGED <<target, live, used>>

\* The query is sent.  One that is refused, or seems so because the status is
\* 200 and there is no body, forces a key update, and is not sent again.
Ask(q) ==
  /\ pc[q] = "ask"
  /\ \E reply \in Replies(used[q].key) :
       IF reply \in {"401", "empty", "cut"}
         THEN Begin(q)
         ELSE pc' = [pc EXCEPT ![q] = "idle"] /\ UNCHANGED <<tries, configs, found, since>>
  /\ UNCHANGED <<target, live, used>>

Sleep(q) ==
  /\ pc[q] = "sleep"
  /\ pc' = [pc EXCEPT ![q] = "idle"]
  /\ UNCHANGED <<target, live, used, tries, configs, found, since>>

-----------------------------------------------------------------------------
(***************************************************************************)
(* The target and the network (external).                                  *)
(***************************************************************************)
NewKey == /\ newest < MaxKeys /\ newest' = newest + 1
          /\ UNCHANGED <<oldest, published, lossy, live, used, fetch>>

Retire == /\ oldest < newest /\ oldest' = oldest + 1
          /\ UNCHANGED <<newest, published, lossy, live, used, fetch>>

\* What is shown may be what a cache has kept.
Publish == /\ published' = oldest..newest
           /\ UNCHANGED <<oldest, newest, lossy, live, used, fetch>>

Calm == /\ lossy /\ lossy' = FALSE
        /\ UNCHANGED <<oldest, newest, published, live, used, fetch>>

-----------------------------------------------------------------------------
Init == /\ oldest = 1 /\ newest = 1 /\ published \in SUBSET {1} /\ lossy = TRUE
        /\ live = None
        /\ pc = [a \in Fetchers |-> "idle"] /\ used = [q \in Queries |-> None]
        /\ tries = [a \in Fetchers |-> 1] /\ configs = [a \in Fetchers |-> {}]
        /\ found = [a \in Fetchers |-> None] /\ since = [a \in Fetchers |-> 1]

Fetch(a) == FetchConfigs(a) \/ NextConfig(a) \/ Probe(a) \/ Test(a) \/ Install(a)

Serve(q) == Fetch(q) \/ Ask(q) \/ Sleep(q)

Next == \/ RefreshServer \/ Fetch(Refresh)
        \/ \E q \in Queries : Query(q) \/ Serve(q)
        \/ NewKey \/ Retire \/ Publish \/ Calm

\* Exchanges end, with a timeout at the latest.
Spec == Init /\ [][Next]_vars /\ \A q \in Queries : WF_vars(Serve(q))

-----------------------------------------------------------------------------
(***************************************************************************)
(* Properties                                                              *)
(***************************************************************************)
Labels == {"idle", "ask", "configs", "try", "probe", "test", "install", "sleep"}
Info == {None} \cup [key : Keys, useGet : BOOLEAN]

TypeOK == /\ oldest \in Keys /\ newest \in Keys /\ oldest <= newest
          /\ published \subseteq 1..newest /\ lossy \in BOOLEAN
          /\ live \in Info /\ used \in [Queries -> Info]
          /\ pc \in [Fetchers -> Labels] /\ tries \in [Fetchers -> 1..MaxTries]
          /\ configs \in [Fetchers -> SUBSET Keys] /\ found \in [Fetchers -> Info]
          /\ since \in [Fetchers -> Keys]

\* What a refresh or a forced key update installs is a key that the target has
\* accepted since the fetch began, whatever it showed, however its keys changed
\* and whatever the relay makes of a refusal: a key that was refused for being
\* old is not installed again by the fetch that the refusal has forced
\* (serversInfo.go:819-893, proxy.go:790-806).
InstallsAccepted == \A a \in Fetchers : pc[a] = "install" => found[a].key >= since[a]

\* A key update is forced only when the target refuses the key that was used.
\* This is how a response of status 200 without a body is explained to the user
\* (proxy.go:792), and it is not so: Fetch gives one, with an error, when the
\* body cannot be read (xtransport.go:614).
ForcedOnlyIfRefused ==
  [][\A q \in Queries : pc[q] = "ask" /\ pc'[q] = "configs" => ~Accepted(used[q].key)]_vars

\* Once the target keeps its key and shows it, and nothing is lost.
Settled == oldest = MaxKeys /\ published = {MaxKeys} /\ ~lossy

\* No fetch that began before may still install a key that it has tested while
\* the target accepted it.
NoOlderFetch == \A a \in Fetchers : pc[a] \in {"idle", "ask", "sleep"} \/ since[a] = oldest

\* A key that has changed is replaced by the first query that uses it, without
\* waiting for the next refresh: that query fails, and the key of those after it
\* is accepted.  A refresh that has tested the old key just before may still
\* install it, and then it takes another query (proxy.go:790-806).
KeyUpdated ==
  \A q \in Queries :
    Settled /\ NoOlderFetch /\ pc[q] = "ask" /\ ~Accepted(used[q].key) ~> []Accepted(live.key)

\* A query ends, whatever the target and the network do: the attempts of a
\* forced update are limited (serversInfo.go:951-962, proxy.go:795-806).
UpdatesEnd == \A q \in Queries : pc[q] # "idle" ~> pc[q] = "idle"
=============================================================================
