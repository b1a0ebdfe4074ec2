----------------------------- MODULE XTransport -----------------------------
(***************************************************************************)
(* The HTTP transport's table of server addresses (xtransport.go): how     *)
(* concurrent fetches from one host find, share, refresh and lose its      *)
(* address, and how they rotate the list of bootstrap resolvers.           *)
(*                                                                         *)
(* There is one host: the entries of different hosts share only the        *)
(* resolvers.  No proxy is configured (a proxy resolves names itself).     *)
(* Time is what is left until the entry expires, and the entry's age.      *)
(***************************************************************************)
EXTENDS Integers, Sequences, Functions

CONSTANTS Calls,           \* bound: concurrent calls of Fetch
          Bootstrap,       \* bootstrap_resolvers, as a sequence
          IgnoreSystemDNS, \* ignore_system_dns
          Addresses,       \* addresses resolvers give, and stamps pin
          Pinning,         \* whether some stamp of the host has an address
          MinTTL,          \* MinResolverIPTTL
          GraceTTL,        \* ExpiredCachedIPGraceTTL
          SystemTTL,       \* SystemResolverIPTTL
          TTLs             \* bound: the TTLs of resolvers' records

NoAddress == "none"     \* a nil IP

ASSUME XTransportAssumption ==
  /\ Bootstrap \in Seq(Range(Bootstrap)) /\ Bootstrap # <<>>
  /\ NoAddress \notin Addresses
  /\ IgnoreSystemDNS \in BOOLEAN /\ Pinning \in BOOLEAN
  /\ {MinTTL, GraceTTL, SystemTTL} \cup TTLs \subseteq Nat
  /\ GraceTTL < MinTTL /\ MinTTL <= SystemTTL

VARIABLES entry,      \* cachedIPs.cache[host]
          ready,      \* internalResolverReady
          resolvers,  \* bootstrapResolvers, as reordered so far
          call        \* the state of each call of Fetch

transportVars == <<entry, ready, resolvers, call>>

Entry == [ip     : Addresses \cup {NoAddress},
          pinned : BOOLEAN,             \* a nil expiration
          left   : Nat \cup {-1},       \* the time left until the expiration, -1 after it
          age    : 0..(MinTTL + 1)]     \* the time since it was saved, up to MinTTL + 1

\* A result of a resolution.
Found == [ok : BOOLEAN, ip : Addresses \cup {NoAddress}, ttl : TTLs \cup {0, SystemTTL}]
Error == [ok |-> FALSE, ip |-> NoAddress, ttl |-> 0]

\* What a resolver that responds may say; without an address the TTL is zero.
Answers(ttls) ==
  [ok : {TRUE}, ip : Addresses, ttl : ttls] \cup {[ok |-> TRUE, ip |-> NoAddress, ttl |-> 0]}

Sources == {"internal", "bootstrap", "system"}

Call == [pc     : {"idle", "resolve", "swap", "swapped", "save", "dial"},
         stale  : Addresses \cup {NoAddress},  \* cachedIP, read at the beginning
         plan   : Seq(Sources),                \* sources left to try
         i      : 1..(Len(Bootstrap) + 1),     \* place in the resolvers' list
         hands  : Seq(Range(Bootstrap)),       \* what a swap is about to write
         found  : Found]

IdleCall == [pc |-> "idle", stale |-> NoAddress, plan |-> <<>>, i |-> 1,
             hands |-> <<>>, found |-> Error]

Expired == ~entry.pinned /\ entry.left < 0

Set(f, state) == call' = [call EXCEPT ![f] = state]

-----------------------------------------------------------------------------
\* Mutant of SaveCachedIP: no lower bound on how long an address is kept.
SaveCachedIPShort(ip, ttl) ==
  entry' = [ip |-> ip, pinned |-> ttl < 0, left |-> IF ttl < 0 THEN 0 ELSE ttl, age |-> 0]

\* saveCachedIP: "If ttl < 0, never expire".
SaveCachedIP(ip, ttl) ==
  entry' = [ip     |-> ip,
            pinned |-> ttl < 0,
            left   |-> IF ttl < 0 THEN 0 ELSE IF ttl < MinTTL THEN MinTTL ELSE ttl,
            age    |-> 0]

\* resolveAndUpdateCache: the sources, in the order they are tried until one
\* responds.  The proxy itself and the bootstrap resolvers are asked over
\* UDP and over TCP.
Plan == (IF ~IgnoreSystemDNS THEN <<"system">>
         ELSE IF ready THEN <<"internal", "internal">> ELSE <<>>)
        \o <<"bootstrap", "bootstrap">>
        \o (IF IgnoreSystemDNS THEN <<"system">> ELSE <<>>)

Load(f) ==
  /\ call[f].pc = "idle"
  /\ IF entry.ip # NoAddress /\ ~Expired
       THEN Set(f, [IdleCall EXCEPT !.pc = "dial"])
       ELSE Set(f, [IdleCall EXCEPT !.pc = "resolve", !.stale = entry.ip, !.plan = Plan])
  /\ UNCHANGED <<entry, ready, resolvers>>

\* A result, with the end of resolveAndUpdateCache left.
Saving(s, result) == [IdleCall EXCEPT !.pc = "save", !.stale = s.stale, !.found = result]

\* Mutant of NextSource: the same source is tried again.
NextSourceSame(s) == [s EXCEPT !.i = 1]

\* A source has not responded; the next one is tried, if there is one.
NextSource(s) ==
  IF Len(s.plan) = 1 THEN Saving(s, Error) ELSE [s EXCEPT !.plan = Tail(@), !.i = 1]

\* The proxy itself, or the system's resolver.
AskOther(f) ==
  LET s == call[f] IN
  /\ s.pc = "resolve" /\ Head(s.plan) # "bootstrap"
  /\ \/ \E a \in Answers(IF Head(s.plan) = "system" THEN {SystemTTL} ELSE TTLs) :
          Set(f, Saving(s, a))
     \/ Set(f, NextSource(s))
  /\ UNCHANGED <<entry, ready, resolvers>>

\* resolveUsingResolvers: the list is read as it is at each iteration.  The
\* resolver that responds is swapped with the first, unless it is the first.
AskBootstrap(f) ==
  LET s == call[f] IN
  /\ s.pc = "resolve" /\ Head(s.plan) = "bootstrap" /\ s.i <= Len(resolvers)
  /\ \/ \E a \in Answers(TTLs) :
          IF s.i = 1 THEN Set(f, Saving(s, a))
          ELSE Set(f, [s EXCEPT !.pc = "swap", !.found = a, !.plan = <<>>,
                                !.hands = <<resolvers[s.i], resolvers[1]>>])
     \/ Set(f, [s EXCEPT !.i = @ + 1])
  /\ UNCHANGED <<entry, ready, resolvers>>

\* NoAddress of the bootstrap resolvers has responded.
BootstrapFailed(f) ==
  /\ call[f].pc = "resolve" /\ call[f].i > Len(resolvers)
  /\ Set(f, NextSource(call[f]))
  /\ UNCHANGED <<entry, ready, resolvers>>

\* The two writes of the swap; no lock is held.
Swap(f) ==
  LET s == call[f] IN
  /\ \/ /\ s.pc = "swap"
        /\ resolvers' = [resolvers EXCEPT ![1] = s.hands[1]]
        /\ Set(f, [s EXCEPT !.pc = "swapped"])
     \/ /\ s.pc = "swapped"
        /\ resolvers' = [resolvers EXCEPT ![s.i] = s.hands[2]]
        /\ Set(f, Saving(s, s.found))
  /\ UNCHANGED <<entry, ready>>

\* Mutant of Save: what was known is forgotten when it cannot be refreshed.
SaveForgetting(f) ==
  LET s == call[f] IN
  /\ s.pc = "save"
  /\ SaveCachedIP(s.found.ip, s.found.ttl)
  /\ Set(f, [IdleCall EXCEPT !.pc = "dial"])
  /\ UNCHANGED <<ready, resolvers>>

\* The end of resolveAndUpdateCache.  When nobody has responded, the address
\* read at the beginning is used for a grace period.
Save(f) ==
  LET s == call[f] IN
  /\ s.pc = "save"
  /\ \/ /\ s.found.ok
        /\ SaveCachedIP(s.found.ip, s.found.ttl)
        /\ Set(f, [IdleCall EXCEPT !.pc = "dial"])
     \/ /\ ~s.found.ok /\ s.stale # NoAddress
        /\ SaveCachedIP(s.stale, GraceTTL)
        /\ Set(f, [IdleCall EXCEPT !.pc = "dial"])
     \/ /\ ~s.found.ok /\ s.stale = NoAddress
        /\ Set(f, IdleCall)
        /\ UNCHANGED entry
  /\ UNCHANGED <<ready, resolvers>>

\* DialContext reads the table again, and Fetch completes.
Dial(f) == /\ call[f].pc = "dial"
           /\ Set(f, IdleCall)
           /\ UNCHANGED <<entry, ready, resolvers>>

-----------------------------------------------------------------------------
\* fetchDoHServerInfo and route: a stamp gives the host's address.
Pin == /\ Pinning
       /\ \E ip \in Addresses : SaveCachedIP(ip, -1)
       /\ UNCHANGED <<ready, resolvers, call>>

\* refresh: the first server is live.
InternalResolverReady == /\ ~ready
                         /\ ready' = TRUE
                         /\ UNCHANGED <<entry, resolvers, call>>

Tick == /\ entry.ip # NoAddress
        /\ entry' = [entry EXCEPT !.left = IF entry.pinned \/ @ < 0 THEN @ ELSE @ - 1,
                                  !.age  = IF @ > MinTTL THEN @ ELSE @ + 1]
        /\ UNCHANGED <<ready, resolvers, call>>

TransportInit ==
  /\ entry = [ip |-> NoAddress, pinned |-> FALSE, left |-> -1, age |-> 0]
  /\ ready = FALSE
  /\ resolvers = Bootstrap
  /\ call = [f \in Calls |-> IdleCall]

Resolve(f) == \/ AskOther(f) \/ AskBootstrap(f) \/ BootstrapFailed(f) \/ Swap(f)
              \/ Save(f) \/ Dial(f)

TransportNext == \/ \E f \in Calls : Load(f) \/ Resolve(f)
                 \/ Pin \/ InternalResolverReady \/ Tick

TransportSpec == TransportInit /\ [][TransportNext]_transportVars

\* A fetch that has begun goes on: every exchange has a timeout.
FairTransportSpec == TransportSpec /\ \A f \in Calls : WF_transportVars(Resolve(f))

-----------------------------------------------------------------------------
\* The variables have the types of the code's.
TransportTypeOK ==
  /\ entry \in Entry
  /\ ready \in BOOLEAN
  /\ call \in [Calls -> Call]
  /\ resolvers \in [1..Len(Bootstrap) -> Range(Bootstrap)]

\* A host's address is not looked up again until it has been in the table
\* for 12 hours (xtransport.go:107; ChangeLog:282: addresses "are now cached
\* for at least 12 hours"), however short the records' TTLs are; and no fetch
\* goes on with an address that has expired without looking it up.
CachedAtLeastMinTTL ==
  [][\A f \in Calls : call[f].pc = "idle" /\ call'[f].pc # "idle" =>
       IF call'[f].pc = "resolve" THEN entry.ip = NoAddress \/ entry.age > MinTTL
                                  ELSE ~Expired]_transportVars

\* A host whose address is known only loses it to a resolver that has responded
\* without one: failures to refresh it do not erase it, whatever the other
\* fetches are doing (xtransport.go:456).
KnownStaysKnown ==
  [][entry.ip # NoAddress /\ entry'.ip = NoAddress =>
       \E f \in Calls : call[f].pc = "save" /\ call[f].found.ok]_transportVars

\* Every fetch ends, whatever resolvers do and however their list is reordered.
FetchEnds == \A f \in Calls : call[f].pc # "idle" ~> call[f].pc = "idle"

-----------------------------------------------------------------------------
(***************************************************************************)
(* What a document or a comment says and the code does not do: no run      *)
(* checks these, and each has a counterexample (see the README).           *)
(***************************************************************************)

\* An address that could not be refreshed is tried again after the grace
\* period ("Using stale [%v] cached address for a grace period",
\* xtransport.go:458, ExpiredCachedIPGraceTTL of 15 minutes).
GraceIsShort ==
  [][\A f \in Calls : call[f].pc = "save" /\ ~call[f].found.ok /\ call'[f].pc = "dial" =>
       ~entry'.pinned /\ entry'.left <= GraceTTL]_transportVars

\* "If an IP has been provided, use it forever" (serversInfo.go:669).
PinnedForever == [][entry.pinned => entry'.pinned]_transportVars

\* When DialContext is called "a cached entry must be present" (xtransport.go:155).
DialHasAddress == \A f \in Calls : call[f].pc = "dial" => entry.ip # NoAddress
=============================================================================
