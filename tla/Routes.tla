------------------------------- MODULE Routes -------------------------------
(***************************************************************************)
(* The choice of a relay for a server (route and findFarthestRoute,        *)
(* serversInfo.go).                                                        *)
(*                                                                         *)
(* An address is a family and a sequence of bits.  An entry of a route is  *)
(* a stamp, the name of a relay, or "*".                                   *)
(***************************************************************************)
EXTENDS Integers, Sequences, Functions

CONSTANTS Servers,      \* [name, proto, addr]: the servers
          Relays,       \* [name, proto, addr]: the relays that lists may have
          Stamps,       \* [name, proto, addr]: what the stamps of routes stand for
          RouteSets,    \* the routes, functions from server names to sequences of entries
          Width         \* the number of bits of an address

Stamp(relay) == [stamp |-> relay]
Name(n) == [name |-> n]
Star == Name("*")
Entries == [stamp : Stamps] \cup [name : STRING]

VARIABLES routes, registeredRelays,   \* the configuration, and a sequence of relays
          server,                     \* the server whose route is looked for
          entry,                      \* the loop over the entries of its route
          relayStamps,                \* the relays that can be used
          idx, bestIdxs, bestBits,    \* the loops over relays, and what findFarthestRoute keeps
          pc, relay                   \* its state and its result

vars == <<routes, registeredRelays, server, entry, relayStamps, idx, bestIdxs, bestBits, pc, relay>>

NoRelay == [name |-> "none"]

-----------------------------------------------------------------------------
RelayProto(proto) == IF proto = "dnscrypt" THEN "dnscryptRelay" ELSE "odohRelay"

CanBeAnonymized(proto) == proto \in {"dnscrypt", "odoh"}

Via(s) == IF s.name \in DOMAIN routes THEN routes[s.name]
          ELSE IF "*" \in DOMAIN routes THEN routes["*"] ELSE <<>>

Wildcard(s) == s.name \notin DOMAIN routes \/ Star \in Range(Via(s))

\* A server without a route, and one that cannot be anonymized, has no relay and
\* no error.  The fetch of a DoH server does not even ask for a route.
Route(s) ==
  /\ pc = "idle"
  /\ server' = s
  /\ IF Via(s) = <<>> \/ ~CanBeAnonymized(s.proto)
       THEN pc' = "direct" /\ UNCHANGED <<entry, relayStamps>>
       ELSE pc' = "entries" /\ entry' = 1 /\ relayStamps' = <<>>
  /\ UNCHANGED <<routes, registeredRelays, idx, bestIdxs, bestBits, relay>>

AtEntry == pc = "entries" /\ entry \in DOMAIN Via(server)

\* A stamp of the right protocol is a relay that can be used.
StampEntry ==
  /\ AtEntry
  /\ LET e == Via(server)[entry]
     IN  /\ "stamp" \in DOMAIN e
         /\ relayStamps' = IF e.stamp.proto = RelayProto(server.proto)
                             THEN Append(relayStamps, e.stamp) ELSE relayStamps
  /\ entry' = entry + 1
  /\ UNCHANGED <<routes, registeredRelays, server, idx, bestIdxs, bestBits, pc, relay>>

\* A name, or a star: the registered relays are looked at, under a read lock.
NameEntry ==
  /\ AtEntry /\ "stamp" \notin DOMAIN Via(server)[entry]
  /\ pc' = "registered" /\ idx' = 1
  /\ UNCHANGED <<routes, registeredRelays, server, entry, relayStamps, bestIdxs, bestBits, relay>>

\* The next registered relay.  A name stands for the first one that matches.
\* Entries after a star are not looked at.
RegisteredRelay ==
  /\ pc = "registered"
  /\ LET e == Via(server)[entry]
         matches(r) == r.proto = RelayProto(server.proto) /\ (e = Star \/ r.name = e.name)
     IN  IF idx \notin DOMAIN registeredRelays
           THEN /\ pc' = "entries"
                /\ entry' = IF e = Star THEN Len(Via(server)) + 1 ELSE entry + 1
                /\ idx' = 0 /\ UNCHANGED relayStamps
           ELSE IF ~matches(registeredRelays[idx])
           THEN idx' = idx + 1 /\ UNCHANGED <<pc, entry, relayStamps>>
           ELSE /\ relayStamps' = Append(relayStamps, registeredRelays[idx])
                /\ IF e = Star THEN idx' = idx + 1 /\ UNCHANGED <<pc, entry>>
                               ELSE pc' = "entries" /\ entry' = entry + 1 /\ idx' = 0
  /\ UNCHANGED <<routes, registeredRelays, server, bestIdxs, bestBits, relay>>

\* Mutant of Candidates: servers whose relays are unknown are used directly.
CandidatesDirect ==
  /\ pc = "entries" /\ entry \notin DOMAIN Via(server)
  /\ pc' = IF relayStamps = <<>> THEN "direct"
           ELSE IF ~Wildcard(server) \/ Len(relayStamps) = 1 THEN "any" ELSE "farthest"
  /\ entry' = 0
  /\ UNCHANGED <<routes, registeredRelays, server, relayStamps, idx, bestIdxs, bestBits, relay>>

\* Without any relay that can be used, there is no route.
Candidates ==
  /\ pc = "entries" /\ entry \notin DOMAIN Via(server)
  /\ pc' = IF relayStamps = <<>> THEN "error"
           ELSE IF ~Wildcard(server) \/ Len(relayStamps) = 1 THEN "any" ELSE "farthest"
  /\ entry' = 0
  /\ UNCHANGED <<routes, registeredRelays, server, relayStamps, idx, bestIdxs, bestBits, relay>>

\* Any of the relays.
AnyRelay ==
  /\ pc = "any"
  /\ relay' \in Range(relayStamps)
  /\ pc' = "relay"
  /\ UNCHANGED <<routes, registeredRelays, server, entry, relayStamps, idx, bestIdxs, bestBits>>

-----------------------------------------------------------------------------
(***************************************************************************)
(* findFarthestRoute                                                       *)
(***************************************************************************)
SamePrefixBits(a, b) ==
  LET same == {n \in 0..Width : SubSeq(a.bits, 1, n) = SubSeq(b.bits, 1, n)}
  IN  CHOOSE n \in same : \A m \in same : m <= n

\* Relays for Oblivious DoH are not compared.  Without registered relays, or
\* if the address of the server is not known, there is no route.
Farthest ==
  /\ pc = "farthest"
  /\ IF server.proto = "odoh"
       THEN /\ relay' \in {relayStamps[k] : k \in {k \in DOMAIN relayStamps : relayStamps[k].proto = "odohRelay"}}
            /\ pc' = "relay"
            /\ UNCHANGED <<idx, bestIdxs, bestBits>>
       ELSE IF registeredRelays = <<>> \/ server.addr.family = "none"
       THEN pc' = "error" /\ UNCHANGED <<relay, idx, bestIdxs, bestBits>>
       ELSE pc' = "scan" /\ idx' = 1 /\ bestIdxs' = {} /\ bestBits' = Width /\ UNCHANGED relay
  /\ UNCHANGED <<routes, registeredRelays, server, entry, relayStamps>>

Comparable(r) == r.proto = "dnscryptRelay" /\ r.addr.family = server.addr.family

\* Mutant of Scan: relays of other protocols and families are compared as well.
ScanAll ==
  /\ pc = "scan" /\ idx <= Len(relayStamps)
  /\ IF SamePrefixBits(server.addr, relayStamps[idx].addr) <= bestBits
       THEN /\ bestBits' = SamePrefixBits(server.addr, relayStamps[idx].addr)
            /\ bestIdxs' = bestIdxs \cup {idx}
       ELSE UNCHANGED <<bestBits, bestIdxs>>
  /\ idx' = idx + 1
  /\ UNCHANGED <<routes, registeredRelays, server, entry, relayStamps, pc, relay>>

\* The next relay is kept if it is as far as the farthest one so far.
Scan ==
  /\ pc = "scan" /\ idx <= Len(relayStamps)
  /\ LET r == relayStamps[idx]
     IN  IF Comparable(r) /\ SamePrefixBits(server.addr, r.addr) <= bestBits
           THEN /\ bestBits' = SamePrefixBits(server.addr, r.addr)
                /\ bestIdxs' = bestIdxs \cup {idx}
           ELSE UNCHANGED <<bestBits, bestIdxs>>
  /\ idx' = idx + 1
  /\ UNCHANGED <<routes, registeredRelays, server, entry, relayStamps, pc, relay>>

\* One of the relays kept.  A random choice among none is a panic.
Choose ==
  /\ pc = "scan" /\ idx > Len(relayStamps)
  /\ IF bestIdxs = {} THEN pc' = "panic" /\ UNCHANGED relay
     ELSE /\ pc' = "relay"
          /\ \E k \in bestIdxs : relay' = relayStamps[k]
  /\ UNCHANGED <<routes, registeredRelays, server, entry, relayStamps, idx, bestIdxs, bestBits>>

-----------------------------------------------------------------------------
\* A relay that a list has, registered by an update of the sources, which waits
\* for readers.
Register(r) ==
  /\ pc # "registered"
  /\ r \notin Range(registeredRelays)
  /\ registeredRelays' = Append(registeredRelays, r)
  /\ UNCHANGED <<routes, server, entry, relayStamps, idx, bestIdxs, bestBits, pc, relay>>

\* The relay's address cannot be resolved, or its server is not registered.
Unresolved ==
  /\ pc = "relay"
  /\ pc' = "error" /\ relay' = NoRelay
  /\ UNCHANGED <<routes, registeredRelays, server, entry, relayStamps, idx, bestIdxs, bestBits>>

Done ==
  /\ pc \in {"direct", "error", "relay"}
  /\ pc' = "idle" /\ relay' = NoRelay /\ entry' = 0 /\ relayStamps' = <<>>
  /\ idx' = 0 /\ bestIdxs' = {} /\ bestBits' = Width
  /\ UNCHANGED <<routes, registeredRelays, server>>

Init ==
  /\ routes \in RouteSets /\ registeredRelays = <<>> /\ server \in Servers
  /\ entry = 0 /\ relayStamps = <<>> /\ idx = 0 /\ bestIdxs = {} /\ bestBits = Width
  /\ pc = "idle" /\ relay = NoRelay

Next == \/ \E s \in Servers : Route(s)
        \/ StampEntry \/ NameEntry \/ RegisteredRelay \/ Candidates
        \/ AnyRelay \/ Farthest \/ Scan \/ Choose \/ Unresolved \/ Done
        \/ \E r \in Relays : Register(r)

Spec == Init /\ [][Next]_vars

-----------------------------------------------------------------------------
\* Types.  The indices that are kept, in particular, are those of relays already
\* looked at, and the best distance is one of an address (serversInfo.go:388-419).
TypeOK ==
  /\ pc \in {"idle", "direct", "error", "entries", "registered", "any", "farthest", "scan", "relay", "panic"}
  /\ relay \in Relays \cup Stamps \cup {NoRelay} /\ server \in Servers
  /\ Range(relayStamps) \subseteq Relays \cup Stamps
  /\ pc = "scan" => idx \in 1..(Len(relayStamps) + 1) /\ bestIdxs \subseteq 1..(idx - 1)
  /\ bestBits \in 0..Width

\* What route() returns: no relay and no error only for a server without a route,
\* or whose protocol cannot be anonymized, and otherwise an error or a relay of
\* the protocol that the server needs, whatever is registered meanwhile
\* (serversInfo.go:445-453, 485-497).
AnonymizedOrFailed ==
  /\ pc = "direct" => Via(server) = <<>> \/ ~CanBeAnonymized(server.proto)
  /\ pc = "relay" => relay.proto = RelayProto(server.proto)

\* With an automatic choice, the best distance so far is that of the farthest of
\* the relays looked at so far, and the relay that is used has the server's
\* family.  It is any of those that were kept, the best so far when each was
\* looked at (serversInfo.go:388-420).
ScanFindsFarthest ==
  /\ pc = "scan" /\ bestIdxs # {} =>
       \A k \in 1..(idx - 1) : Comparable(relayStamps[k]) =>
         SamePrefixBits(server.addr, relayStamps[k].addr) >= bestBits
  /\ pc = "relay" /\ Wildcard(server) /\ server.proto = "dnscrypt" /\ Len(relayStamps) > 1 =>
       relay.addr.family = server.addr.family

-----------------------------------------------------------------------------
(***************************************************************************)
(* What a document or a comment says and the code does not do: no run      *)
(* checks these, and each has a counterexample (see the README).           *)
(***************************************************************************)

\* "When a wildcard is used, either for the list of servers or relays, the proxy
\* ensures that relays and servers are on distinct networks": if there are
\* relays of its family on another network, one of them is chosen.
Network(a) == <<a.family, SubSeq(a.bits, 1, 1)>>
DistinctNetworks ==
  pc = "relay" /\ Wildcard(server) /\ server.proto = "dnscrypt" =>
    \/ Network(relay.addr) # Network(server.addr)
    \/ \A k \in DOMAIN relayStamps : Comparable(relayStamps[k]) => Network(relayStamps[k].addr) = Network(server.addr)

\* "If a route is [*], the proxy automatically picks a relay": the search always
\* ends with a relay or with an error.
AlwaysPicks == pc # "panic"

\* "A relay can be specified as a DNS Stamp (either a relay stamp, or a DNSCrypt
\* stamp)": with a DNSCrypt stamp in its route, a server has a relay.
StampsAccepted ==
  pc = "error" => \A e \in Range(Via(server)) : "stamp" \in DOMAIN e => e.stamp.proto # "dnscrypt"
=============================================================================
