--------------------------- MODULE FetchDNSCrypt ---------------------------
(***************************************************************************)
(* fetchDNSCryptServerInfo (serversInfo.go) as a whole: a relay is looked  *)
(* for (Routes), the certificates are asked for, possibly through it       *)
(* (DNSExchange), one of them is chosen (DNSCryptCert), and the server is  *)
(* then used with the relay, without it, or not at all.                    *)
(*                                                                         *)
(* What is not read any more in a phase is forgotten when it begins: an    *)
(* exchange does not look at the routes, the choice of a certificate does  *)
(* not look at the probes, and the next fetch finds any configuration.     *)
(***************************************************************************)
EXTENDS DNSCryptCert

CONSTANTS Servers, Relays, Stamps, RouteSets, Width,                 \* Routes'
          MaxTries, Rtts, KnownBlocked, Fallback, SkipIncompatible   \* DNSExchange's

VARIABLES routes, registeredRelays, server, entry, relayStamps, idx, bestIdxs, bestBits, pc, relay,
          hasRelay, viaRelay, state, channel, cancelled, received, best, info,
          phase,
          routed     \* whether the server that is fetched has a route (history)

R == INSTANCE Routes
X == INSTANCE DNSExchange

ASSUME FetchDNSCryptAssumption ==
  /\ Width \in Nat /\ MaxTries \in Nat /\ Rtts \subseteq Nat
  /\ KnownBlocked \in BOOLEAN /\ Fallback \in BOOLEAN /\ SkipIncompatible \in BOOLEAN
  /\ RouteSets # {}
  /\ \A r \in RouteSets : \A n \in DOMAIN r : r[n] \in Seq(R!Entries)

routing == <<routes, registeredRelays, server, entry, relayStamps, idx, bestIdxs, bestBits, pc, relay>>
exchange == <<hasRelay, viaRelay, state, channel, cancelled, received, best, info>>
choice == vars

fetchVars == <<routing, exchange, choice, phase, routed>>

\* The loop over the records begins.
ChooseFrom(records) == /\ answer' = records /\ i' = 1
                       /\ highestSerial' = 0 /\ construction' = Undefined /\ chosen' = 0

FetchInit == /\ phase = "route" /\ routed = FALSE
             /\ R!Init /\ X!Init
             /\ answer = <<>> /\ i = 1 /\ highestSerial = 0 /\ construction = Undefined /\ chosen = 0

\* route() is at work.
Routing == phase = "route" /\ R!Next /\ UNCHANGED <<phase, routed, exchange, choice>>

\* Forgets the routes.
ForgetRoutes ==
  /\ routes' = CHOOSE r \in RouteSets : TRUE
  /\ server' = CHOOSE s \in Servers : TRUE
  /\ registeredRelays' = <<>> /\ entry' = 0 /\ relayStamps' = <<>> /\ relay' = R!NoRelay
  /\ idx' = 0 /\ bestIdxs' = {} /\ bestBits' = Width /\ pc' = "idle"

\* FetchCurrentDNSCryptCert is called, with the relay if there is one.  Servers of
\* other protocols are not fetched here.
Begin == /\ phase = "route" /\ pc \in {"direct", "relay"} /\ server.proto = "dnscrypt"
         /\ phase' = "exchange" /\ routed' = (R!Via(server) # <<>>)
         /\ X!Begin(pc = "relay")
         /\ ForgetRoutes
         /\ UNCHANGED choice

\* The loop of DNSExchange, and its probes.
Main == phase = "exchange" /\ (X!Receive \/ X!Retry) /\ UNCHANGED <<routing, choice, phase, routed>>

Probing(p) == /\ phase = "exchange" /\ (X!Wake(p) \/ X!Answer(p) \/ X!Drop(p))
              /\ UNCHANGED <<routing, choice, phase, routed>>

\* The exchange returns an answer or an error.
Returned ==
  /\ phase = "exchange" /\ X!Over
  /\ IF best.ok
       THEN /\ phase' = "answer"
            /\ state' = [p \in X!Probe |-> X!Asleep]
            /\ channel' = <<>> /\ received' = 0 /\ cancelled' = FALSE
            /\ best' = [best EXCEPT !.rtt = CHOOSE rtt \in Rtts : TRUE]
            /\ UNCHANGED <<hasRelay, viaRelay, info>>
       ELSE phase' = "end" /\ X!Return(FALSE)
  /\ UNCHANGED <<routing, choice, routed>>

\* The answer has some records.
Answered == /\ phase = "answer" /\ phase' = "certificates"
            /\ answer' \in Responses /\ ChooseFrom(answer')
            /\ UNCHANGED <<routing, exchange, routed>>

\* The loop over the records, and what becomes of the one that it chooses.
Choosing == phase = "certificates" /\ Examine /\ UNCHANGED <<routing, exchange, phase, routed>>

Chosen == /\ phase = "certificates" /\ i > Len(answer)
          /\ X!Return(construction # Undefined)
          /\ ChooseFrom(<<>>)
          /\ phase' = "end" /\ UNCHANGED <<routing, routed>>

\* Another fetch may begin.
End == /\ phase = "end"
       /\ phase' = "route" /\ routed' = FALSE
       /\ routes' \in RouteSets /\ server' \in Servers /\ X!Begin(FALSE)
       /\ UNCHANGED <<registeredRelays, entry, relayStamps, idx, bestIdxs, bestBits, pc, relay, choice>>

FetchNext == \/ Routing \/ Begin
             \/ Main \/ \E p \in X!Probe : Probing(p)
             \/ Returned \/ Answered \/ Choosing \/ Chosen \/ End

\* Probes wake up and time out, and the loops take what there is.
FetchSpec == /\ FetchInit /\ [][FetchNext]_fetchVars
             /\ WF_fetchVars(Main \/ Returned \/ Answered \/ Choosing \/ Chosen \/ End)
             /\ \A p \in X!Probe : WF_fetchVars(Probing(p))

-----------------------------------------------------------------------------
\* What route() returns: no relay and no error only for a server without a route,
\* or whose protocol cannot be anonymized, and otherwise an error or a relay of
\* the protocol that the server needs, whatever is registered meanwhile
\* (serversInfo.go:445-453, 485-497).
AnonymizedOrFailed == R!AnonymizedOrFailed

\* With an automatic choice, the best distance so far is that of the farthest of
\* the relays looked at so far, and the relay that is used has the server's
\* family (serversInfo.go:388-420).
ScanFindsFarthest == R!ScanFindsFarthest

\* "Skip resolvers incompatible with anonymization instead of using them
\* directly" (example-dnscrypt-proxy.toml:851): with that setting, a DNSCrypt
\* server that has a route is never used without a relay, whichever relays are
\* registered when its route is looked for, and whatever its probes and the
\* direct retry do (serversInfo.go:569-599).  It is not so of DoH servers, see
\* SkipsIncompatible.
NeverDirect == SkipIncompatible /\ routed /\ info.done /\ info.ok => info.relay

\* A server is said to block fragments, which makes it incompatible with
\* relays, only once every large probe has failed (dnsutils.go:366-380).
BlockedOnlyIfAllFailed == phase = "exchange" => X!BlockedOnlyIfAllFailed

\* Every fetch ends, with or without the direct retry, and no probe outlives
\* it for ever: those that come late, when the channel is not read any more,
\* still find room in its buffer (dnsutils.go:328-380).
ExchangeEnds == phase = "exchange" ~> phase = "route"

-----------------------------------------------------------------------------
(***************************************************************************)
(* What a document or a comment says and the code does not do: no run      *)
(* checks these, and each has a counterexample (see the README).           *)
(***************************************************************************)

\* "Skip resolvers incompatible with anonymization instead of using them
\* directly" (example-dnscrypt-proxy.toml:851): with that setting, no server that
\* has a route is used directly, a DoH one included.
SkipsIncompatible == SkipIncompatible /\ pc = "direct" => R!Via(server) = <<>>

\* "try getting them directly.  Actual queries will then always go
\* through relays" (example-dnscrypt-proxy.toml:857-858).
ThenThroughRelays == X!ThenThroughRelays

\* "the proxy ensures that relays and servers are on distinct networks"
\* (ChangeLog:94).
DistinctNetworks == R!DistinctNetworks

\* "the proxy automatically picks a relay on a distinct network"
\* (example-dnscrypt-proxy.toml:838).
AlwaysPicks == R!AlwaysPicks

\* A relay is "either a relay stamp, or a DNSCrypt stamp"
\* (example-dnscrypt-proxy.toml:821).
StampsAccepted == R!StampsAccepted
=============================================================================
