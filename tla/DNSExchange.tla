---------------------------- MODULE DNSExchange ----------------------------
(***************************************************************************)
(* Getting the certificates of a DNSCrypt server: the racing probes of     *)
(* DNSExchange (dnsutils.go), their cancellation and the direct retry, and *)
(* what fetchDNSCryptServerInfo (serversInfo.go) makes of their result.    *)
(*                                                                         *)
(* A probe is a goroutine that sends one query, large (it needs fragments) *)
(* or small, and puts what it gets in a channel.  The network may drop any *)
(* of them.  The certificates themselves are in DNSCryptCert.              *)
(***************************************************************************)
EXTENDS Integers, Sequences, FiniteSets

CONSTANTS MaxTries,        \* maxTries
          Rtts,            \* the round-trip times that are told apart
          KnownBlocked,    \* the server is in serversBlockingFragments
          Fallback,        \* anonDirectCertFallback
          SkipIncompatible \* skipAnonIncompatibleResolvers

\* The sizes of the probes are their priorities.
Large == 0
Small == 1

TryFragments == ~KnownBlocked

Probe == (0..(MaxTries - 1)) \X (IF TryFragments THEN {Large, Small} ELSE {Small})

Priority(p) == p[2]

Nothing == [ok |-> FALSE]

Options == {Nothing} \cup [ok : {TRUE}, priority : {Large, Small}, rtt : Rtts]

VARIABLES hasRelay,   \* whether route() gave a relay
          viaRelay,   \* whether DNSExchange has one
          state,      \* of each probe
          channel, cancelled,
          received,   \* i, the options taken from the channel
          best,       \* bestOption
          info        \* what fetchDNSCryptServerInfo returns

vars == <<hasRelay, viaRelay, state, channel, cancelled, received, best, info>>

Pending == [done |-> FALSE]
Error == [done |-> TRUE, ok |-> FALSE]

\* What a probe may be doing.  One that got an answer remembers it.
Asleep == [pc |-> "asleep"]
Asking == [pc |-> "asking"]
Sent(option) == [pc |-> "sent", option |-> option]

Init == /\ hasRelay = FALSE /\ viaRelay = FALSE
        /\ state = [p \in Probe |-> Asleep]
        /\ channel = <<>> /\ cancelled = FALSE /\ received = 0
        /\ best = Nothing
        /\ info = Pending

\* An exchange begins.  FetchCurrentDNSCryptCert gives up the relay for a
\* provider name that is not standard, if it may.
Begin(withRelay) ==
  /\ hasRelay' = withRelay
  /\ viaRelay' \in {withRelay /\ (standard \/ ~Fallback) : standard \in BOOLEAN}
  /\ state' = [p \in Probe |-> Asleep]
  /\ channel' = <<>> /\ cancelled' = FALSE /\ received' = 0
  /\ best' = Nothing
  /\ info' = Pending

-----------------------------------------------------------------------------
\* A probe waits for room in the buffer of the channel.
Send(p, option) == /\ Len(channel) < 2 * MaxTries
                   /\ channel' = Append(channel, option)
                   /\ state' = [state EXCEPT ![p] = Sent(option)]
                   /\ UNCHANGED <<hasRelay, viaRelay, cancelled, received, best, info>>

\* A probe wakes up.  It does nothing if it has been canceled.
Wake(p) ==
  /\ state[p] = Asleep
  /\ \/ cancelled /\ Send(p, Nothing)
     \/ /\ ~cancelled
        /\ state' = [state EXCEPT ![p] = Asking]
        /\ UNCHANGED <<hasRelay, viaRelay, channel, cancelled, received, best, info>>

\* _dnsExchange gets an answer, or an error.
Answer(p) == /\ state[p] = Asking
             /\ \E rtt \in Rtts : Send(p, [ok |-> TRUE, priority |-> Priority(p), rtt |-> rtt])

Drop(p) == state[p] = Asking /\ Send(p, Nothing)

-----------------------------------------------------------------------------
Better(option) == \/ ~best.ok
                  \/ option.priority < best.priority
                  \/ option.priority = best.priority /\ option.rtt < best.rtt

\* Mutant of Stops: the first answer is enough.
StopsAtFirst(option) == TRUE

\* A server that takes large queries is the best there is.
Stops(option) == option.priority = Large

\* The loop over the options.  One that stops it cancels the other probes.
Receive ==
  /\ ~info.done /\ channel # <<>> /\ received < Cardinality(Probe) /\ ~cancelled
  /\ LET option == Head(channel) IN
       IF option.ok /\ Better(option)
         THEN best' = option /\ cancelled' = Stops(option)
         ELSE UNCHANGED <<best, cancelled>>
  /\ channel' = Tail(channel)
  /\ received' = received + 1
  /\ UNCHANGED <<hasRelay, viaRelay, state, info>>

Finished == cancelled \/ received = Cardinality(Probe)

\* Mutant of Retry: the relay is not given up.
RetryRelayed ==
  /\ ~info.done /\ Finished /\ ~best.ok /\ viaRelay /\ Fallback
  /\ state' = [p \in Probe |-> Asleep]
  /\ channel' = <<>> /\ received' = 0
  /\ UNCHANGED <<hasRelay, viaRelay, cancelled, best, info>>

\* No probe has got through the relay: new ones, without it.
Retry ==
  /\ ~info.done /\ Finished /\ ~best.ok /\ viaRelay /\ Fallback
  /\ viaRelay' = FALSE
  /\ state' = [p \in Probe |-> Asleep]
  /\ channel' = <<>> /\ received' = 0
  /\ UNCHANGED <<hasRelay, cancelled, best, info>>

\* Mutant of ServerInfo: a server that blocks fragments is used directly
\* whatever the configuration.
ServerInfoDirect(blocked, usable) ==
  IF ~usable THEN Error
             ELSE [done |-> TRUE, ok |-> TRUE, relay |-> hasRelay /\ ~blocked, blocked |-> blocked]

\* fetchDNSCryptServerInfo's end: a server that blocks fragments cannot be
\* used through a relay.  It is used without, or ignored.
ServerInfo(blocked, usable) ==
  IF ~usable \/ (blocked /\ hasRelay /\ SkipIncompatible)
    THEN Error
    ELSE [done |-> TRUE, ok |-> TRUE, relay |-> hasRelay /\ ~blocked, blocked |-> blocked]

\* No answer was got, and the relay, if there is one, is not given up.
Failed == Finished /\ ~best.ok /\ ~(viaRelay /\ Fallback)

\* The exchange is over: an answer or an error is returned.  Its probes end
\* meanwhile, or later: nobody reads what they still send.
Over == ((Finished /\ best.ok) \/ Failed) /\ \A p \in Probe : state[p].pc = "sent"

\* What is made of the certificates of the answer.
Return(usable) ==
  /\ ~info.done
  /\ info' = ServerInfo(KnownBlocked \/ (best.ok /\ best.priority = Small), best.ok /\ usable)
  /\ UNCHANGED <<hasRelay, viaRelay, state, channel, cancelled, received, best>>

-----------------------------------------------------------------------------
\* Types.
TypeOK ==
  /\ hasRelay \in BOOLEAN /\ viaRelay \in BOOLEAN /\ cancelled \in BOOLEAN
  /\ state \in [Probe -> {Asleep, Asking} \cup {Sent(o) : o \in Options}]
  /\ channel \in Seq(Options) /\ Len(channel) <= 2 * MaxTries
  /\ received \in 0..Cardinality(Probe)
  /\ best \in Options
  /\ info \in {Pending, Error} \cup [done : {TRUE}, ok : {TRUE}, relay : BOOLEAN, blocked : BOOLEAN]

\* A server is said to block fragments only once every large probe has failed:
\* none is still on its way (dnsutils.go:366-380).
BlockedOnlyIfAllFailed ==
  Finished /\ best.ok /\ best.priority = Small =>
    \A p \in Probe : Priority(p) = Large => state[p] = Sent(Nothing)

-----------------------------------------------------------------------------
(***************************************************************************)
(* What a document or a comment says and the code does not do: no run      *)
(* checks these, and each has a counterexample (see the README).           *)
(***************************************************************************)

\* "try getting them directly.  Actual queries will then always go through
\* relays" (example-dnscrypt-proxy.toml:857-858): certificates obtained without the
\* relay after it failed do not lead to queries without it.
ThenThroughRelays ==
  hasRelay /\ Fallback /\ ~viaRelay /\ info.done /\ info.ok => info.relay
=============================================================================
