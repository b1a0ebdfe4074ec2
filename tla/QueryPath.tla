----------------------------- MODULE QueryPath -----------------------------
(***************************************************************************)
(* A client query from its reception to its answer: the listeners and the  *)
(* client limit, processIncomingQuery (proxy.go), the plugin pipeline      *)
(* (plugins.go), the response cache (plugin_cache.go), forwarding, DNS64   *)
(* subqueries and the exchanges with DNSCrypt, DoH and ODoH servers.       *)
(*                                                                         *)
(* Every goroutine has a stack of frames, one per activation of            *)
(* processIncomingQuery: DNS64 runs a second one, for the A record, inside *)
(* the response plugins of the first.  When the proxy is overloaded the    *)
(* UDP listener runs processIncomingQuery itself.                          *)
(*                                                                         *)
(* The acquisition of a client slot is atomic here; ClientsCount shows     *)
(* that its compare-and-swap loops implement that.  What a query does to   *)
(* the table of servers is in ServersInfo.  Clients send well-formed       *)
(* queries, and names are either always forwarded or never: rules are      *)
(* loaded once.  Logging plugins change nothing here.                      *)
(***************************************************************************)
EXTENDS Integers, Sequences, FiniteSets

CONSTANTS Goroutines,  \* bound: queries handled at the same time
          Silent,      \* bound: the goroutines whose TCP clients send nothing
          MaxClients,  \* max_clients
          Servers,     \* what getOne may return: protocols, or "none"
          Accepted,    \* connections accepted: "tcp", and "local_doh" if enabled
          MainProto,   \* proxy.mainProto, "tcp" with force_tcp
          Forwarding,  \* whether a forwarding rule covers the name "corp"
          DNS64,       \* whether the DNS64 plugin is on
          CacheSize    \* cache_size

Listener == "udpListener"

ASSUME QueryPathAssumption ==
  /\ IsFiniteSet(Goroutines) /\ Listener \notin Goroutines
  /\ Silent \subseteq Goroutines
  /\ MaxClients \in Nat
  /\ Servers \subseteq {"none", "DNSCrypt", "DoH", "ODoH"} /\ Servers # {}
  /\ Accepted \subseteq {"tcp", "local_doh"}
  /\ MainProto \in {"udp", "tcp"}
  /\ Forwarding \in BOOLEAN /\ DNS64 \in BOOLEAN
  /\ CacheSize \in Nat \ {0}

Procs == Goroutines \cup {Listener}

\* The questions: the two address types of a name, and a forwarded name.
Keys == {"A", "AAAA"} \cup (IF Forwarding THEN {"corp"} ELSE {})

VARIABLES count,   \* proxy.clientsCount
          stack,   \* the frames of each goroutine
          cache,   \* cachedResponses: the state of each key's entry
          answers  \* the answers each goroutine sent to the client of its last query

vars == <<count, stack, cache, answers>>

\* A "recycled" entry is one whose data had expired before it was stored again.
CacheStates == {"none", "fresh", "recycled", "expired"}

(***************************************************************************)
(* Responses.  "answer" is what the cache accepts; "bad" has an invalid    *)
(* length or does not unpack; "stale" is made from expired cached data;    *)
(* "cached" and "recycled" are cache hits; "synth" is made by a plugin or  *)
(* comes from a forwarder.                                                 *)
(***************************************************************************)
FromServer == {"answer", "servfail", "truncated", "bad"}
Responses == FromServer \cup {"nil", "stale", "cached", "recycled", "synth"}

Frame == [client     : {"udp", "tcp", "local_doh", "trampoline"},
          key        : Keys,
          onlyCached : BOOLEAN,
          pc         : {"reading", "plugins", "forward", "udp", "udpAgain", "tcp", "doh",
                        "odoh", "keyUpdate", "failed", "received", "noAAAA", "dns64",
                        "rejected", "store", "deliver"},
          server     : {"none", "DNSCrypt", "DoH", "ODoH"},  \* serverInfo
          proto      : {"udp", "tcp"},  \* serverProto
          stale      : BOOLEAN,         \* sessionData["stale"] is set
          resp       : Responses]       \* response

NewFrame(client, key, onlyCached, pc) ==
  [client |-> client, key |-> key, onlyCached |-> onlyCached, pc |-> pc, server |-> "none",
   proto |-> IF client = "tcp" THEN "tcp" ELSE MainProto,
   stale |-> FALSE, resp |-> "nil"]

Top(g) == stack[g][Len(stack[g])]

Running(g, pc) == stack[g] # <<>> /\ Top(g).pc = pc

\* The running activation of g goes on as frame f.
Continue(g, f) == /\ stack' = [stack EXCEPT ![g][Len(stack[g])] = f]
                  /\ UNCHANGED <<count, answers>>

-----------------------------------------------------------------------------
(***************************************************************************)
(* The listeners.                                                          *)
(***************************************************************************)

\* clientsCountInc and clientsCountDec.
SlotFree == count < MaxClients

Start(g, f) == /\ stack' = [stack EXCEPT ![g] = <<f>>]
               /\ answers' = [answers EXCEPT ![g] = 0]

\* udpListener: without a free slot, the listener itself serves the query
\* from the cache and the plugins, and reads nothing else meanwhile.
UDPListener(key) ==
  /\ stack[Listener] = <<>>
  /\ \/ /\ SlotFree
        /\ \E g \in Goroutines \ Silent : /\ stack[g] = <<>>
                                          /\ Start(g, NewFrame("udp", key, FALSE, "plugins"))
        /\ count' = count + 1
     \/ /\ ~SlotFree
        /\ Start(Listener, NewFrame("udp", key, TRUE, "plugins"))
        /\ UNCHANGED count
  /\ UNCHANGED cache

\* tcpListener and localDoHHandler.ServeHTTP: a connection is refused when
\* there is no slot.  The slot is taken before the query is read; what a
\* silent client would have asked is of no importance.
Accept(g, client, key) ==
  /\ stack[g] = <<>> /\ SlotFree
  /\ g \in Silent => client = "tcp" /\ key = "A"
  /\ Start(g, NewFrame(client, key, FALSE, "reading"))
  /\ count' = count + 1
  /\ UNCHANGED cache

-----------------------------------------------------------------------------
(***************************************************************************)
(* processIncomingQuery returns resp.  A DNS64 subquery gives its slot     *)
(* back; its caller then fails unless resp unpacks, and otherwise goes on  *)
(* with the records the subquery found, which may have been stale.  For a  *)
(* client, the deferred clientsCountDec gives the slot back, and the local *)
(* DoH handler sends whatever was returned.                                *)
(***************************************************************************)
\* The slots a goroutine gives back when it is done with a client: the listener
\* has none.
Released(g) == IF g = Listener THEN 0 ELSE 1

\* Mutant of ReturnToDNS64: the slot is given back only if the subquery worked.
ReturnToDNS64Leaking(g, resp) ==
  LET caller == stack[g][1] IN
  /\ \E pc \in {IF resp \in {"nil", "bad"} THEN "rejected" ELSE "store"} :
       stack' = [stack EXCEPT ![g] = <<[caller EXCEPT !.pc = pc]>>]
  /\ count' = IF resp \in {"nil", "bad"} THEN count ELSE count - 1

ReturnToDNS64(g, resp) ==
  LET caller  == stack[g][1]
      failed  == resp \in {"nil", "bad"}
      tainted == resp \in {"stale", "recycled"} /\ caller.resp = "answer"
  IN
  /\ \E r \in {caller.resp} \cup (IF tainted THEN {"stale"} ELSE {}) :
       stack' = [stack EXCEPT ![g] =
                   <<[caller EXCEPT !.pc = IF failed THEN "rejected" ELSE "store", !.resp = r]>>]
  /\ count' = count - 1

\* Mutant of Return: a subquery's result is sent to the client too.
ReturnAnswering(g, resp) ==
  \/ /\ Len(stack[g]) = 2
     /\ ReturnToDNS64(g, resp)
     /\ answers' = [answers EXCEPT ![g] = IF resp = "nil" THEN @ ELSE @ + 1]
  \/ /\ Len(stack[g]) = 1
     /\ stack' = [stack EXCEPT ![g] = <<>>]
     /\ count' = count - Released(g)
     /\ answers' = [answers EXCEPT ![g] = IF Top(g).client = "local_doh" /\ resp # "nil"
                                            THEN @ + 1 ELSE @]

Return(g, resp) ==
  \/ /\ Len(stack[g]) = 2
     /\ ReturnToDNS64(g, resp)
     /\ UNCHANGED answers
  \/ /\ Len(stack[g]) = 1
     /\ stack' = [stack EXCEPT ![g] = <<>>]
     /\ count' = count - Released(g)
     /\ answers' = [answers EXCEPT ![g] = IF Top(g).client = "local_doh" /\ resp # "nil"
                                            THEN @ + 1 ELSE @]

\* The query is read from the connection or the HTTP request, or it is not
\* before the deadline.
Read(g) ==
  /\ Running(g, "reading")
  /\ \/ g \notin Silent /\ Continue(g, [Top(g) EXCEPT !.pc = "plugins"])
     \/ Return(g, "nil")
  /\ UNCHANGED cache

-----------------------------------------------------------------------------
(***************************************************************************)
(* ApplyQueryPlugins.  Plugins before the cache (captive portals, names,   *)
(* cloaking...) or after it (unqualified and undelegated names) may answer *)
(* the query; so does a fresh cache entry, whatever the server's state.    *)
(***************************************************************************)
Synthesize(g) ==
  /\ Running(g, "plugins")
  /\ Continue(g, [Top(g) EXCEPT !.pc = "deliver", !.resp = "synth"])
  /\ UNCHANGED cache

Hit(key) == cache[key] \in {"fresh", "recycled"}

CacheHit(g) ==
  /\ Running(g, "plugins") /\ Hit(Top(g).key)
  /\ Continue(g, [Top(g) EXCEPT !.pc = "deliver",
                                !.resp = IF cache[Top(g).key] = "fresh" THEN "cached"
                                                                        ELSE "recycled"])
  /\ UNCHANGED cache

\* PluginForward queries the forwarder, in the listener's own thread too.
ForwardStart(g) ==
  /\ Running(g, "plugins") /\ Top(g).key = "corp"
  /\ Continue(g, [Top(g) EXCEPT !.pc = "forward"])
  /\ UNCHANGED cache

Forward(g) ==
  /\ Running(g, "forward")
  /\ \/ Continue(g, [Top(g) EXCEPT !.pc = "deliver", !.resp = "synth"])
     \/ Return(g, "nil")
  /\ UNCHANGED cache

\* Encrypt: a query that cannot be padded for UDP is sent over TCP, and one
\* that cannot be padded for TCP is given up.
Encrypted(f) ==
  {[f EXCEPT !.pc = "tcp", !.proto = "tcp"]} \cup
  (IF f.proto = "udp" THEN {[f EXCEPT !.pc = "udp"]} ELSE {})

\* No plugin answers: the query goes to the server getOne has chosen, unless
\* only cached responses may be served, there is no live server, the query
\* cannot be encrypted, or the ODoH target has no key.
Miss(g) ==
  /\ Running(g, "plugins") /\ Top(g).key # "corp" /\ ~Hit(Top(g).key)
  /\ IF Top(g).onlyCached
       THEN Return(g, "nil")
       ELSE \E server \in Servers :
              LET f == [Top(g) EXCEPT !.server = server,
                                      !.stale = cache[Top(g).key] = "expired"] IN
              \/ server = "none" /\ Return(g, "nil")
              \/ server = "DNSCrypt" /\ Return(g, "nil")
              \/ server = "DNSCrypt" /\ \E e \in Encrypted(f) : Continue(g, e)
              \/ server = "DoH" /\ Continue(g, [f EXCEPT !.pc = "doh"])
              \/ server = "ODoH" /\ Return(g, "nil")
              \/ server = "ODoH" /\ Continue(g, [f EXCEPT !.pc = "odoh"])
  /\ UNCHANGED cache

-----------------------------------------------------------------------------
(***************************************************************************)
(* The exchanges.  A failed one leaves nothing, or the bytes that did not  *)
(* decrypt.                                                                *)
(***************************************************************************)
Answered(f) == {[f EXCEPT !.pc = "received", !.resp = r] : r \in FromServer}
Failed(f)   == {[f EXCEPT !.pc = "failed", !.resp = r] : r \in {"nil", "bad"}}

\* Mutant of RetryOverTCP: a truncated response is good enough.
RetryOverTCPNot(g, f) == Continue(g, [f EXCEPT !.pc = IF f.resp = "truncated" THEN "received" ELSE "tcp"])

\* The query is encrypted again, and sent over TCP if that worked.
RetryOverTCP(g, f) == \/ Continue(g, [f EXCEPT !.pc = "tcp", !.proto = "tcp"])
                      \/ Return(g, f.resp)

(***************************************************************************)
(* exchangeWithUDPServer.  A deadline is set once for both tries: when the *)
(* first read times out the second write fails at once with a timeout, and *)
(* the query goes over TCP.  After another error (the server's host is not *)
(* listening) it is sent again; when the second read fails as well, what   *)
(* is decrypted is an empty buffer, which is not a timeout.                *)
(***************************************************************************)
ExchangeUDP(g) ==
  LET f == Top(g) IN
  /\ Running(g, "udp") \/ Running(g, "udpAgain")
  /\ \/ \E r \in Answered(f) : IF r.resp = "truncated" THEN RetryOverTCP(g, r) ELSE Continue(g, r)
     \/ \E r \in Failed(f) : Continue(g, r)
     \/ f.pc = "udp" /\ RetryOverTCP(g, f)
     \/ f.pc = "udp" /\ Continue(g, [f EXCEPT !.pc = "udpAgain"])
  /\ UNCHANGED cache

ExchangeTCP(g) ==
  /\ Running(g, "tcp")
  /\ \E r \in Answered(Top(g)) \cup Failed(Top(g)) : Continue(g, r)
  /\ UNCHANGED cache

\* Without a complete TLS handshake, a stale response is preferred even if
\* there was no error.
ExchangeDoH(g) ==
  /\ Running(g, "doh")
  /\ \/ \E r \in Answered(Top(g)) : Continue(g, r)
     \/ Continue(g, [Top(g) EXCEPT !.pc = "failed"])
     \/ Top(g).stale /\ Continue(g, [Top(g) EXCEPT !.pc = "received", !.resp = "stale"])
  /\ UNCHANGED cache

\* A target that has changed its key answers 401: its key is fetched again,
\* and the query is lost.
ExchangeODoH(g) ==
  /\ Running(g, "odoh")
  /\ \/ \E r \in Answered(Top(g)) : Continue(g, r)
     \/ \E pc \in {"failed", "keyUpdate"} : Continue(g, [Top(g) EXCEPT !.pc = pc])
  /\ UNCHANGED cache



KeyUpdate(g) == Running(g, "keyUpdate") /\ Return(g, "nil") /\ UNCHANGED cache

\* Mutant of ServeStale: only DNSCrypt servers have a fallback.
ServeStaleDNSCrypt(g) ==
  /\ Running(g, "failed")
  /\ IF Top(g).stale /\ Top(g).server = "DNSCrypt"
       THEN Continue(g, [Top(g) EXCEPT !.pc = "received", !.resp = "stale"])
       ELSE Return(g, Top(g).resp)
  /\ UNCHANGED cache

\* After a failed exchange with a DNSCrypt or a DoH server, the expired
\* cache entry found by PluginCache takes the place of the response.
ServeStale(g) ==
  /\ Running(g, "failed")
  /\ IF Top(g).stale /\ Top(g).server # "ODoH"
       THEN Continue(g, [Top(g) EXCEPT !.pc = "received", !.resp = "stale"])
       ELSE Return(g, Top(g).resp)
  /\ UNCHANGED cache

-----------------------------------------------------------------------------
(***************************************************************************)
(* ApplyResponsePlugins and the end of processIncomingQuery.               *)
(***************************************************************************)

\* A response that does not unpack is returned, unless it is truncated; a
\* truncated one that does not unpack skips the plugins.  The others may be
\* blocked, which ends the pipeline before the cache.  PluginDNS64 looks for
\* other records when a response to an AAAA question has no AAAA record.
Received(g) ==
  LET f == Top(g) IN
  /\ Running(g, "received")
  /\ \/ f.resp = "bad" /\ Return(g, "bad")
     \/ f.resp = "truncated" /\ Continue(g, [f EXCEPT !.pc = "deliver"])
     \/ f.resp # "bad" /\ Continue(g, [f EXCEPT !.pc = "store"])
     \/ f.resp # "bad" /\ Continue(g, [f EXCEPT !.pc = "deliver", !.resp = "synth"])
     \/ /\ f.resp # "bad" /\ DNS64 /\ f.key = "AAAA"
        /\ Continue(g, [f EXCEPT !.pc = "noAAAA"])
  /\ UNCHANGED cache

\* Mutant of DNS64Start: the subquery waits for a slot.
DNS64StartWaiting(g) ==
  /\ Running(g, "noAAAA") /\ SlotFree
  /\ stack' = [stack EXCEPT ![g] = <<[@[1] EXCEPT !.pc = "dns64"],
                                     NewFrame("trampoline", "A", FALSE, "plugins")>>]
  /\ count' = count + 1
  /\ UNCHANGED <<cache, answers>>

\* PluginDNS64 then runs a subquery for the A record, in a slot of its own;
\* the response is rejected when there is none.
DNS64Start(g) ==
  /\ Running(g, "noAAAA")
  /\ \/ /\ SlotFree
        /\ stack' = [stack EXCEPT ![g] = <<[@[1] EXCEPT !.pc = "dns64"],
                                           NewFrame("trampoline", "A", FALSE, "plugins")>>]
        /\ count' = count + 1
        /\ UNCHANGED answers
     \/ /\ ~SlotFree
        /\ Continue(g, [Top(g) EXCEPT !.pc = "rejected"])
  /\ UNCHANGED cache

\* A response plugin failed: the response is returned, but not sent.
Rejected(g) == Running(g, "rejected") /\ Return(g, Top(g).resp) /\ UNCHANGED cache

\* The sieve (go-sieve, vendored) replaces the entry of a key, or evicts some
\* other entry when it is full: which one depends on the visits.
Stored(key, state) ==
  LET used == {k \in Keys : cache[k] # "none"} \ {key}
      with == [cache EXCEPT ![key] = state]
  IN  IF Cardinality(used) < CacheSize THEN {with}
                                       ELSE {[with EXCEPT ![k] = "none"] : k \in used}

\* PluginCacheResponse.  A stale response is stored like any other, for
\* cache_min_ttl at least.
Store(g) ==
  LET f == Top(g) IN
  /\ Running(g, "store")
  /\ IF f.resp \in {"answer", "stale"}
       THEN cache' \in Stored(f.key, IF f.resp = "answer" THEN "fresh" ELSE "recycled")
       ELSE UNCHANGED cache
  /\ Continue(g, [f EXCEPT !.pc = "deliver"])

\* The response is written to a UDP or a TCP client, and returned.  A
\* response too large for UDP is replaced by an empty truncated one, unless
\* it does not unpack.
Deliver(g) ==
  LET f == Top(g) IN
  /\ Running(g, "deliver")
  /\ \/ /\ f.client \in {"udp", "tcp"}
        /\ stack' = [stack EXCEPT ![g] = <<>>]
        /\ count' = count - Released(g)
        /\ answers' = [answers EXCEPT ![g] = @ + 1]
     \/ f.client = "udp" /\ f.resp = "truncated" /\ Return(g, "nil")
     \/ f.client \in {"local_doh", "trampoline"} /\ Return(g, f.resp)
  /\ UNCHANGED cache

\* An entry's expiration passes.
Expire(key) ==
  /\ Hit(key)
  /\ cache' = [cache EXCEPT ![key] = "expired"]
  /\ UNCHANGED <<count, stack, answers>>

-----------------------------------------------------------------------------
Init == /\ count = 0
        /\ stack = [g \in Procs |-> <<>>]
        /\ cache = [k \in Keys |-> "none"]
        /\ answers = [g \in Procs |-> 0]

Step(g) == \/ Read(g) \/ Synthesize(g) \/ CacheHit(g) \/ ForwardStart(g) \/ Forward(g)
           \/ Miss(g) \/ ExchangeUDP(g) \/ ExchangeTCP(g) \/ ExchangeDoH(g) \/ ExchangeODoH(g)
           \/ KeyUpdate(g) \/ ServeStale(g) \/ Received(g) \/ DNS64Start(g) \/ Rejected(g)
           \/ Store(g) \/ Deliver(g)

Next == \/ \E g \in Procs : Step(g)
        \/ \E key \in Keys : UDPListener(key) \/ Expire(key)
        \/ \E g \in Goroutines, client \in Accepted, key \in Keys : Accept(g, client, key)

Spec == Init /\ [][Next]_vars

\* A goroutine that can run eventually does, and every exchange, read and
\* write has a deadline.
FairSpec == Spec /\ \A g \in Procs : WF_vars(Step(g))

-----------------------------------------------------------------------------
Frames == {f \in Procs \X {1, 2} : f[2] <= Len(stack[f[1]])}

\* The activations that hold a slot: the listener's own do not.
Held == {f \in Frames : f[1] # Listener}

\* The variables have the types of the code's, and only DNS64 nests
\* activations of processIncomingQuery.
TypeOK ==
  /\ count \in 0..MaxClients
  /\ \A g \in Procs : /\ stack[g] \in Seq(Frame)
                      /\ Len(stack[g]) <= 2
                      /\ Len(stack[g]) = 2 <=> stack[g] # <<>> /\ stack[g][1].pc = "dns64"
  /\ cache \in [Keys -> CacheStates]
  /\ answers \in [Procs -> Nat]

\* Every activation of processIncomingQuery but those of the listener holds
\* exactly one slot of the client limit (proxy.go:622-642), whatever path its
\* goroutine or its subquery takes: none is leaked and none given back twice.
SlotsExact == count = Cardinality(Held)

Pool == INSTANCE SlotPool WITH Workers <- Goroutines, held <- Held

\* The queries of clients and the subqueries of DNS64 take and give back the
\* slots of a pool of max_clients one at a time, an inner one before its
\* caller's, and never more than there are (proxy.go:622-642).
ImplementsPool == Pool!PoolSpec

\* A client never gets two answers to a query, whatever subqueries, retries
\* and stale responses it took (proxy.go:872-900, local-doh.go:67-96).
OneAnswer == \A g \in Procs : answers[g] <= 1

\* A truncated response a DNSCrypt server gave over UDP goes no further: the
\* query is sent again over TCP (proxy.go:708).
TruncatedOnlyOverTCP ==
  \A f \in Frames :
    LET frame == stack[f[1]][f[2]] IN
    /\ frame.server = "DNSCrypt" /\ frame.resp = "truncated"
    /\ frame.pc \in {"received", "noAAAA", "dns64", "rejected", "store", "deliver"}
    => frame.proto = "tcp"

\* Once an exchange with a DNSCrypt or a DoH server has failed and the cache
\* had an expired entry for the question, the client gets an answer, unless
\* DNS64 looks for other records (proxy.go:727, 750; ChangeLog:236: "during
\* temporary network outages, cached records are now served even if they are
\* stale").
OutageServesStale ==
  [][\A g \in Procs :
       LET f == stack[g][1] IN
       /\ stack[g] # <<>> /\ stack'[g] = <<>>
       /\ f.stale /\ (f.pc = "failed" \/ f.resp = "stale")
       /\ f.server # "ODoH" /\ ~(DNS64 /\ f.key = "AAAA")
       => answers'[g] = 1]_vars

\* Every query ends: in particular, a subquery never waits for a slot, which
\* its own caller may hold, or other clients always be the first to take
\* (plugin_dns64.go:93).
QueriesEnd == \A g \in Procs : stack[g] # <<>> ~> stack[g] = <<>>

-----------------------------------------------------------------------------
(***************************************************************************)
(* What a document or a comment says and the code does not do: no run      *)
(* checks these, and each has a counterexample (see the README).           *)
(***************************************************************************)

\* A cache hit is never made of data that has outlived its time in the cache
\* (example-dnscrypt-proxy.toml:426: "Maximum TTL for cached entries").
NoExpiredHit == \A f \in Frames : stack[f[1]][f[2]].resp # "recycled"

\* The overloaded UDP listener waits for nobody: it answers "only to
\* cached/synthesized queries" (proxy.go:413).
ListenerNeverWaits == ~Running(Listener, "forward")

\* When the proxy is overloaded, "non-cached queries are delayed"
\* (ChangeLog:74): the listener is not done with a query until it is answered.
OverloadDelays ==
  [][stack[Listener] # <<>> /\ stack'[Listener] = <<>> => answers'[Listener] = 1]_vars

\* A query that got no response over UDP has been sent over UDP again before
\* the proxy turns to TCP ("Retry on timeout", proxy.go:575).
RetriedOnTimeout ==
  [][\A g \in Procs :
       Running(g, "udp") /\ Running(g, "tcp")' => Top(g)'.resp = "truncated"]_vars
=============================================================================
