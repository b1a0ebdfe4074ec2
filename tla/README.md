# A verification of dnscrypt-proxy in TLA+

dnscrypt-proxy is a local DNS proxy. It answers the queries of local clients
from its plugins and its cache, or exchanges them with servers over DNSCrypt,
DNS-over-HTTPS (DoH) or Oblivious DoH (ODoH), possibly through relays. This directory
models the parts of it where goroutines, timeouts, files and rules interact.
TLC checks the models on small instances, and TLAPS proves the central theorems for
all instances. File names below are those of `src/dnscrypt-proxy/`.

## The system and its parts

| Part | Code | Modules |
|---|---|---|
| table of servers: registration, certificate refresh, load balancing | `serversInfo.go`, `proxy.go` | `ServersInfo`, `LoadBalancing` |
| queries: listeners, `processIncomingQuery`, exchanges, cache, DNS64, forwarding | `proxy.go`, `plugins.go`, `local-doh.go`, `plugin_cache.go`, `plugin_dns64.go`, `plugin_forward.go` | `QueryPath` |
| limit of concurrent clients | `proxy.go` | `ClientsCount`, `ClientSlots`, `SlotPool` |
| addresses of HTTPS hosts, bootstrap resolvers | `xtransport.go` | `XTransport` |
| signed lists of servers and their cache files | `sources.go`, `config.go` | `Sources` |
| fetch of a DNSCrypt server: its route through relays, the probes, the choice of a certificate | `serversInfo.go`, `dnsutils.go`, `dnscrypt_certs.go` | `FetchDNSCrypt`, made of `Routes`, `DNSExchange`, `DNSCryptCert` |
| keys of Oblivious DoH targets | `serversInfo.go`, `oblivious_doh.go`, `proxy.go` | `ObliviousDoH` |
| start-up: network probe, captive portals, listeners, change of user, sockets of systemd | `main.go`, `coldstart.go`, `netprobe_others.go`, `privilege_linux.go`, `systemd_linux.go`, `proxy.go` | `StartUp` |
| padding of queries and its estimator | `crypto.go`, `estimators.go` | `QuestionSize` |
| allow and block rules, schedules | `plugin_allow_*.go`, `plugin_block_*.go`, `time_ranges.go` | `Filters` |
| matching of names and addresses | `pattern_matcher.go`, `plugin_block_ip.go` | `PatternMatcher`, `IPMatcher`, `Tries`, `Matchers` |
| cloaked names | `plugin_cloak.go` | `Cloak` |

`PROJECT.json` lists all components, also those that are left out, maps each
definition to the lines it models, and lists the hazards of the code with the
properties that watch over them. `MC*` modules give small values to constants;
the `*Proof` modules hold the proofs.

How the parts interact: the start-up opens the sockets of the listeners (`StartUp`). A
query takes a slot (`QueryPath` uses an atomic counter, `ClientsCount` has its loops, and
both implement the same pool, `SlotPool`), goes through the plugins (`Filters`, `Cloak`, `PatternMatcher`,
`IPMatcher` look inside them), takes a server from the table (`ServersInfo`), is padded
(`QuestionSize`) and exchanged; one that an ODoH target refuses fetches its keys again
(`ObliviousDoH`). The table is filled from the lists (`Sources`) by fetches of
certificates through relays (`FetchDNSCrypt`) and by DoH fetches (`XTransport`).

## The modules

**ServersInfo.** `registered`, `inner` (the live servers) and the locals of the
goroutines: the refresh (a `snapshot` of the registered servers and one `task`
for each), the updater that registers what the lists say (`wanted`, `updater`), and
queries, which take a server, update its latency, and for ODoH may refresh it. Such a query
reads the stamp without the lock (`proxy.go:795`), so while a registration is in progress
`KeyUpdate` reads any stamp.
A task follows `refreshServer`: fetch without the lock, replace under the lock, and
if the name was absent append under a *second* lock and register. `LoadBalancing`
has the strategies and `estimatorUpdate`, its bubble pass given in
closed form; an assumption of `MCServersInfo` that TLC evaluates says that the loop of the
code computes it, on all lists of up to five servers with three latencies.

**QueryPath.** Each goroutine has a stack of activations of `processIncomingQuery`,
because DNS64 calls it again from a response plugin. An activation goes through query
plugins (hit, stale entry, forwarded, miss), the exchange of its protocol with all its
error paths, response plugins, and the answer. The overloaded UDP listener runs the
same steps without a slot. Goroutines in `Silent` have clients that connect, hold a slot and
send nothing until they are given up; they are there to use slots up.

**ClientsCount, ClientSlots, SlotPool.** The compare-and-swap loops of `clientsCountInc` and
`clientsCountDec`, load and swap being separate steps, with the counter's wrap-around.
`SlotPool` is what they promise: at most `max_clients` slots, taken and given back atomically,
two at most by a goroutine. `ClientSlots` adds what callers are told, and is what `ClientsCount`
implements. The frames of `QueryPath` that hold a slot are such a pool too (`ImplementsPool`).

**XTransport.** The cached address of one host with the time it has left, and calls of
`Fetch` which load it, ask the system or the bootstrap resolvers by index in a shared
list that others reorder, and save the result. Pinning by a stamp happens at any time.

**Sources.** For every source its two files, what is in memory and when it is due;
start-up, the prefetch loop, downloads that fail, commits that fail, crashes between
any two steps, and damage to the files.

**FetchDNSCrypt.** `fetchDNSCryptServerInfo` as a whole, in phases: `Routes` looks for
a relay, `DNSExchange` runs with it or without, `DNSCryptCert` chooses among the records of the
answer. `routed` remembers whether the server had a route. The three are components with their own
variables, which a phase hands to the next.

- **Routes.** `route()`: the route of the server or the wildcard one, its entries one by one (a
  name, a stamp or `*`) looked up among the relays, and the scan of `findFarthestRoute`, relay
  by relay. Relays are registered between the steps, except where the code holds the read lock.
- **DNSExchange.** The probes as goroutines that sleep, are answered or lost, and send into
  a buffered channel; the receiver, its fallback without the relay, and what
  `fetchDNSCryptServerInfo` makes of the result.
- **DNSCryptCert.** The loop over the records, with signatures and dates as fields.

**ObliviousDoH.** One target, which makes keys, shows some of them and refuses old ones, and the
goroutines that fetch its keys: the refresh, and queries that were refused. `fetchODoHTargetInfo`
goes through the keys shown, the two probes of each and its attempts; `Install` is the
replacement in `refreshServer`. A refusal reaches the proxy as the status 401 or as an empty
response, and an exchange that is cut has an empty body too, which forces a key update as
well. `since` remembers the oldest key that was accepted when the
fetch began.

**StartUp.** `main` up to `startAcceptingClients` on Linux. `table` has the
descriptors of the process and the sockets they stand for, so that `File` and
`dup2` are what they do; the copy that `FileListener` and `FilePacketConn` make is not counted
as a descriptor of its own, it takes the place of the one they are given. The captive portal listeners are goroutines that read
with a deadline and look at a channel; with a user name, the parent hands its
descriptors over by position and the program begins again as a child. Other programs take
and leave addresses, interfaces come up, and requests wait in sockets.

**QuestionSize.** `Encrypt`'s padding, with bytes so that unpadding is meaningful, the
estimator other queries adjust at any time, and the second attempt over TCP.

**Filters.** Sessions that go through allow name, block name, cache, and allow IP,
block name, block IP, cache on the response, while time passes; schedules are tables
of ranges as in `time_ranges.go`.

**PatternMatcher, IPMatcher, Matchers.** `Add` and `Eval` over strings as sequences, with
the longest-prefix lookup of the vendored tries in `Tries`. Globs are matched by
the lengths that each part of the pattern can reach (`Reached`), as `filepath.Match` does, whose
wildcards do not stand for a slash; the code's names may have one (`dnsutils.go:118`). Names are reversed for their suffixes as in the code. Each matcher has the documented
meaning of rules next to it, which knows nothing of types of patterns, tries or reversed names.
`Matchers` puts the two side by side: a file has rules for names or for addresses.

**Cloak.** Sessions that take the read lock, look the target up without it, refill the
entry under the write lock and read it after the lock is released. Sessions for other names and
other types of records take the read lock and leave (`Leave`). `overlapped` remembers
that another session has cleared the addresses during these reads.

## The runs

All runs pass, each within three minutes on two cores. A run has the name of its `.cfg`.

| Run | States | What it shows |
|---|---|---|
| `ServersInfo` | 70,488 | A refresh, a change of the lists, and a query that picks servers and forces key updates, at once. Live servers are unique and never lost; dates are checked once a refresh has found a server; active positions do not get slower. Refreshes end, and stamps that stay in the lists get used. |
| `QueryPath` | 128,758 | A goroutine, one with silent clients, and the listener; all clients, protocols, forwarding and DNS64: the count of slots is exact, one answer at most, truncated responses are asked for again over TCP, stale entries are served in an outage with DNSCrypt and DoH, and every query ends. |
| `ClientsCount` | 147,706 | Refinement of `ClientSlots`, lock-freedom. |
| `XTransport` | 199,898 | Two calls, pins and expirations: addresses are kept for the minimum time, lost only to a resolver that has responded without one, and calls end. |
| `Sources` | 196,415 | Three sources, one of a damaged file, one without URLs, a crash anywhere: a running proxy has its lists, intact caches are enough to start, and published lists arrive. |
| `FetchDNSCrypt` | 247,816 | A DNSCrypt or ODoH server with a route gets an error or a relay of the protocol it needs; with `skip_incompatible` a DNSCrypt server with a route is never used directly; the scan keeps the farthest relays; the judgement on fragments is right; the best usable certificate is chosen in any order of records; exchanges end and leave no probe behind. |
| `QuestionSize` | 13,308 | Right padding, retries over TCP fit. |
| `Filters` | 498,996 | Two sessions, the cache and schedules that change: what is blocked is neither served nor cached, a name blocked when it is asked for is not served. |
| `Matchers` | 11,410 | Names and addresses are rejected only for a rule that covers them, and with one suffix or prefix at most, none that is covered is missed, but for names with a slash where a glob covers them. |
| `Cloak` | 40,128 | Answers are complete unless a refresh overlaps the unlocked reads, and sessions end. |
| `StartUp` | 188,326 | Every listener has the socket of its address, the child's too; an address found in use is held by another program; addresses are reachable once the service manager has been told so; the start-up ends. |
| `ObliviousDoH` | 1,130,188 | What a fetch installs is a key that the target has accepted since it began; a key that has changed is replaced by the first query that uses it; forced updates end. |

More holds on the same instances, and can be added to the `.cfg` files. The type
invariants are `TypeOK`, or in modules that others are proved together with `SourcesTypeOK`,
`SizeTypeOK`, `CloakTypeOK` and `TransportTypeOK`. `LiveAreRegistered`,
`QueriesNeverAppend` and `ReadyOnlyWhenLive` (`ServersInfo`), `CountExact` and
`DecNeverAtZero` (`ClientsCount`), `FailsOnlyIfTooLong` (`QuestionSize`) and
`AllowedBypasses` (`Filters`) are proved as well. So are `ImplementsPool` (`QueryPath`), and the
definitions that the proof modules add: `StepsRunOut`, `SessionsAdvance`, `UpdatesAdvance`,
`FetchesAdvance` and `ChannelNeverBlocks` (see the proofs), which TLC has checked on these instances
too.

### Where code and documents disagree

The modules end with properties that state what a document, a comment or a message of
the repository says, and that the code does not satisfy. No run checks them. To see a
counterexample, add the property to the run's `.cfg`: as an INVARIANT, or as a PROPERTY
where the table says (P). What else is needed is in brackets. `toml` is
`example-dnscrypt-proxy.toml`, and line numbers without a file are those of the `.go` file
named in the last column.

| Run | Property | The statement | The code |
|---|---|---|---|
| `QueryPath` | `NoExpiredHit` | toml:426 "Maximum TTL for cached entries" | `plugin_cache.go:159`: a stale response that was served goes through the response plugins and is cached again as fresh |
| `QueryPath` | `ListenerNeverWaits` | `proxy.go`:413 "respond synchronously, but only to cached/synthesized queries" | `plugin_forward.go:105`: the overloaded listener waits for forwarders |
| `QueryPath` | `OverloadDelays` (P) | ChangeLog:73 "non-cached queries are delayed" | `proxy.go:683`: they are dropped |
| `QueryPath` | `RetriedOnTimeout` (P) | ChangeLog:234 "queries over UDP are retried after a timeout" | `proxy.go:559`: the deadline is set once, so after a timeout the second write fails |
| `XTransport` | `GraceIsShort` (P) | 458 "Using stale [%v] cached address for a grace period" | `xtransport.go:110`: the 15 minutes are raised to 12 hours |
| `XTransport` | `PinnedForever` (P) | `serversInfo.go`:669 "If an IP has been provided, use it forever." | `xtransport.go:474`: a resolution in progress overwrites it |
| `XTransport` | `DialHasAddress` | 154 "a cached entry must be present at this point" | `xtransport.go:465`: a response without an address leaves none |
| `Sources` | `RetryPromised` | 238 "Prefetching [%s] failed: %v, will retry in %v" | `sources.go:242`: a source downloaded later in the pass lengthens the interval |
| `Sources` | `KeepsLastGood` | ChangeLog:286 "keeping the last good known cached list until the next update" | `sources.go:98`: the list and its signature are committed one after the other |
| `Sources` | `RefreshDelayHonoured` | toml:705 "expiring after `refresh_delay` hours" | `sources.go:73`: the time left is computed from the prefetch delay of 24 hours |
| `FetchDNSCrypt` | `ThenThroughRelays` [`SkipIncompatible = FALSE`] | toml:857 "Actual queries will then always go through relays" | `serversInfo.go:593`: a server whose large probes were lost loses its relay |
| `FetchDNSCrypt` | `SkipsIncompatible` | toml:851 "Skip resolvers incompatible with anonymization instead of using them directly" | `serversInfo.go:594`: the setting is read for DNSCrypt servers only; a DoH server with a route is used directly |
| `FetchDNSCrypt` | `DistinctNetworks` | ChangeLog:94 "the proxy ensures that relays and servers are on distinct networks" | `serversInfo.go:415`: nearer relays stay among the candidates |
| `FetchDNSCrypt` | `AlwaysPicks` [two IPv6 relays and no IPv4 one] | toml:838 "the proxy automatically picks a relay on a distinct network" | `serversInfo.go:420`: with relays of the other family only, there is no candidate to draw from |
| `FetchDNSCrypt` | `StampsAccepted` | toml:821 "either a relay stamp, or a DNSCrypt stamp" | `serversInfo.go:458`: DNSCrypt stamps are refused |
| `Filters` | `AliasesBlocked` | ChangeLog:270 "Blacklisted names are now also blocked if they appear in `CNAME` pointers." | `plugin_allow_ip.go:118`: an allowed address lets them through |
| `Filters` | `AllowedIPsScheduled` (P) | toml:634 "Time-based rules are also supported" | `plugin_allow_ip.go:31`: schedules are not parsed, such lines match nothing |
| `Matchers` | `NamesComplete` [names of six characters, zones `*.b` and `*.b.b`] | `example-blocked-names.txt`:11 "matches example.com and all names within that zone" | `pattern_matcher.go:128`: a longer suffix that does not begin at a label hides a shorter one |
| `Matchers` | `StarsAnywhere` | `example-blocked-names.txt`:15 "*, ? and [] can be used anywhere" | `pattern_matcher.go:85`: `*b` is taken for the zone `b`, and misses the name `ab` |
| `Matchers` | `WildcardsStandForAll` | the same | `pattern_matcher.go:154`: the wildcards of `filepath.Match` stop at a slash, so `a*b` misses the name `a/b` |
| `Matchers` | `ValueOfTheRule` | toml:658 "to apply the pattern 'schedule_name' only when it matches a time range of that schedule" | `pattern_matcher.go:137`: the value is that of the first lookup, whose rule does not match |
| `Matchers` | `AddressesComplete` | toml:574 gives "127.*" as a pattern | `plugin_block_ip.go:112`: a longer prefix that ends within a number hides a shorter one |
| `Cloak` | `AnswersComplete` | toml:390 "Cloaking returns a predefined address for a specific name." | `plugin_cloak.go:195`: addresses are read after the lock is released |
| `Cloak` | `StaysCloaked` (P) | the same | `plugin_cloak.go:167`: with expired addresses, a failed lookup lets the query through |
| `ObliviousDoH` | `ForcedOnlyIfRefused` (P) | `proxy.go`:792 "ODoH relay for [%v] is buggy and returns a 200 status code instead of 401 after a key update" | `xtransport.go:614`: a body that cannot be read gives the status 200 without a body too, with a key that is accepted |
| `StartUp` | `UnassignedAccepted` | ChangeLog:110 "`listen_addresses` can now include IP addresses that haven't been assigned to an interface yet." | `proxy.go:151`: with a user name, the parent opens plain sockets, which need an assigned address |
| `StartUp` | `PortalNamesServed` | `example-captive-portals.txt`:9 "This is a list of hard-coded IP addresses that will be returned when queries for these names are received" | `netprobe_others.go:14`: with `netprobe_timeout = 0` the file is not read |

Three more were met while modelling and are stated by no property. `OutageServesStale`
excludes ODoH, whose branch (`proxy.go:768`) never looks at the stale response, and DNS64
queries, whose failed subquery drops it (`plugin_dns64.go:107`); ChangeLog:236 says
"during temporary network outages, cached records are now served even if they are stale".
The bootstrap resolver that worked is swapped to the front of the shared list without a
lock (`xtransport.go:387`), so a loop over it may pass over a resolver, where toml:265 says
"they will be tried in sequence". Hits skip the response plugins (`plugin_cache.go:99`),
so an alias that a schedule blocks now is served if it was cached before; toml:606 says
schedules "make some websites only accessible at specific times of the day".

### Bounds

- A goroutine and the listener (`QueryPath`), three workers for the counter, two calls of
  `Fetch`, two sessions, a refresh and a query: each race in the code is between two parties
  that share one variable, and the third worker of `ClientsCount` makes retries happen.
  `max_clients` is 2 in `QueryPath`, and a second goroutine has silent clients: a DNS64 subquery
  finds the last slot free or taken, as it happens. That the count of slots is exact with any number of
  goroutines is proved.
- Two servers and two stamps (`MaxUpdates = 1`), one of the servers known at the start:
  enough for a stamp to change during its own refresh. Latencies are
  0 or 1, or their average; `LoopIsBubblePass` covers longer lists and more latencies.
- Three sources (downloaded, downloaded with a file that gets damaged, local), two versions of a list,
  and one crash.
- Two tries, so four probes: the code has three tries, and both kinds can be lost or late.
  Addresses have two bits, and relays share one, none or another family with the server. Seven
  tables of routes have all kinds of entries. Answers have up to two records, with two
  serials, and dates before, at and after the present.
- Two keys and one configuration per answer (`ObliviousDoH`), so that a key is replaced
  during the fetch of its predecessor; an attempt is repeated once.
- Two listen addresses and one local DoH address (`StartUp`): the loops, the order of the
  descriptors and the base that they must stay below matter, and are the same for more.
- Time is counted in units which keep the order of the code's durations
  (`GraceTTL < MinTTL < SystemTTL`; `MinInterval < Prefetch < CacheTTL`), or relative to now.
- `QuestionSize` uses a block of 4 and packets of up to 12 bytes; the proofs do not
  depend on these numbers.
- Names of up to five characters over two letters and the dot, and three with a slash, with up
  to three rules of fourteen, of all types; addresses of three numbers, one of which begins with another. The
  proofs do not depend on these.
- `Filters` is symmetric in its sessions; its run does not check liveness, for which symmetry would
  not be sound.
- Runs that do not check deadlock are those whose system stops by design: a set of rules that is
  full (`Matchers`), and a start-up that failed or is over (`StartUp`).

### Fairness

Weak fairness of each goroutine's steps is what the Go scheduler gives, as long as system
calls return, which the code's timeouts ensure: goroutines of queries (`QueryPath`, `ClientsCount`,
`XTransport`, and `Serve` in `ObliviousDoH`), the loops and the probes of `FetchDNSCrypt`, and
the main goroutine and the captive portal listeners (`StartUp`). Strong fairness is assumed in three
places. A fetch of a server that is tried again and again succeeds at some time (`ServersInfo`,
for convergence only). A source that is downloaded again and again is not out of
reach for ever (`Sources`). A session that is offered the lock again and again gets it
(`Cloak`): `sync.RWMutex` blocks new readers while a writer waits, so neither side starves.
Nothing is assumed of clients, of other programs, of the passing of time, or of answers to
single packets.

## The proofs

Every safety property and every action property that a run checks is a theorem, and so is the part
of several liveness properties that needs no fairness.

| Module | About | Theorems |
|---|---|---|
| `ServersInfoProof` | `ServersInfo`, `LoadBalancing` | `TypeCorrect`, `NeverLiveTwice`, `AlwaysRegistered`, `NoAppendByQueries`, `ReadyMeansLive`, `TimestampsAreHonoured`, `NoServerLost`, `ActiveStayFast` |
| `QueryPathProof` | `QueryPath` | `SlotsExactTheorem`, `OneAnswerTheorem`, `TruncatedTheorem`, `OutageTheorem`, `PoolTheorem`, `StepsRunOutTheorem`, `TypeTheorem` |
| `LimitsProof` | `ClientsCount` | `TypeCorrect`, `CountIsExact`, `ZeroGuardUnused`, `Refinement` |
| | `QuestionSize` | `SizesCorrect`, `AlwaysPaddedRight`, `OnlyTooLongFail`, `RetriesFit` |
| | `XTransport` | `TransportTypeCorrect`, `KeptAtLeastMinTTL`, `OnlyLostToAnswers`, `FetchesAdvanceTheorem` |
| `ListsProof` | `Sources` | `SourcesTypeCorrect`, `AlwaysHasLists`, `GivesUpWithoutCache` |
| | `Filters` | `NeverServed`, `NotServedNow`, `NeverRejected` |
| `FetchDNSCryptProof` | `FetchDNSCrypt`, with `Routes`, `DNSExchange`, `DNSCryptCert` | `Anonymized`, `FarthestRelay`, `AlwaysThroughRelay`, `BlockedIsAllFailed`, `BestInEveryFetch`, `ChannelTheorem`, `TypeCorrect` |
| `CachesProof` | `Cloak` | `CloakTypeCorrect`, `AnswersAreComplete`, `SessionsAdvanceTheorem` |
| | `ObliviousDoH` | `KeysTypeCorrect`, `InstallsAcceptedTheorem`, `UpdatesAdvanceTheorem` |
| `MatchersProof` | `Matchers`, with `PatternMatcher`, `IPMatcher`, `Tries` | `RulesStored`, `RejectedOnlyByRules`, `NothingMissedWithOne` |
| `StartUpProof` | `StartUp` | `RightSocketsTheorem`, `ReadyTheorem`, `HandoverTheorem` |

Each theorem is about all values of the constants that satisfy the assumptions of the module,
which are the types of the settings and the facts named below. An inductive invariant was
checked with TLC on the run's instance before it was proved.

**ServersInfo.** That no server is live twice is not inductive: `refreshServer` appends
under another lock than the one under which it found the name absent. The invariant
`Consistent` adds why this is safe. The names of a snapshot are unique, so no two tasks
of a refresh have the same name. A task about to append has a name that is not live.
A query only refreshes a server that is live, so it never appends. For the dates of certificates
it says that, while they are ignored and a server is live, some task of the running refresh
has succeeded, so its end will restore the check. The theorems on the load balancer rest on
the lemma that the bubble pass moves an element by a bijection of positions, found with a
least-element argument on naturals. Assumptions: servers listed in the configuration under one
name have one stamp, at least one server is registered, the concurrency is positive.

**QueryPath.** Every step of a goroutine has one of four shapes: its activation goes on, ends with
its client, returns to DNS64, or starts a subquery. `Inv` says which stacks there are, that
the count is the number of frames that hold a slot, and what the response of a frame can be at
each place: a truncated one of a DNSCrypt server past its exchange came over TCP, a stale one appears
only after an exchange, and only DNS64 for an AAAA question rejects a response. Each shape keeps it,
and an activation that ends either answers or is one to which the promise for outages does
not apply. Each shape is also a step of `SlotPool` or leaves the slots alone, so the limit is
never exceeded, by subqueries either (`PoolTheorem`), and makes the rank of the goroutine smaller:
eleven times the distance of its first activation from the end, plus that of the subquery
(`StepsRunOutTheorem`), 121 steps in all at most. Assumption: finitely many goroutines.

**ClientsCount.** `Loops` adds what each loop has read and which slot it is about. The
refinement theorem maps the successful swap to the acquisition, and the failed load to the refusal.
Assumptions: finitely many goroutines, and a limit below the range of the counter.

**QuestionSize.** The invariant adds `Room`: a query that could be sent over UDP leaves room in the
largest packet, whatever the estimate was. Assumptions: the order of the size constants.

**XTransport.** `KeptLongEnough` relates the time an address has left to the time it has had, and
`CallOK` says where a call that swaps two resolvers without a lock is: the list keeps
its length, and its resolvers are those of the configuration though one may be
there twice. `FetchesAdvance` follows: a step goes to a later place of `Fetch`, to the next
source, or to a later position of the list, whatever others swap in it. Assumptions: the order of the times to live, and at least one bootstrap resolver.

**Sources.** `PassedHaveLists` says that a start has a list from each source that it has
passed, `DownloadIsList` that the steps between a download and its two commits have a list in hand, and
that a download that began with a valid cache has its list in memory. Assumption: the order of
the intervals.

**Filters.** `SessionOK` says at each step of a session what the filters before it have
established, and `CacheOK` the same of what is stored: nothing that is `Forbidden`, which a response
is when its name is never allowed, no address of it is allowed, and one of its aliases
or addresses is blocked at all times. Assumptions: answers are sequences of aliases and addresses.

**FetchDNSCrypt.** Each phase has an invariant. `RouteInv`: all candidates have the protocol that
the server needs, a relay is drawn from all of them only where the code does so, and the
relays that the scan has kept are comparable and not nearer than any it has passed. `ExchangeInv`:
no answer is lost between the probes, the channel and the loop, so when all large probes have
failed is known. `IndInv`: the highest serial is 0 until a record is chosen. `FetchInv` adds what a
phase hands to the next, in particular that a DNSCrypt server with a route starts its exchange
with a relay. `ExchangeInv` also counts what is in the channel: as many results as probes have
sent and the loop has not read, so a probe always finds room in the buffer, and the loop finds
something to read until it is over (`ChannelTheorem`). Assumptions: addresses of one size, and routes that are sequences of entries.

**Cloak.** `LockInv` says who holds the lock, `EntryInv` that addresses are missing only before
the first lookup and while a session with the lock replaces them, `ReadInv` that what a session
reads after it has released the lock is what it saw, until it is overlapped. With these, a session
takes thirteen steps at most, and there is always one that does not wait for the lock or can
have it (`SessionsAdvance`).

**ObliviousDoH.** The target does not accept again what it has refused, so a key accepted
during the fetch is at least `since` (`SinceInv`); nobody knows a key that is not made yet (`KnownInv`). `UpdatesAdvance` orders what is
left of a fetch: its part, its attempts, the configurations of the attempt, the probes of
the configuration.

**Matchers.** `NamesInv` and `AddressesInv` say that each table has the texts of the accepted patterns of
its type, and no others. What remains is about strings. `Reached` is shown to satisfy its
recursive equation, by taking the least length at which it would not; then a star at the end,
at the beginning or at both ends matches a prefix, an ending or a substring, by the same argument on
the number of characters compared. `ZoneReversed` says that a zone and the names in it are, reversed,
what begins with the reversed zone and goes on with a dot, and `ParentAligned` that the second
lookup of `Eval`, with the parent of the name, finds nothing that is not in the zone. A pattern whose
wildcards stop at slashes matches no more than one whose wildcards do not (`ReachedMonotone`), and the same
where there are none. Assumptions: rules and names are strings, rules have no classes of characters or
escapes, and empty lines are skipped.

**StartUp.** Sockets are known by positions. `ParentInv` and `ChildInv` say which endpoint each
position of the list of descriptors stands for, before, during and after the copies of
`dropPrivilege`; `PortalsInv` and `UnreachedInv` that a wanted endpoint not yet reached by the loops is
open in a captive portal listener only, and not at all once these have been waited for.
Assumptions: addresses are distinct, open files and the descriptor of the log are below the base.

Only model-checked: liveness under fairness (`RefreshTerminates`, `StampsConverge`, `QueriesEnd`,
`LockFree`, `FetchEnds`, `UpdatesArrive`, `ExchangeEnds`, `SessionsEnd`, `StartUpEnds`,
`KeyUpdated`, `UpdatesEnd`), which is beyond this prover. What is proved for five of them is the safety
part, that steps lead nearer to the end (`StepsRunOut` for `QueriesEnd`, `SessionsAdvance` for
`SessionsEnd`, `UpdatesAdvance` for `UpdatesEnd`, `FetchesAdvance` for `FetchEnds`) or that nothing
blocks (`ChannelNeverBlocks` for `ExchangeEnds`); that a step is enabled and taken is
TLC's part. That the loop of `estimatorUpdate` computes the closed form that the
proofs use is evaluated by TLC, as the assumption `LoopIsBubblePass`: it is an induction over lists.

## What the models leave out

- Relays are not in `ServersInfo`: they are registered in the same way and have no refresh.
  Latency measurements of failed exchanges are among the values of the estimator.
- `refresh`'s send to the error channel and the release of its concurrency slot are one step.
- A source that does not parse makes the updater return early; the models assume that signed lists
  keep parsing.
- `QueryPath`: only well-formed queries; prefixing a packet with its size cannot fail at the
  sizes that occur. A response that cannot be decrypted is passed on as "bad", as in the code.
- The cache updates the TTLs of records after they are shared (`plugin_cache.go:161`); TTLs are
  abstracted to fresh and expired, so this race is not visible.
- `XTransport`: one host, no HTTP/SOCKS proxies, no Alt-Svc cache, no rebuilding of the transport.
- `DNSCryptCert`: `ForwardSecurity` is never read by the code and is left out.
- `Filters`: forwarded responses skip the response plugins and are in `QueryPath`; errors of
  `NormalizeQName` cannot occur for names of unpacked messages.
- `PatternMatcher`: classes of characters (`[0-9]`) and escapes (`\`); patterns with one are assumed
  away, and the code makes globs of those with a class.
- `Cloak`: PTR records.
- `StartUp`: the options of sockets, the PID file, other systems than Linux; addresses do not overlap.
- `ObliviousDoH`: encryption and encoding, which are outcomes of an exchange.
- Not modelled at all: the configuration, stateless plugins (undelegated and unqualified names, IPv6, Firefox,
  EDNS), logs, the resolve command, and calls to the operating system. Reasons are in `PROJECT.json`.

## Plan

Done, in this order: the table of servers with its proofs, the query path and the
client limit with the refinement between them, transport, sources, probes, certificates,
padding, filters, matchers, routes, cloaking, start-up, keys of ODoH targets; then proofs of
the safety properties of each, the pool of slots as implemented by the query path, the matchers for all
strings, and the measures that steps decrease.

Next:

1. DNS64: synthesis of addresses and discovery of prefixes as pure operators.
2. The start-up as a composition of `Sources`, `ServersInfo` and `StartUp`.
3. The forwarding rules, the parser of lists, and the weekly ranges of the configuration.
