------------------------------ MODULE Sources ------------------------------
(***************************************************************************)
(* The signed lists of servers (sources.go): the cache files and their     *)
(* signatures, their download, and the loop that keeps them up to date     *)
(* (config.go loadSource, proxy.go StartProxy), with crashes, write errors *)
(* and outages.                                                            *)
(*                                                                         *)
(* A list is its version; a signature verifies one version.  Time is what  *)
(* remains until a source is due, a file's age and what is left of a       *)
(* sleep; it passes while the loop sleeps.  All the URLs of a source give  *)
(* the version last published, or fail: the loop over them succeeds if one *)
(* of them does.                                                           *)
(***************************************************************************)
EXTENDS Integers, FiniteSets

CONSTANTS NumSources,   \* the sources are 1..NumSources, in the order of the list
          WithURLs,     \* those that have URLs
          MinInterval,  \* MinimumPrefetchInterval
          Prefetch,     \* DefaultPrefetchDelay
          CacheTTL,     \* refresh_delay
          MaxVersion,   \* bound on publications
          MaxCrashes,   \* bound on crashes
          Damaged       \* the sources whose cache files may get corrupted

ASSUME SourcesAssumption ==
  /\ NumSources \in Nat \ {0} /\ WithURLs \subseteq 1..NumSources
  /\ {MinInterval, Prefetch, CacheTTL, MaxVersion, MaxCrashes} \subseteq Nat
  /\ 0 < MinInterval /\ MinInterval <= Prefetch /\ Prefetch <= CacheTTL /\ 0 < MaxVersion
  /\ Damaged \subseteq 1..NumSources

Src == 1..NumSources

Absent == 0    \* an absent file, an empty list
Junk == -1     \* a damaged one
Unset == -1    \* a zero refresh time

VARIABLES published,  \* the version the URLs give
          file,       \* each source's cache: list, signature, age
          kept,       \* whether the cache has ever been valid (history)
          mem,        \* source.bin
          refresh,    \* what remains until source.refresh
          pc, booting, cur, got, interval,  \* the loop, the source at hand, its download
          failed,     \* the sources whose prefetch failed in this pass (history)
          crashes

files == <<file, kept>>
sourcesVars == <<published, files, mem, refresh, pc, booting, cur, got, interval, failed, crashes>>

Valid(f) == f.bin > 0 /\ f.bin = f.sig

\* Writing a cache file keeps track of its having been valid.
SetFile(s, f) == /\ file' = [file EXCEPT ![s] = f]
                 /\ kept' = [kept EXCEPT ![s] = @ \/ Valid(f)]

SourcesInit ==
  /\ published = 1
  /\ file \in [Src -> {[bin |-> v, sig |-> v, age |-> a] : v \in {Absent, 1}, a \in {0, CacheTTL}}]
  /\ kept = [s \in Src |-> Valid(file[s])]
  /\ mem = [s \in Src |-> Absent]
  /\ refresh = [s \in Src |-> Unset]
  /\ pc = "down" /\ booting = TRUE /\ cur = 1 /\ got = Absent /\ interval = 0
  /\ failed = {} /\ crashes = 0

-----------------------------------------------------------------------------
(***************************************************************************)
(* A pass over the sources: loadSource for each when the proxy starts,     *)
(* PrefetchSources afterwards.                                             *)
(***************************************************************************)
Start == /\ pc = "down"
         /\ pc' = "pass" /\ booting' = TRUE /\ cur' = 1
         /\ mem' = [s \in Src |-> Absent]
         /\ refresh' = [s \in Src |-> Unset]
         /\ UNCHANGED <<published, files, got, interval, failed, crashes>>

\* A source whose cache has to be read.  One without URLs never is again.
Due(s) == booting \/ refresh[s] = 0

\* The next source.  After the last one, the proxy is started, or sleeps.
Pass ==
  /\ pc = "pass"
  /\ \/ cur <= NumSources /\ Due(cur) /\ pc' = "load" /\ UNCHANGED <<booting, cur, interval, failed>>
     \/ cur <= NumSources /\ ~Due(cur) /\ cur' = cur + 1 /\ UNCHANGED <<pc, booting, interval, failed>>
     \/ /\ cur > NumSources /\ booting
        /\ booting' = FALSE /\ cur' = 1 /\ interval' = MinInterval /\ failed' = {}
        /\ UNCHANGED pc
     \/ /\ cur > NumSources /\ ~booting
        /\ pc' = "sleep"
        /\ UNCHANGED <<booting, cur, interval, failed>>
  /\ UNCHANGED <<published, files, mem, refresh, got, crashes>>

\* What the delays of the sources make of the loop's interval.
Shorter(delay) ==
  IF delay >= MinInterval /\ (interval = MinInterval \/ interval > delay) THEN delay ELSE interval

Succeed(delay) == /\ pc' = "pass" /\ cur' = cur + 1
                  /\ interval' = IF booting THEN interval ELSE Shorter(delay)
                  /\ UNCHANGED <<booting, failed>>

\* Mutant of Fail: a source that cannot be loaded is skipped at startup.
FailSkipping(list) ==
  /\ pc' = "pass" /\ cur' = cur + 1
  /\ failed' = IF booting THEN failed ELSE failed \cup {cur}
  /\ UNCHANGED <<booting, interval>>

\* The proxy does not start without a list; later on the list it has is kept.
Fail(list) == /\ IF booting /\ list = Absent THEN pc' = "down" /\ UNCHANGED cur
                                           ELSE pc' = "pass" /\ cur' = cur + 1
              /\ failed' = IF booting THEN failed ELSE failed \cup {cur}
              /\ UNCHANGED <<booting, interval>>

-----------------------------------------------------------------------------
(***************************************************************************)
(* fetchWithCache.                                                         *)
(***************************************************************************)

\* Mutant of Cached: an expired cache is not used.
CachedFresh(f) == Valid(f) /\ f.age < CacheTTL

\* Whether the list is taken from the cache.
Cached(f) == Valid(f)

\* fetchFromCache's result: the time before the next download.
FreshFor(f) == IF Cached(f) /\ f.age < CacheTTL THEN Prefetch - f.age ELSE 0

\* The cache is read and its signature checked.  A source without URLs has
\* nothing else; one whose cache is fresh needs nothing else.
Load ==
  LET f == file[cur] IN
  /\ pc = "load"
  /\ mem' = IF Cached(f) THEN [mem EXCEPT ![cur] = f.bin] ELSE mem
  /\ IF cur \notin WithURLs
       THEN (IF Cached(f) THEN Succeed(0) ELSE Fail(mem'[cur])) /\ UNCHANGED refresh
     ELSE IF FreshFor(f) > 0
       THEN Succeed(0) /\ refresh' = [refresh EXCEPT ![cur] = FreshFor(f)]
     ELSE /\ pc' = "download" /\ refresh' = [refresh EXCEPT ![cur] = MinInterval]
          /\ UNCHANGED <<booting, cur, interval, failed>>
  /\ UNCHANGED <<published, files, got, crashes>>

\* Some URL gives a list and its signature, and they match.  The cache is
\* written if the list is not the one in memory.
Downloaded ==
  /\ pc = "download"
  /\ got' = published
  /\ pc' = IF mem[cur] = published THEN "touch" ELSE "commitBin"
  /\ UNCHANGED <<published, files, mem, refresh, booting, cur, interval, failed, crashes>>

\* Mutant of NotDownloaded: the source is not due again.
NotDownloadedEver ==
  /\ pc = "download"
  /\ Fail(mem[cur])
  /\ refresh' = [refresh EXCEPT ![cur] = Unset]
  /\ UNCHANGED <<published, files, mem, got, crashes>>

NotDownloaded ==
  /\ pc = "download"
  /\ Fail(mem[cur])
  /\ UNCHANGED <<published, files, mem, refresh, got, crashes>>

\* writeSource: each file replaces the former atomically, one after the other,
\* and either may fail.
Commit ==
  /\ \/ /\ pc = "commitBin"
        /\ SetFile(cur, [file[cur] EXCEPT !.bin = got, !.age = 0]) /\ pc' = "commitSig"
     \/ /\ pc = "commitSig"
        /\ SetFile(cur, [file[cur] EXCEPT !.sig = got]) /\ pc' = "touch"
     \/ pc \in {"commitBin", "commitSig"} /\ pc' = "touch" /\ UNCHANGED files
  /\ UNCHANGED <<published, mem, refresh, booting, cur, got, interval, failed, crashes>>

\* updateCache's end: the file is touched, which may fail, and the list used.
Touch ==
  /\ pc = "touch"
  /\ UNCHANGED files \/ (file[cur].bin # Absent /\ SetFile(cur, [file[cur] EXCEPT !.age = 0]))
  /\ mem' = [mem EXCEPT ![cur] = got]
  /\ refresh' = [refresh EXCEPT ![cur] = Prefetch]
  /\ got' = Absent
  /\ Succeed(Prefetch)
  /\ UNCHANGED <<published, crashes>>

-----------------------------------------------------------------------------
\* The loop sleeps for the interval; one unit of time passes.
Sleep ==
  /\ pc = "sleep"
  /\ interval' = IF interval > 1 THEN interval - 1 ELSE MinInterval
  /\ refresh' = [s \in Src |-> IF refresh[s] > 0 THEN refresh[s] - 1 ELSE refresh[s]]
  /\ file' = [s \in Src |-> [file[s] EXCEPT !.age = IF @ < CacheTTL THEN @ + 1 ELSE @]]
  /\ IF interval > 1 THEN UNCHANGED <<pc, cur, failed>>
                     ELSE pc' = "pass" /\ cur' = 1 /\ failed' = {}
  /\ UNCHANGED <<published, kept, mem, booting, got, crashes>>

\* The process dies, anywhere.
Crash ==
  /\ pc # "down" /\ crashes < MaxCrashes
  /\ crashes' = crashes + 1
  /\ pc' = "down" /\ got' = Absent /\ booting' = TRUE /\ cur' = 1 /\ interval' = 0 /\ failed' = {}
  /\ UNCHANGED <<published, files, mem, refresh>>

Publish == /\ published < MaxVersion
           /\ published' = published + 1
           /\ UNCHANGED <<files, mem, refresh, pc, booting, cur, got, interval, failed, crashes>>

\* Something else damages a cache file.
Corrupt(s) == /\ file[s].bin > 0
              /\ file' = [file EXCEPT ![s].bin = Junk]
              /\ UNCHANGED <<published, kept, mem, refresh, pc, booting, cur, got, interval, failed, crashes>>

Step == Start \/ Pass \/ Load \/ NotDownloaded \/ Commit \/ Touch \/ Sleep

SourcesNext == Step \/ Downloaded \/ Crash \/ Publish \/ \E s \in Damaged : Corrupt(s)

SourcesSpec == SourcesInit /\ [][SourcesNext]_sourcesVars

\* The loop goes on, the service manager starts the proxy again, and a
\* source that is downloaded again and again is not out of reach forever.
FairSourcesSpec ==
  /\ SourcesSpec
  /\ WF_sourcesVars(Step \/ Downloaded)
  /\ \A s \in WithURLs : SF_sourcesVars(cur = s /\ Downloaded)

-----------------------------------------------------------------------------
\* The variables have the types of the code's.  The lists in memory, in
\* particular, are published ones: nothing unsigned is ever loaded, whatever
\* the files hold (sources.go:63, 173).
SourcesTypeOK ==
  /\ published \in 1..MaxVersion
  /\ file \in [Src -> [bin : Junk..published, sig : 0..published, age : 0..CacheTTL]]
  /\ mem \in [Src -> 0..published]
  /\ refresh \in [Src -> {Unset} \cup 0..Prefetch]
  /\ pc \in {"down", "pass", "load", "download", "commitBin", "commitSig", "touch", "sleep"}
  /\ booting \in BOOLEAN /\ cur \in 1..(NumSources + 1) /\ got \in 0..published
  /\ interval \in 0..Prefetch /\ failed \subseteq Src /\ crashes \in 0..MaxCrashes

\* Once the proxy has started, every source has a list, whatever happens to
\* the network and to the cache files (config.go:955, sources.go:179).
RunningHasLists == ~booting => \A s \in Src : mem[s] # Absent

\* The proxy starts without a network as long as its caches are intact, however
\* old they are: it only gives up on a source whose cache is missing or does
\* not verify (config.go:955).
StartsFromCache ==
  [][pc' = "down" /\ crashes' = crashes /\ pc # "down" => ~Valid(file[cur])]_sourcesVars

\* Every version published reaches the memory of every source that has URLs,
\* unless a later one does first, provided that the proxy can start: the sources
\* without URLs have their lists (proxy.go:275).
UpdatesArrive ==
  \A s \in WithURLs, v \in 1..MaxVersion :
    published = v /\ (\A u \in Src \ WithURLs : Valid(file[u])) ~> mem[s] >= v

-----------------------------------------------------------------------------
(***************************************************************************)
(* What a document or a comment says and the code does not do: no run      *)
(* checks these, and each has a counterexample (see the README).           *)
(***************************************************************************)

\* A source whose prefetch failed "will retry in" the shortest interval
\* (sources.go:238, whose interval is still MinimumPrefetchInterval when the
\* first source fails).
RetryPromised == pc = "sleep" /\ 1 \in failed => interval <= MinInterval

\* "A corrupted or incomplete resolvers list is now ignored, keeping the last
\* good known cached list" (ChangeLog:286): a proxy that starts finds the
\* cache its predecessors have kept.
KeepsLastGood == pc = "down" => \A s \in Src : kept[s] => Valid(file[s])

\* A cache file expires "after `refresh_delay` hours", whose minimum "avoids
\* unnecessary requests" (example-dnscrypt-proxy.toml:705-707): it is not
\* downloaded again before.
RefreshDelayHonoured == pc = "download" => ~(Valid(file[cur]) /\ file[cur].age < CacheTTL)
=============================================================================
