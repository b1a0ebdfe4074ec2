----------------------------- MODULE ListsProof -----------------------------
(***************************************************************************)
(* The lists of servers and the lists of rules, for any number of each: a  *)
(* proxy that runs has a list from every source whatever fails or crashes, *)
(* one that has found its caches starts from them, and no session serves   *)
(* what a rule forbids.                                                    *)
(*                                                                         *)
(* SourcesInv says which files and lists each step of a start or of an     *)
(* update may rely on; FiltersInv says, at each step of a session, what    *)
(* the filters it has passed have established.                             *)
(***************************************************************************)
EXTENDS Sources, Filters, TLAPS

-----------------------------------------------------------------------------
(***************************************************************************)
(* The lists of servers                                                    *)
(***************************************************************************)
Fetching == {"load", "download", "commitBin", "commitSig", "touch"}

\* The sources that a start has passed have their lists.
PassedHaveLists == booting /\ pc # "down" => \A s \in Src : s < cur => mem[s] # Absent

\* What is downloaded is a list, and a list that the cache has is in memory.
DownloadIsList ==
  /\ pc \in Fetching => cur \in Src
  /\ pc \in {"commitBin", "commitSig", "touch"} => got # Absent
  /\ pc = "download" /\ Valid(file[cur]) => mem[cur] # Absent

SourcesInv == SourcesTypeOK /\ RunningHasLists /\ PassedHaveLists /\ DownloadIsList

\* Where the loop is.
LoopTypeOK ==
  /\ pc \in {"down", "pass", "load", "download", "commitBin", "commitSig", "touch", "sleep"}
  /\ booting \in BOOLEAN /\ cur \in 1..(NumSources + 1)
  /\ interval \in 0..Prefetch /\ failed \subseteq Src

\* What it works on.
DataTypeOK ==
  /\ published \in 1..MaxVersion
  /\ file \in [Src -> [bin : Junk..published, sig : 0..published, age : 0..CacheTTL]]
  /\ mem \in [Src -> 0..published]
  /\ refresh \in [Src -> {Unset} \cup 0..Prefetch]
  /\ got \in 0..published /\ crashes \in 0..MaxCrashes

\* The types, in two parts.
LEMMA TypesApart == SourcesTypeOK <=> LoopTypeOK /\ DataTypeOK
  BY DEF SourcesTypeOK, LoopTypeOK, DataTypeOK

\* The same of the next state.
LEMMA TypesApartNext == SourcesTypeOK' <=> LoopTypeOK' /\ DataTypeOK'
  BY DEF SourcesTypeOK, LoopTypeOK, DataTypeOK

\* A cache file that verifies has a list that was published.
LEMMA CachedIsPublished ==
  ASSUME DataTypeOK, NEW s \in Src, Cached(file[s])
  PROVE  file[s].bin \in 0..published /\ file[s].bin # Absent
<1>1. file[s].bin \in Junk..published
  BY DEF DataTypeOK
<1>2. file[s].bin > 0
  BY DEF Cached, Valid
<1> QED
  BY <1>1, <1>2 DEF Junk, Absent, DataTypeOK

\* A cache file that is written is still one.
LEMMA FilesTyped ==
  ASSUME DataTypeOK, NEW s \in Src
  PROVE  /\ [file EXCEPT ![s] = [file[s] EXCEPT !.bin = got, !.age = 0]]
              \in [Src -> [bin : Junk..published, sig : 0..published, age : 0..CacheTTL]]
         /\ [file EXCEPT ![s] = [file[s] EXCEPT !.sig = got]]
              \in [Src -> [bin : Junk..published, sig : 0..published, age : 0..CacheTTL]]
<1>1. 0 \in 0..CacheTTL /\ got \in Junk..published /\ got \in 0..published
  BY SourcesAssumption DEF SourcesAssumption, DataTypeOK, Junk
<1>2. file[s] \in [bin : Junk..published, sig : 0..published, age : 0..CacheTTL]
  BY DEF DataTypeOK
<1> QED
  BY Zenon, <1>1, <1>2 DEF DataTypeOK

\* The loop goes on with the next source.
LEMMA Succeeded ==
  ASSUME LoopTypeOK, cur \in Src, NEW delay \in {0, Prefetch}, Succeed(delay)
  PROVE  LoopTypeOK' /\ pc' = "pass" /\ cur' = cur + 1 /\ booting' = booting
<1> USE SourcesAssumption DEF SourcesAssumption, Src
<1>1. interval' \in 0..Prefetch
  BY DEF Succeed, Shorter, LoopTypeOK
<1> QED
  BY <1>1 DEF Succeed, LoopTypeOK

\* A source fails.  A start goes on only if it has a list.
LEMMA Failed ==
  ASSUME LoopTypeOK, cur \in Src, NEW list, Fail(list)
  PROVE  /\ LoopTypeOK' /\ booting' = booting
         /\ \/ pc' = "down" /\ booting /\ list = Absent
            \/ pc' = "pass" /\ cur' = cur + 1 /\ (booting => list # Absent)
<1> USE SourcesAssumption DEF SourcesAssumption, Src
<1>1. \/ pc' = "down" /\ booting /\ list = Absent /\ cur' = cur
      \/ pc' = "pass" /\ cur' = cur + 1 /\ (booting => list # Absent)
  BY DEF Fail
<1>2. failed' \subseteq Src /\ booting' = booting /\ interval' = interval
  BY DEF Fail, LoopTypeOK
<1> QED
  BY <1>1, <1>2 DEF LoopTypeOK

\* The source at hand has a list, and those before it do.
LEMMA OneMore ==
  ASSUME RunningHasLists, PassedHaveLists, pc # "down", LoopTypeOK, cur \in Src,
         mem \in [Src -> Nat], mem' \in [Src -> Nat],
         \A s \in Src : s # cur => mem'[s] = mem[s], mem[cur] # Absent => mem'[cur] # Absent,
         booting' = booting, cur' = cur + 1, booting => mem'[cur] # Absent
  PROVE  RunningHasLists' /\ PassedHaveLists'
<1>1. RunningHasLists'
  BY DEF RunningHasLists
<1>2. PassedHaveLists'
  BY DEF PassedHaveLists, Src, LoopTypeOK
<1> QED
  BY <1>1, <1>2

\* Nothing has begun.
THEOREM SourcesInitInv == SourcesInit => SourcesInv
<1> SUFFICES ASSUME SourcesInit PROVE SourcesInv
  OBVIOUS
<1> USE SourcesAssumption DEF SourcesAssumption
<1>1. LoopTypeOK
  BY DEF SourcesInit, LoopTypeOK
<1>2. DataTypeOK
  <2>1. file \in [Src -> [bin : Junk..published, sig : 0..published, age : 0..CacheTTL]]
    BY DEF SourcesInit, Absent, Junk
  <2> QED
    BY <2>1 DEF SourcesInit, DataTypeOK, Absent, Unset
<1>3. RunningHasLists /\ PassedHaveLists /\ DownloadIsList
  BY DEF SourcesInit, RunningHasLists, PassedHaveLists, DownloadIsList, Fetching
<1> QED
  BY <1>1, <1>2, <1>3, TypesApart DEF SourcesInv

\* A list is lost neither while the proxy runs nor while it starts.
THEOREM SourcesNextInv == SourcesInv /\ [SourcesNext]_sourcesVars => SourcesInv'
<1> SUFFICES ASSUME SourcesInv, [SourcesNext]_sourcesVars PROVE SourcesInv'
  OBVIOUS
<1>0. LoopTypeOK /\ DataTypeOK /\ RunningHasLists /\ PassedHaveLists /\ DownloadIsList
  BY TypesApart DEF SourcesInv
<1> SUFFICES LoopTypeOK' /\ DataTypeOK' /\ RunningHasLists' /\ PassedHaveLists' /\ DownloadIsList'
  BY TypesApartNext DEF SourcesInv
<1> USE SourcesAssumption DEF SourcesAssumption
<1>m. mem \in [Src -> Nat]
  BY <1>0 DEF DataTypeOK
<1>1. CASE UNCHANGED sourcesVars
  BY <1>0, <1>1 DEF sourcesVars, files, LoopTypeOK, DataTypeOK, RunningHasLists, PassedHaveLists,
     DownloadIsList
<1>2. CASE Start
  <2>1. LoopTypeOK'
    BY <1>0, <1>2 DEF Start, LoopTypeOK
  <2>2. DataTypeOK'
    BY <1>0, <1>2 DEF Start, DataTypeOK, files, Absent, Unset
  <2> QED
    BY <1>2, <2>1, <2>2 DEF Start, RunningHasLists, PassedHaveLists, DownloadIsList, Fetching, Src
<1>3. CASE Pass
  <2>1. LoopTypeOK' /\ (pc' = "load" => cur' \in Src) /\ pc' \in {"pass", "load", "sleep"}
    <3>1. /\ pc' \in {"pass", "load", "sleep"} /\ (pc' = "load" => cur' = cur /\ cur <= NumSources)
          /\ (cur' = cur \/ cur' = 1 \/ (cur <= NumSources /\ cur' = cur + 1))
          /\ (booting' = booting \/ booting' = FALSE) /\ (interval' = interval \/ interval' = MinInterval)
          /\ (failed' = failed \/ failed' = {})
      BY <1>3, Zenon DEF Pass
    <3> QED
      <4>1. cur' \in 1..(NumSources + 1) /\ (pc' = "load" => cur' \in Src) /\ interval' \in 0..Prefetch
        BY <1>0, <3>1 DEF LoopTypeOK, Src
      <4>2. booting' \in BOOLEAN /\ failed' \subseteq Src
        BY <1>0, <3>1, Zenon DEF LoopTypeOK
      <4> QED
        BY <3>1, <4>1, <4>2 DEF LoopTypeOK
  <2>2. DataTypeOK' /\ mem' = mem
    BY <1>0, <1>3 DEF Pass, DataTypeOK, files
  <2>3. RunningHasLists' /\ PassedHaveLists'
    <3>1. CASE cur <= NumSources /\ Due(cur) /\ booting' = booting /\ cur' = cur
      BY <1>0, <1>3, <2>1, <2>2, <3>1 DEF Pass, RunningHasLists, PassedHaveLists
    <3>2. CASE cur <= NumSources /\ ~Due(cur) /\ booting' = booting
      BY <1>0, <2>2, <3>2 DEF Due, RunningHasLists, PassedHaveLists
    <3>3. CASE cur > NumSources /\ booting /\ booting' = FALSE /\ cur' = 1
      BY <1>0, <1>3, <2>2, <3>3 DEF Pass, RunningHasLists, PassedHaveLists, Src, LoopTypeOK
    <3>4. CASE cur > NumSources /\ ~booting /\ booting' = booting
      BY <1>0, <2>2, <3>4 DEF RunningHasLists, PassedHaveLists
    <3> QED
      BY Zenon, <1>3, <3>1, <3>2, <3>3, <3>4 DEF Pass
  <2> QED
    BY <2>1, <2>2, <2>3 DEF DownloadIsList, Fetching
<1>4. CASE Load
  <2> DEFINE f == file[cur]
  <2>1. pc = "load" /\ cur \in Src
    BY <1>0, <1>4 DEF Load, DownloadIsList, Fetching
  <2>2. /\ Cached(f) => mem' = [mem EXCEPT ![cur] = f.bin]
        /\ ~Cached(f) => mem' = mem
        /\ published' = published /\ file' = file /\ got' = got /\ crashes' = crashes
    BY <1>4 DEF Load, files
  <2>3. /\ mem' \in [Src -> 0..published] /\ mem' \in [Src -> Nat]
        /\ \A s \in Src : s # cur => mem'[s] = mem[s]
        /\ mem[cur] # Absent \/ Cached(f) => mem'[cur] # Absent
    BY <1>0, <2>1, <2>2, CachedIsPublished DEF DataTypeOK
  <2>4. refresh' \in [Src -> {Unset} \cup 0..Prefetch]
    <3>1. refresh' = refresh \/ (FreshFor(f) > 0 /\ refresh' = [refresh EXCEPT ![cur] = FreshFor(f)])
          \/ refresh' = [refresh EXCEPT ![cur] = MinInterval]
      BY <1>4, Zenon DEF Load
    <3>2. FreshFor(f) > 0 => FreshFor(f) \in 0..Prefetch
      <4>1. f.age \in 0..CacheTTL
        BY <1>0, <2>1 DEF DataTypeOK
      <4> QED
        BY <4>1 DEF FreshFor
    <3> QED
      BY <1>0, <2>1, <3>1, <3>2 DEF DataTypeOK
  <2>5. DataTypeOK'
    BY <1>0, <2>2, <2>3, <2>4 DEF DataTypeOK
  <2>6. \/ Cached(f) /\ Succeed(0)
        \/ ~Cached(f) /\ Fail(mem'[cur])
        \/ pc' = "download" /\ booting' = booting /\ cur' = cur /\ interval' = interval /\ failed' = failed
    <3>1. FreshFor(f) > 0 => Cached(f)
      BY DEF FreshFor
    <3> QED
      BY <1>4, <3>1, Zenon DEF Load
  <2>7. CASE Cached(f) /\ Succeed(0)
    <3>1. LoopTypeOK' /\ pc' = "pass" /\ cur' = cur + 1 /\ booting' = booting
      BY <1>0, <2>1, <2>7, Succeeded
    <3>2. RunningHasLists' /\ PassedHaveLists'
      BY <1>0, <1>m, <2>1, <2>3, <2>7, <3>1, OneMore
    <3> QED
      BY <2>5, <3>1, <3>2 DEF DownloadIsList, Fetching
  <2>8. CASE ~Cached(f) /\ Fail(mem'[cur])
    <3>1. /\ LoopTypeOK' /\ booting' = booting
          /\ \/ pc' = "down" /\ booting
             \/ pc' = "pass" /\ cur' = cur + 1 /\ (booting => mem'[cur] # Absent)
      BY <1>0, <2>1, <2>8, Failed
    <3>2. RunningHasLists' /\ PassedHaveLists'
      <4>1. CASE pc' = "down" /\ booting
        BY <3>1, <4>1 DEF RunningHasLists, PassedHaveLists
      <4>2. CASE pc' = "pass" /\ cur' = cur + 1 /\ (booting => mem'[cur] # Absent)
        BY <1>0, <1>m, <2>1, <2>3, <3>1, <4>2, OneMore
      <4> QED
        BY <3>1, <4>1, <4>2
    <3> QED
      BY <2>5, <3>1, <3>2 DEF DownloadIsList, Fetching
  <2>9. CASE pc' = "download" /\ booting' = booting /\ cur' = cur /\ interval' = interval /\ failed' = failed
    <3>1. LoopTypeOK'
      BY <1>0, <2>9 DEF LoopTypeOK
    <3>2. RunningHasLists' /\ PassedHaveLists'
      BY <1>0, <2>1, <2>3, <2>9 DEF RunningHasLists, PassedHaveLists
    <3>3. DownloadIsList'
      BY <2>1, <2>2, <2>3, <2>9 DEF DownloadIsList, Cached
    <3> QED
      BY <2>5, <3>1, <3>2, <3>3
  <2> QED
    BY <2>6, <2>7, <2>8, <2>9
<1>5. CASE Downloaded
  <2>1. DataTypeOK' /\ LoopTypeOK'
    BY <1>0, <1>5 DEF Downloaded, DataTypeOK, LoopTypeOK, files
  <2>2. RunningHasLists' /\ PassedHaveLists'
    BY <1>0, <1>5 DEF Downloaded, RunningHasLists, PassedHaveLists
  <2>3. DownloadIsList'
    BY <1>0, <1>5 DEF Downloaded, DownloadIsList, Fetching, DataTypeOK, Absent
  <2> QED
    BY <2>1, <2>2, <2>3
<1>6. CASE NotDownloaded
  <2>1. pc = "download" /\ cur \in Src /\ Fail(mem[cur]) /\ mem' = mem
    BY <1>0, <1>6 DEF NotDownloaded, DownloadIsList, Fetching
  <2>2. DataTypeOK'
    BY <1>0, <1>6 DEF NotDownloaded, DataTypeOK, files
  <2>3. /\ LoopTypeOK' /\ booting' = booting
        /\ \/ pc' = "down" /\ booting
           \/ pc' = "pass" /\ cur' = cur + 1 /\ (booting => mem[cur] # Absent)
    BY <1>0, <2>1, Failed
  <2>4. RunningHasLists' /\ PassedHaveLists'
    <3>1. CASE pc' = "down" /\ booting
      BY <2>3, <3>1 DEF RunningHasLists, PassedHaveLists
    <3>2. CASE pc' = "pass" /\ cur' = cur + 1 /\ (booting => mem[cur] # Absent)
      BY <1>0, <1>m, <2>1, <2>3, <3>2, OneMore
    <3> QED
      BY <2>3, <3>1, <3>2
  <2> QED
    BY <2>2, <2>3, <2>4 DEF DownloadIsList, Fetching
<1>7. CASE Commit
  <2>1. /\ pc' \in {"commitSig", "touch"} /\ pc \in {"commitBin", "commitSig"} /\ booting' = booting /\ cur' = cur /\ got' = got
        /\ interval' = interval /\ failed' = failed /\ mem' = mem /\ published' = published /\ refresh' = refresh
        /\ crashes' = crashes
    BY <1>7 DEF Commit
  <2>c. cur \in Src
    BY <1>0, <2>1 DEF DownloadIsList, Fetching
  <2>2. file' \in [Src -> [bin : Junk..published, sig : 0..published, age : 0..CacheTTL]]
    <3>1. file' = file \/ file' = [file EXCEPT ![cur] = [file[cur] EXCEPT !.bin = got, !.age = 0]]
          \/ file' = [file EXCEPT ![cur] = [file[cur] EXCEPT !.sig = got]]
      BY <1>7 DEF Commit, SetFile, files
    <3> QED
      <4>1. CASE file' = file
        BY <1>0, <4>1 DEF DataTypeOK
      <4>2. CASE file' # file
        BY ZenonT(30), <1>0, <2>c, <3>1, <4>2, FilesTyped
      <4> QED
        BY <4>1, <4>2
  <2>3. LoopTypeOK' /\ DataTypeOK'
    BY <1>0, <2>1, <2>2 DEF LoopTypeOK, DataTypeOK
  <2> QED
    BY <1>0, <2>1, <2>3 DEF RunningHasLists, PassedHaveLists, DownloadIsList, Fetching
<1>8. CASE Touch
  <2>1. /\ pc = "touch" /\ cur \in Src /\ got # Absent /\ mem' = [mem EXCEPT ![cur] = got] /\ Succeed(Prefetch)
        /\ published' = published /\ crashes' = crashes /\ got' = Absent
        /\ refresh' = [refresh EXCEPT ![cur] = Prefetch]
    BY <1>0, <1>8 DEF Touch, DownloadIsList, Fetching
  <2>2. file' \in [Src -> [bin : Junk..published, sig : 0..published, age : 0..CacheTTL]]
    <3>1. file' = file \/ file' = [file EXCEPT ![cur] = [file[cur] EXCEPT !.age = 0]]
      BY <1>8 DEF Touch, SetFile, files
    <3> QED
      BY <1>0, <3>1 DEF DataTypeOK
  <2>3. DataTypeOK'
    <3>1. mem' \in [Src -> 0..published] /\ got' \in 0..published
      BY <1>0, <2>1 DEF DataTypeOK, Absent
    <3>2. refresh' \in [Src -> {Unset} \cup 0..Prefetch]
      BY <1>0, <2>1 DEF DataTypeOK
    <3> QED
      BY <1>0, <2>1, <2>2, <3>1, <3>2 DEF DataTypeOK
  <2>4. LoopTypeOK' /\ pc' = "pass" /\ cur' = cur + 1 /\ booting' = booting
    BY <1>0, <2>1, Succeeded
  <2>5. /\ mem' \in [Src -> Nat] /\ mem'[cur] # Absent
        /\ \A s \in Src : s # cur => mem'[s] = mem[s]
    BY <1>0, <1>m, <2>1 DEF DataTypeOK
  <2>6. RunningHasLists' /\ PassedHaveLists'
    BY <1>0, <1>m, <2>1, <2>4, <2>5, OneMore
  <2> QED
    BY <2>3, <2>4, <2>6 DEF DownloadIsList, Fetching
<1>9. CASE Sleep
  <2>1. /\ pc = "sleep" /\ pc' \in {"sleep", "pass"} /\ published' = published /\ mem' = mem /\ booting' = booting
        /\ got' = got /\ crashes' = crashes /\ (cur' = cur \/ cur' = 1) /\ (failed' = failed \/ failed' = {})
        /\ (interval' = interval - 1 /\ interval > 1) \/ interval' = MinInterval
    BY <1>9 DEF Sleep
  <2>2. file' \in [Src -> [bin : Junk..published, sig : 0..published, age : 0..CacheTTL]]
    <3> SUFFICES ASSUME NEW s \in Src
                 PROVE  [file[s] EXCEPT !.age = IF @ < CacheTTL THEN @ + 1 ELSE @]
                          \in [bin : Junk..published, sig : 0..published, age : 0..CacheTTL]
      BY <1>9 DEF Sleep
    <3>1. file[s] \in [bin : Junk..published, sig : 0..published, age : 0..CacheTTL]
      BY <1>0 DEF DataTypeOK
    <3> QED
      BY <3>1
  <2>3. refresh' \in [Src -> {Unset} \cup 0..Prefetch]
    <3> SUFFICES ASSUME NEW s \in Src
                 PROVE  (IF refresh[s] > 0 THEN refresh[s] - 1 ELSE refresh[s]) \in {Unset} \cup 0..Prefetch
      BY <1>9 DEF Sleep
    <3>1. refresh[s] \in {Unset} \cup 0..Prefetch
      BY <1>0 DEF DataTypeOK
    <3> QED
      BY <3>1 DEF Unset
  <2>4. LoopTypeOK' /\ DataTypeOK'
    BY <1>0, <2>1, <2>2, <2>3 DEF LoopTypeOK, DataTypeOK
  <2>5. PassedHaveLists'
    BY <1>0, <2>1 DEF PassedHaveLists, Src, LoopTypeOK
  <2> QED
    BY <1>0, <2>1, <2>4, <2>5 DEF RunningHasLists, DownloadIsList, Fetching
<1>10. CASE Crash
  <2>1. LoopTypeOK'
    BY <1>0, <1>10 DEF Crash, LoopTypeOK
  <2>2. DataTypeOK'
    BY <1>0, <1>10 DEF Crash, DataTypeOK, files, Absent
  <2> QED
    BY <1>10, <2>1, <2>2 DEF Crash, RunningHasLists, PassedHaveLists, DownloadIsList, Fetching
<1>11. CASE Publish
  <2>1. /\ published' = published + 1 /\ published < MaxVersion /\ file' = file /\ mem' = mem
        /\ refresh' = refresh /\ pc' = pc /\ booting' = booting /\ cur' = cur /\ got' = got /\ interval' = interval
        /\ failed' = failed /\ crashes' = crashes
    BY <1>11 DEF Publish, files
  <2>2. Junk..published \subseteq Junk..published' /\ 0..published \subseteq 0..published' /\ published' \in 1..MaxVersion
    BY <1>0, <2>1 DEF DataTypeOK, Junk
  <2>3. /\ file' \in [Src -> [bin : Junk..published', sig : 0..published', age : 0..CacheTTL]]
        /\ mem' \in [Src -> 0..published'] /\ got' \in 0..published'
    BY <1>0, <2>1, <2>2 DEF DataTypeOK
  <2>4. LoopTypeOK' /\ DataTypeOK'
    BY <1>0, <2>1, <2>2, <2>3 DEF LoopTypeOK, DataTypeOK
  <2> QED
    BY <1>0, <2>1, <2>4 DEF RunningHasLists, PassedHaveLists, DownloadIsList
<1>12. ASSUME NEW s \in Damaged, Corrupt(s)
       PROVE  LoopTypeOK' /\ DataTypeOK' /\ RunningHasLists' /\ PassedHaveLists' /\ DownloadIsList'
  <2>1. /\ published' = published /\ mem' = mem /\ refresh' = refresh /\ pc' = pc /\ booting' = booting /\ cur' = cur
        /\ got' = got /\ interval' = interval /\ failed' = failed /\ crashes' = crashes
        /\ file' = [file EXCEPT ![s].bin = Junk]
    BY <1>12 DEF Corrupt
  <2>2. file' \in [Src -> [bin : Junk..published, sig : 0..published, age : 0..CacheTTL]]
    <3>1. s \in Src /\ Junk \in Junk..published
      BY <1>0 DEF DataTypeOK, Junk, Src
    <3> QED
      BY <1>0, <2>1, <3>1 DEF DataTypeOK
  <2>3. LoopTypeOK' /\ DataTypeOK'
    BY <1>0, <2>1, <2>2 DEF LoopTypeOK, DataTypeOK
  <2>4. \A u \in Src : Valid(file'[u]) => Valid(file[u])
    BY <1>0, <2>1 DEF DataTypeOK, Valid, Junk
  <2> QED
    BY <1>0, <2>1, <2>3, <2>4 DEF RunningHasLists, PassedHaveLists, DownloadIsList, Fetching
<1> QED
  BY <1>1, <1>2, <1>3, <1>4, <1>5, <1>6, <1>7, <1>8, <1>9, <1>10, <1>11, <1>12 DEF SourcesNext, Step

\* The lists in memory are published ones, whatever the files hold.
THEOREM SourcesTypeCorrect == SourcesSpec => []SourcesTypeOK
  BY SourcesInitInv, SourcesNextInv, PTL DEF SourcesSpec, SourcesInv

\* With any number of sources, crashes and publications, a proxy that has
\* started has a list for every source.
THEOREM AlwaysHasLists == SourcesSpec => []RunningHasLists
  BY SourcesInitInv, SourcesNextInv, PTL DEF SourcesSpec, SourcesInv

\* A start gives up only on a source whose cache does not verify.
THEOREM GivesUpWithoutCache == SourcesSpec => StartsFromCache
<1>1. SourcesInv /\ [SourcesNext]_sourcesVars =>
        [pc' = "down" /\ crashes' = crashes /\ pc # "down" => ~Valid(file[cur])]_sourcesVars
  <2> SUFFICES ASSUME SourcesInv, SourcesNext, pc' = "down", crashes' = crashes, pc # "down"
               PROVE  ~Valid(file[cur])
    OBVIOUS
  <2>1. CASE Load
    <3>1. pc' = "down" => cur \notin WithURLs /\ ~Cached(file[cur])
      BY <2>1 DEF Load, Succeed
    <3> QED
      BY <3>1 DEF Cached
  <2>2. CASE NotDownloaded
    <3>1. mem[cur] = Absent /\ pc = "download"
      BY <2>2 DEF NotDownloaded, Fail
    <3> QED
      BY <3>1 DEF SourcesInv, DownloadIsList
  <2>3. ~Crash
    BY SourcesAssumption DEF Crash, SourcesAssumption, SourcesInv, SourcesTypeOK
  <2> QED
    BY <2>1, <2>2, <2>3 DEF SourcesNext, Step, Start, Pass, Downloaded, Commit, Touch, Succeed,
       Sleep, Publish, Corrupt
<1> QED
  BY <1>1, SourcesInitInv, SourcesNextInv, PTL DEF SourcesSpec, StartsFromCache

-----------------------------------------------------------------------------
(***************************************************************************)
(* The lists of rules                                                      *)
(***************************************************************************)
Queries == [pc : Pcs, name : Names, allowed : BOOLEAN, barred : BOOLEAN,
           answer : {None} \cup Answers, stale : {None} \cup Answers]

NameAllowed(n) == \E l \in AllowLines : l.of = n

AliasAlwaysBlocked(answer) == \E a \in Aliases(answer) : \A t \in Times : NameMatches(BlockLines, a, t)

\* What is known of the query of a session, by where it is.
AllowedOK(q) ==
  /\ q.pc \in {"blockName", "cache", "server", "allowedIP"} /\ q.allowed => NameAllowed(q.name)
  /\ q.pc = "rejected" => ~q.allowed
  /\ q.pc \in {"cache", "server", "allowedIP", "blockNameResponse", "blockIP", "cacheResponse", "served", "truncated"}
       => q.allowed \/ ~q.barred

AnswerOK(q) ==
  /\ q.pc \in {"allowedIP", "blockNameResponse", "blockIP", "cacheResponse", "served"} => q.answer \in Answers
  /\ q.pc \in {"blockNameResponse", "blockIP"} /\ q.allowed => ~Forbidden(q.name, q.answer)
  /\ q.pc = "blockIP" /\ ~q.allowed => ~AliasAlwaysBlocked(q.answer)
  /\ q.pc \in {"cacheResponse", "served"} => ~Forbidden(q.name, q.answer)

SessionOK(q) == AllowedOK(q) /\ AnswerOK(q)

CacheOK == \A n \in Names : cache[n] # None => ~Forbidden(n, cache[n].answer)

FiltersInv == TypeOK /\ CacheOK /\ \A s \in Sessions : SessionOK(session[s])

\* A session that is not idle has a query.
LEMMA HasQuery ==
  ASSUME FiltersInv, NEW s \in Sessions, session[s].pc # "idle"
  PROVE  session[s] \in Queries /\ SessionOK(session[s])
  BY DEF FiltersInv, TypeOK, Queries, Idle

\* A query moves on, and the other sessions do not.
LEMMA Moves ==
  ASSUME FiltersInv, NEW s \in Sessions, NEW q \in Queries \cup {Idle}, SessionOK(q),
         session' = [session EXCEPT ![s] = q], now' = now, cache' = cache
  PROVE  FiltersInv'
<1>1. TypeOK'
  BY DEF FiltersInv, TypeOK, Queries, Times
<1>2. CacheOK'
  BY DEF FiltersInv, CacheOK
<1>3. \A u \in Sessions : SessionOK(session'[u])
  BY DEF FiltersInv, TypeOK
<1> QED
  BY <1>1, <1>2, <1>3 DEF FiltersInv

\* Only the place of a query changes.
LEMMA Goes ==
  ASSUME FiltersInv, NEW s \in Sessions, session[s].pc # "idle", NEW p \in Pcs, Goto(s, p)
  PROVE  LET q == session[s]
             r == [q EXCEPT !.pc = p]
         IN  /\ r \in Queries /\ session' = [session EXCEPT ![s] = r]
             /\ r.pc = p /\ r.name = q.name /\ r.allowed = q.allowed /\ r.barred = q.barred /\ r.answer = q.answer
<1>1. session[s] \in Queries
  BY HasQuery
<1> QED
  BY <1>1 DEF Goto, Queries

\* What an allowed name or address is in is not forbidden.
LEMMA AllowedNotForbidden ==
  ASSUME NEW n, NEW answer,
         NameAllowed(n) \/ \E ip \in Addresses(answer) : IPMatches(AllowIPLines, ip)
  PROVE  ~Forbidden(n, answer)
  BY DEF Forbidden, NameAllowed

\* Nor is what no rule blocks.
LEMMA UnblockedNotForbidden ==
  ASSUME NEW n, NEW answer, ~AliasAlwaysBlocked(answer),
         ~\E ip \in Addresses(answer) : IPMatches(BlockIPLines, ip)
  PROVE  ~Forbidden(n, answer)
  BY DEF Forbidden, AliasAlwaysBlocked

\* Nothing is being asked and nothing is cached.
THEOREM FiltersInitInv == Init => FiltersInv
<1> SUFFICES ASSUME Init PROVE FiltersInv
  OBVIOUS
<1>1. TypeOK
  BY FiltersAssumption DEF FiltersAssumption, Init, TypeOK, Times
<1>2. CacheOK
  BY DEF Init, CacheOK
<1>3. SessionOK(Idle)
  BY DEF SessionOK, AllowedOK, AnswerOK, Idle
<1> QED
  BY <1>1, <1>2, <1>3 DEF Init, FiltersInv

\* The query plugins.
LEMMA QueryStep ==
  ASSUME FiltersInv, NEW s \in Sessions,
         (\E n \in Names : Query(s, n)) \/ AllowName(s) \/ BlockName(s) \/ Cache(s)
  PROVE  FiltersInv'
<1> DEFINE q == session[s]
<1>1. ASSUME NEW n \in Names, Query(s, n) PROVE FiltersInv'
  <2> DEFINE r == [pc |-> "allowName", name |-> n, allowed |-> FALSE, answer |-> None,
                   stale |-> None, barred |-> NameMatches(BlockLines, n, now)]
  <2>1. NameMatches(BlockLines, n, now) \in BOOLEAN
    BY DEF NameMatches
  <2>2. r \in Queries /\ SessionOK(r)
    BY <2>1 DEF Queries, Pcs, SessionOK, AllowedOK, AnswerOK
  <2> QED
    BY Zenon, <1>1, <2>2, Moves DEF Query
<1>2. CASE AllowName(s)
  <2> DEFINE allowed == NameMatches(AllowLines, q.name, now)
             r == [q EXCEPT !.pc = "blockName", !.allowed = allowed]
  <2>1. q.pc = "allowName" /\ q \in Queries
    BY SMTT(30), <1>2, HasQuery DEF AllowName
  <2>2. allowed \in BOOLEAN /\ (allowed => NameAllowed(q.name))
    BY DEF NameMatches, NameAllowed
  <2>3. session' = [session EXCEPT ![s] = r] /\ now' = now /\ cache' = cache
    BY Zenon, <1>2, <2>1 DEF AllowName
  <2> HIDE DEF allowed
  <2>4. r \in Queries /\ r.pc = "blockName" /\ r.allowed = allowed /\ r.name = q.name
    BY Zenon, <2>1, <2>2 DEF Queries, Pcs
  <2>5. SessionOK(r)
    BY <2>2, <2>4 DEF SessionOK, AllowedOK, AnswerOK
  <2> HIDE DEF r
  <2> QED
    BY Zenon, <2>3, <2>4, <2>5, Moves
<1>3. CASE BlockName(s)
  <2> DEFINE barred == NameMatches(BlockLines, q.name, now)
             p == IF ~q.allowed /\ barred THEN "rejected" ELSE "cache"
             r == [q EXCEPT !.pc = p, !.barred = barred]
  <2>1. q.pc = "blockName" /\ q \in Queries /\ AllowedOK(q)
    BY <1>3, HasQuery DEF BlockName, SessionOK
  <2>2. barred \in BOOLEAN
    BY DEF NameMatches
  <2>3. session' = [session EXCEPT ![s] = r] /\ now' = now /\ cache' = cache
    BY Zenon, <1>3, <2>1 DEF BlockName
  <2> HIDE DEF barred
  <2>4. r \in Queries /\ r.pc = p /\ r.barred = barred /\ r.allowed = q.allowed /\ r.name = q.name
    BY Zenon, <2>1, <2>2 DEF Queries, Pcs, Final
  <2>5. SessionOK(r)
    BY <2>1, <2>2, <2>4 DEF SessionOK, AllowedOK, AnswerOK, Queries
  <2> HIDE DEF r
  <2> QED
    BY Zenon, <2>3, <2>4, <2>5, Moves
<1>4. CASE Cache(s)
  <2> DEFINE c == cache[q.name]
             r == IF c = None THEN [q EXCEPT !.pc = "server"]
                  ELSE IF c.fresh THEN [q EXCEPT !.pc = "served", !.answer = c.answer]
                  ELSE [q EXCEPT !.pc = "server", !.stale = c.answer]
  <2>1. q.pc = "cache" /\ q \in Queries /\ AllowedOK(q)
    BY <1>4, HasQuery DEF Cache, SessionOK
  <2>2. session' = [session EXCEPT ![s] = r] /\ now' = now /\ cache' = cache
    BY <1>4 DEF Cache
  <2>3. c # None => c.answer \in Answers /\ ~Forbidden(q.name, c.answer)
    BY <2>1 DEF FiltersInv, TypeOK, CacheOK, Queries
  <2>4. /\ r \in Queries /\ r.pc \in {"server", "served"} /\ r.allowed = q.allowed /\ r.barred = q.barred /\ r.name = q.name
        /\ r.pc = "served" => r.answer \in Answers /\ ~Forbidden(r.name, r.answer)
    BY ZenonT(30), <2>1, <2>3 DEF Queries, Pcs, Final
  <2> HIDE DEF r
  <2>5. SessionOK(r)
    BY Zenon, <2>1, <2>4 DEF SessionOK, AllowedOK, AnswerOK
  <2> QED
    BY Zenon, <2>2, <2>4, <2>5, Moves
<1> QED
  BY <1>1, <1>2, <1>3, <1>4

\* The server's response.
LEMMA ServerStep ==
  ASSUME FiltersInv, NEW s \in Sessions,
         (\E a \in Answers : Answer(s, a)) \/ Unparsable(s) \/ Outage(s) \/ End(s)
  PROVE  FiltersInv'
<1> DEFINE q == session[s]
<1>1. ASSUME NEW a \in Answers, q.pc = "server", Respond(s, a), now' = now, cache' = cache PROVE FiltersInv'
  <2> DEFINE r == [q EXCEPT !.pc = "allowedIP", !.answer = a, !.stale = None]
  <2>1. q \in Queries /\ AllowedOK(q)
    BY <1>1, HasQuery DEF SessionOK
  <2>2. session' = [session EXCEPT ![s] = r]
    BY Zenon, <1>1 DEF Respond
  <2>3. /\ r \in Queries /\ r.pc = "allowedIP" /\ r.allowed = q.allowed /\ r.barred = q.barred /\ r.name = q.name
        /\ r.answer = a
    BY ZenonT(30), <2>1 DEF Queries, Pcs
  <2> HIDE DEF r
  <2>4. SessionOK(r)
    BY <1>1, <2>1, <2>3 DEF SessionOK, AllowedOK, AnswerOK
  <2> QED
    BY Zenon, <1>1, <2>2, <2>3, <2>4, Moves
<1>2. ASSUME NEW p \in {"truncated", "dropped"}, q.pc = "server", Goto(s, p), now' = now, cache' = cache PROVE FiltersInv'
  <2> DEFINE r == [q EXCEPT !.pc = p]
  <2>1. q \in Queries /\ AllowedOK(q)
    BY <1>2, HasQuery DEF SessionOK
  <2>2. /\ session' = [session EXCEPT ![s] = r] /\ r \in Queries /\ r.pc = p
        /\ r.allowed = q.allowed /\ r.barred = q.barred
    BY ZenonT(30), <1>2, Goes DEF Pcs, Final
  <2> HIDE DEF r
  <2>3. SessionOK(r)
    BY <1>2, <2>1, <2>2 DEF SessionOK, AllowedOK, AnswerOK
  <2> QED
    BY Zenon, <1>2, <2>2, <2>3, Moves
<1>3. CASE Outage(s)
  <2>1. q.stale # None /\ q.pc = "server" => q.stale \in Answers
    BY HasQuery DEF Queries
  <2> QED
    BY <1>1, <1>2, <1>3, <2>1 DEF Outage
<1>4. CASE End(s)
  <2>1. SessionOK(Idle)
    BY DEF SessionOK, AllowedOK, AnswerOK, Idle
  <2> QED
    BY Zenon, <1>4, <2>1, Moves DEF End
<1> QED
  BY <1>1, <1>2, <1>3, <1>4 DEF Answer, Unparsable

\* The response plugins.
LEMMA ResponseStep ==
  ASSUME FiltersInv, NEW s \in Sessions, AllowedIP(s) \/ BlockNameResponse(s) \/ BlockIP(s)
  PROVE  FiltersInv'
<1> DEFINE q == session[s]
<1>1. CASE AllowedIP(s)
  <2> DEFINE found == \E ip \in Addresses(q.answer) : IPMatches(AllowIPLines, ip)
             r == [q EXCEPT !.pc = "blockNameResponse", !.allowed = q.allowed \/ found]
  <2>1. q.pc = "allowedIP" /\ q \in Queries /\ SessionOK(q)
    BY <1>1, HasQuery DEF AllowedIP
  <2>2. session' = [session EXCEPT ![s] = r] /\ now' = now /\ cache' = cache
    BY ZenonT(30), <1>1 DEF AllowedIP
  <2>3. q.allowed \/ found => ~Forbidden(q.name, q.answer)
    BY <2>1, AllowedNotForbidden DEF SessionOK, AllowedOK
  <2> HIDE DEF found
  <2>4. /\ r \in Queries /\ r.pc = "blockNameResponse" /\ r.name = q.name /\ r.answer = q.answer
        /\ r.barred = q.barred /\ (r.allowed <=> q.allowed \/ found)
    BY ZenonT(30), <2>1 DEF Queries, Pcs
  <2> HIDE DEF r
  <2>5. SessionOK(r)
    BY Zenon, <2>1, <2>3, <2>4 DEF SessionOK, AllowedOK, AnswerOK
  <2> QED
    BY Zenon, <2>2, <2>4, <2>5, Moves
<1>2. CASE BlockNameResponse(s)
  <2> DEFINE blocked == \E n \in Aliases(q.answer) : NameMatches(BlockLines, n, now)
             p == IF ~q.allowed /\ blocked THEN "rejected" ELSE "blockIP"
             r == [q EXCEPT !.pc = p]
  <2>1. q.pc = "blockNameResponse" /\ SessionOK(q)
    BY <1>2, HasQuery DEF BlockNameResponse
  <2>2. ~blocked => ~AliasAlwaysBlocked(q.answer)
    BY DEF AliasAlwaysBlocked, FiltersInv, TypeOK
  <2>3. Goto(s, p) /\ now' = now /\ cache' = cache
    BY <1>2 DEF BlockNameResponse
  <2> HIDE DEF blocked
  <2>4. /\ session' = [session EXCEPT ![s] = r] /\ r \in Queries /\ r.pc = p /\ r.name = q.name
        /\ r.allowed = q.allowed /\ r.barred = q.barred /\ r.answer = q.answer
    <3>1. p \in Pcs
      BY DEF Pcs, Final
    <3> HIDE DEF p
    <3> QED
      BY <2>1, <2>3, <3>1, Goes
  <2> HIDE DEF r
  <2>5. SessionOK(r)
    BY <2>1, <2>2, <2>4 DEF SessionOK, AllowedOK, AnswerOK
  <2> QED
    BY ZenonT(30), <2>3, <2>4, <2>5, Moves
<1>3. CASE BlockIP(s)
  <2> DEFINE blocked == \E ip \in Addresses(q.answer) : IPMatches(BlockIPLines, ip)
             p == IF ~q.allowed /\ blocked THEN "rejected" ELSE "cacheResponse"
             r == [q EXCEPT !.pc = p]
  <2>1. q.pc = "blockIP" /\ SessionOK(q)
    BY Zenon, <1>3, HasQuery DEF BlockIP
  <2>2. q.allowed \/ ~blocked => ~Forbidden(q.name, q.answer)
    <3>1. /\ q.allowed => ~Forbidden(q.name, q.answer)
          /\ ~q.allowed => ~AliasAlwaysBlocked(q.answer)
      BY <2>1 DEF SessionOK, AnswerOK
    <3>2. ~AliasAlwaysBlocked(q.answer) /\ ~blocked => ~Forbidden(q.name, q.answer)
      BY Zenon, UnblockedNotForbidden
    <3> QED
      BY ZenonT(30), <3>1, <3>2
  <2>3. Goto(s, p) /\ now' = now /\ cache' = cache
    BY <1>3 DEF BlockIP
  <2> HIDE DEF blocked
  <2>4. /\ session' = [session EXCEPT ![s] = r] /\ r \in Queries /\ r.pc = p /\ r.name = q.name
        /\ r.allowed = q.allowed /\ r.barred = q.barred /\ r.answer = q.answer
    <3>1. p \in Pcs
      BY DEF Pcs, Final
    <3> HIDE DEF p
    <3> QED
      BY <2>1, <2>3, <3>1, Goes
  <2> HIDE DEF r
  <2>5. SessionOK(r)
    BY <2>1, <2>2, <2>4 DEF SessionOK, AllowedOK, AnswerOK
  <2> QED
    BY ZenonT(30), <2>3, <2>4, <2>5, Moves
<1> QED
  BY <1>1, <1>2, <1>3

\* The cache changes, and no session that is not at its end does.
LEMMA CacheChanges ==
  ASSUME FiltersInv, now' = now, NEW n \in Names,
         NEW c \in {None} \cup [answer : Answers, fresh : BOOLEAN], c # None => ~Forbidden(n, c.answer),
         cache' = [cache EXCEPT ![n] = c],
         session' \in [Sessions -> {Idle} \cup Queries], \A s \in Sessions : SessionOK(session'[s])
  PROVE  FiltersInv'
<1>1. TypeOK'
  BY DEF FiltersInv, TypeOK, Queries, Times
<1>2. CacheOK'
  BY DEF FiltersInv, TypeOK, CacheOK
<1> QED
  BY <1>1, <1>2 DEF FiltersInv

\* A response is kept, or not, and served.
LEMMA CacheStep == ASSUME FiltersInv, NEW s \in Sessions, CacheResponse(s) PROVE FiltersInv'
<1> DEFINE q == session[s]
           r == [q EXCEPT !.pc = "served"]
           c == [answer |-> q.answer, fresh |-> TRUE]
<1>1. q.pc = "cacheResponse" /\ q \in Queries /\ SessionOK(q)
  BY HasQuery DEF CacheResponse
<1>2. q.answer \in Answers /\ ~Forbidden(q.name, q.answer) /\ q.name \in Names
  BY SMTT(30), <1>1 DEF SessionOK, AnswerOK, Queries
<1>3. now' = now /\ Goto(s, "served") /\ (cache' = cache \/ cache' = [cache EXCEPT ![q.name] = c])
  BY DEF CacheResponse
<1>4. /\ session' = [session EXCEPT ![s] = r] /\ r \in Queries /\ r.pc = "served" /\ r.name = q.name
      /\ r.allowed = q.allowed /\ r.barred = q.barred /\ r.answer = q.answer
  BY ZenonT(30), <1>1, <1>3, Goes DEF Pcs, Final
<1> HIDE DEF r
<1>5. SessionOK(r)
  BY Zenon, <1>1, <1>2, <1>4 DEF SessionOK, AllowedOK, AnswerOK
<1>6. CASE cache' = cache
  BY Zenon, <1>3, <1>4, <1>5, <1>6, Moves
<1>7. CASE cache' = [cache EXCEPT ![q.name] = c]
  <2>1. c \in [answer : Answers, fresh : BOOLEAN] /\ ~Forbidden(q.name, c.answer)
    BY <1>2
  <2>2. session' \in [Sessions -> {Idle} \cup Queries]
    BY <1>4 DEF FiltersInv, TypeOK, Queries
  <2>3. \A u \in Sessions : SessionOK(session'[u])
    BY <1>4, <1>5 DEF FiltersInv, TypeOK
  <2> HIDE DEF c
  <2> QED
    BY Zenon, <1>2, <1>3, <1>7, <2>1, <2>2, <2>3, CacheChanges
<1> QED
  BY <1>3, <1>6, <1>7

\* Time passes, and what is cached gets old.
LEMMA TimeStep ==
  ASSUME FiltersInv, Tick \/ \E n \in Names : Expire(n) \/ Evict(n)
  PROVE  FiltersInv'
<1>0. session \in [Sessions -> {Idle} \cup Queries] /\ \A s \in Sessions : SessionOK(session[s])
  BY DEF FiltersInv, TypeOK, Queries
<1>1. CASE Tick
  <2>1. now' \in Times
    <3>1. now.day \in 0..(Days - 1) /\ now.minute \in 0..(Minutes - 1) /\ now \in Times
      BY DEF FiltersInv, TypeOK, Times
    <3>2. Days \in Nat \ {0} /\ Minutes \in Nat \ {0}
      BY FiltersAssumption DEF FiltersAssumption
    <3>3. (now.day + 1) % Days \in 0..(Days - 1) /\ 0 \in 0..(Minutes - 1)
      BY <3>1, <3>2
    <3>4. now.minute + 1 < Minutes => now.minute + 1 \in 0..(Minutes - 1)
      BY <3>1, <3>2
    <3> QED
      BY <1>1, <3>1, <3>3, <3>4 DEF Tick, Times
  <2>2. TypeOK'
    BY <1>1, <2>1 DEF Tick, FiltersInv, TypeOK, Times
  <2> QED
    BY <1>1, <2>2 DEF Tick, FiltersInv, CacheOK
<1>2. ASSUME NEW n \in Names, Expire(n) PROVE FiltersInv'
  <2> DEFINE c == [cache[n] EXCEPT !.fresh = FALSE]
  <2>1. cache[n] \in [answer : Answers, fresh : BOOLEAN] /\ ~Forbidden(n, cache[n].answer)
    BY <1>2 DEF Expire, FiltersInv, TypeOK, CacheOK
  <2>2. c \in [answer : Answers, fresh : BOOLEAN] /\ c.answer = cache[n].answer
    BY Zenon, <2>1
  <2>3. cache' = [cache EXCEPT ![n] = c] /\ now' = now /\ session' = session
    BY <1>2 DEF Expire
  <2> HIDE DEF c
  <2> QED
    BY Zenon, <1>0, <2>1, <2>2, <2>3, CacheChanges
<1>3. ASSUME NEW n \in Names, Evict(n) PROVE FiltersInv'
  BY ZenonT(30), <1>0, <1>3, CacheChanges DEF Evict
<1> QED
  BY <1>1, <1>2, <1>3

\* No step of any session lets another one serve what is blocked.
THEOREM FiltersNextInv == FiltersInv /\ [Next]_vars => FiltersInv'
<1> SUFFICES ASSUME FiltersInv, [Next]_vars PROVE FiltersInv'
  OBVIOUS
<1>1. CASE UNCHANGED vars
  BY <1>1 DEF vars, FiltersInv, TypeOK, Times, CacheOK
<1>2. CASE Next
  BY <1>2, QueryStep, ServerStep, ResponseStep, CacheStep, TimeStep DEF Next
<1> QED
  BY <1>1, <1>2

\* Whatever the rules, their schedules and the responses, and with any number of
\* sessions, what is always blocked is neither served nor cached.
THEOREM NeverServed == Spec => []BlockedNeverServed
<1>1. FiltersInv => BlockedNeverServed
  BY DEF FiltersInv, CacheOK, SessionOK, AnswerOK, BlockedNeverServed
<1> QED
  BY <1>1, FiltersInitInv, FiltersNextInv, PTL DEF Spec

\* A name that is blocked when it is asked for is not served, from the cache
\* either.
THEOREM NotServedNow == Spec => []BlockedNowNotServed
<1>1. FiltersInv => BlockedNowNotServed
  BY DEF FiltersInv, SessionOK, AllowedOK, BlockedNowNotServed
<1> QED
  BY <1>1, FiltersInitInv, FiltersNextInv, PTL DEF Spec

\* Nothing that is allowed is rejected, whichever plugin has allowed it.
THEOREM NeverRejected == Spec => []AllowedBypasses
<1>1. FiltersInv => AllowedBypasses
  BY DEF FiltersInv, SessionOK, AllowedOK, AllowedBypasses
<1> QED
  BY <1>1, FiltersInitInv, FiltersNextInv, PTL DEF Spec
=============================================================================
