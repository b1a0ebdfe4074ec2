------------------------------ MODULE Filters ------------------------------
(***************************************************************************)
(* Filtering (plugin_allow_name.go, plugin_block_name.go,                  *)
(* plugin_allow_ip.go, plugin_block_ip.go, time_ranges.go) and the cache,  *)
(* in the order in which plugins.go applies the plugins to the queries of  *)
(* concurrent sessions.                                                    *)
(*                                                                         *)
(* A rule names a name or an address.  What patterns match is the subject  *)
(* of PatternMatcher.  A response is a sequence of records, each an alias  *)
(* (CNAME, and SVCB and HTTPS with priority 0) or an address.              *)
(***************************************************************************)
EXTENDS Integers, Sequences

CONSTANTS Sessions, Names, IPs,
          AllowLines, BlockLines,      \* rules for names, [of, range]
          AllowIPLines, BlockIPLines,  \* rules for addresses, [of, range]
          Schedules,       \* the time ranges of the configuration
          Days, Minutes,   \* the lengths of a week and of a day
          AliasesLimit,    \* 8
          Answers,         \* what servers respond
          None             \* no range, no response

Alias(n) == [alias |-> n]
Address(ip) == [ip |-> ip]

ASSUME FiltersAssumption ==
  /\ Answers \subseteq Seq({Alias(n) : n \in Names} \cup {Address(ip) : ip \in IPs})
  /\ AliasesLimit \in Nat /\ {Days, Minutes} \subseteq Nat \ {0}
  /\ None \notin DOMAIN Schedules

VARIABLES now,        \* day and minute
          cache,      \* Names -> None or [answer, fresh]
          session

vars == <<now, cache, session>>

-----------------------------------------------------------------------------
(***************************************************************************)
(* Schedules.  A schedule is a set of ranges for each day.                 *)
(***************************************************************************)

\* A range that begins when it ends is the whole day.
Parsed(r) == IF r.after = r.before THEN [after |-> -1, before |-> Minutes + 1] ELSE r

Match(range, t) ==
  \E x \in Schedules[range][t.day] :
    LET r == Parsed(x)
    IN  IF r.after > r.before THEN t.minute >= r.after \/ t.minute <= r.before
                              ELSE t.minute >= r.after /\ t.minute <= r.before

\* A rule for a name applies when its range matches, or always if it has no
\* range or one that is not configured.
NameMatches(lines, n, t) ==
  \E l \in lines : l.of = n /\ (l.range \in DOMAIN Schedules => Match(l.range, t))

\* Rules for addresses have no ranges: with one, the line is not an address.
IPMatches(lines, ip) == \E l \in lines : l.of = ip /\ l.range = None

-----------------------------------------------------------------------------
Idle == [pc |-> "idle"]

IsAlias(r) == "alias" \in DOMAIN r

Aliases(answer) == LET as == SelectSeq(answer, IsAlias)
                   IN  {as[k].alias : k \in {k \in DOMAIN as : k <= AliasesLimit}}

Addresses(answer) == {answer[k].ip : k \in {k \in DOMAIN answer : ~IsAlias(answer[k])}}

Goto(s, pc) == session' = [session EXCEPT ![s].pc = pc]

\* A response.  The stale one is not looked at any more.
Respond(s, answer) ==
  session' = [session EXCEPT ![s].pc = "allowedIP", ![s].answer = answer, ![s].stale = None]

-----------------------------------------------------------------------------
(***************************************************************************)
(* ApplyQueryPlugins                                                       *)
(***************************************************************************)
Query(s, n) ==
  /\ session[s].pc = "idle"
  /\ session' = [session EXCEPT ![s] = [pc |-> "allowName", name |-> n, allowed |-> FALSE, answer |-> None,
                                        stale |-> None, barred |-> NameMatches(BlockLines, n, now)]]
  /\ UNCHANGED <<now, cache>>

\* Mutant of AllowName: the cache is read before names are blocked.
AllowNameThenCache(s) ==
  /\ session[s].pc = "allowName"
  /\ session' = [session EXCEPT ![s].pc = IF cache[session[s].name] = None THEN "blockName" ELSE "cache",
                                ![s].allowed = NameMatches(AllowLines, session[s].name, now)]
  /\ UNCHANGED <<now, cache>>

AllowName(s) ==
  /\ session[s].pc = "allowName"
  /\ session' = [session EXCEPT ![s].pc = "blockName",
                                ![s].allowed = NameMatches(AllowLines, session[s].name, now)]
  /\ UNCHANGED <<now, cache>>

BlockName(s) ==
  /\ session[s].pc = "blockName"
  /\ session' = [session EXCEPT ![s].pc = IF ~session[s].allowed /\ NameMatches(BlockLines, session[s].name, now)
                                            THEN "rejected" ELSE "cache",
                                ![s].barred = NameMatches(BlockLines, session[s].name, now)]
  /\ UNCHANGED <<now, cache>>

Cache(s) ==
  /\ session[s].pc = "cache"
  /\ LET c == cache[session[s].name]
     IN  session' = [session EXCEPT ![s] = IF c = None THEN [@ EXCEPT !.pc = "server"]
                                           ELSE IF c.fresh THEN [@ EXCEPT !.pc = "served", !.answer = c.answer]
                                           ELSE [@ EXCEPT !.pc = "server", !.stale = c.answer]]
  /\ UNCHANGED <<now, cache>>

-----------------------------------------------------------------------------
(***************************************************************************)
(* The server's response, and ApplyResponsePlugins                         *)
(***************************************************************************)
Answer(s, answer) ==
  /\ session[s].pc = "server"
  /\ Respond(s, answer)
  /\ UNCHANGED <<now, cache>>

\* A truncated response that cannot be parsed is sent as it is.
Unparsable(s) ==
  /\ session[s].pc = "server"
  /\ Goto(s, "truncated")
  /\ UNCHANGED <<now, cache>>

\* No response: a stale one from the cache, if there is one, goes through the
\* plugins.
Outage(s) ==
  /\ session[s].pc = "server"
  /\ IF session[s].stale # None THEN Respond(s, session[s].stale) ELSE Goto(s, "dropped")
  /\ UNCHANGED <<now, cache>>

AllowedIP(s) ==
  /\ session[s].pc = "allowedIP"
  /\ session' = [session EXCEPT ![s].pc = "blockNameResponse",
                                ![s].allowed = @ \/ \E ip \in Addresses(session[s].answer) : IPMatches(AllowIPLines, ip)]
  /\ UNCHANGED <<now, cache>>

\* The addresses of a rejected response are not looked at.
BlockNameResponse(s) ==
  /\ session[s].pc = "blockNameResponse"
  /\ Goto(s, IF ~session[s].allowed /\ \E n \in Aliases(session[s].answer) : NameMatches(BlockLines, n, now)
               THEN "rejected" ELSE "blockIP")
  /\ UNCHANGED <<now, cache>>

\* Mutant of BlockIP: a rejected response is cached.
BlockIPCaching(s) ==
  /\ session[s].pc = "blockIP"
  /\ IF ~session[s].allowed /\ \E ip \in Addresses(session[s].answer) : IPMatches(BlockIPLines, ip)
       THEN /\ Goto(s, "rejected")
            /\ cache' = [cache EXCEPT ![session[s].name] = [answer |-> session[s].answer, fresh |-> TRUE]]
       ELSE Goto(s, "cacheResponse") /\ UNCHANGED cache
  /\ UNCHANGED now

BlockIP(s) ==
  /\ session[s].pc = "blockIP"
  /\ Goto(s, IF ~session[s].allowed /\ \E ip \in Addresses(session[s].answer) : IPMatches(BlockIPLines, ip)
               THEN "rejected" ELSE "cacheResponse")
  /\ UNCHANGED <<now, cache>>

\* Truncated responses and those with error codes are not cached.
CacheResponse(s) ==
  /\ session[s].pc = "cacheResponse"
  /\ \/ cache' = [cache EXCEPT ![session[s].name] = [answer |-> session[s].answer, fresh |-> TRUE]]
     \/ UNCHANGED cache
  /\ Goto(s, "served")
  /\ UNCHANGED now

Final == {"served", "truncated", "rejected", "dropped"}

End(s) ==
  /\ session[s].pc \in Final
  /\ session' = [session EXCEPT ![s] = Idle]
  /\ UNCHANGED <<now, cache>>

-----------------------------------------------------------------------------
\* Time passes.
Tick ==
  /\ now' = IF now.minute + 1 < Minutes THEN [now EXCEPT !.minute = @ + 1]
            ELSE [day |-> (now.day + 1) % Days, minute |-> 0]
  /\ UNCHANGED <<cache, session>>

Expire(n) ==
  /\ cache[n] # None
  /\ cache' = [cache EXCEPT ![n].fresh = FALSE]
  /\ UNCHANGED <<now, session>>

\* The sieve makes room for an answer to another question.
Evict(n) ==
  /\ cache[n] # None
  /\ cache' = [cache EXCEPT ![n] = None]
  /\ UNCHANGED <<now, session>>

Init == /\ now = [day |-> 0, minute |-> 0]
        /\ cache = [n \in Names |-> None]
        /\ session = [s \in Sessions |-> Idle]

Next == \/ \E s \in Sessions :
             \/ \E n \in Names : Query(s, n)
             \/ AllowName(s) \/ BlockName(s) \/ Cache(s)
             \/ \E a \in Answers : Answer(s, a)
             \/ Unparsable(s) \/ Outage(s)
             \/ AllowedIP(s) \/ BlockNameResponse(s) \/ BlockIP(s) \/ CacheResponse(s)
             \/ End(s)
        \/ Tick
        \/ \E n \in Names : Expire(n) \/ Evict(n)

Spec == Init /\ [][Next]_vars

-----------------------------------------------------------------------------
Times == [day : 0..(Days - 1), minute : 0..(Minutes - 1)]

Pcs == {"allowName", "blockName", "cache", "server", "allowedIP", "blockNameResponse", "blockIP",
        "cacheResponse"} \cup Final

\* Types.  What the cache holds, in particular, has been given a time to live
\* (plugin_cache.go:146-149).
TypeOK ==
  /\ now \in Times
  /\ cache \in [Names -> {None} \cup [answer : Answers, fresh : BOOLEAN]]
  /\ session \in [Sessions -> {Idle} \cup [pc : Pcs, name : Names, allowed : BOOLEAN, barred : BOOLEAN,
                                           answer : {None} \cup Answers, stale : {None} \cup Answers]]

\* A response of a name that is never allowed has something that is always blocked.
Forbidden(n, answer) ==
  /\ \A l \in AllowLines : l.of # n
  /\ \A ip \in Addresses(answer) : ~IPMatches(AllowIPLines, ip)
  /\ \/ \E a \in Aliases(answer) : \A t \in Times : NameMatches(BlockLines, a, t)
     \/ \E ip \in Addresses(answer) : IPMatches(BlockIPLines, ip)

\* What is blocked at all times is never served nor kept in the cache,
\* at any time and whoever asked for it first: sessions that hit the cache skip
\* all response plugins (proxy.go:689, plugin_cache.go:99-104).
BlockedNeverServed ==
  /\ \A n \in Names : cache[n] # None => ~Forbidden(n, cache[n].answer)
  /\ \A s \in Sessions : session[s].pc = "served" => ~Forbidden(session[s].name, session[s].answer)

\* A name that is allowed when a query for it arrives bypasses all filters, even
\* if it is not allowed any more when the response arrives, and whatever
\* other sessions do (plugin_allow_name.go:96, plugin_block_name.go:145, 177).
AllowedBypasses ==
  \A s \in Sessions : session[s].pc = "rejected" => ~session[s].allowed

\* A name that a schedule blocks is not served from the cache either, however
\* it got there: the time that counts is the one of the query
\* (plugin_block_name.go:36).
BlockedNowNotServed ==
  \A s \in Sessions :
    session[s].pc \in {"served", "truncated"} =>
      session[s].allowed \/ ~session[s].barred

-----------------------------------------------------------------------------
(***************************************************************************)
(* What a document or a comment says and the code does not do: no run      *)
(* checks these, and each has a counterexample (see the README).           *)
(***************************************************************************)

\* "Blacklisted names are now also blocked if they appear in CNAME pointers",
\* unless the name asked for is allowed.
AliasesBlocked ==
  \A s \in Sessions :
    session[s].pc = "served" =>
      \/ NameMatches(AllowLines, session[s].name, now)
      \/ \A k \in DOMAIN session[s].answer :
           IsAlias(session[s].answer[k]) => ~NameMatches(BlockLines, session[s].answer[k].alias, now)

\* "Time-based rules are also supported" for allowed addresses: a response is
\* not rejected while a range of a rule for one of its addresses matches.
AllowedIPsScheduled ==
  [][\A s \in Sessions :
       session[s].pc = "blockIP" /\ session'[s].pc = "rejected" =>
         ~\E ip \in Addresses(session[s].answer), l \in AllowIPLines :
            l.of = ip /\ l.range \in DOMAIN Schedules /\ Match(l.range, now)]_vars
=============================================================================
