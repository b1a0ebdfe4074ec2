--------------------------- MODULE StartUpProof ---------------------------
(***************************************************************************)
(* Proofs about the start-up, for any lists of addresses, any table of     *)
(* descriptors and any base.                                               *)
(***************************************************************************)
EXTENDS StartUp, TLAPS

Early == {"coldStart", "resolve", "probe", "stop", "wait"}
Final == {"systemd", "drop", "dup", "start", "running"}
Labels == Early \cup {"listen", "doh"} \cup Final \cup {"failed"}

Active(n) == portal[n].pc \in {"read", "check", "close"}

\* The endpoints that the loops over the addresses have been through.
Done(e) ==
  \/ pc = "listen" /\ \E n \in DOMAIN ListenAddresses :
                        n < k /\ e \in {UDP(ListenAddresses[n]), TCP(ListenAddresses[n])}
  \/ /\ pc = "doh"
     /\ \/ \E n \in DOMAIN ListenAddresses : e \in {UDP(ListenAddresses[n]), TCP(ListenAddresses[n])}
        \/ \E n \in DOMAIN DoHAddresses : n < k /\ e = TCP(DoHAddresses[n])
  \/ pc \in Final

\* The position of an endpoint among the inherited descriptors, after that of
\* the log file.
Place(i, e) ==
  \/ \E n \in DOMAIN ListenAddresses : \/ i = 2 * n - 1 /\ e = UDP(ListenAddresses[n])
                                       \/ i = 2 * n /\ e = TCP(ListenAddresses[n])
  \/ \E n \in DOMAIN DoHAddresses : i = 2 * Len(ListenAddresses) + n /\ e = TCP(DoHAddresses[n])

\* How many positions the loops have been through.
Reached == IF pc = "listen" THEN 2 * (k - 1)
           ELSE IF pc = "doh" THEN 2 * Len(ListenAddresses) + (k - 1)
           ELSE 2 * Len(ListenAddresses) + Len(DoHAddresses)

Types ==
  /\ config \in Configs /\ child \in BOOLEAN /\ ready \in BOOLEAN
  /\ pc \in Labels /\ k \in Nat \ {0} /\ num \in Nat
  /\ table \in [Descriptors -> Endpoints \cup {None, File}]
  /\ inherited \in Seq(Descriptors)
  /\ DOMAIN portal = Portals
  /\ \A l \in listeners \cup accepting : l.fd \in Descriptors /\ l.for \in Endpoints
  /\ pc = "listen" => k <= Len(ListenAddresses) + 1
  /\ pc = "doh" => k <= Len(DoHAddresses) + 1
  /\ pc # "failed" => failure = None

\* The goroutines of the captive portal listeners live before the listeners
\* of the proxy, and in the first process only.
PortalsInv ==
  /\ \A n \in Portals : Active(n) => /\ portal[n].fd \in Descriptors
                                     /\ table[portal[n].fd] = PortalEndpoint(n)
                                     /\ pc \in Early /\ ~child
  /\ pc = "coldStart" => \A n \in Portals : n >= k => portal[n] = Off
  /\ pc = "coldStart" /\ config.portals # "good" => k = 1
  /\ pc \in {"resolve", "probe", "stop"} /\ ~handler => \A n \in Portals : portal[n] = Off

\* A wanted endpoint that the loops have not reached is open only in a captive
\* portal listener.
UnreachedInv ==
  ~child => \A e \in Wanted, d \in Descriptors :
              table[d] = e => Done(e) \/ \E n \in Portals : Active(n) /\ portal[n].fd = d

\* Without a change of user: what the loops have been through is open.
SingleInv ==
  /\ Single /\ pc # "failed" => \A e \in Wanted : Done(e) => Held(e)
  /\ ~child => (ready => pc \in {"dup", "running", "failed"})
  /\ ready /\ Single => pc \in {"running", "failed"}
  /\ pc \in {"drop", "dup"} => Parent
  /\ pc \in {"start", "running"} => ~Parent
  /\ pc \notin {"dup", "failed"} /\ ~child => \A d \in config.systemd : table[d] = Activated(d)

\* In the parent: the descriptors to inherit, in their order, after that of the
\* log file if there is one.
ParentInv ==
  Parent /\ pc \notin Early \cup {"failed"} =>
    /\ Len(inherited) = Len(config.log) + Reached
    /\ \A i \in 1..Reached : \A e : Place(i, e) =>
         LET j == Len(config.log) + i IN
         /\ pc # "dup" => table[inherited[j]] = e
         /\ pc = "dup" /\ j >= k /\ inherited[j] < Base => table[inherited[j]] = e
         /\ pc = "dup" /\ j < k => Base + j - 1 \in Descriptors /\ table[Base + j - 1] = e

\* In the child: every socket at its place.
ChildInv ==
  /\ child => config.user
  /\ child /\ pc # "failed" =>
       /\ \A i \in Nat : \A e : Place(i, e) =>
            LET j == Len(config.log) + i IN Base + j - 1 \in Descriptors /\ table[Base + j - 1] = e
       /\ pc \in {"listen", "doh"} => num = Len(config.log) + Reached
       /\ pc \in Early => num = Len(config.log)
       /\ \A n \in Portals : portal[n] = Off

ListenersInv ==
  /\ pc \in Early \cup {"failed"} => listeners = {} /\ accepting = {}
  /\ Parent => listeners = {} /\ accepting = {}
  /\ pc # "running" => accepting = {}
  /\ RightSockets

\* The first steps need no listener, and the parent has none.
EarlyInv == ~child /\ pc \in Early => inherited = config.log

IInv == Types /\ PortalsInv /\ UnreachedInv /\ SingleInv /\ ParentInv /\ ChildInv /\ ListenersInv
          /\ EarlyInv

-----------------------------------------------------------------------------

\* How many descriptors come before those of the sockets.
LEMMA LogLemma == Types => config.log \in Seq(Descriptors) /\ Len(config.log) \in Nat
  BY StartUpAssumption DEF Types

\* The endpoints that are wanted, and where they are among the inherited ones.
LEMMA WantedLemma ==
  /\ None \notin Endpoints /\ File \notin Endpoints /\ \A d : Activated(d) \in Endpoints
  /\ Wanted \subseteq Endpoints
  /\ \A n \in DOMAIN ListenAddresses : UDP(ListenAddresses[n]) \in Wanted /\ TCP(ListenAddresses[n]) \in Wanted
  /\ \A n \in DOMAIN DoHAddresses : TCP(DoHAddresses[n]) \in Wanted
  BY DEF Endpoints, Wanted, None, File, Activated, UDP, TCP

\* The sockets of systemd are not wanted.
LEMMA ActivatedLemma == \A d : Activated(d) \notin Wanted
  BY DistinctAssumption DEF Activated

\* What an endpoint's place among the inherited descriptors is: two for each listen
\* address, then one for each local DoH address.
LEMMA PlaceLemma ==
  /\ \A i \in Int : \A e : Place(i, e) =>
       e \in Wanted /\ 0 < i /\ i <= 2 * Len(ListenAddresses) + Len(DoHAddresses)
  /\ \A e \in Wanted : \E i \in Nat : Place(i, e)
  /\ \A n \in DOMAIN ListenAddresses : \A e : /\ Place(2 * n - 1, e) <=> e = UDP(ListenAddresses[n])
                                              /\ Place(2 * n, e) <=> e = TCP(ListenAddresses[n])
  /\ \A n \in DOMAIN DoHAddresses : \A e :
       Place(2 * Len(ListenAddresses) + n, e) <=> e = TCP(DoHAddresses[n])
  <1>1. \A n \in DOMAIN ListenAddresses : n \in Nat /\ 1 <= n /\ n <= Len(ListenAddresses)
    BY StartUpAssumption
  <1>2. \A n \in DOMAIN DoHAddresses : n \in Nat /\ 1 <= n /\ n <= Len(DoHAddresses)
    BY StartUpAssumption
  <1>3. Len(ListenAddresses) \in Nat /\ Len(DoHAddresses) \in Nat
    BY StartUpAssumption
  <1>4. ASSUME NEW i \in Int, NEW e, Place(i, e)
        PROVE e \in Wanted /\ 0 < i /\ i <= 2 * Len(ListenAddresses) + Len(DoHAddresses)
    BY <1>3, <1>4, WantedLemma DEF Place
  <1>5. ASSUME NEW e \in Wanted PROVE \E i \in Nat : Place(i, e)
    <2>1. CASE \E n \in DOMAIN ListenAddresses : e = UDP(ListenAddresses[n])
      <3>1. PICK n \in DOMAIN ListenAddresses : e = UDP(ListenAddresses[n])
        BY <2>1
      <3>2. Place(2 * n - 1, e) /\ 2 * n - 1 \in Nat
        BY <3>1, <1>1 DEF Place
      <3> QED BY <3>2
    <2>2. CASE \E n \in DOMAIN ListenAddresses : e = TCP(ListenAddresses[n])
      <3>1. PICK n \in DOMAIN ListenAddresses : e = TCP(ListenAddresses[n])
        BY <2>2
      <3>2. Place(2 * n, e) /\ 2 * n \in Nat
        BY <3>1, <1>1 DEF Place
      <3> QED BY <3>2
    <2>3. CASE \E n \in DOMAIN DoHAddresses : e = TCP(DoHAddresses[n])
      <3>1. PICK n \in DOMAIN DoHAddresses : e = TCP(DoHAddresses[n])
        BY <2>3
      <3>2. Place(2 * Len(ListenAddresses) + n, e) /\ 2 * Len(ListenAddresses) + n \in Nat
        BY <3>1, <1>2, <1>3 DEF Place
      <3> QED BY <3>2
    <2> QED BY <2>1, <2>2, <2>3 DEF Wanted
  <1>6. ASSUME NEW n \in DOMAIN ListenAddresses, NEW e
        PROVE Place(2 * n - 1, e) <=> e = UDP(ListenAddresses[n])
    BY <1>3 DEF Place
  <1>7. ASSUME NEW n \in DOMAIN ListenAddresses, NEW e
        PROVE Place(2 * n, e) <=> e = TCP(ListenAddresses[n])
    BY <1>3 DEF Place
  <1>8. ASSUME NEW n \in DOMAIN DoHAddresses, NEW e
        PROVE Place(2 * Len(ListenAddresses) + n, e) <=> e = TCP(DoHAddresses[n])
    BY <1>3 DEF Place
  <1> QED BY <1>4, <1>5, <1>6, <1>7, <1>8

\* Two descriptors are appended.
LEMMA PairLemma ==
  ASSUME NEW S, NEW s \in Seq(S), NEW a \in S, NEW b \in S
  PROVE /\ s \o <<a, b>> \in Seq(S) /\ Len(s \o <<a, b>>) = Len(s) + 2
        /\ \A i \in DOMAIN s : (s \o <<a, b>>)[i] = s[i]
        /\ (s \o <<a, b>>)[Len(s) + 1] = a /\ (s \o <<a, b>>)[Len(s) + 2] = b
  <1>1. <<a, b>> \in Seq(S) /\ Len(<<a, b>>) = 2 /\ <<a, b>>[1] = a /\ <<a, b>>[2] = b
    OBVIOUS
  <1> QED BY <1>1

\* The next table has what this one has, and sockets of es where it was free.
Grown(es) ==
  /\ table' \in [Descriptors -> Endpoints \cup {None, File}]
  /\ \A d \in Descriptors : table[d] # None => table'[d] = table[d]
  /\ \A d \in Descriptors : table'[d] = table[d] \/ table'[d] \in es

\* What the step of dlog.Fatal leaves.
LEMMA FatalLemma == ASSUME NEW e, IInv, Fatal(e) PROVE IInv'
  <1>1. Types'
    BY WantedLemma, StartUpAssumption DEF IInv, Fatal, Types, Labels, Early, Final, Listener, who
  <1>2. PortalsInv'
    BY WantedLemma, StartUpAssumption DEF IInv, Fatal, PortalsInv, Active, Early, Off, Portals,
       who, probing
  <1>3. UnreachedInv'
    BY WantedLemma DEF Fatal, UnreachedInv
  <1>4. SingleInv'
    BY WantedLemma, StartUpAssumption DEF IInv, Fatal, SingleInv, Done, Held, Single, Parent,
       Final, Early, who
  <1>5. ParentInv'
    BY DEF Fatal, ParentInv
  <1>6. ChildInv'
    BY DEF IInv, Fatal, ChildInv, who
  <1>7. ListenersInv'
    BY DEF Fatal, ListenersInv, RightSockets
  <1>8. EarlyInv' BY WantedLemma, StartUpAssumption DEF IInv, Fatal, EarlyInv, Early, who
  <1> QED BY <1>1, <1>2, <1>3, <1>4, <1>5, <1>6, <1>7, <1>8 DEF IInv

\* What a process leaves that opens the sockets es of its next address, in the
\* captive portal listeners and in a single process.
LEMMA GrownLemma ==
  ASSUME IInv, pc \in {"listen", "doh"}, NEW es, Grown(es), \A e \in es : Held(e)',
         \A e : Done(e)' <=> Done(e) \/ e \in es,
         UNCHANGED <<config, child, pc, portal, ready>>
  PROVE  PortalsInv' /\ UnreachedInv' /\ SingleInv' /\ EarlyInv'
  <1>1. \A n \in Portals : portal[n] = portal'[n] /\ ~Active(n)
    BY DEF IInv, PortalsInv, Early
  <1>2. PortalsInv' BY <1>1 DEF PortalsInv, Active
  <1>3. UnreachedInv' BY <1>1 DEF IInv, UnreachedInv, Grown
  <1>4. SingleInv'
    <2>1. \A e \in Wanted : Held(e) => Held(e)'
      BY WantedLemma DEF Held, Grown
    <2>2. \A d \in config.systemd : d \in Descriptors /\ (table[d] = Activated(d) => table'[d] = Activated(d))
      BY StartUpAssumption, WantedLemma DEF IInv, Types, Grown
    <2> QED BY <2>1, <2>2 DEF IInv, SingleInv, Single, Parent
  <1>5. EarlyInv' BY DEF EarlyInv, Early
  <1> QED BY <1>2, <1>3, <1>4, <1>5

\* A process that keeps its user opens two sockets for an address.
LEMMA AddDNSListenerStep == ASSUME IInv, AddDNSListener PROVE IInv'
  <1> DEFINE u == UDP(ListenAddresses[k])
             t == TCP(ListenAddresses[k])
  <1>a. /\ pc = "listen" /\ k \in DOMAIN ListenAddresses /\ Single /\ k' = k + 1
        /\ UNCHANGED <<config, child, pc, portal, inherited, num, accepting, ready, failure>>
    BY DEF AddDNSListener, AtAddress, who, serving, told
  <1>e. PICK d3 \in Lowest(table) : \E d4 \in Lowest(Opened(table, d3, u)) :
             /\ table' = Opened(Opened(table, d3, u), d4, t)
             /\ listeners' = listeners \cup {Listener(u, d3), Listener(t, d4)}
    BY DEF AddDNSListener
  <1>b. PICK d4 \in Lowest(Opened(table, d3, u)) :
             /\ table' = Opened(Opened(table, d3, u), d4, t)
             /\ listeners' = listeners \cup {Listener(u, d3), Listener(t, d4)}
    BY <1>e
  <1>f. d3 \in Descriptors /\ d4 \in Descriptors /\ table[d3] = None
        /\ Opened(table, d3, u)[d4] = None
    BY DEF Lowest
  <1>g. u \in Wanted /\ t \in Wanted /\ u # None /\ t # None /\ u # t
    BY <1>a, WantedLemma DEF UDP, TCP
  <1> HIDE DEF u, t
  <1>h. table \in [Descriptors -> Endpoints \cup {None, File}] /\ d3 # d4 /\ table[d4] = None
    BY <1>f, <1>g DEF Opened, IInv, Types
  <1>i. Grown({u, t}) /\ table'[d3] = u /\ table'[d4] = t
    BY ZenonT(30), <1>b, <1>f, <1>g, <1>h, WantedLemma DEF Grown, Opened
  <1>j. k \in Nat /\ 1 <= k /\ k <= Len(ListenAddresses) /\ Len(ListenAddresses) \in Nat
    BY <1>a, StartUpAssumption
  <1>k. \A e : Done(e)' <=> Done(e) \/ e \in {u, t}
    BY <1>a, <1>j DEF Done, u, t
  <1>l. \A e \in {u, t} : Held(e)'
    BY <1>f, <1>i DEF Held
  <1>2. PortalsInv' /\ UnreachedInv' /\ SingleInv' /\ EarlyInv'
    BY <1>a, <1>i, <1>k, <1>l, GrownLemma
  <1>1. Types'
    BY <1>a, <1>f, <1>i, <1>j, <1>b, <1>g, WantedLemma DEF IInv, Types, Grown, Listener
  <1>3. ParentInv' BY <1>a DEF ParentInv, Parent, Single
  <1>4. ChildInv' BY <1>a DEF IInv, ChildInv, Single
  <1>5. ListenersInv'
    BY <1>a, <1>b, <1>i, WantedLemma DEF IInv, Types, ListenersInv, RightSockets,
       Parent, Single,
       Early, Listener, Grown
  <1> QED BY <1>1, <1>2, <1>3, <1>4, <1>5 DEF IInv

\* A process that keeps its user opens one socket for a DoH address.
LEMMA AddLocalDoHListenerStep == ASSUME IInv, AddLocalDoHListener PROVE IInv'
  <1> DEFINE t == TCP(DoHAddresses[k])
  <1>a. /\ pc = "doh" /\ k \in DOMAIN DoHAddresses /\ Single /\ k' = k + 1
        /\ UNCHANGED <<config, child, pc, portal, inherited, num, accepting, ready, failure>>
    BY DEF AddLocalDoHListener, AtDoHAddress, who, told
  <1>b. PICK d2 \in Lowest(table) : /\ table' = Opened(table, d2, t)
                                    /\ listeners' = listeners \cup {Listener(t, d2)}
    BY DEF AddLocalDoHListener
  <1>f. d2 \in Descriptors /\ table[d2] = None
    BY DEF Lowest
  <1>g. t \in Wanted /\ t # None
    BY <1>a, WantedLemma
  <1> HIDE DEF t
  <1>i. Grown({t}) /\ table'[d2] = t
    BY <1>b, <1>f, <1>g, WantedLemma DEF Grown, Opened, IInv, Types
  <1>j. /\ k \in Nat /\ 1 <= k /\ k <= Len(DoHAddresses) /\ Len(DoHAddresses) \in Nat
        /\ Len(ListenAddresses) \in Nat
    BY <1>a
  <1>k. \A e : Done(e)' <=> Done(e) \/ e \in {t}
    BY <1>a, <1>j DEF Done, t
  <1>l. \A e \in {t} : Held(e)'
    BY <1>f, <1>i DEF Held
  <1>2. PortalsInv' /\ UnreachedInv' /\ SingleInv' /\ EarlyInv'
    BY <1>a, <1>i, <1>k, <1>l, GrownLemma
  <1>1. Types'
    BY <1>a, <1>f, <1>i, <1>j, <1>b, <1>g, WantedLemma DEF IInv, Types, Grown, Listener
  <1>3. ParentInv' BY <1>a DEF ParentInv, Parent, Single
  <1>4. ChildInv' BY <1>a DEF IInv, ChildInv, Single
  <1>5. ListenersInv'
    BY <1>a, <1>b, <1>i, WantedLemma DEF IInv, Types, ListenersInv, RightSockets,
       Parent, Single,
       Early, Listener, Grown
  <1> QED BY <1>1, <1>2, <1>3, <1>4, <1>5 DEF IInv

\* What a child leaves that takes the sockets of an address over.
LEMMA ChildLemma ==
  ASSUME IInv, child, pc \in {"listen", "doh"},
         UNCHANGED <<config, child, pc, portal, table, ready>>
  PROVE  PortalsInv' /\ UnreachedInv' /\ SingleInv' /\ ParentInv' /\ EarlyInv'
  <1>1. PortalsInv' BY DEF IInv, PortalsInv, Active
  <1>2. config.user BY DEF IInv, ChildInv
  <1>3. UnreachedInv' /\ EarlyInv' BY DEF UnreachedInv, EarlyInv
  <1>4. SingleInv' BY ZenonT(30), <1>2 DEF SingleInv, Single
  <1>5. ParentInv' BY DEF ParentInv, Parent
  <1> QED BY <1>1, <1>3, <1>4, <1>5

\* What does not speak of the captive portal listeners.
LEMMA PortalLemma ==
  ASSUME IInv, UNCHANGED <<who, main, sockets, serving, told>>
  PROVE SingleInv' /\ ParentInv' /\ ListenersInv' /\ EarlyInv'
  <1>1. SingleInv'
    BY DEF IInv, SingleInv, Done, Held, Single, Parent, who, main, sockets, told
  <1>2. ParentInv'
    BY DEF IInv, ParentInv, Parent, Reached, who, main, sockets
  <1>3. ListenersInv'
    BY DEF IInv, ListenersInv, RightSockets, Parent, who, main, sockets, serving
  <1>4. EarlyInv'
    BY DEF IInv, EarlyInv, who, main, sockets
  <1> QED BY <1>1, <1>2, <1>3, <1>4

\* What a step that only others, interfaces or clients take part in leaves.
LEMMA StutterLemma ==
  ASSUME IInv, UNCHANGED <<who, main, probing, portal, sockets, serving, told>> PROVE IInv'
  <1>1. Types'
    BY DEF IInv, Types, Labels, Early, Final, Listener, who, main, sockets, serving, told
  <1>2. PortalsInv'
    BY DEF IInv, PortalsInv, Active, Early, Off, Portals, who, main, probing, sockets
  <1>3. UnreachedInv'
    BY DEF IInv, UnreachedInv, Done, Active, Final, Early, who, main, sockets
  <1>4. SingleInv' /\ ParentInv' /\ ListenersInv' /\ EarlyInv'
    BY PortalLemma
  <1>5. ChildInv' BY DEF IInv, ChildInv, Reached, who, main, sockets
  <1> QED BY <1>1, <1>2, <1>3, <1>4, <1>5 DEF IInv

\* What a step of the cold start or of the probe leaves, which changes no socket.
LEMMA EarlyLemma ==
  ASSUME IInv, pc \in Early, pc' \in Early, k' \in Nat \ {0}, PortalsInv',
         UNCHANGED <<who, portal, sockets, serving, told>>
  PROVE  IInv'
  <1>1. Types' BY DEF IInv, Types, Labels, Early, who, sockets, serving, told
  <1>2. UnreachedInv' BY DEF IInv, UnreachedInv, Done, Active, Early, Final, who, sockets
  <1>3. SingleInv' BY DEF IInv, SingleInv, Done, Early, Final, Single, Parent, who, sockets, told
  <1>4. ParentInv' BY DEF ParentInv
  <1>5. ChildInv' BY DEF IInv, ChildInv, Early, who, sockets
  <1>6. ListenersInv' BY DEF IInv, ListenersInv, RightSockets, Early, serving
  <1>7. EarlyInv' BY DEF IInv, EarlyInv, who, sockets
  <1> QED BY <1>1, <1>2, <1>3, <1>4, <1>5, <1>6, <1>7 DEF IInv

\* What a new captive portal listener leaves.
LEMMA PortalOpened ==
  ASSUME IInv, ~child, pc = "coldStart", k \in Portals, config.portals = "good",
         NEW d \in Descriptors, table[d] = None, table' = Opened(table, d, PortalEndpoint(k)),
         portal' = [portal EXCEPT ![k] = [pc |-> "read", fd |-> d]],
         k' = k + 1, UNCHANGED <<config, child, pc>>
  PROVE  PortalsInv' /\ UnreachedInv'
  <1>1. k \in Nat /\ (\A n \in Portals : n \in Nat /\ PortalEndpoint(n) \in Wanted)
    BY StartUpAssumption, WantedLemma DEF Portals, PortalEndpoint
  <1>2. portal'[k] = [pc |-> "read", fd |-> d] /\ \A n \in Portals : n # k => portal'[n] = portal[n]
    BY DEF IInv, Types
  <1>3. table'[d] = PortalEndpoint(k) /\ \A c \in Descriptors : c # d => table'[c] = table[c]
    BY DEF IInv, Types, Opened
  <1>4. portal[k] = Off /\ \A n \in Portals : n >= k => portal[n] = Off
    BY <1>1 DEF IInv, PortalsInv
  <1>5. \A n \in Portals : Active(n) => n # k /\ portal[n].fd \in Descriptors \ {d}
                                     /\ table[portal[n].fd] = PortalEndpoint(n)
    BY <1>1, <1>4, WantedLemma DEF IInv, PortalsInv, Active, Off
  <1>6. \A n \in Portals : Active(n)' <=> n = k \/ Active(n)
    BY <1>2, <1>5 DEF Active
  <1>7. PortalsInv'
    <2>1. \A n \in Portals : n >= k + 1 => portal'[n] = Off
      BY <1>1, <1>2, <1>4
    <2>2. \A n \in Portals : Active(n)' => /\ portal'[n].fd \in Descriptors
                                          /\ table'[portal'[n].fd] = PortalEndpoint(n)
      BY <1>2, <1>3, <1>5, <1>6
    <2> QED BY ZenonT(30), <2>1, <2>2 DEF PortalsInv, Early
  <1>8. UnreachedInv'
    <2>1. \A w \in Wanted, c \in Descriptors :
            table[c] = w => \E n \in Portals : Active(n) /\ portal[n].fd = c
      BY DEF IInv, UnreachedInv, Done, Final
    <2>2. \A w \in Wanted, c \in Descriptors :
            table'[c] = w => \E n \in Portals : Active(n)' /\ portal'[n].fd = c
      BY <1>2, <1>3, <1>5, <1>6, <2>1
    <2> QED BY ZenonT(30), <2>2 DEF UnreachedInv
  <1> QED BY <1>7, <1>8

\* A cold start listener opens a socket of its own.
LEMMA AddColdStartListenerStep == ASSUME IInv, AddColdStartListener PROVE IInv'
  <1> DEFINE e == PortalEndpoint(k)
  <1>a. /\ pc = "coldStart" /\ config.portals = "good" /\ k \in Portals /\ k' = k + 1
        /\ UNCHANGED <<who, pc, handler, inherited, num, serving, told>>
    BY DEF AddColdStartListener, probing, Portals
  <1>b. CASE UNCHANGED <<portal, table>>
    <2>1. PortalsInv'
      BY <1>a, <1>b, StartUpAssumption DEF IInv, PortalsInv, Active, Portals, who
    <2>2. pc \in Early /\ pc' \in Early /\ k' \in Nat \ {0} /\ UNCHANGED sockets
      BY <1>a, <1>b DEF IInv, Types, Early, sockets
    <2> QED BY <1>a, <1>b, <2>1, <2>2, EarlyLemma
  <1>c. CASE Usable(e) /\ \E d \in Lowest(table) : /\ table' = Opened(table, d, e)
                                                   /\ portal' = [portal EXCEPT ![k] = [pc |-> "read", fd |-> d]]
    <2>a. PICK d \in Lowest(table) : /\ table' = Opened(table, d, e)
                                     /\ portal' = [portal EXCEPT ![k] = [pc |-> "read", fd |-> d]]
      BY ZenonT(30), <1>c
    <2>b. d \in Descriptors /\ table[d] = None /\ e \in Wanted
      BY <1>a, WantedLemma DEF Lowest, PortalEndpoint, Portals
    <2>c. Grown({e})
      BY <2>a, <2>b, WantedLemma DEF Grown, Opened, IInv, Types
    <2>d. ~child
      <3>1. 2 * k - 1 \in Nat /\ Place(2 * k - 1, e)
        BY <1>a, PlaceLemma, StartUpAssumption DEF PortalEndpoint, Portals
      <3>2. SUFFICES ASSUME child PROVE Held(e)
        BY <1>c DEF Usable, InUse
      <3> HIDE DEF e
      <3> QED BY <1>a, <3>1, <3>2 DEF IInv, ChildInv, Held
    <2>1. Types' BY <1>a, <2>a, <2>c DEF IInv, Types, Grown, who, serving, told
    <2>2. PortalsInv' /\ UnreachedInv'
      BY ZenonT(30), <1>a, <2>a, <2>b, <2>d, PortalOpened DEF who
    <2>3. SingleInv'
      BY <1>a, <2>c, StartUpAssumption, WantedLemma
         DEF IInv, Types, SingleInv, Done, Final, Grown, Single, who, told
    <2>4. ParentInv' /\ EarlyInv' BY ZenonT(30), <1>a DEF IInv, ParentInv, EarlyInv, Early, who
    <2>5. ChildInv' BY <1>a, <2>d DEF ChildInv, who
    <2>6. ListenersInv' BY <1>a DEF IInv, ListenersInv, RightSockets, Early, serving
    <2> QED BY <2>1, <2>2, <2>3, <2>4, <2>5, <2>6 DEF IInv
  <1> QED BY <1>b, <1>c DEF AddColdStartListener, PortalEndpoint

\* What the end of the probe leaves, when no captive portal listener is left.
LEMMA ListenLemma ==
  ASSUME IInv, pc \in Early, Goto("listen"), \A n \in Portals : ~Active(n),
         UNCHANGED <<who, portal, sockets, serving, told>>
  PROVE  IInv'
  <1>1. Types'
    BY StartUpAssumption DEF IInv, Types, Labels, Early, Goto, who, sockets, serving, told
  <1>2. PortalsInv' BY ZenonT(30) DEF PortalsInv, Active, Goto
  <1>3. UnreachedInv' BY ZenonT(30) DEF IInv, UnreachedInv, Done, Early, Final, who, sockets
  <1>4. SingleInv'
    <2>1. \A e : ~Done(e)'
      BY StartUpAssumption DEF Done, Final, Goto
    <2> QED BY ZenonT(30), <2>1 DEF IInv, SingleInv, Early, Goto, Single, Parent, who, sockets, told
  <1>5. ParentInv'
    BY DEF IInv, EarlyInv, ParentInv, Parent, Reached, Goto, who, sockets
  <1>6. ChildInv' BY DEF IInv, ChildInv, Reached, Early, Goto, who, sockets
  <1>7. ListenersInv' BY DEF IInv, ListenersInv, RightSockets, serving
  <1>8. EarlyInv' BY DEF EarlyInv, Early, Goto
  <1> QED BY <1>1, <1>2, <1>3, <1>4, <1>5, <1>6, <1>7, <1>8 DEF IInv

\* Without captive portals there is no cold start listener to end.
LEMMA ColdStartNoneStep == ASSUME IInv, ColdStartNone PROVE IInv'
  <1>1. \A n \in Portals : portal[n] = Off
    BY StartUpAssumption DEF IInv, PortalsInv, ColdStartNone, Portals
  <1>2. PortalsInv'
    BY <1>1 DEF ColdStartNone, PortalsInv, Active, Off, Goto
  <1> QED BY <1>2, EarlyLemma DEF ColdStartNone, Early, Goto

\* The cold start listeners have all been started.
LEMMA ColdStartEndStep == ASSUME IInv, ColdStartEnd PROVE IInv'
  <1>1. PortalsInv'
    BY DEF IInv, PortalsInv, ColdStartEnd, Active, Early, Goto, who, sockets
  <1> QED BY <1>1, EarlyLemma DEF ColdStartEnd, Early, Goto

\* Resolving the netprobe address opens no socket.
LEMMA ResolveStep == ASSUME IInv, Resolve PROVE IInv'
  <1>1. PortalsInv'
    BY DEF IInv, PortalsInv, Resolve, Active, Early, Goto, who, sockets
  <1> QED BY <1>1, EarlyLemma DEF Resolve, Early, Goto

\* Nor does a probe that fails.
LEMMA ProbeStep == ASSUME IInv, Probe PROVE IInv'
  <1>1. PortalsInv' /\ k' \in Nat \ {0}
    BY DEF IInv, Types, PortalsInv, Probe, Active, Early, Goto, who, main, sockets
  <1> QED BY <1>1, EarlyLemma DEF Probe, Early, Goto, main

\* AfterProbe ends the program, or goes on to the listeners.
LEMMA StopStep == ASSUME IInv, Stop PROVE IInv'
  <1>1. CASE handler
    <2>1. PortalsInv'
      BY <1>1 DEF IInv, PortalsInv, Stop, Active, Early, Goto, who, sockets
    <2>2. /\ pc \in Early /\ pc' \in Early /\ k' \in Nat \ {0}
          /\ UNCHANGED <<who, portal, sockets, serving, told>>
      BY <1>1 DEF Stop, Early, Goto
    <2> QED BY ZenonT(30), <2>1, <2>2, EarlyLemma
  <1>2. CASE ~handler
    <2>1. \A n \in Portals : ~Active(n)
      BY <1>2 DEF IInv, PortalsInv, Stop, Active, Off
    <2> QED BY <1>2, <2>1, FatalLemma, ListenLemma DEF Stop, AfterProbe, Early
  <1> QED BY <1>1, <1>2

\* The cold start listeners have closed their sockets.
LEMMA WaitStep == ASSUME IInv, Wait PROVE IInv'
  <1>1. \A n \in Portals : ~Active(n)
    BY DEF Wait, Waiting, Active
  <1> QED BY <1>1, FatalLemma, ListenLemma DEF Wait, AfterProbe, Early

\* After the last listen address come the local DoH addresses, then systemd.
LEMMA NextListStep == ASSUME IInv, NextList PROVE IInv'
  <1>e. /\ \/ pc = "listen" /\ k \notin DOMAIN ListenAddresses /\ pc' = "doh"
           \/ pc = "doh" /\ k \notin DOMAIN DoHAddresses /\ pc' = "systemd"
        /\ k' = 1
        /\ UNCHANGED <<config, child, portal, table, inherited, num, listeners, accepting, ready, failure>>
    BY ZenonT(30) DEF NextList, Goto, who, sockets, serving, told
  <1>1. Types'
    BY <1>e DEF IInv, Types, Labels, Early, Final
  <1>2. PortalsInv'
    BY <1>e DEF IInv, PortalsInv, Active, Early
  <1>f. Len(ListenAddresses) \in Nat /\ Len(DoHAddresses) \in Nat
    BY StartUpAssumption
  <1>g. /\ pc = "listen" => k = Len(ListenAddresses) + 1 /\ \A n \in DOMAIN ListenAddresses : n < k
        /\ pc = "doh" => k = Len(DoHAddresses) + 1 /\ \A n \in DOMAIN DoHAddresses : n < k
        /\ \A n \in DOMAIN DoHAddresses : ~(n < 1)
    BY <1>e, StartUpAssumption DEF IInv, Types
  <1>h. \A w \in Wanted : Done(w)' <=> Done(w)
    BY <1>e, <1>g DEF Done, Final, Wanted
  <1>3. UnreachedInv'
    BY <1>e, <1>h DEF IInv, UnreachedInv, Active
  <1>4. SingleInv'
    BY <1>e, <1>h DEF IInv, SingleInv, Held, Single, Parent
  <1>d. Reached' = Reached
    BY <1>e, <1>f, <1>g DEF Reached
  <1>5. ParentInv'
    BY <1>d, <1>e DEF IInv, ParentInv, Parent, Early
  <1>6. ChildInv'
    BY <1>d, <1>e DEF IInv, ChildInv, Early
  <1>7. ListenersInv'
    BY <1>e DEF IInv, ListenersInv, RightSockets, Parent, Early
  <1>8. EarlyInv'
    BY <1>e DEF EarlyInv, Early
  <1> QED BY <1>1, <1>2, <1>3, <1>4, <1>5, <1>6, <1>7, <1>8 DEF IInv

\* What a step after the last address leaves, if it changes no socket.
LEMMA LaterLemma ==
  ASSUME IInv, pc \in Final, pc' \in Final,
         UNCHANGED <<config, child, portal, table, inherited, num>>
  PROVE  PortalsInv' /\ UnreachedInv' /\ ChildInv' /\ EarlyInv'
  <1>1. PortalsInv' BY DEF IInv, PortalsInv, Active, Early, Final
  <1>2. UnreachedInv' BY DEF UnreachedInv, Done
  <1>3. ChildInv' BY DEF IInv, ChildInv, Early, Final
  <1>4. EarlyInv' BY DEF EarlyInv, Early, Final
  <1> QED BY <1>1, <1>2, <1>3, <1>4

\* A process that is told of sockets by systemd serves them too.
LEMMA AddSystemDListenersStep == ASSUME IInv, AddSystemDListeners PROVE IInv'
  <1> SUFFICES ASSUME ~\E e : Fatal(e) PROVE IInv'
    BY FatalLemma
  <1>a. /\ pc = "systemd" /\ pc' \in {"drop", "start"} /\ k' = 1 /\ (pc' = "drop" <=> Parent)
        /\ Parent \/ child => config.systemd = {}
        /\ listeners' = listeners \cup {Listener(Activated(d), d) : d \in config.systemd}
        /\ UNCHANGED <<config, child, portal, table, inherited, num, accepting, ready, failure>>
    BY ZenonT(30) DEF AddSystemDListeners, Goto, Parent, who, sockets, told
  <1>1. Types'
    BY <1>a, WantedLemma, StartUpAssumption DEF IInv, Types, Labels, Final, Listener
  <1>2. PortalsInv' /\ UnreachedInv' /\ ChildInv' /\ EarlyInv'
    BY <1>a, LaterLemma DEF Final
  <1>3. SingleInv'
    BY ZenonT(30), <1>a DEF IInv, SingleInv, Done, Held, Single, Parent, Final
  <1>4. ParentInv'
    BY ZenonT(30), <1>a DEF IInv, ParentInv, Parent, Reached, Early
  <1>5. ListenersInv'
    <2>1. ~child => \A d \in config.systemd : table[d] = Activated(d)
      BY <1>a DEF IInv, SingleInv
    <2>2. RightSockets'
      BY <1>a, <2>1 DEF IInv, ListenersInv, RightSockets, Listener
    <2> QED BY <1>a, <2>2 DEF IInv, ListenersInv, Parent, Early
  <1> QED BY <1>1, <1>2, <1>3, <1>4, <1>5 DEF IInv

\* A process that changes its user goes on to its copies, the others to their clients.
LEMMA DropPrivilegeStep == ASSUME IInv, DropPrivilege PROVE IInv'
  <1>a. /\ pc = "drop" /\ pc' = "dup" /\ k' = 1 /\ ready' = TRUE
        /\ UNCHANGED <<config, child, portal, table, inherited, num, listeners, accepting, failure>>
    BY ZenonT(30) DEF DropPrivilege, Goto, who, sockets, serving
  <1>1. Types'
    BY <1>a DEF IInv, Types, Labels, Final
  <1>2. PortalsInv' /\ UnreachedInv' /\ ChildInv' /\ EarlyInv'
    BY <1>a, LaterLemma DEF Final
  <1>3. SingleInv'
    BY <1>a DEF IInv, SingleInv, Single, Parent
  <1>4. ParentInv'
    <2>1. Len(config.log) \in Nat /\ Len(inherited) \in Nat
      BY LogLemma DEF IInv, Types
    <2>2. Reached' = Reached /\ Reached \in Nat
      BY <1>a, StartUpAssumption DEF Reached
    <2> QED BY <1>a, <2>1, <2>2 DEF IInv, ParentInv, Parent, Early
  <1>5. ListenersInv'
    BY ZenonT(30), <1>a DEF IInv, ListenersInv, RightSockets, Parent, Early
  <1> QED BY <1>1, <1>2, <1>3, <1>4, <1>5 DEF IInv

\* Accepting clients adds no socket.
LEMMA StartProxyStep == ASSUME IInv, StartProxy PROVE IInv'
  <1>a. /\ pc = "start" /\ pc' = "running" /\ k' = 1 /\ ready' = (ready \/ ~child)
        /\ accepting' = listeners /\ listeners' = {}
        /\ UNCHANGED <<config, child, portal, table, inherited, num, failure>>
    BY ZenonT(30) DEF StartProxy, Goto, who, sockets
  <1>1. Types'
    BY <1>a DEF IInv, Types, Labels, Final
  <1>2. PortalsInv' /\ UnreachedInv' /\ ChildInv' /\ EarlyInv'
    BY ZenonT(30), <1>a, LaterLemma DEF Final
  <1>3. SingleInv'
    BY ZenonT(30), <1>a DEF IInv, SingleInv, Done, Held, Single, Parent, Final
  <1>4. ParentInv'
    BY <1>a DEF IInv, SingleInv, ParentInv, Parent
  <1>5. ListenersInv'
    BY <1>a DEF IInv, ListenersInv, RightSockets, SingleInv, Parent, Early
  <1> QED BY <1>1, <1>2, <1>3, <1>4, <1>5 DEF IInv

-----------------------------------------------------------------------------
(***************************************************************************)
(* The steps that take descriptors from one process to the next, and the   *)
(* theorems.                                                               *)
(***************************************************************************)


\* What a captive portal listener leaves that goes on.
LEMMA PortalGoesOn ==
  ASSUME IInv, NEW n \in Portals, Active(n),
         \E r : /\ r.pc \in {"read", "check", "close"} /\ r.fd = portal[n].fd
               /\ portal' = [portal EXCEPT ![n] = r],
         UNCHANGED <<who, main, probing, sockets, serving, told>>
  PROVE  IInv'
  <1>a. PICK r : /\ r.pc \in {"read", "check", "close"} /\ r.fd = portal[n].fd
                 /\ portal' = [portal EXCEPT ![n] = r]
    BY ZenonT(30)
  <1>1. /\ portal'[n] = r /\ \A m \in Portals : m # n => portal'[m] = portal[m]
        /\ DOMAIN portal' = Portals
    BY <1>a DEF IInv, Types
  <1>2. \A m \in Portals : (Active(m)' <=> Active(m)) /\ (Active(m) => portal'[m].fd = portal[m].fd)
    BY <1>a, <1>1 DEF Active
  <1>3. \A m \in Portals : portal[m] = Off => portal'[m] = Off
    BY <1>1 DEF Active, Off
  <1>4. Types'
    BY SMTT(30), <1>1 DEF IInv, Types, who, main, sockets, serving, told
  <1>5. PortalsInv'
    BY SMTT(30), <1>2, <1>3 DEF IInv, PortalsInv, who, main, probing, sockets
  <1>6. UnreachedInv'
    BY SMTT(30), <1>2 DEF IInv, UnreachedInv, Done, who, main, sockets
  <1>7. ChildInv'
    BY DEF IInv, PortalsInv, ChildInv, who
  <1> QED BY <1>4, <1>5, <1>6, <1>7, PortalLemma DEF IInv

\* A cold start listener looks for a cancellation.
LEMMA PortalCheckStep == ASSUME IInv, NEW n \in Portals, PortalCheck(n) PROVE IInv'
  <1>1. \E r : /\ r.pc \in {"read", "check", "close"} /\ r.fd = portal[n].fd
               /\ portal' = [portal EXCEPT ![n] = r]
    BY ZenonT(30) DEF PortalCheck
  <1>2. Active(n) /\ UNCHANGED <<who, main, probing, sockets, serving, told>>
    BY DEF PortalCheck, Active
  <1> QED BY ZenonT(30), <1>1, <1>2, PortalGoesOn

\* A cold start listener reads a query or times out.
LEMMA PortalReadStep == ASSUME IInv, NEW n \in Portals, PortalRead(n) PROVE IInv'
  <1>1. \E r : /\ r.pc \in {"read", "check", "close"} /\ r.fd = portal[n].fd
                 /\ portal' = [portal EXCEPT ![n] = r]
    BY DEF PortalRead
  <1>2. Active(n) /\ UNCHANGED <<who, main, probing, sockets, serving, told>>
    BY DEF PortalRead, Active
  <1> QED BY ZenonT(30), <1>1, <1>2, PortalGoesOn

\* A cold start listener has answered its last query.
LEMMA PortalDoneStep == ASSUME IInv, NEW n \in Portals, PortalDone(n) PROVE IInv'
  <1>1. Types'
    BY DEF IInv, PortalDone, Types, who, main, sockets, serving, told
  <1>2. PortalsInv'
    BY SMTT(30) DEF IInv, PortalDone, PortalsInv, Active, Off, who, main, probing, sockets
  <1>3. UnreachedInv'
    BY DEF IInv, PortalDone, UnreachedInv, Done, Active, who, main, sockets
  <1>4. SingleInv' /\ ParentInv' /\ ListenersInv' /\ EarlyInv'
    BY PortalLemma DEF PortalDone
  <1>6. ChildInv'
    BY DEF IInv, PortalDone, ChildInv, Off, who, main
  <1> QED BY <1>1, <1>2, <1>3, <1>4, <1>6 DEF IInv

\* A cold start listener closes its own socket and no other.
LEMMA PortalCloseStep == ASSUME IInv, NEW n \in Portals, PortalClose(n) PROVE IInv'
  <1>a. /\ portal[n].pc = "close" /\ portal' = [portal EXCEPT ![n] = [pc |-> "closed"]]
        /\ table' = [table EXCEPT ![portal[n].fd] = None]
        /\ UNCHANGED <<config, child, pc, k, handler, inherited, num, listeners, accepting, ready, failure>>
    BY DEF PortalClose, who, main, probing, serving, told
  <1>b. Active(n) /\ portal[n].fd \in Descriptors /\ table[portal[n].fd] = PortalEndpoint(n)
        /\ pc \in Early /\ ~child
    BY <1>a DEF Active, IInv, PortalsInv
  <1>c. \A m \in Portals : Active(m)' => m # n /\ Active(m) /\ portal'[m] = portal[m]
    BY SMTT(30), <1>a DEF Active, IInv, Types
  <1>d. \A m \in Portals : m # n /\ Active(m) => portal[m].fd # portal[n].fd
    <2>1. \A m \in Portals : PortalEndpoint(m) = PortalEndpoint(n) => m = n
      BY DistinctAssumption DEF PortalEndpoint, UDP, Portals
    <2>2. \A m \in Portals : Active(m) => table[portal[m].fd] = PortalEndpoint(m)
      BY <1>b DEF IInv, PortalsInv
    <2> QED BY Zenon, <1>b, <2>1, <2>2
  <1>e. \A d \in Descriptors : d # portal[n].fd => table'[d] = table[d]
    BY SMTT(30), <1>a DEF IInv, Types
  <1>f. table'[portal[n].fd] = None
    BY SMTT(30), <1>a, <1>b DEF IInv, Types
  <1>1. Types' BY SMTT(30), <1>a, <1>b DEF IInv, Types
  <1>2. PortalsInv'
    <2>1. ASSUME NEW m \in Portals, Active(m)'
          PROVE portal'[m].fd \in Descriptors /\ table'[portal'[m].fd] = PortalEndpoint(m)
      BY ZenonT(30), <1>c, <1>d, <1>e, <2>1 DEF IInv, PortalsInv
    <2>2. portal[n] # Off
      BY <1>a DEF Off
    <2>3. \A m \in Portals : portal[m] = Off => portal'[m] = Off
      BY <1>a, <2>2
    <2> QED BY SMTT(30), <1>a, <1>b, <2>1, <2>3 DEF IInv, PortalsInv
  <1>3. UnreachedInv'
    <2>1. SUFFICES ASSUME NEW e \in Wanted, NEW d \in Descriptors, table'[d] = e, ~Done(e)
                   PROVE \E m \in Portals : Active(m)' /\ portal'[m].fd = d
      BY ZenonT(30), <1>a DEF UnreachedInv, Done
    <2>2. d # portal[n].fd /\ table[d] = e
      BY ZenonT(30), <1>e, <1>f, <2>1, WantedLemma
    <2>3. PICK m \in Portals : Active(m) /\ portal[m].fd = d
      BY Zenon, <1>b, <2>1, <2>2 DEF IInv, UnreachedInv
    <2> QED BY SMTT(30), <1>a, <2>2, <2>3 DEF Active
  <1>4. SingleInv'
    <2>1. \A e : ~Done(e)'
      BY ZenonT(30), <1>a, <1>b DEF Done, Early, Final
    <2>2. ASSUME NEW d \in config.systemd, table[d] = Activated(d) PROVE table'[d] = Activated(d)
      BY SMTT(30), <1>b, <1>e, <2>2, StartUpAssumption, WantedLemma, ActivatedLemma
         DEF IInv, Types, PortalEndpoint, Portals
    <2> QED BY ZenonT(30), <1>a, <1>b, <2>1, <2>2 DEF IInv, SingleInv, Early
  <1>5. ParentInv' BY SMTT(30), <1>a, <1>b DEF ParentInv
  <1>6. ChildInv' BY <1>a, <1>b DEF ChildInv
  <1>7. ListenersInv' BY ZenonT(30), <1>a, <1>b DEF IInv, ListenersInv, RightSockets
  <1>8. EarlyInv' BY <1>a DEF IInv, EarlyInv
  <1> QED BY <1>1, <1>2, <1>3, <1>4, <1>5, <1>6, <1>7, <1>8 DEF IInv

\* A parent opens two sockets and keeps a copy of each for its child.
LEMMA AddDNSListenerParentStep == ASSUME IInv, AddDNSListenerParent PROVE IInv'
  <1> DEFINE u == UDP(ListenAddresses[k])
             t == TCP(ListenAddresses[k])
  <1>a. /\ pc = "listen" /\ k \in DOMAIN ListenAddresses /\ Parent /\ k' = k + 1
        /\ UNCHANGED <<config, child, pc, portal, num, listeners, accepting, ready, failure>>
    BY DEF AddDNSListenerParent, AtAddress, who, serving, told
  <1>b. PICK d1 \in Lowest(table) : LET t1 == Opened(table, d1, u) IN
             \E d2 \in Lowest(t1) : LET t2 == Opened(t1, d2, t) IN
             \E d3 \in Lowest(t2) : LET t3 == Opened(t2, d3, u) IN
             \E d4 \in Lowest(t3) : /\ table' = [Opened(t3, d4, t) EXCEPT ![d1] = None, ![d2] = None]
                                    /\ inherited' = inherited \o <<d3, d4>>
    BY ZenonT(30) DEF AddDNSListenerParent
  <1> DEFINE t1 == Opened(table, d1, u)
  <1>c. PICK d2 \in Lowest(t1) : LET t2 == Opened(t1, d2, t) IN
             \E d3 \in Lowest(t2) : LET t3 == Opened(t2, d3, u) IN
             \E d4 \in Lowest(t3) : /\ table' = [Opened(t3, d4, t) EXCEPT ![d1] = None, ![d2] = None]
                                    /\ inherited' = inherited \o <<d3, d4>>
    BY ZenonT(30), <1>b
  <1> DEFINE t2 == Opened(t1, d2, t)
  <1>d. PICK d3 \in Lowest(t2) : LET t3 == Opened(t2, d3, u) IN
             \E d4 \in Lowest(t3) : /\ table' = [Opened(t3, d4, t) EXCEPT ![d1] = None, ![d2] = None]
                                    /\ inherited' = inherited \o <<d3, d4>>
    BY ZenonT(30), <1>c
  <1> DEFINE t3 == Opened(t2, d3, u)
  <1>e. PICK d4 \in Lowest(t3) : /\ table' = [Opened(t3, d4, t) EXCEPT ![d1] = None, ![d2] = None]
                                 /\ inherited' = inherited \o <<d3, d4>>
    BY ZenonT(30), <1>d
  <1>f. /\ d1 \in Descriptors /\ d2 \in Descriptors /\ d3 \in Descriptors /\ d4 \in Descriptors
        /\ table[d1] = None /\ t1[d2] = None /\ t2[d3] = None /\ t3[d4] = None
    BY DEF Lowest
  <1>g. u \in Wanted /\ t \in Wanted /\ u # None /\ t # None /\ u # t
    BY <1>a, WantedLemma DEF UDP, TCP
  <1> HIDE DEF u, t
  <1>h. /\ table \in [Descriptors -> Endpoints \cup {None, File}]
        /\ d2 # d1 /\ d3 \notin {d1, d2} /\ d4 \notin {d1, d2, d3}
        /\ table[d2] = None /\ table[d3] = None /\ table[d4] = None
    BY <1>f, <1>g DEF Opened, IInv, Types
  <1>m. inherited \in Seq(Descriptors)
    BY SMTT(30) DEF IInv, Types
  <1>n. /\ inherited' \in Seq(Descriptors) /\ Len(inherited') = Len(inherited) + 2
        /\ \A i \in DOMAIN inherited : inherited'[i] = inherited[i]
        /\ inherited'[Len(inherited) + 1] = d3 /\ inherited'[Len(inherited) + 2] = d4
    <2>1. inherited' = inherited \o <<d3, d4>>
      BY <1>e
    <2> QED BY ONLY <2>1, <1>f, <1>m, PairLemma
  <1>i. Grown({u, t}) /\ table'[d3] = u /\ table'[d4] = t
    BY <1>e, <1>f, <1>g, <1>h DEF Opened
  <1>j. k \in Nat /\ 1 <= k /\ k <= Len(ListenAddresses) /\ Len(ListenAddresses) \in Nat
    BY SMTT(30), <1>a
  <1>k. \A e : Done(e)' <=> Done(e) \/ e \in {u, t}
    <2>1. \A e : Done(e) <=> \E n \in DOMAIN ListenAddresses :
                               n < k /\ e \in {UDP(ListenAddresses[n]), TCP(ListenAddresses[n])}
      BY <1>a DEF Done, Final
    <2>2. \A e : Done(e)' <=> \E n \in DOMAIN ListenAddresses :
                                n < k + 1 /\ e \in {UDP(ListenAddresses[n]), TCP(ListenAddresses[n])}
      BY <1>a DEF Done, Final
    <2>3. \A n \in DOMAIN ListenAddresses : n < k + 1 <=> n < k \/ n = k
      BY <1>j
    <2> QED BY Zenon, <1>a, <2>1, <2>2, <2>3 DEF u, t
  <1>l. \A e \in {u, t} : Held(e)'
    BY <1>f, <1>i DEF Held
  <1>2. PortalsInv' /\ UnreachedInv' /\ SingleInv' /\ EarlyInv'
    BY <1>a, <1>i, <1>k, <1>l, GrownLemma
  <1>1. Types' BY SMTT(30), <1>a, <1>i, <1>n DEF IInv, Types, Grown
  <1>3. ParentInv'
    <2> DEFINE L == Len(config.log)
    <2>1. L \in Nat /\ Reached = 2 * (k - 1) /\ Reached' = 2 * k
      BY <1>a, <1>j, LogLemma DEF IInv, Reached
    <2>2. /\ Len(inherited) = L + Reached
          /\ \A i \in 1..Reached : \A e : Place(i, e) => table[inherited[L + i]] = e
      BY SMTT(30), <1>a DEF IInv, ParentInv, Early
    <2> HIDE DEF L
    <2>3. /\ Len(inherited') = L + 2 * k
          /\ inherited'[L + (2 * k - 1)] = d3 /\ inherited'[L + 2 * k] = d4
      BY SMTT(30), <1>j, <1>n, <2>1, <2>2
    <2>4. ASSUME NEW i \in 1..(2 * k), NEW e, Place(i, e) PROVE table'[inherited'[L + i]] = e
      <3>1. CASE i \in 1..Reached
        <4>1. /\ L + i \in DOMAIN inherited /\ inherited'[L + i] = inherited[L + i]
              /\ inherited[L + i] \in Descriptors
          <5>1. L + i \in 1..Len(inherited)
            <6>1. Len(inherited) = L + Reached /\ Reached = 2 * (k - 1)
              BY <2>1, <2>2
            <6> QED BY <1>j, <2>1, <3>1, <6>1
          <5>2. DOMAIN inherited = 1..Len(inherited)
            BY <1>m
          <5>3. inherited[L + i] \in Descriptors
            BY <1>m, <5>1, <5>2
          <5> QED BY Zenon, <1>n, <5>1, <5>2, <5>3
        <4>2. table[inherited[L + i]] = e /\ e # None
          <5>1. table[inherited[L + i]] = e
            BY Zenon, <2>2, <2>4, <3>1
          <5>2. e \in Wanted
            BY <2>4, PlaceLemma
          <5> QED BY <5>1, <5>2, WantedLemma
        <4> QED BY SMTT(30), <1>i, <4>1, <4>2 DEF Grown
      <3>2. CASE i = 2 * k - 1
        BY Zenon, <1>a, <1>i, <2>3, <2>4, <3>2, PlaceLemma DEF u
      <3>3. CASE i = 2 * k
        BY ZenonT(30), <1>a, <1>i, <2>3, <2>4, <3>3, PlaceLemma DEF t
      <3> QED BY SMTT(30), <1>j, <2>1, <3>1, <3>2, <3>3
    <2> QED BY <1>a, <2>1, <2>3, <2>4 DEF ParentInv, L
  <1>4. ChildInv' BY SMTT(30), <1>a DEF ChildInv, Parent
  <1>5. ListenersInv' BY Zenon, <1>a DEF IInv, ListenersInv, RightSockets
  <1> QED BY SMTT(30), <1>1, <1>2, <1>3, <1>4, <1>5 DEF IInv

\* A parent opens one socket and keeps a copy of it.
LEMMA AddLocalDoHListenerParentStep == ASSUME IInv, AddLocalDoHListenerParent PROVE IInv'
  <1> DEFINE t == TCP(DoHAddresses[k])
  <1>a. /\ pc = "doh" /\ k \in DOMAIN DoHAddresses /\ Parent /\ k' = k + 1
        /\ UNCHANGED <<config, child, pc, portal, num, listeners, accepting, ready, failure>>
    BY DEF AddLocalDoHListenerParent, AtDoHAddress, who, serving, told
  <1>b. PICK d1 \in Lowest(table) : \E d2 \in Lowest(Opened(table, d1, t)) :
             /\ table' = [Opened(Opened(table, d1, t), d2, t) EXCEPT ![d1] = None]
             /\ inherited' = Append(inherited, d2)
    BY DEF AddLocalDoHListenerParent
  <1>c. PICK d2 \in Lowest(Opened(table, d1, t)) :
             /\ table' = [Opened(Opened(table, d1, t), d2, t) EXCEPT ![d1] = None]
             /\ inherited' = Append(inherited, d2)
    BY SMTT(30), <1>b
  <1>f. d1 \in Descriptors /\ d2 \in Descriptors /\ table[d1] = None
        /\ Opened(table, d1, t)[d2] = None
    BY DEF Lowest
  <1>g. t \in Wanted /\ t # None
    BY <1>a, WantedLemma
  <1> HIDE DEF t
  <1>h. table \in [Descriptors -> Endpoints \cup {None, File}] /\ d2 # d1 /\ table[d2] = None
    BY <1>f, <1>g DEF Opened, IInv, Types
  <1>i. Grown({t}) /\ table'[d2] = t
    BY SMTT(30), <1>c, <1>f, <1>g, <1>h DEF Opened
  <1>n. /\ inherited \in Seq(Descriptors)
        /\ inherited' \in Seq(Descriptors) /\ Len(inherited') = Len(inherited) + 1
        /\ \A i \in DOMAIN inherited : inherited'[i] = inherited[i]
        /\ inherited'[Len(inherited) + 1] = d2
    BY <1>c, <1>f DEF IInv, Types
  <1>j. /\ k \in Nat /\ 1 <= k /\ k <= Len(DoHAddresses) /\ Len(DoHAddresses) \in Nat
        /\ Len(ListenAddresses) \in Nat
    BY SMTT(30), <1>a
  <1>k. \A e : Done(e)' <=> Done(e) \/ e \in {t}
    <2> DEFINE Before(e) == \E n \in DOMAIN ListenAddresses :
                              e \in {UDP(ListenAddresses[n]), TCP(ListenAddresses[n])}
    <2>1. \A e : Done(e) <=> Before(e) \/ \E n \in DOMAIN DoHAddresses : n < k /\ e = TCP(DoHAddresses[n])
      BY <1>a DEF Done, Final
    <2>2. \A e : Done(e)' <=> Before(e) \/ \E n \in DOMAIN DoHAddresses : n < k + 1 /\ e = TCP(DoHAddresses[n])
      BY <1>a DEF Done, Final
    <2>3. \A n \in DOMAIN DoHAddresses : n < k + 1 <=> n < k \/ n = k
      BY <1>j
    <2> HIDE DEF Before
    <2> QED BY Zenon, <1>a, <2>1, <2>2, <2>3 DEF t
  <1>l. \A e \in {t} : Held(e)'
    BY <1>f, <1>i DEF Held
  <1>2. PortalsInv' /\ UnreachedInv' /\ SingleInv' /\ EarlyInv'
    BY <1>a, <1>i, <1>k, <1>l, GrownLemma
  <1>1. Types' BY <1>a, <1>i, <1>n DEF IInv, Types, Grown
  <1>3. ParentInv'
    <2> DEFINE L == Len(config.log)
               m == 2 * Len(ListenAddresses) + k
    <2>1. L \in Nat /\ m \in Nat /\ m > 0 /\ Reached = m - 1 /\ Reached' = m
      BY <1>a, <1>j, LogLemma DEF IInv, Reached
    <2>2. /\ Len(inherited) = L + Reached
          /\ \A i \in 1..Reached : \A e : Place(i, e) => table[inherited[L + i]] = e
      BY SMTT(30), <1>a DEF IInv, ParentInv, Early
    <2>5. \A e : Place(m, e) => e = t
      BY ZenonT(30), <1>a, PlaceLemma DEF t
    <2> HIDE DEF L, m
    <2>3. Len(inherited') = L + m /\ inherited'[L + m] = d2
      BY <1>n, <2>1, <2>2
    <2>4. ASSUME NEW i \in 1..m, NEW e, Place(i, e) PROVE table'[inherited'[L + i]] = e
      <3>1. CASE i \in 1..Reached
        <4>1. /\ L + i \in DOMAIN inherited /\ inherited'[L + i] = inherited[L + i]
              /\ inherited[L + i] \in Descriptors
          BY SMTT(30), <1>n, <2>1, <2>2, <3>1
        <4>2. table[inherited[L + i]] = e /\ e # None
          <5>1. table[inherited[L + i]] = e
            BY Zenon, <2>2, <2>4, <3>1
          <5>2. e \in Wanted
            BY <2>4, PlaceLemma
          <5> QED BY <5>1, <5>2, WantedLemma
        <4> QED BY <1>i, <4>1, <4>2 DEF Grown
      <3>2. CASE i = m
        BY Zenon, <1>i, <2>3, <2>4, <2>5, <3>2
      <3> QED BY <2>1, <3>1, <3>2
    <2> QED BY <1>a, <2>1, <2>3, <2>4 DEF ParentInv, L
  <1>4. ChildInv' BY <1>a DEF ChildInv, Parent
  <1>5. ListenersInv' BY <1>a DEF IInv, ListenersInv, RightSockets
  <1> QED BY <1>1, <1>2, <1>3, <1>4, <1>5 DEF IInv

\* A child takes its two next descriptors for an address.
LEMMA AddDNSListenerChildStep == ASSUME IInv, AddDNSListenerChild PROVE IInv'
  <1> SUFFICES ASSUME ~Fatal(None) PROVE IInv'
    BY FatalLemma
  <1> DEFINE L == Len(config.log)
  <1>a. /\ pc = "listen" /\ k \in DOMAIN ListenAddresses /\ child
        /\ k' = k + 1 /\ num' = num + 2
        /\ listeners' = listeners \cup {Listener(UDP(ListenAddresses[k]), Base + num), Listener(TCP(ListenAddresses[k]), Base + num + 1)}
        /\ UNCHANGED <<config, child, pc, portal, table, inherited, accepting, ready, failure>>
    BY ZenonT(30) DEF AddDNSListenerChild, AtAddress, Child, who, told
  <1>b. /\ k \in Nat /\ 1 <= k /\ k <= Len(ListenAddresses) /\ Len(ListenAddresses) \in Nat
        /\ num \in Nat /\ Base \in Nat /\ L \in Nat
    BY <1>a, LogLemma, StartUpAssumption DEF IInv, Types
  <1>c. num = L + Reached
    BY <1>a DEF IInv, ChildInv
  <1> HIDE DEF L
  <1>f. Reached = 2 * (k - 1) /\ Reached' = 2 * k
    BY <1>a, <1>b DEF Reached
  <1>d. /\ Base + num \in Descriptors /\ table[Base + num] = UDP(ListenAddresses[k])
        /\ Base + num + 1 \in Descriptors /\ table[Base + num + 1] = TCP(ListenAddresses[k])
    <2>1. Place(2 * k - 1, UDP(ListenAddresses[k])) /\ Place(2 * k, TCP(ListenAddresses[k]))
      BY Zenon, <1>a, PlaceLemma
    <2>2. /\ 2 * k - 1 \in Nat /\ 2 * k \in Nat
          /\ Base + (L + (2 * k - 1)) - 1 = Base + num
          /\ Base + (L + 2 * k) - 1 = Base + num + 1
      BY <1>b, <1>c, <1>f
    <2>3. \A i \in Nat : \A e : Place(i, e) => /\ Base + (L + i) - 1 \in Descriptors
                                             /\ table[Base + (L + i) - 1] = e
      BY SMTT(30), <1>a DEF IInv, ChildInv, L
    <2> QED BY SMTT(30), <2>1, <2>2, <2>3
  <1>e. UDP(ListenAddresses[k]) \in Endpoints /\ TCP(ListenAddresses[k]) \in Endpoints
    BY SMTT(30), <1>a, WantedLemma
  <1>1. Types' BY <1>a, <1>d, <1>e DEF IInv, Types, Listener, Labels
  <1>2. PortalsInv' /\ UnreachedInv' /\ SingleInv' /\ ParentInv' /\ EarlyInv'
    BY <1>a, ChildLemma
  <1>3. ChildInv'
    <2>1. num' = num + 2
      BY <1>a
    <2>2. num' = L + Reached'
      BY SMTT(30), <1>b, <1>c, <1>f, <2>1
    <2> QED BY <1>a, <2>2 DEF IInv, ChildInv, Early, L
  <1>4. ListenersInv' BY <1>a, <1>d DEF IInv, ListenersInv, RightSockets, Listener, Parent, Early
  <1> QED BY <1>1, <1>2, <1>3, <1>4 DEF IInv

\* A child takes its next descriptor for a DoH address.
LEMMA AddLocalDoHListenerChildStep == ASSUME IInv, AddLocalDoHListenerChild PROVE IInv'
  <1> SUFFICES ASSUME ~Fatal(None) PROVE IInv'
    BY FatalLemma
  <1> DEFINE L == Len(config.log)
  <1>a. /\ pc = "doh" /\ k \in DOMAIN DoHAddresses /\ child
        /\ k' = k + 1 /\ num' = num + 1
        /\ listeners' = listeners \cup {Listener(TCP(DoHAddresses[k]), Base + num)}
        /\ UNCHANGED <<config, child, pc, portal, table, inherited, accepting, ready, failure>>
    BY ZenonT(30) DEF AddLocalDoHListenerChild, AtDoHAddress, Child, who, told
  <1>b. /\ k \in Nat /\ 1 <= k /\ k <= Len(DoHAddresses) /\ Len(ListenAddresses) \in Nat
        /\ num \in Nat /\ Base \in Nat /\ L \in Nat
    BY <1>a, LogLemma, StartUpAssumption DEF IInv, Types
  <1>c. num = L + Reached
    BY <1>a DEF IInv, ChildInv
  <1> HIDE DEF L
  <1>f. Reached = 2 * Len(ListenAddresses) + (k - 1) /\ Reached' = 2 * Len(ListenAddresses) + k
    BY <1>a, <1>b DEF Reached
  <1>d. Base + num \in Descriptors /\ table[Base + num] = TCP(DoHAddresses[k])
    <2>1. Place(2 * Len(ListenAddresses) + k, TCP(DoHAddresses[k]))
      BY <1>a, PlaceLemma
    <2>2. 2 * Len(ListenAddresses) + k \in Nat
          /\ Base + (L + (2 * Len(ListenAddresses) + k)) - 1 = Base + num
      BY <1>b, <1>c, <1>f
    <2>3. \A i \in Nat : \A e : Place(i, e) => /\ Base + (L + i) - 1 \in Descriptors
                                             /\ table[Base + (L + i) - 1] = e
      BY SMTT(30), <1>a DEF IInv, ChildInv, L
    <2> QED BY SMTT(30), <2>1, <2>2, <2>3
  <1>e. TCP(DoHAddresses[k]) \in Endpoints
    BY ZenonT(30), <1>a, WantedLemma
  <1>1. Types' BY <1>a, <1>d, <1>e DEF IInv, Types, Listener
  <1>2. PortalsInv' /\ UnreachedInv' /\ SingleInv' /\ ParentInv' /\ EarlyInv'
    BY <1>a, ChildLemma
  <1>3. ChildInv'
    <2>1. num' = num + 1
      BY <1>a
    <2>2. num' = L + Reached'
      BY SMTT(30), <1>b, <1>c, <1>f, <2>1
    <2> QED BY <1>a, <2>2 DEF IInv, ChildInv, Early, L
  <1>4. ListenersInv' BY <1>a, <1>d DEF IInv, ListenersInv, RightSockets, Listener, Parent, Early
  <1> QED BY <1>1, <1>2, <1>3, <1>4 DEF IInv

\* A copy is moved to its place above the base.
LEMMA Dup2Step == ASSUME IInv, Dup2 PROVE IInv'
  <1> SUFFICES ASSUME ~Fatal(None) PROVE IInv'
    BY FatalLemma
  <1>a. /\ pc = "dup" /\ k \in DOMAIN inherited /\ ~(inherited[k] >= Base)
        /\ Base + k - 1 \in Descriptors
        /\ table' = [table EXCEPT ![Base + k - 1] = table[inherited[k]]] /\ k' = k + 1
        /\ UNCHANGED <<config, child, pc, portal, inherited, num, listeners, accepting, ready, failure>>
    BY DEF Dup2, who, serving, told
  <1>b. /\ k \in Nat /\ 1 <= k /\ Base \in Nat /\ inherited[k] \in Descriptors
        /\ inherited[k] \in Nat
        /\ inherited \in Seq(Descriptors) /\ Len(inherited) \in Nat
    <2>1. inherited \in Seq(Descriptors) /\ k \in Nat \ {0} /\ k \in DOMAIN inherited
      BY <1>a DEF IInv, Types
    <2>2. inherited[k] \in Descriptors /\ Len(inherited) \in Nat
      BY <2>1
    <2>3. inherited[k] \in Nat /\ Base \in Nat
      BY ZenonT(30), <2>2, StartUpAssumption
    <2> QED BY <2>1, <2>3
  <1>c. Parent /\ ~child /\ config.user
    BY SMTT(30), <1>a DEF IInv, SingleInv, Parent
  <1>1. Types' BY SMTT(30), <1>a, <1>b DEF IInv, Types, Labels
  <1>2. PortalsInv' BY <1>a DEF IInv, PortalsInv, Active, Early
  <1>3. UnreachedInv' BY <1>a DEF UnreachedInv, Done, Final
  <1>4. SingleInv' BY <1>a, <1>c DEF SingleInv, Single, Parent
  <1>5. ParentInv'
    <2> DEFINE L == Len(config.log)
    <2>4. Reached \in Nat /\ Reached' = Reached
      BY <1>a, StartUpAssumption DEF Reached
    <2>2. L \in Nat /\ Reached \in Nat /\ Len(inherited) = L + Reached /\ Reached' = Reached
      BY SMTT(30), <1>a, <1>c, <2>4, LogLemma DEF IInv, ParentInv, Early
    <2>3. \A n \in 1..Reached : \A e : Place(n, e) =>
            /\ L + n >= k /\ inherited[L + n] < Base => table[inherited[L + n]] = e
            /\ L + n < k => Base + (L + n) - 1 \in Descriptors /\ table[Base + (L + n) - 1] = e
      BY SMTT(30), <1>a, <1>c DEF IInv, ParentInv, Early
    <2> HIDE DEF L
    <2>1. ASSUME NEW n \in 1..Reached, NEW e, Place(n, e), NEW i, i = L + n
          PROVE /\ i >= k + 1 /\ inherited[i] < Base => table'[inherited[i]] = e
                /\ i < k + 1 => Base + i - 1 \in Descriptors /\ table'[Base + i - 1] = e
      <3>1. i \in Nat /\ inherited[i] \in Descriptors /\ inherited[i] \in Nat
        <4>1. i \in Nat /\ inherited[i] \in Descriptors
          BY <1>b, <2>1, <2>2
        <4> QED BY ZenonT(30), <4>1, StartUpAssumption
      <3>2. /\ i >= k /\ inherited[i] < Base => table[inherited[i]] = e
            /\ i < k => Base + i - 1 \in Descriptors /\ table[Base + i - 1] = e
        BY <2>1, <2>3
      <3>3. \A d \in Descriptors : d # Base + k - 1 => table'[d] = table[d]
        BY <1>a DEF IInv, Types
      <3>4. table'[Base + k - 1] = table[inherited[k]]
        BY <1>a DEF IInv, Types
      <3>5. CASE i = k
        BY <1>a, <1>b, <3>2, <3>4, <3>5
      <3>6. CASE i < k
        BY SMTT(30), <1>a, <1>b, <3>1, <3>2, <3>3, <3>6
      <3>7. CASE i > k
        BY <1>b, <3>1, <3>2, <3>3, <3>7
      <3> QED BY <1>b, <3>1, <3>5, <3>6, <3>7
    <2> QED BY SMTT(30), <1>a, <2>1, <2>2 DEF ParentInv, L
  <1>6. ChildInv' BY <1>a, <1>c DEF ChildInv
  <1>7. ListenersInv' BY <1>a, <1>c DEF IInv, ListenersInv, RightSockets
  <1>8. EarlyInv' BY SMTT(30), <1>a DEF EarlyInv, Early
  <1> QED BY <1>1, <1>2, <1>3, <1>4, <1>5, <1>6, <1>7, <1>8 DEF IInv

\* What is above the base survives the exec, at the same place.
LEMMA ExecStep == ASSUME IInv, Exec PROVE IInv'
  <1> DEFINE kept == [d \in Descriptors |->
                        IF \E n \in DOMAIN inherited : d = Base + n - 1 THEN table[d] ELSE None]
             files == {d \in config.files : \A n \in DOMAIN config.log : config.log[n] # d}
  <1>a. /\ pc = "dup" /\ k \notin DOMAIN inherited /\ table' = Begun(kept, files)
        /\ child' = TRUE /\ pc' = AfterFlags /\ k' = 1 /\ portal' = [n \in Portals |-> Off]
        /\ handler' = FALSE /\ inherited' = <<>>
        /\ num' = Len(config.log) /\ listeners' = {}
        /\ UNCHANGED <<config, accepting, ready, failure>>
    BY SMTT(30) DEF Exec, Goto, told
  <1>b. Parent /\ accepting = {} /\ pc' \in {"listen", "coldStart"}
    <2>1. pc' \in {"listen", "coldStart"}
      BY <1>a DEF AfterFlags
    <2>2. Parent
      BY <1>a DEF IInv, SingleInv
    <2>3. accepting = {}
      BY <1>a DEF IInv, ListenersInv
    <2> QED BY <2>1, <2>2, <2>3
  <1>c. /\ k \in Nat /\ Base \in Nat /\ inherited \in Seq(Descriptors) /\ Len(inherited) \in Nat
        /\ \A i \in DOMAIN inherited : i \in Nat /\ i < k
    BY <1>a, StartUpAssumption DEF IInv, Types
  <1>d. ASSUME NEW i \in Nat, NEW e, Place(i, e)
        PROVE /\ Base + (Len(config.log) + i) - 1 \in Descriptors
              /\ table'[Base + (Len(config.log) + i) - 1] = e
    <2> DEFINE L == Len(config.log)
               j == L + i
    <2>1. L \in Nat /\ Reached = 2 * Len(ListenAddresses) + Len(DoHAddresses)
      BY ZenonT(30), <1>a, LogLemma DEF IInv, Reached
    <2>2. /\ Len(inherited) = L + Reached
          /\ \A n \in 1..Reached : \A w : Place(n, w) /\ L + n < k =>
               Base + (L + n) - 1 \in Descriptors /\ table[Base + (L + n) - 1] = w
      BY ZenonT(30), <1>a, <1>b DEF IInv, ParentInv, Early
    <2> HIDE DEF L
    <2>3. i \in 1..Reached
      BY <1>d, <2>1, PlaceLemma, StartUpAssumption
    <2>4. j \in DOMAIN inherited /\ j \in Nat /\ j < k /\ 1 <= j
      BY <1>c, <2>1, <2>2, <2>3
    <2>5. Base + j - 1 \in Descriptors /\ table[Base + j - 1] = e
      BY <1>d, <2>2, <2>3, <2>4
    <2> HIDE DEF j
    <2>6. kept[Base + j - 1] = e
      BY <2>4, <2>5
    <2>7. Base + j - 1 \notin files
      BY SMTT(30), <2>4, StartUpAssumption DEF IInv, Types
    <2>8. table'[Base + j - 1] = e
      <3> HIDE DEF kept, files
      <3> QED BY SMTT(30), <1>a, <2>5, <2>6, <2>7 DEF Begun
    <2> QED BY SMTT(30), <2>5, <2>8 DEF j, L
  <1>e. table' \in [Descriptors -> Endpoints \cup {None, File}]
    BY SMTT(30), <1>a DEF Begun, IInv, Types
  <1>f. num' \in Nat
    BY SMTT(30), <1>a, LogLemma DEF IInv
  <1>g. k' \in Nat \ {0} /\ k' <= Len(ListenAddresses) + 1 /\ k' <= Len(DoHAddresses) + 1
    BY <1>a, StartUpAssumption
  <1>h. inherited' \in Seq(Descriptors) /\ pc' \in Labels /\ DOMAIN portal' = Portals
    BY <1>a, <1>b DEF Labels, Early
  <1>1. Types'
    BY ZenonT(30), <1>a, <1>b, <1>e, <1>f, <1>g, <1>h DEF IInv, Types
  <1>2. PortalsInv' BY ZenonT(30), <1>a DEF PortalsInv, Active, Off
  <1>3. UnreachedInv' BY ZenonT(30), <1>a DEF UnreachedInv
  <1>4. SingleInv' BY ZenonT(30), <1>a, <1>b DEF SingleInv, Single, Parent
  <1>5. ParentInv' BY <1>a DEF ParentInv, Parent
  <1>6. ChildInv'
    <2>1. Len(config.log) \in Nat
      BY SMTT(30), LogLemma DEF IInv
    <2>2. pc' = "listen" => num' = Len(config.log) + Reached'
      BY <1>a, <2>1 DEF Reached
    <2>3. \A i \in Nat : \A e : Place(i, e) =>
            /\ Base + (Len(config.log) + i) - 1 \in Descriptors
            /\ table'[Base + (Len(config.log) + i) - 1] = e
      BY ZenonT(30), <1>d
    <2>4. /\ config' = config /\ config.user /\ pc' \notin {"doh", "failed"}
          /\ num' = Len(config.log) /\ \A n \in Portals : portal'[n] = Off
      BY SMTT(30), <1>a, <1>b DEF Parent
    <2> QED BY ZenonT(30), <2>2, <2>3, <2>4 DEF ChildInv
  <1>7. ListenersInv' BY SMTT(30), <1>a, <1>b DEF ListenersInv, RightSockets
  <1>8. EarlyInv' BY <1>a DEF EarlyInv
  <1> QED BY <1>1, <1>2, <1>3, <1>4, <1>5, <1>6, <1>7, <1>8 DEF IInv

\* The invariant holds initially.
LEMMA InitLemma == Init => IInv
  <1> SUFFICES ASSUME Init PROVE IInv
    BY SMTT(30)
  <1>a. /\ config \in Configs /\ child = FALSE /\ pc \in {"listen", "coldStart"} /\ k = 1
        /\ handler = FALSE
        /\ portal = [n \in Portals |-> Off] /\ inherited = config.log /\ num = 0
        /\ listeners = {} /\ accepting = {}
        /\ ready = FALSE /\ failure = None
        /\ table = [d \in Descriptors |-> IF d \in config.files THEN File
                                          ELSE IF d \in config.systemd THEN Activated(d) ELSE None]
    BY DEF Init, AfterFlags, Begun
  <1>1. Types
    <2>1. table \in [Descriptors -> Endpoints \cup {None, File}]
      BY <1>a, WantedLemma
    <2>2. inherited \in Seq(Descriptors) /\ Len(ListenAddresses) \in Nat
          /\ Len(DoHAddresses) \in Nat
      BY <1>a, StartUpAssumption
    <2>3. /\ k \in Nat \ {0} /\ num \in Nat /\ pc \in Labels /\ DOMAIN portal = Portals
          /\ k <= Len(ListenAddresses) + 1 /\ k <= Len(DoHAddresses) + 1
      BY <1>a DEF Labels, Early
    <2>4. /\ config \in Configs /\ child \in BOOLEAN /\ ready \in BOOLEAN /\ failure = None
          /\ listeners \cup accepting = {}
      BY ZenonT(30), <1>a
    <2> QED BY SMTT(30), <2>1, <2>2, <2>3, <2>4 DEF Types
  <1>2. PortalsInv BY <1>a DEF PortalsInv, Active, Off
  <1>3. UnreachedInv BY ZenonT(30), <1>a, WantedLemma, ActivatedLemma DEF UnreachedInv
  <1>4. SingleInv
    <2>1. \A e \in Wanted : ~Done(e)
      <3>1. pc \in {"listen", "coldStart"} /\ k = 1
        BY ZenonT(30), <1>a
      <3>2. \A n \in DOMAIN ListenAddresses : ~(n < 1)
        BY StartUpAssumption
      <3> QED BY ZenonT(30), <3>1, <3>2 DEF Done, Final
    <2>2. \A d \in config.systemd : d \in Descriptors /\ d \notin config.files
      BY <1>a, StartUpAssumption
    <2> QED BY ZenonT(30), <1>a, <2>1, <2>2 DEF SingleInv
  <1>5. ParentInv
    <2>1. Len(inherited) = Len(config.log) + 0
      BY <1>a, <1>1, LogLemma
    <2>2. pc = "listen" => Reached = 0
      BY <1>a DEF Reached
    <2>3. pc # "listen" => pc \in Early
      BY <1>a DEF Early
    <2> QED BY <2>1, <2>2, <2>3 DEF ParentInv
  <1>6. ChildInv BY <1>a DEF ChildInv
  <1>7. ListenersInv BY <1>a DEF ListenersInv, RightSockets
  <1>8. EarlyInv BY <1>a DEF EarlyInv
  <1> QED BY <1>1, <1>2, <1>3, <1>4, <1>5, <1>6, <1>7, <1>8 DEF IInv

\* Every step preserves the invariant.
LEMMA StepLemma == IInv /\ [Next]_vars => IInv'
  <1> SUFFICES ASSUME IInv, [Next]_vars PROVE IInv'
    OBVIOUS
  <1>1. CASE Main
    <2>1. ASSUME NEW e, BindError(e) PROVE IInv'
      BY <2>1, FatalLemma DEF BindError
    <2> QED
      BY ZenonT(30), <1>1, <2>1, FatalLemma, ColdStartNoneStep, AddColdStartListenerStep,
         ColdStartEndStep, ResolveStep, ProbeStep, StopStep, WaitStep, AddDNSListenerStep,
         AddDNSListenerParentStep, AddDNSListenerChildStep, AddLocalDoHListenerStep,
         AddLocalDoHListenerParentStep, AddLocalDoHListenerChildStep, NextListStep,
         AddSystemDListenersStep, DropPrivilegeStep, Dup2Step, ExecStep, StartProxyStep
         DEF Main, AddDNSListenerError, AddLocalDoHListenerError, OtherError
  <1>2. CASE \E n \in Portals : PortalStep(n)
    BY <1>2, PortalReadStep, PortalCheckStep, PortalCloseStep, PortalDoneStep
       DEF PortalStep
  <1>3. CASE (\E l \in accepting : Serve(l)) \/ Environment \/ UNCHANGED vars
    BY ZenonT(30), <1>3, StutterLemma DEF Serve, Environment, OthersTake, OthersLeave,
       AddressAssigned,
       Request, vars
  <1> QED BY <1>1, <1>2, <1>3 DEF Next

\* The invariant of the start-up.
THEOREM Invariance == Spec => []IInv
  BY InitLemma, StepLemma, PTL DEF Spec

\* Whatever the addresses and the descriptors are, a listener of the proxy has
\* the socket of its own address, in the child as in a single process.
THEOREM RightSocketsTheorem == Spec => []RightSockets
  <1>1. IInv => RightSockets
    BY DEF IInv, ListenersInv
  <1> QED BY <1>1, Invariance, PTL

\* A proxy that is said to be ready has a socket at every wanted endpoint, until
\* it ends.
THEOREM ReadyTheorem == Spec => []ReadyMeansReachable
  <1>1. IInv => ReadyMeansReachable
    <2> SUFFICES ASSUME IInv, ready, pc \notin {"dup", "failed"}, NEW e \in Wanted PROVE Held(e)
      BY DEF ReadyMeansReachable
    <2>1. CASE child
      <3>1. PICK i \in Nat : Place(i, e)
        BY SMTT(30), PlaceLemma
      <3> QED BY SMTT(30), <2>1, <3>1 DEF IInv, ChildInv, Held
    <2>2. CASE ~child
      <3>1. pc = "running" /\ Single
        BY <2>2 DEF IInv, SingleInv, Parent, Single
      <3> QED BY <3>1 DEF IInv, SingleInv, Done, Final
    <2> QED BY <2>1, <2>2 DEF IInv, Types
  <1> QED BY <1>1, Invariance, PTL

\* The handover: no address is found in use because of the captive portal
\* listeners or of an earlier listener of the proxy.
THEOREM HandoverTheorem == Spec => InUseOnlyByOthers
  <1>1. IInv /\ [Next]_vars => [failure' # failure => failure' \in others \cup {Unassigned}]_vars
    <2> SUFFICES ASSUME IInv, Next, failure' # failure PROVE failure' \in others \cup {Unassigned}
      BY DEF told
    <2>1. Main /\ pc # "failed" /\ failure = None
      <3>1. ~UNCHANGED told
        BY DEF told
      <3>2. Main
        BY ZenonT(30), <3>1 DEF Next, PortalStep, PortalRead, PortalCheck, PortalClose,
           PortalDone, Serve,
           Environment, OthersTake, OthersLeave, AddressAssigned, Request
      <3>3. pc # "failed"
        BY ZenonT(30), <3>2 DEF Main, ColdStartNone, AddColdStartListener, ColdStartEnd, Resolve,
           Probe, Stop, Wait, AddDNSListener, AddDNSListenerParent, AddDNSListenerChild,
           AddDNSListenerError, AddLocalDoHListener, AddLocalDoHListenerParent,
           AddLocalDoHListenerChild, AddLocalDoHListenerError, NextList, AddSystemDListeners,
           DropPrivilege, Dup2, Exec, StartProxy, OtherError, AtAddress, AtDoHAddress
      <3> QED BY <3>2, <3>3 DEF IInv, Types
    <2>2. ~Fatal(None)
      BY <2>1 DEF Fatal
    <2>3. AddDNSListenerError \/ AddLocalDoHListenerError
      BY ZenonT(30), <2>1, <2>2 DEF Main, ColdStartNone, AddColdStartListener, ColdStartEnd,
         Resolve, Probe, Stop, Wait, AfterProbe, AddDNSListener, AddDNSListenerParent,
         AddDNSListenerChild, AddLocalDoHListener, AddLocalDoHListenerParent,
         AddLocalDoHListenerChild, NextList, AddSystemDListeners, DropPrivilege, Dup2, Exec,
         StartProxy, OtherError, told
    <2>4. ASSUME NEW e \in Wanted, BindError(e), ~Done(e), ~child, pc \notin Early
          PROVE failure' \in others \cup {Unassigned}
      <3>1. ~Held(e)
        BY ZenonT(30), <2>4 DEF Held, IInv, UnreachedInv, PortalsInv
      <3> QED BY <2>4, <3>1 DEF BindError, InUse, Fatal
    <2>5. CASE AddDNSListenerError
      <3>1. pc = "listen" /\ k \in DOMAIN ListenAddresses /\ ~child
        BY ZenonT(30), <2>5 DEF AddDNSListenerError, AtAddress, Child, IInv, ChildInv
      <3>2. k \in Nat /\ ~Done(UDP(ListenAddresses[k])) /\ ~Done(TCP(ListenAddresses[k]))
        <4>1. k \in Nat /\ \A n \in DOMAIN ListenAddresses : n < k => ListenAddresses[n] # ListenAddresses[k]
          BY <3>1, DistinctAssumption DEF IInv, Types
        <4>2. \A n \in DOMAIN ListenAddresses : n < k =>
                {UDP(ListenAddresses[n]), TCP(ListenAddresses[n])}
                  \cap {UDP(ListenAddresses[k]), TCP(ListenAddresses[k])} = {}
          BY <4>1 DEF UDP, TCP
        <4> QED BY <3>1, <4>1, <4>2 DEF Done, Final
      <3> QED BY ZenonT(30), <2>4, <2>5, <3>1, <3>2, WantedLemma DEF AddDNSListenerError, Early
    <2>6. CASE AddLocalDoHListenerError
      <3>1. pc = "doh" /\ k \in DOMAIN DoHAddresses /\ ~child
        BY SMTT(30), <2>6 DEF AddLocalDoHListenerError, AtDoHAddress, Child, IInv, ChildInv
      <3>2. ~Done(TCP(DoHAddresses[k]))
        BY SMTT(60), <3>1, DistinctAssumption DEF Done, Final, UDP, TCP, IInv, Types
      <3> QED BY ZenonT(30), <2>4, <2>6, <3>1, <3>2, WantedLemma DEF AddLocalDoHListenerError, Early
    <2> QED BY ZenonT(30), <2>3, <2>5, <2>6
  <1> QED BY <1>1, Invariance, PTL DEF Spec, InUseOnlyByOthers

=============================================================================
