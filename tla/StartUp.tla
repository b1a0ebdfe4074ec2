------------------------------ MODULE StartUp ------------------------------
(***************************************************************************)
(* From main to the first client: the network probe (NetProbe) and the     *)
(* captive portal listeners that answer meanwhile (coldstart.go), the      *)
(* sockets of the proxy (proxy.go, systemd_linux.go), the change of user   *)
(* (dropPrivilege), after which the program begins again as a child with   *)
(* the sockets of its parent, and StartProxy.                              *)
(*                                                                         *)
(* An endpoint is a protocol and an address; addresses do not overlap and  *)
(* are well-formed.  The table of descriptors tells which sockets the      *)
(* process has: a socket and the copies that dup2 and File make of it are  *)
(* open as long as one of them is.  The copy that FileListener and         *)
(* FilePacketConn make takes the place of the descriptor they are given.   *)
(* Clients' requests wait in the socket of their endpoint, and are lost    *)
(* when it is closed.                                                      *)
(***************************************************************************)
EXTENDS Integers, Sequences

CONSTANTS ListenAddresses,    \* listen_addresses, a sequence
          DoHAddresses,       \* local_doh listen_addresses, a sequence
          Configs,            \* what of the configuration and of the caller matters
          MaxTimeout,         \* 3600
          Descriptors,        \* the descriptors a process may have
          ActivatedUDP,       \* those where systemd, if it opens a socket, opens a UDP one
          Base,               \* InheritedDescriptorsBase
          Contested,          \* endpoints that other programs may take
          Late,               \* addresses that may have no interface at first
          Clients,            \* endpoints that clients send requests to
          MaxQueue            \* requests that a socket keeps

UDP(a) == <<"udp", a>>
TCP(a) == <<"tcp", a>>

\* The sockets that systemd has opened, if it has.
Activated(d) == IF d \in ActivatedUDP THEN UDP("systemd") ELSE TCP("systemd")

Wanted == {UDP(ListenAddresses[n]) : n \in DOMAIN ListenAddresses}
            \cup {TCP(ListenAddresses[n]) : n \in DOMAIN ListenAddresses}
            \cup {TCP(DoHAddresses[n]) : n \in DOMAIN DoHAddresses}

Endpoints == Wanted \cup {UDP("systemd"), TCP("systemd")}

Addresses == {ListenAddresses[n] : n \in DOMAIN ListenAddresses}
               \cup {DoHAddresses[n] : n \in DOMAIN DoHAddresses}

None == <<"none">>
File == <<"file">>
Unassigned == <<"unassigned">>

Portals == DOMAIN ListenAddresses

ASSUME StartUpAssumption ==
  /\ ListenAddresses \in Seq(STRING) /\ DoHAddresses \in Seq(STRING)
  /\ Descriptors \subseteq Nat /\ ActivatedUDP \subseteq Descriptors
  /\ Base \in Nat /\ MaxTimeout \in Nat /\ MaxQueue \in Nat
  /\ Contested \subseteq Wanted /\ Clients \subseteq Endpoints
  /\ Configs \subseteq [timeout : Int, user : BOOLEAN, portals : {"none", "bad", "good"},
                        systemd : SUBSET Descriptors, files : SUBSET {d \in Descriptors : d < Base},
                        log : Seq(Descriptors)]
  /\ \A c \in Configs : /\ c.systemd \cap c.files = {}
                        /\ Len(c.log) <= 1 /\ \A n \in DOMAIN c.log : c.log[n] \in c.files

\* No two listeners have the same address.
ASSUME DistinctAssumption ==
  /\ \A m, n \in DOMAIN ListenAddresses : ListenAddresses[m] = ListenAddresses[n] => m = n
  /\ \A m, n \in DOMAIN DoHAddresses : DoHAddresses[m] = DoHAddresses[n] => m = n
  /\ \A m \in DOMAIN ListenAddresses, n \in DOMAIN DoHAddresses : ListenAddresses[m] # DoHAddresses[n]
  /\ UDP("systemd") \notin Wanted /\ TCP("systemd") \notin Wanted

VARIABLES config,       \* netprobe_timeout, user_name, the map file of captive portals,
                        \* the descriptors of systemd's sockets, of open files, and
                        \* of the log file if there is one
          child,        \* proxy.child
          pc, k,        \* the main goroutine, and the index of its loop
          tries,        \* of NetProbe
          handler,      \* whether NetProbe has a CaptivePortalHandler to stop
          probeError,   \* whether NetProbe returns an error
          cancelled,    \* whether cancelChannel is closed
          portalMap,    \* whether proxy.captivePortalMap is set
          portal,       \* the goroutines of the captive portal listeners
          table,        \* the descriptors of the process
          inherited,    \* FileDescriptors
          num,          \* FileDescriptorNum
          listeners,    \* udpListeners, tcpListeners and localDoHListeners
          accepting,    \* those that have a goroutine
          ready,        \* whether the service manager has been told
          failure,      \* the endpoint that could not be bound
          others,       \* the endpoints of other programs
          assigned,     \* the addresses that an interface has
          queue         \* how many requests wait at each endpoint

who == <<config, child>>
main == <<pc, k>>
probing == <<tries, handler, probeError, cancelled, portalMap>>
sockets == <<table, inherited, num>>
serving == <<listeners, accepting>>
told == <<ready, failure>>
environment == <<others, assigned, queue>>
vars == <<who, main, probing, portal, sockets, serving, told, environment>>

-----------------------------------------------------------------------------
(***************************************************************************)
(* Sockets and descriptors.  The system hands out the lowest free one      *)
(* (external).                                                             *)
(***************************************************************************)
Held(e) == \E d \in Descriptors : table[d] = e

InUse(e) == Held(e) \/ e \in others

\* net.ListenUDP and net.ListenTCP need an address of an interface; the
\* ListenConfig of the proxy does without.
Usable(e) == e[2] \in assigned /\ ~InUse(e)

Lowest(t) == {d \in Descriptors : t[d] = None /\ \A c \in Descriptors : t[c] = None => d <= c}

Opened(t, d, e) == [t EXCEPT ![d] = e]

Off == [pc |-> "off"]

NoRequests == [e \in Endpoints |-> 0]

\* The requests that still wait when the process has the table t.
Kept(t) == [e \in Endpoints |-> IF \E d \in Descriptors : t[d] = e THEN queue[e] ELSE 0]

\* dlog.Fatal: the process ends, and with it its sockets and its goroutines.
Fatal(e) == /\ pc' = "failed" /\ failure' = e
            /\ table' = [d \in Descriptors |-> None]
            /\ portal' = [n \in Portals |-> Off]
            /\ queue' = NoRequests
            /\ listeners' = {} /\ accepting' = {}
            /\ UNCHANGED <<who, k, probing, inherited, num, ready, others, assigned>>

Goto(label) == pc' = label /\ k' = 1

\* What the program finds when it begins: open files, and inherited sockets.
Begun(t, files) == [d \in Descriptors |-> IF d \in files THEN File ELSE t[d]]

AfterFlags == IF config.timeout = 0 THEN "listen" ELSE "coldStart"

-----------------------------------------------------------------------------
(***************************************************************************)
(* ColdStart                                                               *)
(***************************************************************************)

\* Without a map file, or with one that cannot be read, there is no handler.
ColdStartNone ==
  /\ pc = "coldStart" /\ config.portals # "good"
  /\ Goto("resolve")
  /\ UNCHANGED <<who, probing, portal, sockets, serving, told, environment>>

\* A listener for every address that is free.  Its goroutine begins at once.
AddColdStartListener ==
  /\ pc = "coldStart" /\ config.portals = "good" /\ k \in DOMAIN ListenAddresses
  /\ LET e == UDP(ListenAddresses[k]) IN
       IF ~Usable(e) \/ Lowest(table) = {}
         THEN UNCHANGED <<portal, table>>
         ELSE \E d \in Lowest(table) :
                /\ table' = Opened(table, d, e)
                /\ portal' = [portal EXCEPT ![k] = [pc |-> "read", fd |-> d]]
  /\ k' = k + 1
  /\ UNCHANGED <<who, pc, probing, inherited, num, serving, told, environment>>

\* An error of the last listener is no error if there is another one.
ColdStartEnd ==
  /\ pc = "coldStart" /\ config.portals = "good" /\ k \notin DOMAIN ListenAddresses
  /\ portalMap' = TRUE
  /\ handler' = \E n \in Portals : portal[n] # Off
  /\ Goto("resolve")
  /\ UNCHANGED <<who, tries, probeError, cancelled, portal, sockets, serving, told, environment>>

(***************************************************************************)
(* The goroutine of a captive portal listener: it reads with a deadline of *)
(* a second, then looks at the channel, then handles what it has read.     *)
(***************************************************************************)
PortalEndpoint(n) == UDP(ListenAddresses[n])

PortalRead(n) ==
  LET e == PortalEndpoint(n)
      got(what) == portal' = [portal EXCEPT ![n] = [pc |-> "check", fd |-> @.fd, got |-> what]]
  IN
  /\ portal[n].pc = "read"
  /\ \/ queue[e] > 0 /\ got("request") /\ queue' = [queue EXCEPT ![e] = @ - 1]
     \/ queue[e] = 0 /\ got("timeout") /\ UNCHANGED queue
     \/ got("error") /\ UNCHANGED queue
  /\ UNCHANGED <<who, main, probing, sockets, serving, told, others, assigned>>

\* Mutant of PortalCheck: the channel is looked at only when there is nothing
\* to read.
PortalCheckIdle(n) ==
  /\ portal[n].pc = "check"
  /\ portal' = [portal EXCEPT ![n] = [pc |-> IF (cancelled /\ @.got = "timeout") \/ @.got = "error"
                                                THEN "close" ELSE "read", fd |-> @.fd]]
  /\ UNCHANGED <<who, main, probing, sockets, serving, told, environment>>

\* A name of the map is answered, another one is ignored, and an error other
\* than the timeout ends the listener.
PortalCheck(n) ==
  /\ portal[n].pc = "check"
  /\ portal' = [portal EXCEPT ![n] = [pc |-> IF cancelled \/ @.got = "error" THEN "close" ELSE "read",
                                      fd |-> @.fd]]
  /\ UNCHANGED <<who, main, probing, sockets, serving, told, environment>>

\* The socket is closed, and the requests that wait in it are lost.
PortalClose(n) ==
  /\ portal[n].pc = "close"
  /\ portal' = [portal EXCEPT ![n] = [pc |-> "closed"]]
  /\ table' = [table EXCEPT ![portal[n].fd] = None]
  /\ queue' = Kept(table')
  /\ UNCHANGED <<who, main, probing, inherited, num, serving, told, others, assigned>>

\* wg.Done
PortalDone(n) ==
  /\ portal[n].pc = "closed"
  /\ portal' = [portal EXCEPT ![n] = [pc |-> "done"]]
  /\ UNCHANGED <<who, main, probing, sockets, serving, told, environment>>

PortalStep(n) == PortalRead(n) \/ PortalCheck(n) \/ PortalClose(n) \/ PortalDone(n)

-----------------------------------------------------------------------------
(***************************************************************************)
(* NetProbe                                                                *)
(***************************************************************************)

\* The address of the probe is resolved, or it is not.
Resolve ==
  /\ pc = "resolve"
  /\ \/ Goto("probe") /\ UNCHANGED probeError
     \/ Goto("stop") /\ probeError' = TRUE
  /\ tries' = IF config.timeout < 0 \/ config.timeout > MaxTimeout THEN MaxTimeout ELSE config.timeout
  /\ UNCHANGED <<who, handler, cancelled, portalMap, portal, sockets, serving, told, environment>>

\* The network is there, or a second is spent.
Probe ==
  /\ pc = "probe"
  /\ \/ Goto("stop") /\ UNCHANGED tries
     \/ tries > 0 /\ tries' = tries - 1 /\ UNCHANGED main
  /\ UNCHANGED <<who, handler, probeError, cancelled, portalMap, portal, sockets, serving, told,
                 environment>>

\* ConfigLoad goes on, or returns the error.
AfterProbe == IF probeError
                THEN Fatal(None)
                ELSE /\ Goto("listen")
                     /\ UNCHANGED <<who, probing, portal, sockets, serving, told, environment>>

\* The deferred Stop closes the channel.
Stop ==
  /\ pc = "stop"
  /\ IF handler
       THEN /\ Goto("wait") /\ cancelled' = TRUE
            /\ UNCHANGED <<who, tries, handler, probeError, portalMap, portal, sockets, serving, told,
                           environment>>
       ELSE AfterProbe

Waiting(n) == portal[n].pc \in {"read", "check", "close", "closed"}

\* Mutant of Wait: the goroutines are told to stop and not waited for.
WaitNot == pc = "wait" /\ AfterProbe

\* wg.Wait
Wait == pc = "wait" /\ (\A n \in Portals : ~Waiting(n)) /\ AfterProbe

-----------------------------------------------------------------------------
(***************************************************************************)
(* The listeners of the proxy.                                             *)
(***************************************************************************)
Listener(e, d) == [for |-> e, fd |-> d]

AtAddress == pc = "listen" /\ k \in DOMAIN ListenAddresses
AtDoHAddress == pc = "doh" /\ k \in DOMAIN DoHAddresses
Single == ~config.user
Parent == config.user /\ ~child
Child == config.user /\ child

\* addDNSListener: both sockets are opened and registered.
AddDNSListener ==
  /\ AtAddress /\ Single
  /\ LET u == UDP(ListenAddresses[k])
         t == TCP(ListenAddresses[k])
     IN /\ ~InUse(u) /\ ~InUse(t)
        /\ \E d1 \in Lowest(table) : \E d2 \in Lowest(Opened(table, d1, u)) :
             /\ table' = Opened(Opened(table, d1, u), d2, t)
             /\ listeners' = listeners \cup {Listener(u, d1), Listener(t, d2)}
  /\ k' = k + 1
  /\ UNCHANGED <<who, pc, probing, portal, inherited, num, accepting, told, environment>>

\* Mutant of AddDNSListenerParent: the descriptors that are kept are those
\* that the function closes.
AddDNSListenerUncopied ==
  /\ AtAddress /\ Parent
  /\ LET u == UDP(ListenAddresses[k])
         t == TCP(ListenAddresses[k])
     IN /\ Usable(u) /\ Usable(t)
        /\ \E d1 \in Lowest(table) : \E d2 \in Lowest(Opened(table, d1, u)) :
             inherited' = inherited \o <<d1, d2>>
  /\ k' = k + 1
  /\ UNCHANGED <<who, pc, probing, portal, table, num, serving, told, environment>>

\* Both are opened, File copies their descriptors, the first ones are closed.
AddDNSListenerParent ==
  /\ AtAddress /\ Parent
  /\ LET u == UDP(ListenAddresses[k])
         t == TCP(ListenAddresses[k])
     IN /\ Usable(u) /\ Usable(t)
        /\ \E d1 \in Lowest(table) : LET t1 == Opened(table, d1, u) IN
           \E d2 \in Lowest(t1) : LET t2 == Opened(t1, d2, t) IN
           \E d3 \in Lowest(t2) : LET t3 == Opened(t2, d3, u) IN
           \E d4 \in Lowest(t3) :
             /\ table' = [Opened(t3, d4, t) EXCEPT ![d1] = None, ![d2] = None]
             /\ inherited' = inherited \o <<d3, d4>>
  /\ k' = k + 1
  /\ UNCHANGED <<who, pc, probing, portal, num, serving, told, environment>>

\* The descriptor Base + n holds a socket of the protocol p.
Inherits(n, p) == /\ Base + n \in Descriptors
                  /\ table[Base + n] \notin {None, File}
                  /\ table[Base + n][1] = p

\* Mutant of AddDNSListenerChild: the two descriptors are not counted.
AddDNSListenerChildUncounted ==
  /\ AtAddress /\ Child
  /\ IF Inherits(num, "udp") /\ Inherits(num + 1, "tcp")
       THEN /\ listeners' = listeners \cup {Listener(UDP(ListenAddresses[k]), Base + num),
                                            Listener(TCP(ListenAddresses[k]), Base + num + 1)}
            /\ k' = k + 1
            /\ UNCHANGED <<who, pc, probing, portal, sockets, accepting, told, environment>>
       ELSE Fatal(None)

\* The next two inherited sockets become the listeners, if they are a UDP and
\* a TCP one.
AddDNSListenerChild ==
  /\ AtAddress /\ Child
  /\ IF Inherits(num, "udp") /\ Inherits(num + 1, "tcp")
       THEN /\ listeners' = listeners \cup {Listener(UDP(ListenAddresses[k]), Base + num),
                                            Listener(TCP(ListenAddresses[k]), Base + num + 1)}
            /\ num' = num + 2 /\ k' = k + 1
            /\ UNCHANGED <<who, pc, probing, portal, table, inherited, accepting, told, environment>>
       ELSE Fatal(None)

\* An address that cannot be used ends the program.
BindError(e) == \/ InUse(e) /\ Fatal(e)
                \/ Parent /\ e[2] \notin assigned /\ Fatal(Unassigned)

AddDNSListenerError ==
  /\ AtAddress /\ ~Child
  /\ \/ BindError(UDP(ListenAddresses[k]))
     \/ ~InUse(UDP(ListenAddresses[k])) /\ BindError(TCP(ListenAddresses[k]))

AddLocalDoHListener ==
  /\ AtDoHAddress /\ Single
  /\ LET t == TCP(DoHAddresses[k])
     IN /\ ~InUse(t)
        /\ \E d \in Lowest(table) : /\ table' = Opened(table, d, t)
                                    /\ listeners' = listeners \cup {Listener(t, d)}
  /\ k' = k + 1
  /\ UNCHANGED <<who, pc, probing, portal, inherited, num, accepting, told, environment>>

AddLocalDoHListenerParent ==
  /\ AtDoHAddress /\ Parent
  /\ LET t == TCP(DoHAddresses[k])
     IN /\ Usable(t)
        /\ \E d1 \in Lowest(table) : \E d2 \in Lowest(Opened(table, d1, t)) :
             /\ table' = [Opened(Opened(table, d1, t), d2, t) EXCEPT ![d1] = None]
             /\ inherited' = Append(inherited, d2)
  /\ k' = k + 1
  /\ UNCHANGED <<who, pc, probing, portal, num, serving, told, environment>>

AddLocalDoHListenerChild ==
  /\ AtDoHAddress /\ Child
  /\ IF Inherits(num, "tcp")
       THEN /\ listeners' = listeners \cup {Listener(TCP(DoHAddresses[k]), Base + num)}
            /\ num' = num + 1 /\ k' = k + 1
            /\ UNCHANGED <<who, pc, probing, portal, table, inherited, accepting, told, environment>>
       ELSE Fatal(None)

AddLocalDoHListenerError == AtDoHAddress /\ ~Child /\ BindError(TCP(DoHAddresses[k]))

\* The loops of ConfigLoad over the two lists of addresses.
NextList ==
  /\ \/ pc = "listen" /\ k \notin DOMAIN ListenAddresses /\ Goto("doh")
     \/ pc = "doh" /\ k \notin DOMAIN DoHAddresses /\ Goto("systemd")
  /\ UNCHANGED <<who, probing, portal, sockets, serving, told, environment>>

AddSystemDListeners ==
  /\ pc = "systemd"
  /\ IF config.systemd # {} /\ (config.user \/ child)
       THEN Fatal(None)
       ELSE /\ listeners' = listeners \cup {Listener(Activated(d), d) : d \in config.systemd}
            /\ Goto(IF Parent THEN "drop" ELSE "start")
            /\ UNCHANGED <<who, probing, portal, sockets, accepting, told, environment>>

-----------------------------------------------------------------------------
(***************************************************************************)
(* dropPrivilege                                                           *)
(***************************************************************************)

\* The service manager is told before the program begins again.
DropPrivilege ==
  /\ pc = "drop"
  /\ ready' = TRUE
  /\ Goto("dup")
  /\ UNCHANGED <<who, probing, portal, sockets, serving, failure, environment>>

\* Descriptor number k is copied to its place above the base; dup2 closes what
\* is there.
Dup2 ==
  /\ pc = "dup" /\ k \in DOMAIN inherited
  /\ IF inherited[k] >= Base \/ Base + k - 1 \notin Descriptors
       THEN Fatal(None)
       ELSE /\ table' = [table EXCEPT ![Base + k - 1] = table[inherited[k]]]
            /\ k' = k + 1
            /\ queue' = Kept(table')
            /\ UNCHANGED <<who, pc, probing, portal, inherited, num, serving, told, others, assigned>>

\* The program begins again; the other descriptors are closed on exec.  The
\* log file is the first of the inherited ones, if there is one.
Exec ==
  /\ pc = "dup" /\ k \notin DOMAIN inherited
  /\ table' = Begun([d \in Descriptors |->
                       IF \E n \in DOMAIN inherited : d = Base + n - 1 THEN table[d] ELSE None],
                    {d \in config.files : \A n \in DOMAIN config.log : config.log[n] # d})
  /\ queue' = Kept(table')
  /\ child' = TRUE /\ Goto(AfterFlags)
  /\ portal' = [n \in Portals |-> Off]
  /\ tries' = 0 /\ handler' = FALSE /\ probeError' = FALSE /\ cancelled' = FALSE /\ portalMap' = FALSE
  /\ inherited' = <<>> /\ num' = Len(config.log) /\ listeners' = {}
  /\ UNCHANGED <<config, accepting, told, others, assigned>>

-----------------------------------------------------------------------------

\* StartProxy, once the sources are loaded and the plugins initialised.
StartProxy ==
  /\ pc = "start"
  /\ accepting' = listeners /\ listeners' = {}
  /\ ready' = (ready \/ ~child)
  /\ Goto("running")
  /\ UNCHANGED <<who, probing, portal, sockets, failure, environment>>

\* A goroutine of the proxy takes a request.
Serve(l) ==
  /\ pc = "running" /\ queue[table[l.fd]] > 0
  /\ queue' = [queue EXCEPT ![table[l.fd]] = @ - 1]
  /\ UNCHANGED <<who, main, probing, portal, sockets, serving, told, others, assigned>>

\* Every other error of these steps: a system call, the user, the sources, a
\* plugin.
OtherError == pc \in {"listen", "doh", "drop", "dup", "start"} /\ Fatal(None)

-----------------------------------------------------------------------------
(***************************************************************************)
(* Other programs, interfaces, and clients (external).                     *)
(***************************************************************************)
OthersTake(e) ==
  /\ ~InUse(e) /\ others' = others \cup {e}
  /\ UNCHANGED <<who, main, probing, portal, sockets, serving, told, assigned, queue>>

OthersLeave(e) ==
  /\ e \in others /\ others' = others \ {e}
  /\ UNCHANGED <<who, main, probing, portal, sockets, serving, told, assigned, queue>>

AddressAssigned ==
  /\ assigned # Addresses /\ assigned' = Addresses
  /\ UNCHANGED <<who, main, probing, portal, sockets, serving, told, others, queue>>

Request(e) ==
  /\ Held(e) /\ queue[e] < MaxQueue
  /\ queue' = [queue EXCEPT ![e] = @ + 1]
  /\ UNCHANGED <<who, main, probing, portal, sockets, serving, told, others, assigned>>

-----------------------------------------------------------------------------
Init ==
  /\ config \in Configs
  /\ child = FALSE /\ pc = AfterFlags /\ k = 1
  /\ tries = 0 /\ handler = FALSE /\ probeError = FALSE /\ cancelled = FALSE /\ portalMap = FALSE
  /\ portal = [n \in Portals |-> Off]
  /\ table = Begun([d \in Descriptors |-> IF d \in config.systemd THEN Activated(d) ELSE None],
                   config.files)
  /\ inherited = config.log /\ num = 0 /\ listeners = {} /\ accepting = {}
  /\ ready = FALSE /\ failure = None
  /\ others \in SUBSET Contested /\ assigned \in {Addresses, Addresses \ Late}
  /\ queue = NoRequests

Main == \/ ColdStartNone \/ AddColdStartListener \/ ColdStartEnd
        \/ Resolve \/ Probe \/ Stop \/ Wait
        \/ AddDNSListener \/ AddDNSListenerParent \/ AddDNSListenerChild \/ AddDNSListenerError
        \/ AddLocalDoHListener \/ AddLocalDoHListenerParent \/ AddLocalDoHListenerChild
        \/ AddLocalDoHListenerError \/ NextList \/ AddSystemDListeners
        \/ DropPrivilege \/ Dup2 \/ Exec \/ StartProxy \/ OtherError

Environment == \/ \E e \in Contested : OthersTake(e) \/ OthersLeave(e)
               \/ AddressAssigned
               \/ \E e \in Clients : Request(e)

Next == \/ Main
        \/ \E n \in Portals : PortalStep(n)
        \/ \E l \in accepting : Serve(l)
        \/ Environment

\* The goroutines run, and a read ends at its deadline.
Fairness == WF_vars(Main) /\ \A n \in Portals : WF_vars(PortalStep(n))

Spec == Init /\ [][Next]_vars /\ Fairness
-----------------------------------------------------------------------------
(***************************************************************************)
(* Properties                                                              *)
(***************************************************************************)

TypeOK ==
  /\ config \in Configs /\ child \in BOOLEAN /\ ready \in BOOLEAN /\ portalMap \in BOOLEAN
  /\ table \in [Descriptors -> Endpoints \cup {None, File}]
  /\ inherited \in Seq(Descriptors) /\ k \in Nat /\ num \in Nat /\ tries \in Nat
  /\ others \subseteq Contested /\ assigned \subseteq Addresses
  /\ queue \in [Endpoints -> 0..MaxQueue]

\* The handover from the captive portal listeners: an address that turns out
\* to be in use is one that another program has, never one that a listener of
\* the cold start, or the parent process, still holds.
InUseOnlyByOthers == [][failure' # failure => failure' \in others \cup {Unassigned}]_vars

\* Every listener of the proxy has the socket of the address it was made for:
\* in the child too, which knows its sockets by their positions only.
RightSockets == \A l \in listeners \cup accepting : table[l.fd] = l.for

\* Once the service manager has been told that the proxy is ready, every
\* address has a socket in which requests wait, as long as the program runs:
\* also while the child begins again, and probes the network again.  (Within
\* dropPrivilege, a socket is lost only to a program that will not be executed
\* again: one whose descriptors reach the base.)
ReadyMeansReachable == ready /\ pc \notin {"dup", "failed"} => \A e \in Wanted : Held(e)

\* The start-up ends, whatever clients and other programs do: the probe gives
\* up, and the captive portal listeners end at the latest with their next read.
StartUpEnds == <>(pc \in {"running", "failed"})

-----------------------------------------------------------------------------
(***************************************************************************)
(* What the documents say and the code does not do; the README names the   *)
(* lines.                                                                  *)
(***************************************************************************)

\* ChangeLog: listen_addresses may have addresses that no interface has yet.
\* With user_name, the parent process cannot open a socket for such an address.
UnassignedAccepted == failure # Unassigned

\* example-captive-portals.txt: the addresses of the map are returned for the
\* names of the map.  NetProbe alone reads the file: not when
\* netprobe_timeout is 0.
PortalNamesServed == pc = "running" /\ config.portals = "good" => portalMap
=============================================================================
