----------------------------- MODULE MCStartUp -----------------------------
(***************************************************************************)
(* Two listen addresses and a local DoH address.  The descriptors 3..15    *)
(* with the base at 10: with up to one open file, which may be the log     *)
(* file, the five sockets get descriptors below the base, with two one of  *)
(* them does not, which dropPrivilege refuses.  The network probe may be   *)
(* off, short, or without a limit.                                         *)
(***************************************************************************)
EXTENDS StartUp

MCListenAddresses == <<"a1", "a2">>
MCDoHAddresses == <<"h1">>
MCDescriptors == 3..15
MCContested == {UDP("a1"), TCP("a2"), TCP("h1")}
MCClients == {UDP("a1"), UDP("a2")}

Plain == [timeout : {0, 1, -1}, user : BOOLEAN, portals : {"none", "bad", "good"},
          systemd : {{}}, files : {{}}, log : {<<>>}]

MCConfigs == Plain
  \cup [timeout : {0, 5}, user : {TRUE}, portals : {"good"}, systemd : {{}}, files : {{3}},
          log : {<<>>, <<3>>}]
  \cup [timeout : {0, 5}, user : {TRUE}, portals : {"good"}, systemd : {{}}, files : {{3, 4}},
          log : {<<>>}]
  \cup [timeout : {0}, user : BOOLEAN, portals : {"none"}, systemd : {{3, 4}}, files : {{}},
          log : {<<>>}]
=============================================================================
