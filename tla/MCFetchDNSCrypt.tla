--------------------------- MODULE MCFetchDNSCrypt ---------------------------
(***************************************************************************)
(* Servers and relays on two networks.                                     *)
(***************************************************************************)
EXTENDS FetchDNSCrypt

MCAddr(family, bits) == [family |-> family, bits |-> bits]
MCNode(n, proto, addr) == [name |-> n, proto |-> proto, addr |-> addr]

MCUnknown == MCAddr("none", <<0, 0>>)
MCServers == {MCNode("s", "dnscrypt", MCAddr("v4", <<0, 0>>)), MCNode("u", "dnscrypt", MCUnknown),
              MCNode("d", "doh", MCUnknown), MCNode("o", "odoh", MCUnknown)}
MCNear == MCNode("near", "dnscryptRelay", MCAddr("v4", <<0, 1>>))
MCFar == MCNode("far", "dnscryptRelay", MCAddr("v4", <<1, 0>>))
MCOther == MCNode("six", "dnscryptRelay", MCAddr("v6", <<1, 0>>))
MCOblivious == MCNode("odoh", "odohRelay", MCUnknown)
MCDNSCrypt == MCNode("stamp", "dnscrypt", MCAddr("v4", <<1, 0>>))
MCRelays == {MCNear, MCFar, MCOther, MCOblivious}

MCStamps == {MCFar, MCOblivious, MCDNSCrypt}

MCName(n) == [name |-> n]
MCStar == MCName("*")
MCStamp(r) == [stamp |-> r]

MCRouteSets ==
  {[n \in {} |-> <<>>], [n \in {"*"} |-> <<MCStar>>], [n \in {"s"} |-> <<MCName("near"), MCName("far")>>],
   [n \in {"*"} |-> <<MCName("near"), MCName("far"), MCName("six")>>],
   [n \in {"s", "o"} |-> <<MCStamp(MCFar), MCStamp(MCOblivious), MCStar>>],
   [n \in {"s"} |-> <<MCStamp(MCFar), MCStamp(MCOblivious)>>], [n \in {"s"} |-> <<MCStamp(MCDNSCrypt)>>]}
=============================================================================
