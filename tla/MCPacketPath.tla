---------------------------- MODULE MCPacketPath ----------------------------
(* Instances of PacketPath.  f1 is an uplink flow and f2 a downlink flow; farA
   forwards to the data network, farB to the access network, farC forwards nothing.
   Every way out of the parser is taken by some frame. *)
EXTENDS PacketPath

CONSTANTS f1, f2, farA, farB, farC

Pdr(prec, flow, far) == [precedence |-> prec, flow |-> flow, far |-> far]

Session(seid, pdrs, fars, arp) ==
  [seid |-> seid, pdrs |-> pdrs, fars |-> fars, arp |-> arp]

Uplink   == Session(1, <<Pdr(1, f1, farA)>>, {farA}, "filled")
Downlink == Session(1, <<Pdr(1, f2, farB)>>, {farB}, "filled")
Second   == Session(2, <<Pdr(1, f2, farC), Pdr(2, f1, farA)>>, {farA, farC}, "filled")

Refused  == Session(2, <<Pdr(1, NoFlow, farA)>>, {farA}, "filled")

Sessions == {Uplink, Downlink, Second, Refused}

Rules == [far \in Fars |->
  CASE far = farA -> [action |-> "forw", dest |-> "core", header |-> "udp_ipv4"]
    [] far = farB -> [action |-> "forw", dest |-> "access", header |-> "gtpu_udp_ipv4"]
    [] far = farC -> [action |-> "other", dest |-> "core", header |-> "udp_ipv4"]]

GPdu == [l2 |-> "ipv4", headers |-> 5, l4 |-> "udp", port |-> "gtpu",
         msg |-> "gpdu", inner |-> "ipv4", up |-> f1, down |-> NoFlow]
Data == [GPdu EXCEPT !.headers = 3, !.port = "other", !.up = NoFlow, !.down = f2]

Unparsed ==
  {[GPdu EXCEPT !.headers = n] : n \in 0 .. 4} \cup
  {[GPdu EXCEPT !.l2 = "other"], [GPdu EXCEPT !.l4 = "other"],
   [GPdu EXCEPT !.msg = "other"], [GPdu EXCEPT !.inner = "other"]}

Unknown == {[GPdu EXCEPT !.up = NoFlow], [Data EXCEPT !.down = NoFlow]}

TaggedTraffic == {[GPdu EXCEPT !.l2 = "vlan4"], [Data EXCEPT !.l2 = "vlan"]}

Traffic == {GPdu, Data} \cup Unparsed \cup Unknown \cup TaggedTraffic
=============================================================================
