-------------------------- MODULE MCSessionProgram --------------------------
(* An instance of SessionProgram.  Ids 1 and 5 are one 32-bit id; the PDR is
   one that an uplink frame matches and a downlink frame does not, and may be stored
   in either map.  One FAR forwards each way and one does not forward. *)
EXTENDS SessionProgram

Up == [removal |-> "gtpu_udp_ipv4", source |-> "access", teid |-> 7, ue |-> 8, far |-> 1]

Core == [forw |-> TRUE, dest |-> "core", header |-> "udp_ipv4", hop |-> 9]
Access == [forw |-> TRUE, dest |-> "access", header |-> "gtpu_udp_ipv4", hop |-> 9]
Buffer == [Core EXCEPT !.forw = FALSE]

Rules == {Up}
Actions == {Core, Access, Buffer}

Traffic ==
  [dir : {"UPLINK"}, size : {"short", "headers", "full"}, key : {7}, hop : {9}] \cup
  [dir : {"DOWNLINK"}, size : {"headers", "full"}, key : {8}, hop : {9}]
=============================================================================
