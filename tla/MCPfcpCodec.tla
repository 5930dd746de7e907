---------------------------- MODULE MCPfcpCodec ----------------------------
(* Every message class; a peer may misplace a leaf and a group. *)
EXTENDS PfcpCodec

MCKinds == DOMAIN Message
MCStray == {"cause", "remove_far"}
=============================================================================
