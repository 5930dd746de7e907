-------------------------- MODULE MCSessionPipeline -------------------------
(* Instances of SessionPipeline.  Session ids 1 and 3 are equal modulo 2, the
   model's 2^32.  The requests cover: sessions on three flows, a replacement
   of session 1 by a session on another flow, a second PDR of equal precedence,
   a highest PDR with a field missing and one whose FAR is not in the session. *)
EXTENDS SessionPipeline

CONSTANTS f1, f2, f3, farA, farB

Pdr(prec, flow, far) == [precedence |-> prec, flow |-> flow, far |-> far]

Session(seid, pdrs, fars, arp) ==
  [seid |-> seid, pdrs |-> pdrs, fars |-> fars, arp |-> arp]

Plain1 == Session(1, <<Pdr(2, f2, farB), Pdr(1, f1, farA)>>, {farA, farB}, "filled")
Plain2 == Session(2, <<Pdr(1, f2, farB)>>, {farB}, "empty")
Moved1 == Session(1, <<Pdr(1, f2, farB)>>, {farB}, "filled")
Third2 == Session(2, <<Pdr(1, f3, farA)>>, {farA}, "filled")
Tie1   == Session(1, <<Pdr(1, f1, farA), Pdr(1, f1, farB)>>, {farA, farB}, "filled")
Alias3 == Session(3, <<Pdr(1, f2, farB)>>, {farB}, "filled")
NoPdr  == Session(2, <<>>, {farA}, "filled")
NoPdi  == Session(2, <<Pdr(1, NoFlow, farA), Pdr(2, f1, farA)>>, {farA}, "filled")
FarOff == Session(2, <<Pdr(1, f1, farB)>>, {farA}, "filled")

AllRequests == {Plain1, Plain2, Moved1, Third2, Tie1, NoPdr, NoPdi, FarOff, Alias3}
TwoFlows == {Plain1, Plain2}
=============================================================================
