---------------------------- MODULE MCPfcpSession ----------------------------
(* Two PDR and two FAR identifiers, requests that pass every check and requests
   that fail each of them. *)
EXTENDS PfcpSession

CONSTANTS f1, f2

MCFlows == {f1, f2}

MCPdi(source, flow) ==
  [source |-> source, fteid |-> TRUE, ue |-> TRUE, endpoint |-> FALSE, flow |-> flow]

Uplink == MCPdi("access", f1)
Downlink == MCPdi("core", f2)

MCCreate(id, precedence, pdi, far) ==
  [id |-> id, precedence |-> precedence, pdi |-> pdi, far |-> far]

MCCreatePdrs ==
  {MCCreate(1, 1, Uplink, 1), MCCreate(2, 2, Downlink, 2),
   MCCreate(2, 1, [Downlink EXCEPT !.fteid = FALSE], None),
   MCCreate(None, 1, Uplink, 1), MCCreate(1, None, Uplink, 1), MCCreate(1, 1, None, 1),
   MCCreate(1, 1, [Uplink EXCEPT !.source = "absent"], 1),
   MCCreate(1, 1, [Uplink EXCEPT !.source = "other"], 1),
   MCCreate(1, 1, [Uplink EXCEPT !.fteid = FALSE], 1),
   MCCreate(1, 1, [Uplink EXCEPT !.endpoint = TRUE], 1)}

MCForward(id, dest, header) ==
  [id |-> id, action |-> TRUE, forw |-> TRUE, dupl |-> FALSE,
   fwd |-> [dest |-> dest, header |-> header], dup |-> FALSE]

MCCreateFars ==
  {MCForward(1, 1, 0), MCForward(2, 0, 1),
   [MCForward(2, 0, 0) EXCEPT !.forw = FALSE, !.fwd = None],
   [MCForward(1, 1, 0) EXCEPT !.id = None], [MCForward(1, 1, 0) EXCEPT !.action = FALSE],
   [MCForward(1, 1, 0) EXCEPT !.fwd = None], [MCForward(1, 1, 0) EXCEPT !.dupl = TRUE]}

MCUpdatePdrs ==
  {[id |-> 1, precedence |-> 2, pdi |-> None, far |-> 2],
   [id |-> 2, precedence |-> None, pdi |-> Uplink, far |-> None]}

MCUpdateFars ==
  {[id |-> 1, action |-> TRUE, forw |-> FALSE, dupl |-> FALSE, dest |-> None, header |-> None],
   [id |-> 2, action |-> FALSE, forw |-> FALSE, dupl |-> FALSE, dest |-> 1, header |-> None]}
=============================================================================
