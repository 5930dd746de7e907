----------------------------- MODULE PacketPath -----------------------------
(***************************************************************************)
(* The datapath: the entry program (parser and detector), the tail call    *)
(* into a FAR program, and the FAR program itself, run on every CPU while  *)
(* the management layer of SessionPipeline writes the maps they read.      *)
(* A packet reads four maps, one after the other and without any lock:     *)
(* m_next_rule_prog_index, m_next_rule_prog, m_far and m_arp_table.        *)
(***************************************************************************)
EXTENDS SessionPipeline

CONSTANTS
  Cpus,             \* CPUs that run the XDP programs
  Frames,           \* the frames that may be received
  Rule              \* what each FAR holds, a function on Fars

(* A FAR as pfcp_far_apply reads it. *)
RuleType == [action : {"forw", "other"}, dest : {"core", "access", "other"},
             header : {"udp_ipv4", "gtpu_udp_ipv4", "other"}]

(* A received frame.  headers counts the headers of eth, ip, udp, gtpu, inner ip
   that fit into its length; l2 is the Ethernet type, "vlan4" and "vlan" being
   frames with one tag in front of IPv4 and of anything else.  up and down are
   the flows whose keys are (teid, ACCESS, source address) and
   (0, CORE, destination address). *)
FrameType ==
  [l2 : {"ipv4", "vlan4", "vlan", "other"}, headers : 0 .. 5,
   l4 : {"udp", "other"}, port : {"gtpu", "other"}, msg : {"gpdu", "other"},
   inner : {"ipv4", "other"}, up : Flows \cup {NoFlow}, down : Flows \cup {NoFlow}]

ASSUME PacketAssumption ==
  /\ Frames \subseteq FrameType /\ Frames # {}
  /\ Rule \in [Fars -> RuleType]

VARIABLE packet     \* the packet each CPU is processing

Fates == Fars \cup {"pass", "drop"}

Actions == {"none", "PASS", "DROP", "ABORTED", "UPLINK", "DOWNLINK"}

(* What leaves: the frame as it came, the inner IP packet behind an Ethernet
   header, a whole GTP-U packet, an outer IP and UDP header with no GTP header
   and no checksum, or headers that do not match what follows them. *)
Shapes == {"asReceived", "inner", "gtpu", "half", "garbled"}

(* fate, action, shape and mac describe the finished packet.  seen is a history
   variable: the values Route took for the packet's flow while it was processed. *)
PacketType ==
  [pc : {"none", "index", "tail", "far", "apply", "done"}, frame : Frames,
   flow : Flows \cup {NoFlow}, id : Nat, prog : 0 .. MaxPrograms,
   far : Fars \cup {NoFar}, fate : Fates, action : Actions, shape : Shapes,
   mac : {"original", "nextHop"}, seen : SUBSET Fates]

PacketTypeOK == TypeOK /\ packet \in [Cpus -> PacketType]

NoPacket ==
  [pc |-> "none", frame |-> CHOOSE fr \in Frames : TRUE, flow |-> NoFlow, id |-> 0,
   prog |-> 0, far |-> NoFar, fate |-> "pass", action |-> "none",
   shape |-> "asReceived", mac |-> "original", seen |-> {}]

pvars == <<vars, packet>>

PInit == Init /\ packet = [c \in Cpus |-> NoPacket]

-----------------------------------------------------------------------------
(* The parser: an XDP action, or a flow to look up. *)
Verdict(action) == [action |-> action, flow |-> NoFlow]
Lookup(flow) == [action |-> "none", flow |-> flow]

gtp_handle(fr) ==
  CASE fr.headers < 4 -> Verdict("DROP")
    [] fr.headers >= 4 /\ fr.msg # "gpdu" -> Verdict("PASS")
    [] fr.headers = 4 /\ fr.msg = "gpdu" -> Verdict("DROP")
    [] fr.headers = 5 /\ fr.msg = "gpdu" ->
         IF fr.inner = "ipv4" THEN Lookup(fr.up) ELSE Verdict("DROP")

udp_handle(fr) ==
  CASE fr.headers < 3 -> Verdict("ABORTED")
    [] fr.headers >= 3 /\ fr.port = "gtpu" -> gtp_handle(fr)
    [] fr.headers >= 3 /\ fr.port # "gtpu" -> Lookup(fr.down)

ipv4_handle(fr) ==
  CASE fr.headers < 2 -> Verdict("ABORTED")
    [] fr.headers >= 2 /\ fr.l4 = "udp" -> udp_handle(fr)
    [] fr.headers >= 2 /\ fr.l4 # "udp" -> Verdict("PASS")

(* A tagged frame is handled as IPv4 whatever its tag announces. *)
eth_handle(fr) ==
  IF fr.headers = 0 \/ fr.l2 = "other" THEN Verdict("PASS") ELSE ipv4_handle(fr)

(* A key that no flow has is in no index. *)
Fate(flow) == IF flow = NoFlow THEN "pass" ELSE Route(flow)

(* entry_point up to the lookup, or to the action of a frame it does not look
   up, whose fate stays "pass".  xdp_stats_record_action only counts. *)
Receive(c, fr) ==
  /\ upf = "up"
  /\ packet[c].pc = "none"
  /\ LET parsed == eth_handle(fr) IN
       packet' = [packet EXCEPT ![c] = [NoPacket EXCEPT
         !.pc = IF parsed.action = "none" THEN "index" ELSE "done",
         !.frame = fr, !.flow = parsed.flow, !.action = parsed.action,
         !.seen = {Fate(parsed.flow)}]]
  /\ UNCHANGED vars

Finish(c, fate, action, shape, mac) ==
  packet' = [packet EXCEPT ![c] = [@ EXCEPT
    !.pc = "done", !.fate = fate, !.action = action, !.shape = shape, !.mac = mac]]

Passes(c) == Finish(c, "pass", "PASS", "asReceived", "original")

(* bpf_map_lookup_elem(&m_next_rule_prog_index, &map_key) *)
LookupIndex(c) ==
  /\ packet[c].pc = "index"
  /\ IF packet[c].flow = NoFlow \/ SlotOf(packet[c].flow) = 0 THEN Passes(c)
     ELSE packet' = [packet EXCEPT ![c] =
            [@ EXCEPT !.pc = "tail", !.id = SlotOf(packet[c].flow)]]
  /\ UNCHANGED vars

(* bpf_tail_call(p_ctx, &m_next_rule_prog, *index_prog): returns, and the packet
   passes, when the index is out of range or the slot is empty. *)
TailCallOffByOne(c) ==
  /\ packet[c].pc = "tail"
  /\ IF packet[c].id < MaxRuleProg /\ ruleProg[packet[c].id - 1] # 0
     THEN packet' = [packet EXCEPT ![c] =
            [@ EXCEPT !.pc = "far", !.prog = ruleProg[packet[c].id - 1]]]
     ELSE Passes(c)
  /\ UNCHANGED vars

TailCall(c) ==
  /\ packet[c].pc = "tail"
  /\ IF packet[c].id < MaxRuleProg /\ ruleProg[packet[c].id] # 0
     THEN packet' = [packet EXCEPT ![c] =
            [@ EXCEPT !.pc = "far", !.prog = ruleProg[packet[c].id]]]
     ELSE Passes(c)
  /\ UNCHANGED vars

(* bpf_map_lookup_elem(&m_far, &key) in the FAR program *)
LookupFar(c) ==
  /\ packet[c].pc = "far"
  /\ IF programs[packet[c].prog].far = NoFar
     THEN Finish(c, "drop", "DROP", "asReceived", "original")
     ELSE packet' = [packet EXCEPT ![c] =
            [@ EXCEPT !.pc = "apply", !.far = programs[packet[c].prog].far]]
  /\ UNCHANGED vars

Tagged(fr) == fr.l2 \in {"vlan4", "vlan"}

(* Towards the data network: the Ethernet header is moved over the outer headers,
   counted from the start of the frame, and needs a MAC for the inner address. *)
ToCoreUnchecked(c) ==
  Finish(c, packet[c].far, "UPLINK", "inner",
         IF programs[packet[c].prog].arp = "empty" THEN "original" ELSE "nextHop")

ToCore(c) ==
  LET p == packet[c] IN
  IF p.frame.headers < 5 \/ programs[p.prog].arp = "empty"
  THEN Finish(c, p.far, "DROP", "garbled", "original")
  ELSE Finish(c, p.far, "UPLINK",
              IF p.frame.port = "gtpu" /\ ~Tagged(p.frame) THEN "inner" ELSE "garbled",
              "nextHop")

(* Towards the access network: create_outer_header_gtpu_ipv4 stops at a missing
   MAC, but its result is not looked at and the packet is redirected. *)
ToAccess(c) ==
  LET p == packet[c] IN
  IF programs[p.prog].arp = "empty"
  THEN Finish(c, p.far, "DOWNLINK", IF Tagged(p.frame) THEN "garbled" ELSE "half",
              "original")
  ELSE Finish(c, p.far, "DOWNLINK", IF Tagged(p.frame) THEN "garbled" ELSE "gtpu",
              "nextHop")

Applies(c, dest, header) ==
  LET rule == Rule[packet[c].far] IN
    rule.action = "forw" /\ rule.dest = dest /\ rule.header = header

(* pfcp_far_apply: every other combination passes the packet. *)
ApplyFar(c) ==
  /\ packet[c].pc = "apply"
  /\ CASE Applies(c, "core", "udp_ipv4") -> ToCore(c)
       [] Applies(c, "access", "gtpu_udp_ipv4") -> ToAccess(c)
       [] OTHER -> Finish(c, packet[c].far, "PASS", "asReceived", "original")
  /\ UNCHANGED vars

Leave(c) ==
  /\ packet[c].pc = "done"
  /\ packet' = [packet EXCEPT ![c] = NoPacket]
  /\ UNCHANGED vars

InFlight(c) == packet[c].pc \notin {"none", "done"}

(* A step of the management layer.  TearDown takes the entry program off the
   interfaces first: a packet that is still running keeps the maps as they were,
   so it may as well have finished before. *)
Manage ==
  /\ Next
  /\ upf' # upf => \A c \in Cpus : ~InFlight(c)
  /\ packet' = [c \in Cpus |-> IF InFlight(c)
       THEN [packet[c] EXCEPT !.seen = @ \cup {Fate(f)' : f \in {packet[c].flow}}]
       ELSE packet[c]]

PNext ==
  \/ Manage
  \/ \E c \in Cpus :
       \/ \E fr \in Frames : Receive(c, fr)
       \/ LookupIndex(c) \/ TailCall(c) \/ LookupFar(c) \/ ApplyFar(c) \/ Leave(c)

PSpec == PInit /\ [][PNext]_pvars

-----------------------------------------------------------------------------
(* A packet that runs a FAR runs one that a session requested for its flow,
   though it reads the maps one by one while sessions are replaced and removed
   under it. *)
PacketRunsRequested ==
  \A c \in Cpus : packet[c].far # NoFar =>
    packet[c].flow \in Flows /\ Requested(packet[c].flow, packet[c].far)

(* What happens to a packet is what the maps together said of its flow at one
   instant of its processing: the separate reads never combine an old entry of
   one map with a new one of another into a fate the table never had. *)
FateWasRoute ==
  \A c \in Cpus : packet[c].pc = "done" => packet[c].fate \in packet[c].seen

(* A packet sent to the data network carries the MAC of its next hop, though
   the ARP table is written after the flow is live, and it is the inner packet
   of the G-PDU when that came untagged. *)
UplinkIsDecapsulated ==
  \A c \in Cpus : packet[c].action = "UPLINK" =>
    /\ packet[c].mac = "nextHop"
    /\ packet[c].frame.port = "gtpu" /\ ~Tagged(packet[c].frame) =>
         packet[c].shape = "inner"

-----------------------------------------------------------------------------
(* What docs and comments of the repository say and the code does not do. *)

(* m_arp_table gives the MAC address of the next hop of a redirected packet. *)
RedirectedToNextHop ==
  \A c \in Cpus : packet[c].action \in {"UPLINK", "DOWNLINK"} =>
    packet[c].mac = "nextHop"

(* Only IPv4 is handed to the IPv4 handler and on to the detector. *)
LookedUpIsIpv4 ==
  \A c \in Cpus : packet[c].pc = "index" => packet[c].frame.l2 \in {"ipv4", "vlan4"}
=============================================================================
