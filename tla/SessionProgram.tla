--------------------------- MODULE SessionProgram ---------------------------
(***************************************************************************)
(* The session programs of version 1.0, which the current code keeps       *)
(* beside the pipelines: SessionManager::createSession and removeSession,  *)
(* SessionProgramManager::create, remove and removeAll, a BPF program per  *)
(* session with maps of its own, and the datapath of that program.         *)
(* Clients fill the maps through the getters of SessionProgram while every *)
(* CPU may be running the program.                                         *)
(***************************************************************************)
EXTENDS Naturals, FiniteSets

CONSTANTS
  Seids,            \* 64-bit session ids
  RuledSeids,       \* those whose clients store rules
  SeidModulus,      \* 2^32
  Teids, Ues, FarIds, Hops,
  Pdrs, Fars,       \* the rules a client may store
  Frames,           \* the frames that may be received
  Cpus,
  IndexValues,      \* what the build leaves in the uninitialised index i
  NoPdr, NoFar,
  MaxRules,         \* max_entries of m_teid_pdr, m_ueip_pdr and m_fars
  MaxArp,           \* max_entries of m_arp_table
  MaxPrograms       \* bound on the programs created

Directions == {"UPLINK", "DOWNLINK"}

PdrType == [removal : {"gtpu_udp_ipv4", "udp_ipv4"}, source : {"access", "core"},
            teid : Teids, ue : Ues, far : FarIds]
FarType == [forw : BOOLEAN, dest : {"core", "access", "other"},
            header : {"udp_ipv4", "gtpu_udp_ipv4", "other"}, hop : Hops]

(* size: not even the headers that are looked up fit; they fit; an inner IP
   header fits behind them too.  key is the TEID or the destination address, hop
   the address found where the inner header would have its destination. *)
FrameType ==
  [dir : {"UPLINK"}, size : {"short", "headers", "full"}, key : Teids, hop : Hops]
  \cup
  [dir : {"DOWNLINK"}, size : {"short", "headers", "full"}, key : Ues, hop : Hops]

ASSUME SessionProgramAssumption ==
  /\ Seids \subseteq Nat /\ RuledSeids \subseteq Seids
  /\ SeidModulus \in Nat \ {0}
  /\ {MaxRules, MaxArp, MaxPrograms} \subseteq Nat
  /\ Pdrs \subseteq PdrType /\ NoPdr \notin Pdrs
  /\ Fars \subseteq FarType /\ NoFar \notin Fars
  /\ Frames \subseteq FrameType /\ Frames # {}

VARIABLES
  mSessionProgramMap, \* the program of each 32-bit seid, 0 for none
  nPrograms,          \* SessionPrograms that were set up
  live,               \* those whose skeleton is not destroyed
  maps,               \* the BPF maps of each
  client,             \* the one thread that calls the managers
  lost,               \* the interfaces that no longer exist, by direction
  process,            \* "running", or "killed" by a signal
  packet              \* the packet each CPU is processing

managerVars == <<mSessionProgramMap, nPrograms, live>>
vars == <<managerVars, maps, client, lost, process, packet>>

MapsType ==
  [uplink : [Teids -> Pdrs \cup {NoPdr}], downlink : [Ues -> Pdrs \cup {NoPdr}],
   fars : [FarIds -> Fars \cup {NoFar}], arp : SUBSET Hops,
   egress : SUBSET Directions]

ClientType ==
  [pc : {"idle", "setup", "uplink", "downlink", "removeAll", "handler"},
   seid : 0 .. SeidModulus - 1, found : SUBSET Directions]

(* quiet: no map of the program has been written since the packet came. *)
PacketType ==
  [pc : {"none", "pdr", "far", "arp", "done"}, prog : 0 .. MaxPrograms,
   frame : Frames, pdr : Pdrs \cup {NoPdr}, far : Fars \cup {NoFar},
   verdict : {"none", "PASS", "DROP", "ABORTED", "REDIRECT"},
   shape : {"asReceived", "inner", "gtpu", "half", "garbled"},
   quiet : BOOLEAN]

SessionTypeOK ==
  /\ mSessionProgramMap \in [0 .. SeidModulus - 1 -> 0 .. MaxPrograms]
  /\ nPrograms \in 0 .. MaxPrograms
  /\ live \subseteq 1 .. nPrograms
  /\ maps \in [1 .. MaxPrograms -> MapsType]
  /\ client \in ClientType
  /\ lost \subseteq Directions
  /\ process \in {"running", "killed"}
  /\ packet \in [Cpus -> PacketType]

EmptyMaps ==
  [uplink |-> [t \in Teids |-> NoPdr], downlink |-> [u \in Ues |-> NoPdr],
   fars |-> [f \in FarIds |-> NoFar], arp |-> {}, egress |-> {}]

Idle == [pc |-> "idle", seid |-> 0, found |-> {}]

NoPacket ==
  [pc |-> "none", prog |-> 0, frame |-> CHOOSE fr \in Frames : TRUE, pdr |-> NoPdr,
   far |-> NoFar, verdict |-> "none", shape |-> "asReceived", quiet |-> TRUE]

Init ==
  /\ mSessionProgramMap = [s \in 0 .. SeidModulus - 1 |-> 0]
  /\ nPrograms = 0
  /\ live = {}
  /\ maps = [p \in 1 .. MaxPrograms |-> EmptyMaps]
  /\ client = Idle
  /\ lost = {}
  /\ process = "running"
  /\ packet = [c \in Cpus |-> NoPacket]

-----------------------------------------------------------------------------
At(pc) == process = "running" /\ client.pc = pc

(* SessionProgramManager takes the seid as uint32_t. *)
Seid32(seid) == seid % SeidModulus

findSessionProgram(seid) == mSessionProgramMap[seid]

Sessions == {s \in DOMAIN mSessionProgramMap : findSessionProgram(s) # 0}

(* The kernel frees the maps of a destroyed program when no CPU runs it. *)
Freed(p, leaving) ==
  IF \E c \in Cpus \ leaving : packet[c].prog = p THEN maps
  ELSE [maps EXCEPT ![p] = EmptyMaps]

(* createSession, into create.  A seid in use is an exception. *)
Create(seid) ==
  /\ At("idle")
  /\ nPrograms < MaxPrograms
  /\ findSessionProgram(Seid32(seid)) = 0
  /\ client' = [Idle EXCEPT !.pc = "setup", !.seid = Seid32(seid)]
  /\ UNCHANGED <<managerVars, maps, lost, process, packet>>

SetUpUncounted ==
  /\ At("setup")
  /\ nPrograms' = nPrograms
  /\ live' = live \cup {nPrograms + 1}
  /\ client' = [client EXCEPT !.pc = "uplink", !.found = Directions \ lost]
  /\ UNCHANGED <<mSessionProgramMap, maps, lost, process, packet>>

(* SessionProgram::setup: open, the map wrappers, load, attach.  Nothing is linked:
   the program is loaded and its maps are empty.  if_nametoindex answers 0 for an
   interface that is gone. *)
SetUp ==
  /\ At("setup")
  /\ nPrograms' = nPrograms + 1
  /\ live' = live \cup {nPrograms + 1}
  /\ client' = [client EXCEPT !.pc = "uplink", !.found = Directions \ lost]
  /\ UNCHANGED <<mSessionProgramMap, maps, lost, process, packet>>

(* setrlimit, load or attach fails: an exception; load and attach destroy the
   skeleton first. *)
SetUpFails ==
  /\ At("setup")
  /\ client' = Idle
  /\ UNCHANGED <<managerVars, maps, lost, process, packet>>

(* getEgressInterfaceMap()->update: index 0 empties the entry, which is empty. *)
Egress(dir) ==
  maps' = [maps EXCEPT ![nPrograms].egress = @ \cup (client.found \cap {dir})]

Accepted(dir) == dir \in client.found => dir \notin lost

UpdateUplink ==
  /\ At("uplink")
  /\ Accepted("UPLINK")
  /\ Egress("UPLINK")
  /\ client' = [client EXCEPT !.pc = "downlink"]
  /\ UNCHANGED <<managerVars, lost, process, packet>>

Insert(seid, p) == mSessionProgramMap' = [mSessionProgramMap EXCEPT ![seid] = p]

UpdateDownlinkForgotten ==
  /\ At("downlink")
  /\ Accepted("DOWNLINK")
  /\ Insert(client.seid, nPrograms)
  /\ client' = Idle
  /\ UNCHANGED <<nPrograms, live, maps, lost, process, packet>>

UpdateDownlinkUninserted ==
  /\ At("downlink")
  /\ Accepted("DOWNLINK")
  /\ Egress("DOWNLINK")
  /\ client' = Idle
  /\ UNCHANGED <<managerVars, lost, process, packet>>

UpdateDownlink ==
  /\ At("downlink")
  /\ Accepted("DOWNLINK")
  /\ Egress("DOWNLINK")
  /\ Insert(client.seid, nPrograms)
  /\ client' = Idle
  /\ UNCHANGED <<nPrograms, live, lost, process, packet>>

(* The kernel knows no device of that index any more: update throws, and the
   program is dropped without tearDown. *)
EgressFails ==
  /\ \/ At("uplink") /\ ~Accepted("UPLINK")
     \/ At("downlink") /\ ~Accepted("DOWNLINK")
  /\ client' = Idle
  /\ UNCHANGED <<managerVars, maps, lost, process, packet>>

RemoveNotErasing(seid) ==
  /\ At("idle")
  /\ findSessionProgram(Seid32(seid)) # 0
  /\ live' = live \ {findSessionProgram(Seid32(seid))}
  /\ UNCHANGED <<mSessionProgramMap, nPrograms, maps, client, lost, process, packet>>

(* removeSession, into remove: tearDown and erase.  A seid that is not there is
   an exception.  A packet inside the program keeps it, and its maps, until it
   has left. *)
Remove(seid) ==
  /\ At("idle")
  /\ findSessionProgram(Seid32(seid)) # 0
  /\ live' = live \ {findSessionProgram(Seid32(seid))}
  /\ maps' = Freed(findSessionProgram(Seid32(seid)), {})
  /\ Insert(Seid32(seid), 0)
  /\ UNCHANGED <<nPrograms, client, lost, process, packet>>

(* UserPlaneComponent::tearDown, into removeAll.  With no session it is done. *)
RemoveAll ==
  /\ At("idle")
  /\ client' = IF Sessions = {} THEN Idle ELSE [Idle EXCEPT !.pc = "removeAll"]
  /\ UNCHANGED <<managerVars, maps, lost, process, packet>>

(* The first session is torn down, and onDestroySessionProgram called on the
   observer that no code has set.  SIGSEGV is handled by SignalHandler::tearDown. *)
RemoveFirst ==
  /\ At("removeAll")
  /\ \E s \in Sessions :
       /\ \A other \in Sessions : s <= other
       /\ live' = live \ {findSessionProgram(s)}
  /\ client' = [client EXCEPT !.pc = "handler"]
  /\ UNCHANGED <<mSessionProgramMap, nPrograms, maps, lost, process, packet>>

(* The handler's removeAll finds the same session in front, already IDLE, and
   faults again with SIGSEGV blocked. *)
Fault ==
  /\ At("handler")
  /\ process' = "killed"
  /\ UNCHANGED <<managerVars, maps, client, lost, packet>>

(* A network interface disappears; the kernel empties the entries that name it. *)
InterfaceLost(dir) ==
  /\ process = "running"
  /\ lost' = lost \cup {dir}
  /\ maps' = [p \in 1 .. MaxPrograms |->
                [maps[p] EXCEPT !.egress = @ \ {dir}]]
  /\ packet' = [c \in Cpus |-> [packet[c] EXCEPT !.quiet = FALSE]]
  /\ UNCHANGED <<managerVars, client, process>>

-----------------------------------------------------------------------------
(* A client of the getters writes one entry of one map of a session's program.
   An update of a full map, or the removal of a key it does not have, throws. *)
Entries(f, none) == {k \in DOMAIN f : f[k] # none}

Store(f, none, k, v) ==
  \/ /\ v # none
     /\ Cardinality(Entries(f, none) \cup {k}) <= MaxRules
  \/ /\ v = none
     /\ f[k] # none

Written(p, new) ==
  /\ maps' = [maps EXCEPT ![p] = new]
  /\ packet' = [c \in Cpus |->
       [packet[c] EXCEPT !.quiet = @ /\ packet[c].prog # p]]
  /\ UNCHANGED <<managerVars, client, lost, process>>

WriteRule(seid) ==
  LET p == findSessionProgram(Seid32(seid)) IN
  /\ At("idle")
  /\ p # 0
  /\ \/ \E t \in Teids, r \in Pdrs \cup {NoPdr} :
          /\ Store(maps[p].uplink, NoPdr, t, r)
          /\ Written(p, [maps[p] EXCEPT !.uplink[t] = r])
     \/ \E u \in Ues, r \in Pdrs \cup {NoPdr} :
          /\ Store(maps[p].downlink, NoPdr, u, r)
          /\ Written(p, [maps[p] EXCEPT !.downlink[u] = r])
     \/ \E f \in FarIds, r \in Fars \cup {NoFar} :
          /\ Store(maps[p].fars, NoFar, f, r)
          /\ Written(p, [maps[p] EXCEPT !.fars[f] = r])
     \/ \E known \in SUBSET Hops :
          /\ Cardinality(known) <= MaxArp
          /\ \E h \in Hops : known \in {maps[p].arp \cup {h}, maps[p].arp \ {h}}
          /\ known # maps[p].arp
          /\ Written(p, [maps[p] EXCEPT !.arp = known])

-----------------------------------------------------------------------------
(* The datapath.  A frame enters by the entry point of its direction. *)
Arrived(p, fr) ==
  [pc |-> IF fr.size = "short" THEN "done" ELSE "pdr", prog |-> p, frame |-> fr,
   pdr |-> NoPdr, far |-> NoFar, verdict |-> IF fr.size = "short" THEN "PASS" ELSE "none",
   shape |-> "asReceived", quiet |-> TRUE]

Receive(c, seid, fr) ==
  /\ process = "running"
  /\ findSessionProgram(Seid32(seid)) \in live
  /\ packet[c].pc = "none"
  /\ packet' = [packet EXCEPT ![c] = Arrived(findSessionProgram(Seid32(seid)), fr)]
  /\ UNCHANGED <<managerVars, maps, client, lost, process>>

Finish(c, verdict, shape) ==
  packet' = [packet EXCEPT ![c] =
    [@ EXCEPT !.pc = "done", !.verdict = verdict, !.shape = shape]]

PdrOf(m, fr) == IF fr.dir = "UPLINK" THEN m.uplink[fr.key] ELSE m.downlink[fr.key]

pfcp_pdr_match_pdi_access(pdr, teid) ==
  pdr.removal = "gtpu_udp_ipv4" /\ pdr.source = "access" /\ pdr.teid = teid

pfcp_pdr_match_pdi_downlink(pdr, daddr) ==
  pdr.removal = "udp_ipv4" /\ pdr.source = "core" /\ pdr.ue = daddr

Matches(pdr, fr) ==
  IF fr.dir = "UPLINK" THEN pfcp_pdr_match_pdi_access(pdr, fr.key)
  ELSE pfcp_pdr_match_pdi_downlink(pdr, fr.key)

(* The PDI that is compared is that of p_pdr[i], i uninitialised: any but 0 reads
   behind the entry, where anything may be found. *)
Outcomes(pdr, fr) ==
  UNION {IF i = 0 THEN {Matches(pdr, fr)} ELSE BOOLEAN : i \in IndexValues}

(* pfcp_pdr_lookup_uplink and pfcp_pdr_lookup_downlink *)
LookupPdr(c) ==
  LET pdr == PdrOf(maps[packet[c].prog], packet[c].frame) IN
  /\ packet[c].pc = "pdr"
  /\ IF pdr = NoPdr THEN Finish(c, "DROP", "asReceived")
     ELSE \E matched \in Outcomes(pdr, packet[c].frame) :
            IF matched
            THEN packet' = [packet EXCEPT ![c] = [@ EXCEPT !.pc = "far", !.pdr = pdr]]
            ELSE Finish(c, "PASS", "asReceived")
  /\ UNCHANGED <<managerVars, maps, client, lost, process>>

ToCore(far) == far.forw /\ far.dest = "core" /\ far.header = "udp_ipv4"
ToAccess(far) == far.forw /\ far.dest = "access" /\ far.header = "gtpu_udp_ipv4"

(* pfcp_far_apply up to the lookup of the MAC address.  A FAR that forwards to
   neither passes the frame on. *)
LookupFar(c) ==
  LET far == maps[packet[c].prog].fars[packet[c].pdr.far] IN
  /\ packet[c].pc = "far"
  /\ CASE far = NoFar -> Finish(c, "DROP", "asReceived")
       [] far # NoFar /\ (ToCore(far) \/ ToAccess(far)) ->
            IF ToCore(far) /\ packet[c].frame.size # "full"
            THEN Finish(c, "DROP", "asReceived")
            ELSE packet' = [packet EXCEPT ![c] = [@ EXCEPT !.pc = "arp", !.far = far]]
       [] OTHER -> Finish(c, "PASS", "asReceived")
  /\ UNCHANGED <<managerVars, maps, client, lost, process>>

(* The key of m_redirect_interfaces is the direction the frame came in by, whatever
   destination the FAR names. *)
EgressKey(pk) == pk.frame.dir

(* bpf_redirect_map *)
Redirect(c, shape) ==
  Finish(c, IF EgressKey(packet[c]) \in maps[packet[c].prog].egress
            THEN "REDIRECT" ELSE "ABORTED", shape)

Decapsulated(fr) == IF fr.dir = "UPLINK" THEN "inner" ELSE "garbled"

DecapsulateUnchecked(c) ==
  /\ packet[c].pc = "arp"
  /\ ToCore(packet[c].far)
  /\ Redirect(c, IF packet[c].frame.hop \in maps[packet[c].prog].arp
                 THEN Decapsulated(packet[c].frame) ELSE "asReceived")
  /\ UNCHANGED <<managerVars, maps, client, lost, process>>

(* The frame is cut in front of the inner header when update_dst_mac_address finds
   its destination. *)
Decapsulate(c) ==
  /\ packet[c].pc = "arp"
  /\ ToCore(packet[c].far)
  /\ IF packet[c].frame.hop \in maps[packet[c].prog].arp
     THEN Redirect(c, Decapsulated(packet[c].frame))
     ELSE Finish(c, "DROP", "asReceived")
  /\ UNCHANGED <<managerVars, maps, client, lost, process>>

EncapsulateDropping(c) ==
  /\ packet[c].pc = "arp"
  /\ ToAccess(packet[c].far)
  /\ IF packet[c].far.hop \in maps[packet[c].prog].arp
     THEN Redirect(c, "gtpu") ELSE Finish(c, "DROP", "half")
  /\ UNCHANGED <<managerVars, maps, client, lost, process>>

(* create_outer_header_gtpu_ipv4 stops behind the UDP header when the next hop is
   unknown; what it returns is not looked at. *)
Encapsulate(c) ==
  /\ packet[c].pc = "arp"
  /\ ToAccess(packet[c].far)
  /\ Redirect(c, IF packet[c].far.hop \in maps[packet[c].prog].arp
                 THEN "gtpu" ELSE "half")
  /\ UNCHANGED <<managerVars, maps, client, lost, process>>

Leave(c) ==
  /\ packet[c].pc = "done"
  /\ packet' = [packet EXCEPT ![c] = NoPacket]
  /\ maps' = IF packet[c].prog \in live THEN maps ELSE Freed(packet[c].prog, {c})
  /\ UNCHANGED <<managerVars, client, lost, process>>

Datapath(c) ==
  LookupPdr(c) \/ LookupFar(c) \/ Decapsulate(c) \/ Encapsulate(c) \/ Leave(c)

Manage ==
  \/ \E seid \in Seids : Create(seid) \/ Remove(seid)
  \/ \E seid \in RuledSeids : WriteRule(seid)
  \/ SetUp \/ SetUpFails \/ UpdateUplink \/ UpdateDownlink \/ EgressFails
  \/ RemoveAll \/ RemoveFirst \/ Fault

Next ==
  \/ Manage
  \/ \E dir \in Directions : InterfaceLost(dir)
  \/ \E c \in Cpus, seid \in Seids, fr \in Frames : Receive(c, seid, fr)
  \/ \E c \in Cpus : Datapath(c)

Spec == Init /\ [][Next]_vars

(* A call that has begun goes on: its thread is scheduled. *)
Proceed ==
  \/ SetUp \/ SetUpFails \/ UpdateUplink \/ UpdateDownlink \/ EgressFails
  \/ RemoveFirst \/ Fault

FairSpec == Spec /\ WF_vars(Proceed)

-----------------------------------------------------------------------------
(* Through any history of creations, refusals, failures and removals a session's
   entry names a program that is loaded, and no two sessions share one.  Only
   removeAll, on its way to the second fault, leaves an entry behind. *)
EntriesLive ==
  client.pc # "handler" =>
    \A s \in Sessions :
      /\ findSessionProgram(s) \in live
      /\ \A other \in Sessions :
           findSessionProgram(other) = findSessionProgram(s) => other = s

(* The loaded programs that no session's entry leads to, but for the one that is
   being created: nothing will ever remove them. *)
Orphans ==
  {p \in live :
     /\ \A s \in Sessions : findSessionProgram(s) # p
     /\ p = nPrograms => client.pc \notin {"uplink", "downlink"}}

(* create, which drops a loaded program without tearDown when an interface goes away
   under it, loses at most one for every interface that ever disappears: failed
   creations do not add up. *)
LiveIsAccounted == Cardinality(Orphans) <= Cardinality(lost)

(* Every session has both of its egress interfaces from its first packet on: a
   redirect fails only when the interface of its direction no longer exists. *)
AbortsNeedLostInterface ==
  \A c \in Cpus : packet[c].verdict = "ABORTED" => packet[c].frame.dir \in lost

(* What the verdict on a packet says of the rules, when none was written while it
   was processed: nothing is dropped without one of the four reasons, nothing is
   forwarded that no rule forwards, and, where the build leaves 0 in the index,
   nothing whose PDI does not match. *)
QuietPacketFollowsRules ==
  \A c \in Cpus :
    packet[c].pc = "done" /\ packet[c].quiet /\ packet[c].frame.size # "short" =>
      LET fr == packet[c].frame
          m == maps[packet[c].prog]
          pdr == PdrOf(m, fr)
          far == IF pdr = NoPdr THEN NoFar ELSE m.fars[pdr.far]
          Drops == \/ far = NoFar
                   \/ ToCore(far) /\ (fr.size # "full" \/ fr.hop \notin m.arp)
          Forwards == far # NoFar /\ (ToCore(far) \/ ToAccess(far))
      IN /\ packet[c].verdict = "DROP" => Drops
         /\ packet[c].verdict \in {"REDIRECT", "ABORTED"} =>
              Forwards /\ ~Drops /\ TRUE \in Outcomes(pdr, fr)
         /\ packet[c].verdict = "PASS" =>
              pdr # NoPdr /\ (FALSE \in Outcomes(pdr, fr) \/ (far # NoFar /\ ~Forwards))
         /\ packet[c].shape = "half" <=>
              packet[c].verdict \in {"REDIRECT", "ABORTED"} /\ ToAccess(far)
              /\ far.hop \notin m.arp

(* The network on the other side of the interface under that key: create stores the
   UDP interface under UPLINK and the GTP interface under DOWNLINK. *)
Network(pk) == IF EgressKey(pk) = "UPLINK" THEN "core" ELSE "access"

Leaving(network, far, shape) ==
  \/ network = "core" /\ ToCore(far) /\ shape = "inner"
  \/ network = "access" /\ ToAccess(far) /\ shape \in {"gtpu", "half"}
  \/ network = "core" /\ ToAccess(far) /\ shape \in {"gtpu", "half"}
  \/ network = "access" /\ ToCore(far) /\ shape = "garbled"

(* What reaches which network, whatever is written while a packet is inside: what is
   sent goes by the FAR that was read, where it is sent by the entry point alone.  The
   data network gets the inner packet, or, under a FAR that leads back to the access
   network, one with a GTP tunnel around it; the access network gets a GTP packet, or,
   under a FAR that leads back to the data network, one with its first headers cut
   off.  Nothing leaves as it was received. *)
RedirectedShape ==
  \A c \in Cpus : packet[c].verdict = "REDIRECT" =>
    Leaving(Network(packet[c]), packet[c].far, packet[c].shape)

(* removeAll removes all programs, as its declaration says: it comes to a point where
   no session's program is loaded.  What it does: it tears down the first and dies of
   the observer that no code sets. *)
RemovesAll ==
  client.pc = "removeAll" ~> \A s \in Sessions : findSessionProgram(s) \notin live
=============================================================================
