-------------------------- MODULE PacketPathProofs --------------------------
(***************************************************************************)
(* Proofs about packets in flight, from the invariant of the management    *)
(* layer that SessionPipelineProofs establishes for one caller at a time,  *)
(* and, for what does not depend on it, from the types alone.              *)
(***************************************************************************)
EXTENDS PacketPath, SessionPipelineProofs

(* What a packet meets from here on: when it enters program p, and when it
   makes the tail call with index i. *)
ProgFate(p) == IF programs[p].far = NoFar THEN "drop" ELSE programs[p].far

SlotFate(i) ==
  IF i < MaxRuleProg /\ ruleProg[i] # 0 THEN ProgFate(ruleProg[i]) ELSE "pass"

(* What a packet has read so far belongs to its flow, whatever the management
   layer has done to the maps since: the id is that of a program constructed for
   the kernel's key, the program is that one, the FAR was requested for the flow.
   And what it is going to meet is something Route said of its flow meanwhile. *)
ReadSound(p) ==
  /\ p.pc = "tail" =>
       /\ p.flow \in Flows /\ p.id \in 1 .. nPrograms
       /\ programs[p.id].key = KernelKey(p.flow)
       /\ SlotFate(p.id) \in p.seen
  /\ p.pc = "far" =>
       /\ p.flow \in Flows /\ p.prog \in 1 .. nPrograms
       /\ programs[p.prog].key = KernelKey(p.flow)
       /\ ProgFate(p.prog) \in p.seen
  /\ p.pc \in {"apply", "done"} /\ p.far # NoFar =>
       p.flow \in Flows /\ Requested(p.flow, p.far)
  /\ p.pc \notin {"apply", "done"} => p.far = NoFar
  /\ p.pc = "index" => Fate(p.flow) \in p.seen
  /\ p.pc = "apply" => p.far # NoFar /\ p.far \in p.seen
  /\ p.pc = "done" => p.fate \in p.seen

PacketInv ==
  /\ SerialInv
  /\ packet \in [Cpus -> PacketType]
  /\ \A c \in Cpus : ReadSound(packet[c])

(* No step takes a program away or moves it to another key. *)
LEMMA ProgramsKept ==
  ASSUME TypeInv, [Next]_vars
  PROVE  /\ nPrograms' \in Nat /\ nPrograms <= nPrograms'
         /\ \A p \in 1 .. nPrograms : programs'[p].key = programs[p].key
<1> USE Sizes
<1>1. /\ nPrograms \in 0 .. MaxPrograms
      /\ programs \in [1 .. MaxPrograms -> ProgramType]
      /\ nPrograms' \in 0 .. MaxPrograms
      /\ call \in [Threads -> CallType]
      /\ sessionPrograms \in [Seid32s -> EntryType]
  BY NextTypeInv DEF TypeInv, TypeOK
<1>2. ASSUME NEW t \in Threads, CreateStep(t) \/ RemoveStep(t)
      PROVE  /\ nPrograms <= nPrograms'
             /\ \A p \in 1 .. nPrograms : programs'[p].key = programs[p].key
  <2>1. CASE Construct(t)
    BY <1>1, <2>1 DEF Construct
  <2>2. CASE SetupProgram(t)
    BY <1>1, <2>2 DEF SetupProgram, ProgramType
  <2>3. CASE UpdateFar(t)
    BY <1>1, <2>3 DEF UpdateFar, ProgramType
  <2>4. CASE RecordPipeline(t)
    BY <1>1, <2>4 DEF RecordPipeline, TearDownEntry, ProgramType
  <2>5. CASE UpdateArp(t) \/ SetupProgramFails(t)
    BY <1>1, <2>5, MarkingSteps, MarkedKeeps DEF TypeInv, UpdateArp, SetupProgramFails
  <2>6. ASSUME NEW s \in Seids, BeginRemove(t, s)
        PROVE  /\ nPrograms <= nPrograms'
               /\ \A p \in 1 .. nPrograms : programs'[p].key = programs[p].key
    BY <1>1, <2>6 DEF BeginRemove, TearDownEntry, ProgramType
  <2>7. CASE UNCHANGED <<nPrograms, programs>>
    BY <1>1, <2>7
  <2> QED
    BY <1>2, <2>1, <2>2, <2>3, <2>4, <2>5, <2>6, <2>7 DEF CreateStep, RemoveStep,
       BeginCreate, LoadCounter, StoreCounter, UpdateArpFaults, UpdateIndex,
       UpdateIndexFails, UpdateProg, UpdateProgFails, RecordPipelineLost,
       PublishSession, RemoveIndex
<1>3. CASE TearDown \/ Setup \/ UNCHANGED vars
  BY <1>1, <1>3 DEF TearDown, Setup, vars
<1> QED
  BY <1>1, <1>2, <1>3 DEF Next

(* Route in terms of the slot. *)
LEMMA RouteIsSlotFate ==
  ASSUME TypeInv, NEW f \in Flows
  PROVE  Route(f) = IF SlotOf(f) = 0 THEN "pass" ELSE SlotFate(SlotOf(f))
<1>1. \A i \in 0 .. MaxRuleProg - 1 : ruleProg[i] \in Nat
  BY Sizes DEF TypeInv, TypeOK
<1>2. KernelKey(f) \in Keys /\ SlotOf(f) \in Nat
  BY ConstantsAssumption DEF TypeInv, TypeOK, KernelKey, Keys, SlotOf
<1> QED
  BY <1>1, <1>2, Sizes DEF Route, Reached, SlotFate, ProgFate

(* What lies ahead of a packet changes only in steps after which Route says the
   same of its flow: a call stores the program, and then the FAR, of the very id
   its index entry holds at that moment. *)
LEMMA FateStep ==
  ASSUME ~HttpServer, SerialInv, Next, upf' = upf, NEW f \in Flows,
         NEW i \in 1 .. nPrograms, programs[i].key = KernelKey(f)
  PROVE  /\ ProgFate(i)' = ProgFate(i) \/ ProgFate(i)' = Route(f)'
         /\ SlotFate(i)' = SlotFate(i) \/ SlotFate(i)' = Route(f)'
<1> USE Sizes
<1>1. PICK t \in Threads : CreateStep(t) \/ RemoveStep(t)
  BY DEF Next, TearDown, Setup
<1>2. /\ nPrograms \in 0 .. MaxPrograms
      /\ programs \in [1 .. MaxPrograms -> ProgramType]
      /\ ruleIndex \in [Keys -> Nat]
      /\ ruleProg \in [0 .. MaxRuleProg - 1 -> 0 .. MaxPrograms]
      /\ sessionPrograms \in [Seid32s -> EntryType]
      /\ call \in [Threads -> CallType]
  BY DEF SerialInv, TypeInv, TypeOK
<1>3. KernelKey(f) \in Keys
  BY ConstantsAssumption DEF KernelKey, Keys
<1>4. /\ \A p \in 1 .. nPrograms : programs[p].id = p
      /\ ruleProg[i] # 0 /\ i < MaxRuleProg => ruleProg[i] = i
  BY <1>2 DEF SerialInv, FreshIds, SlotsSound
<1>5. ASSUME ruleIndex'[KernelKey(f)] = i, i < MaxRuleProg, ruleProg'[i] = i
      PROVE  /\ Route(f)' = ProgFate(i)'
             /\ Route(f)' = SlotFate(i)'
  BY <1>2, <1>5 DEF Route, Reached, SlotOf, ProgFate, SlotFate
<1>6. CASE UpdateFar(t)
  <2>1. /\ call[t].pc = "far" /\ call[t].prog \in 1 .. nPrograms
        /\ UNCHANGED <<ruleIndex, ruleProg>>
        /\ programs' = [programs EXCEPT ![call[t].prog].far = call[t].far]
    BY <1>6 DEF UpdateFar, SerialInv, TypeInv, CallsNamed, Building, kernelMaps
  <2>2. CASE call[t].prog = i
    <3>1. call[t].key = KernelKey(f)
      BY <2>1, <2>2 DEF SerialInv, CallsRequested, Building
    <3>2. ruleIndex[KernelKey(f)] = i /\ i < MaxRuleProg /\ ruleProg[i] = i
      BY <2>1, <2>2, <3>1 DEF SerialInv, CallProgress
    <3> QED
      BY <1>5, <2>1, <3>2
  <2>3. CASE call[t].prog # i
    <3>1. programs'[i] = programs[i]
      BY <1>2, <2>1, <2>3
    <3>2. ruleProg' = ruleProg
      BY <2>1
    <3> QED
      BY <1>2, <1>4, <3>1, <3>2 DEF ProgFate, SlotFate
  <2> QED
    BY <2>2, <2>3
<1>7. CASE UpdateProg(t)
  <2>1. /\ call[t].pc = "prog" /\ call[t].prog \in 1 .. nPrograms
        /\ Id(t) = call[t].prog /\ Id(t) < MaxRuleProg
        /\ UNCHANGED <<ruleIndex, programs>>
        /\ ruleProg' = [ruleProg EXCEPT ![Id(t)] = call[t].prog]
    BY <1>4, <1>7 DEF UpdateProg, Id, SerialInv, TypeInv, CallsNamed, Building
  <2>2. CASE call[t].prog = i
    <3>1. call[t].key = KernelKey(f)
      BY <2>1, <2>2 DEF SerialInv, CallsRequested, Building
    <3>2. ruleIndex[KernelKey(f)] = i
      BY <2>1, <2>2, <3>1 DEF SerialInv, CallProgress
    <3>3. ruleProg'[i] = i
      BY <1>2, <2>1, <2>2
    <3> QED
      BY <1>5, <2>1, <2>2, <3>2, <3>3
  <2>3. CASE call[t].prog # i
    <3>1. i < MaxRuleProg => ruleProg'[i] = ruleProg[i]
      BY <1>2, <2>1, <2>3
    <3> QED
      BY <2>1, <3>1 DEF ProgFate, SlotFate
  <2> QED
    BY <2>2, <2>3
<1>8. CASE ~(UpdateFar(t) \/ UpdateProg(t))
  <2>1. UNCHANGED ruleProg
    BY <1>1, <1>8 DEF CreateStep, RemoveStep, BeginCreate, Construct, LoadCounter,
       StoreCounter, SetupProgram, SetupProgramFails, UpdateIndex, UpdateIndexFails,
       UpdateProgFails, RecordPipeline, RecordPipelineLost, PublishSession,
       UpdateArp, UpdateArpFaults, BeginRemove, RemoveIndex, kernelMaps
  <2>2. programs'[i].far = programs[i].far
    <3>1. CASE Construct(t)
      BY <1>2, <3>1 DEF Construct
    <3>2. CASE SetupProgram(t)
      BY <1>2, <3>2 DEF SetupProgram, ProgramType
    <3>3. CASE RecordPipeline(t)
      BY <1>2, <3>3 DEF RecordPipeline, TearDownEntry, ProgramType
    <3>4. CASE UpdateArp(t) \/ SetupProgramFails(t)
      BY <1>2, <3>4, MarkingSteps, MarkedKeeps DEF SerialInv, TypeInv
    <3>5. ASSUME NEW s \in Seids, BeginRemove(t, s)
          PROVE  programs'[i].far = programs[i].far
      BY <1>2, <3>5 DEF BeginRemove, TearDownEntry, ProgramType
    <3>6. CASE programs' = programs
      BY <3>6
    <3> QED
      BY <1>1, <1>8, <3>1, <3>2, <3>3, <3>4, <3>5, <3>6 DEF CreateStep, RemoveStep,
         BeginCreate, LoadCounter, StoreCounter, UpdateArpFaults, UpdateIndex,
         UpdateIndexFails, UpdateProgFails, RecordPipelineLost, PublishSession,
         RemoveIndex
  <2> QED
    BY SMTT(60), <1>2, <1>4, <2>1, <2>2 DEF ProgFate, SlotFate
<1> QED
  BY <1>6, <1>7, <1>8

(* An idle CPU has a well typed packet. *)
LEMMA PacketDefaults == NoPacket \in PacketType
<1>1. (CHOOSE fr \in Frames : TRUE) \in Frames
  BY PacketAssumption
<1> QED
  BY <1>1, Sizes DEF NoPacket, PacketType, Fates, Actions, Shapes

(* No packet is under way at first. *)
LEMMA InitPacketInv == PInit => PacketInv
<1> SUFFICES ASSUME PInit PROVE PacketInv
  OBVIOUS
<1>1. SerialInv
  BY InitSerialInv DEF PInit
<1>2. NoPacket \in PacketType
  BY PacketDefaults
<1>3. \A c \in Cpus : ReadSound(packet[c])
  BY DEF PInit, NoPacket, ReadSound
<1> QED
  BY <1>1, <1>2, <1>3 DEF PInit, PacketInv

(* What the parser returns is an action, or a flow to look up. *)
LEMMA ParserResult ==
  ASSUME NEW fr \in Frames
  PROVE  /\ eth_handle(fr).action \in Actions
         /\ eth_handle(fr).flow \in Flows \cup {NoFlow}
         /\ eth_handle(fr).action # "none" => eth_handle(fr).flow = NoFlow
<1>1. fr \in FrameType
  BY PacketAssumption
<1> DEFINE Result == {r \in [action : Actions, flow : Flows \cup {NoFlow}] :
                       r.action # "none" => r.flow = NoFlow}
<1>2. gtp_handle(fr) \in Result
  BY <1>1 DEF gtp_handle, Verdict, Lookup, FrameType, Actions
<1>3. udp_handle(fr) \in Result
  BY <1>1, <1>2 DEF udp_handle, Verdict, Lookup, FrameType, Actions
<1>4. ipv4_handle(fr) \in Result
  BY <1>1, <1>3 DEF ipv4_handle, Verdict, Lookup, FrameType, Actions
<1> QED
  BY <1>1, <1>4 DEF eth_handle, Verdict, Actions

(* The four ways a step leaves a packet keep its type. *)
LEMMA PacketUpdates ==
  ASSUME NEW p \in PacketType, NEW id \in Nat, NEW prog \in 0 .. MaxPrograms,
         NEW far \in Fars \cup {NoFar}, NEW fate \in Fates, NEW action \in Actions,
         NEW shape \in Shapes, NEW mac \in {"original", "nextHop"}
  PROVE  /\ [p EXCEPT !.pc = "tail", !.id = id] \in PacketType
         /\ [p EXCEPT !.pc = "far", !.prog = prog] \in PacketType
         /\ [p EXCEPT !.pc = "apply", !.far = far] \in PacketType
         /\ [p EXCEPT !.pc = "done", !.fate = fate, !.action = action,
                      !.shape = shape, !.mac = mac] \in PacketType
BY DEF PacketType

(* The reads of one CPU: each entry it finds leads on to the packet's own flow. *)
LEMMA CpuPacketInv ==
  ASSUME ~HttpServer, PacketInv, UNCHANGED vars, NEW c \in Cpus,
         \/ \E fr \in Frames : Receive(c, fr)
         \/ LookupIndex(c) \/ TailCall(c) \/ LookupFar(c) \/ ApplyFar(c) \/ Leave(c)
  PROVE  PacketInv'
<1> DEFINE p == packet[c]
<1> USE Sizes
<1>1. p \in PacketType /\ ReadSound(p) /\ packet \in [Cpus -> PacketType]
  BY DEF PacketInv
<1>2. NoPacket \in PacketType
  BY PacketDefaults
<1>3. SerialInv /\ TypeInv /\ SerialInv'
  BY NextSerialInv DEF PacketInv, SerialInv
<1>4. /\ nPrograms \in 0 .. MaxPrograms
      /\ programs \in [1 .. MaxPrograms -> ProgramType]
      /\ ruleIndex \in [Keys -> Nat]
      /\ ruleProg \in [0 .. MaxRuleProg - 1 -> 0 .. MaxPrograms]
  BY <1>3 DEF TypeInv, TypeOK
<1>5. ASSUME NEW q \in PacketType, ReadSound(q), packet' = [packet EXCEPT ![c] = q]
      PROVE  PacketInv'
  <2>1. ASSUME NEW x, ReadSound(x) PROVE ReadSound(x)'
    BY <2>1 DEF ReadSound, ProgFate, SlotFate, Fate, Route, Reached, SlotOf, vars
  <2>2. \A d \in Cpus : ReadSound(packet'[d])
    BY <1>1, <1>5 DEF PacketInv
  <2>3. \A d \in Cpus : ReadSound(packet[d])'
    BY <2>1, <2>2
  <2>4. packet' \in [Cpus -> PacketType]
    BY <1>1, <1>5
  <2> QED
    BY <1>3, <2>3, <2>4 DEF PacketInv
<1>6. ASSUME NEW fr \in Frames, Receive(c, fr) PROVE PacketInv'
  <2> DEFINE r == eth_handle(fr)
             q == [NoPacket EXCEPT
                     !.pc = IF r.action = "none" THEN "index" ELSE "done",
                     !.frame = fr, !.flow = r.flow, !.action = r.action,
                     !.seen = {Fate(r.flow)}]
  <2>1. r.action \in Actions /\ r.flow \in Flows \cup {NoFlow}
        /\ (r.action # "none" => r.flow = NoFlow)
    BY ParserResult
  <2>2. Fate(r.flow) \in Fates
    <3>1. CASE r.flow = NoFlow
      BY <3>1 DEF Fate, Fates
    <3>2. CASE r.flow \in Flows
      <4>1. Route(r.flow) \in Fates
        BY <1>3, <3>2, RouteValues DEF Fates, SerialInv
      <4>2. r.flow # NoFlow
        BY <3>2, ConstantsAssumption
      <4> QED
        BY <4>1, <4>2 DEF Fate
    <3> QED
      BY <2>1, <3>1, <3>2
  <2>3. q \in PacketType
    BY <1>2, <2>1, <2>2 DEF PacketType
  <2>4. ReadSound(q)
    <3>1. /\ q.pc \in {"index", "done"} /\ q.far = NoFar /\ q.fate = "pass"
          /\ q.flow = r.flow /\ q.seen = {Fate(r.flow)}
          /\ q.pc = "done" => r.flow = NoFlow
      BY <2>1 DEF NoPacket
    <3> HIDE DEF q, r
    <3> QED
      BY <3>1 DEF ReadSound, Fate
  <2>5. packet' = [packet EXCEPT ![c] = q]
    BY <1>6 DEF Receive
  <2> QED
    BY <1>5, <2>3, <2>4, <2>5
<1>7. ASSUME NEW fate \in Fates, NEW action \in Actions, NEW shape \in Shapes,
             NEW mac \in {"original", "nextHop"}, fate \in p.seen,
             p.far # NoFar => p.pc = "apply",
             Finish(c, fate, action, shape, mac)
      PROVE  PacketInv'
  <2> DEFINE q == [p EXCEPT !.pc = "done", !.fate = fate, !.action = action,
                            !.shape = shape, !.mac = mac]
  <2>1. q \in PacketType
    <3>1. 0 \in Nat /\ 0 \in 0 .. MaxPrograms /\ NoFar \in Fars \cup {NoFar}
      OBVIOUS
    <3> QED
      BY <1>1, <1>7, <3>1, PacketUpdates
  <2>2. ReadSound(q)
    <3>1. /\ q.pc = "done" /\ q.far = p.far /\ q.flow = p.flow
          /\ q.seen = p.seen /\ q.fate = fate
      BY <1>1 DEF PacketType
    <3> HIDE DEF q
    <3> QED
      BY <1>1, <1>7, <3>1 DEF ReadSound
  <2>3. packet' = [packet EXCEPT ![c] = q]
    BY <1>7 DEF Finish
  <2> QED
    BY <1>5, <2>1, <2>2, <2>3
<1>8. "pass" \in Fates /\ "drop" \in Fates /\ Fars \subseteq Fates
      /\ Actions = {"none", "PASS", "DROP", "ABORTED", "UPLINK", "DOWNLINK"}
      /\ Shapes = {"asReceived", "inner", "gtpu", "half", "garbled"}
  BY DEF Fates, Actions, Shapes
<1>9. CASE LookupIndex(c)
  <2> USE <1>9 DEF LookupIndex
  <2>0. p.pc = "index" /\ Fate(p.flow) \in p.seen /\ p.far = NoFar
        /\ p.flow \in Flows \cup {NoFlow}
    BY <1>1 DEF ReadSound, PacketType
  <2>1. CASE p.flow = NoFlow \/ SlotOf(p.flow) = 0
    <3>1. Fate(p.flow) = "pass"
      <4>1. CASE p.flow = NoFlow
        BY <4>1 DEF Fate
      <4>2. CASE p.flow # NoFlow
        BY <1>3, <2>0, <2>1, <4>2, RouteIsSlotFate DEF Fate
      <4> QED
        BY <4>1, <4>2
    <3>2. Finish(c, "pass", "PASS", "asReceived", "original")
      BY <2>1 DEF Passes
    <3> QED
      BY <1>7, <1>8, <2>0, <3>1, <3>2
  <2>2. CASE ~(p.flow = NoFlow \/ SlotOf(p.flow) = 0)
    <3> DEFINE i == SlotOf(p.flow)
               q == [p EXCEPT !.pc = "tail", !.id = i]
    <3>1. p.flow \in Flows /\ KernelKey(p.flow) \in Keys
      BY <2>0, <2>2, ConstantsAssumption DEF KernelKey, Keys
    <3>2. i \in 1 .. nPrograms /\ programs[i].key = KernelKey(p.flow)
      BY <1>3, <2>2, <3>1 DEF SerialInv, IndexSound, SlotOf
    <3>3. SlotFate(i) = Fate(p.flow)
      BY <1>3, <2>2, <3>1, RouteIsSlotFate DEF Fate
    <3>4. q \in PacketType
      <4>1. i \in Nat
        BY <1>4, <3>2
      <4> QED
        BY <1>1, <4>1 DEF PacketType
    <3>5. ReadSound(q)
      <4>1. /\ q.pc = "tail" /\ q.far = NoFar /\ q.flow = p.flow
            /\ q.seen = p.seen /\ q.id = i
        BY <1>1, <2>0 DEF PacketType
      <4> HIDE DEF q, i
      <4> QED
        BY <2>0, <3>1, <3>2, <3>3, <4>1 DEF ReadSound
    <3>6. packet' = [packet EXCEPT ![c] = q]
      BY <2>2
    <3> QED
      BY <1>5, <3>4, <3>5, <3>6
  <2> QED
    BY <2>1, <2>2
<1>10. CASE TailCall(c)
  <2> USE <1>10 DEF TailCall
  <2>0. /\ p.pc = "tail" /\ p.flow \in Flows /\ p.id \in 1 .. nPrograms
        /\ programs[p.id].key = KernelKey(p.flow)
        /\ SlotFate(p.id) \in p.seen /\ p.far = NoFar
    BY <1>1 DEF ReadSound
  <2>1. CASE ~(p.id < MaxRuleProg /\ ruleProg[p.id] # 0)
    <3>1. SlotFate(p.id) = "pass"
      BY <2>1 DEF SlotFate
    <3>2. Finish(c, "pass", "PASS", "asReceived", "original")
      BY <2>1 DEF Passes
    <3> QED
      BY <1>7, <1>8, <2>0, <3>1, <3>2
  <2>2. CASE p.id < MaxRuleProg /\ ruleProg[p.id] # 0
    <3> DEFINE q == [p EXCEPT !.pc = "far", !.prog = p.id]
    <3>1. ruleProg[p.id] = p.id
      <4>1. p.id \in 0 .. MaxRuleProg - 1
        BY <1>4, <2>0, <2>2
      <4> QED
        BY <1>3, <2>2, <4>1 DEF SerialInv, SlotsSound
    <3>2. SlotFate(p.id) = ProgFate(p.id)
      BY <2>2, <3>1 DEF SlotFate
    <3>3. q \in PacketType
      <4>1. p.id \in 0 .. MaxPrograms
        BY <1>4, <2>0
      <4> QED
        BY <1>1, <4>1 DEF PacketType
    <3>4. ReadSound(q)
      <4>1. /\ q.pc = "far" /\ q.far = NoFar /\ q.flow = p.flow
            /\ q.seen = p.seen /\ q.prog = p.id
        BY <1>1, <2>0 DEF PacketType
      <4> HIDE DEF q
      <4> QED
        BY <2>0, <3>2, <4>1 DEF ReadSound
    <3>5. packet' = [packet EXCEPT ![c] = q]
      BY <2>2, <3>1
    <3> QED
      BY <1>5, <3>3, <3>4, <3>5
  <2> QED
    BY <2>1, <2>2
<1>11. CASE LookupFar(c)
  <2> USE <1>11 DEF LookupFar
  <2>0. /\ p.pc = "far" /\ p.flow \in Flows /\ p.prog \in 1 .. nPrograms
        /\ programs[p.prog].key = KernelKey(p.flow)
        /\ ProgFate(p.prog) \in p.seen /\ p.far = NoFar
    BY <1>1 DEF ReadSound
  <2>1. CASE programs[p.prog].far = NoFar
    <3>1. ProgFate(p.prog) = "drop"
      BY <2>1 DEF ProgFate
    <3> QED
      BY <1>7, <1>8, <2>0, <2>1, <3>1
  <2>2. CASE programs[p.prog].far # NoFar
    <3> DEFINE far == programs[p.prog].far
               q == [p EXCEPT !.pc = "apply", !.far = far]
    <3>1. ProgFate(p.prog) = far
      BY <2>2 DEF ProgFate
    <3>2. Requested(p.flow, far)
      BY <1>3, <2>0, <2>2 DEF SerialInv, FarsRequested, KernelKey
    <3>3. q \in PacketType
      <4>1. far \in Fars
        BY <3>2, RequestedIsFar
      <4> QED
        BY <1>1, <4>1 DEF PacketType
    <3>4. ReadSound(q)
      <4>1. /\ q.pc = "apply" /\ q.far = far /\ q.flow = p.flow /\ q.seen = p.seen
        BY <1>1, <2>0 DEF PacketType
      <4> HIDE DEF q
      <4> QED
        BY <2>0, <2>2, <3>1, <3>2, <4>1 DEF ReadSound
    <3>5. packet' = [packet EXCEPT ![c] = q]
      BY <2>2
    <3> QED
      BY <1>5, <3>3, <3>4, <3>5
  <2> QED
    BY <2>1, <2>2
<1>12. CASE ApplyFar(c)
  <2>1. /\ p.pc = "apply" /\ p.far # NoFar /\ p.far \in p.seen /\ p.far \in Fates
    BY <1>1, <1>12 DEF ReadSound, ApplyFar, PacketType, Fates
  <2>2. \E action \in Actions, shape \in Shapes, mac \in {"original", "nextHop"} :
          Finish(c, p.far, action, shape, mac)
    <3>1. CASE ToCore(c)
      BY <1>8, <3>1 DEF ToCore
    <3>2. CASE ToAccess(c)
      BY <1>8, <3>2 DEF ToAccess
    <3>3. CASE Finish(c, p.far, "PASS", "asReceived", "original")
      BY <1>8, <3>3
    <3> QED
      BY <1>12, <3>1, <3>2, <3>3 DEF ApplyFar
  <2> QED
    BY <1>7, <2>1, <2>2
<1>13. CASE Leave(c)
  <2>1. ReadSound(NoPacket)
    BY DEF ReadSound, NoPacket
  <2> QED
    BY <1>2, <1>5, <1>13, <2>1 DEF Leave
<1> QED
  BY <1>6, <1>9, <1>10, <1>11, <1>12, <1>13

RouteTyped == \A f \in Flows : Route(f) \in Fars \cup {"pass", "drop"}

(* What the index routes a flow to is a FAR that can be deployed, whoever wrote
   the maps. *)
LEMMA RouteTypedNow == TypeInv => RouteTyped
<1> SUFFICES ASSUME TypeInv, NEW f \in Flows
             PROVE  Route(f) \in Fars \cup {"pass", "drop"}
  BY DEF RouteTyped
<1> USE Sizes
<1>1. KernelKey(f) \in Keys /\ SlotOf(f) \in Nat
  BY ConstantsAssumption DEF TypeInv, TypeOK, KernelKey, Keys, SlotOf
<1>2. Reached(f) \in 0 .. MaxPrograms
  BY <1>1 DEF TypeInv, TypeOK, Reached
<1>3. Reached(f) # 0 => programs[Reached(f)].far \in Fars \cup {NoFar}
  BY <1>2 DEF TypeInv, TypeOK, ProgramType
<1> QED
  BY <1>3 DEF Route

(* The same after a step. *)
LEMMA RouteTypedNext ==
  TypeInv' => \A f \in Flows : Route(f)' \in Fars \cup {"pass", "drop"}
<1>1. TypeInv' => RouteTyped'
  BY RouteTypedNow, PTL
<1> QED
  BY <1>1 DEF RouteTyped

(* A step of the management layer under the packets in flight. *)
LEMMA ManagePacketInv ==
  ASSUME ~HttpServer, PacketInv, Manage
  PROVE  PacketInv'
<1> USE Sizes
<1>1. SerialInv /\ TypeInv /\ Next /\ SerialInv'
  BY NextSerialInv DEF PacketInv, SerialInv, Manage
<1>3. \A f \in Flows : Route(f)' \in Fars \cup {"pass", "drop"}
  BY <1>1, RouteTypedNext DEF SerialInv
<1>2. ASSUME NEW c \in Cpus, NEW q, packet'[c] = q
      PROVE  q \in PacketType /\ ReadSound(q)'
  <2> DEFINE p == packet[c]
  <2>1. p \in PacketType /\ ReadSound(p)
    BY <1>2 DEF PacketInv
  <2>2. CASE ~InFlight(c)
    <3>1. q = p /\ q.pc \in {"none", "done"}
      BY <1>2, <2>2 DEF Manage, InFlight
    <3>2. q \in PacketType /\ ReadSound(q)
      BY <2>1, <3>1
    <3> QED
      BY <3>1, <3>2 DEF ReadSound
  <2>3. CASE InFlight(c)
    <3>1. PICK f \in {p.flow} : TRUE
      OBVIOUS
    <3>2. PICK g \in {Fate(f)'} : TRUE
      OBVIOUS
    <3>3. upf' = upf /\ p.pc \in {"index", "tail", "far", "apply"}
          /\ q = [p EXCEPT !.seen = p.seen \cup {g}]
      BY <1>2, <2>1, <2>3, <3>1, <3>2 DEF Manage, InFlight, PacketType
    <3>4. f \in Flows \cup {NoFlow} /\ (f \in Flows => f # NoFlow)
      BY <2>1, <3>1, ConstantsAssumption DEF PacketType
    <3>5. g \in Fates
      <4>1. CASE f = NoFlow
        BY <3>2, <4>1 DEF Fate, Fates
      <4>2. CASE f \in Flows
        <5>1. Route(f)' \in Fars \cup {"pass", "drop"}
          BY <1>1, <1>3, <4>2
        <5> QED
          BY <3>2, <3>4, <4>2, <5>1 DEF Fate, Fates
      <4> QED
        BY <3>4, <4>1, <4>2
    <3>6. /\ q.pc = p.pc /\ q.flow = f /\ q.id = p.id /\ q.prog = p.prog
          /\ q.far = p.far /\ q.fate = p.fate /\ q.seen = p.seen \cup {g}
      BY <2>1, <3>1, <3>3 DEF PacketType
    <3>7. q \in PacketType
      BY <2>1, <3>3, <3>5 DEF PacketType
    <3>8. nPrograms \in Nat /\ nPrograms' \in Nat /\ nPrograms <= nPrograms'
          /\ \A i \in 1 .. nPrograms : programs'[i].key = programs[i].key
      BY <1>1, ProgramsKept DEF TypeInv, TypeOK
    <3>9. CASE p.pc = "index"
      BY <2>1, <3>2, <3>6, <3>7, <3>9 DEF ReadSound
    <3>10. CASE p.pc = "tail"
      <4>1. /\ f \in Flows /\ p.id \in 1 .. nPrograms
            /\ programs[p.id].key = KernelKey(f) /\ SlotFate(p.id) \in p.seen
            /\ p.far = NoFar
        BY <2>1, <3>1, <3>10 DEF ReadSound
      <4>2. PICK i \in {p.id} : TRUE
        OBVIOUS
      <4>3. SlotFate(i)' = SlotFate(i) \/ SlotFate(i)' = Route(f)'
        BY <1>1, <3>3, <4>1, <4>2, FateStep
      <4>4. SlotFate(i)' \in q.seen
        BY <3>2, <3>4, <3>6, <4>1, <4>2, <4>3 DEF Fate
      <4> QED
        BY <3>6, <3>7, <3>8, <3>10, <4>1, <4>2, <4>4 DEF ReadSound, KernelKey
    <3>11. CASE p.pc = "far"
      <4>1. /\ f \in Flows /\ p.prog \in 1 .. nPrograms
            /\ programs[p.prog].key = KernelKey(f) /\ ProgFate(p.prog) \in p.seen
            /\ p.far = NoFar
        BY <2>1, <3>1, <3>11 DEF ReadSound
      <4>2. PICK i \in {p.prog} : TRUE
        OBVIOUS
      <4>3. ProgFate(i)' = ProgFate(i) \/ ProgFate(i)' = Route(f)'
        BY <1>1, <3>3, <4>1, <4>2, FateStep
      <4>4. ProgFate(i)' \in q.seen
        BY <3>2, <3>4, <3>6, <4>1, <4>2, <4>3 DEF Fate
      <4> QED
        BY <3>6, <3>7, <3>8, <3>11, <4>1, <4>2, <4>4 DEF ReadSound, KernelKey
    <3>12. CASE p.pc = "apply"
      BY <2>1, <3>1, <3>6, <3>7, <3>12 DEF ReadSound
    <3> QED
      BY <3>3, <3>7, <3>9, <3>10, <3>11, <3>12
  <2> QED
    BY <2>2, <2>3
<1>4. packet' = [c \in Cpus |-> packet'[c]]
  BY DEF Manage
<1>5. packet' \in [Cpus -> PacketType]
  BY <1>2, <1>4
<1>6. \A c \in Cpus : ReadSound(packet[c])'
  BY <1>2
<1> QED
  BY <1>1, <1>5, <1>6 DEF PacketInv

(* Every step, of a packet or of the caller, keeps PacketInv. *)
LEMMA NextPacketInv ==
  ASSUME ~HttpServer
  PROVE  PacketInv /\ [PNext]_pvars => PacketInv'
<1> SUFFICES ASSUME PacketInv, [PNext]_pvars PROVE PacketInv'
  OBVIOUS
<1>1. CASE Manage
  BY <1>1, ManagePacketInv
<1>2. ASSUME NEW c \in Cpus,
             \/ \E fr \in Frames : Receive(c, fr)
             \/ LookupIndex(c) \/ TailCall(c) \/ LookupFar(c) \/ ApplyFar(c) \/ Leave(c)
      PROVE  PacketInv'
  <2>1. UNCHANGED vars
    BY <1>2 DEF Receive, LookupIndex, TailCall, LookupFar, ApplyFar, Leave
  <2> QED
    BY <1>2, <2>1, CpuPacketInv
<1>3. CASE UNCHANGED pvars
  <2>1. UNCHANGED vars /\ packet' = packet
    BY <1>3 DEF pvars
  <2>2. SerialInv'
    BY <2>1, NextSerialInv DEF PacketInv
  <2> QED
    BY <2>1, <2>2 DEF PacketInv, ReadSound, ProgFate, SlotFate, Fate, Route, Reached,
       SlotOf, vars
<1> QED
  BY <1>1, <1>2, <1>3 DEF PNext

(* PacketInv holds throughout. *)
LEMMA PacketInvariance ==
  ASSUME ~HttpServer
  PROVE  PSpec => []PacketInv
<1>1. PacketInv /\ [PNext]_pvars => PacketInv'
  BY NextPacketInv
<1> QED
  BY InitPacketInv, <1>1, PTL DEF PSpec

(* With one caller at a time, no packet on any CPU runs a FAR that was not
   requested for its flow, however its four map reads interleave with the writes
   of sessions being created, replaced and removed. *)
THEOREM PacketIsolation ==
  ASSUME ~HttpServer
  PROVE  PSpec => []PacketRunsRequested
<1>1. PacketInv => PacketRunsRequested
  BY DEF PacketInv, PacketRunsRequested, ReadSound
<1> QED
  BY PacketInvariance, <1>1, PTL

(* With one caller at a time, the fate of every packet is the fate the maps gave
   its flow at one instant while the packet was being processed. *)
THEOREM PacketLinearizable ==
  ASSUME ~HttpServer
  PROVE  PSpec => []FateWasRoute
<1>1. PacketInv => FateWasRoute
  BY DEF PacketInv, FateWasRoute, ReadSound
<1> QED
  BY PacketInvariance, <1>1, PTL

-----------------------------------------------------------------------------
(* Any number of concurrent callers: ids may be shared then and a packet may run
   the FAR of another flow, but what it reads is still well formed.  A program it
   has entered exists, and a FAR it is about to apply is one. *)
HeldTyped(p) ==
  /\ p.pc = "far" => p.prog # 0
  /\ p.pc = "apply" => p.far # NoFar

PacketTypeInv ==
  /\ TypeInv
  /\ packet \in [Cpus -> PacketType]
  /\ \A c \in Cpus : HeldTyped(packet[c])

(* The reads of one CPU keep its packet well formed. *)
LEMMA CpuPacketTypeInv ==
  ASSUME PacketTypeInv, TypeInv', NEW c \in Cpus,
         \/ \E fr \in Frames : Receive(c, fr)
         \/ LookupIndex(c) \/ TailCall(c) \/ LookupFar(c) \/ ApplyFar(c) \/ Leave(c)
  PROVE  PacketTypeInv'
<1> DEFINE p == packet[c]
<1> USE Sizes
<1>1. p \in PacketType /\ HeldTyped(p) /\ packet \in [Cpus -> PacketType]
  BY DEF PacketTypeInv
<1>2. NoPacket \in PacketType
  BY PacketDefaults
<1>3. /\ TypeInv /\ RouteTyped
      /\ programs \in [1 .. MaxPrograms -> ProgramType]
      /\ ruleIndex \in [Keys -> Nat]
      /\ ruleProg \in [0 .. MaxRuleProg - 1 -> 0 .. MaxPrograms]
  BY RouteTypedNow DEF PacketTypeInv, TypeInv, TypeOK
<1>4. ASSUME NEW q \in PacketType, HeldTyped(q), packet' = [packet EXCEPT ![c] = q]
      PROVE  PacketTypeInv'
  <2>1. packet' \in [Cpus -> PacketType]
    BY <1>1, <1>4
  <2>2. \A d \in Cpus : HeldTyped(packet'[d])
    BY <1>1, <1>4 DEF PacketTypeInv
  <2>3. \A d \in Cpus : HeldTyped(packet[d])'
    BY <2>2 DEF HeldTyped
  <2> QED
    BY <2>1, <2>3 DEF PacketTypeInv
<1>5. "pass" \in Fates /\ "drop" \in Fates /\ Fars \subseteq Fates
      /\ Actions = {"none", "PASS", "DROP", "ABORTED", "UPLINK", "DOWNLINK"}
      /\ Shapes = {"asReceived", "inner", "gtpu", "half", "garbled"}
  BY DEF Fates, Actions, Shapes
<1>6. ASSUME NEW fr \in Frames, Receive(c, fr) PROVE PacketTypeInv'
  <2> DEFINE r == eth_handle(fr)
             q == [NoPacket EXCEPT
                     !.pc = IF r.action = "none" THEN "index" ELSE "done",
                     !.frame = fr, !.flow = r.flow, !.action = r.action,
                     !.seen = {Fate(r.flow)}]
  <2>1. r.action \in Actions /\ r.flow \in Flows \cup {NoFlow}
    BY ParserResult
  <2>2. Fate(r.flow) \in Fates
    BY <1>3, <2>1 DEF Fate, Fates, RouteTyped
  <2>3. q \in PacketType
    BY <1>2, <2>1, <2>2 DEF PacketType
  <2>4. q.pc \in {"index", "done"}
    BY DEF NoPacket
  <2>5. packet' = [packet EXCEPT ![c] = q]
    BY <1>6 DEF Receive
  <2> HIDE DEF q
  <2>6. HeldTyped(q)
    BY <2>4 DEF HeldTyped
  <2> QED
    BY <1>4, <2>3, <2>5, <2>6
<1>7. ASSUME NEW fate \in Fates, NEW action \in Actions, NEW shape \in Shapes,
             NEW mac \in {"original", "nextHop"}, Finish(c, fate, action, shape, mac)
      PROVE  PacketTypeInv'
  <2> DEFINE q == [p EXCEPT !.pc = "done", !.fate = fate, !.action = action,
                            !.shape = shape, !.mac = mac]
  <2>1. q \in PacketType
    <3>1. 0 \in Nat /\ 0 \in 0 .. MaxPrograms /\ NoFar \in Fars \cup {NoFar}
      OBVIOUS
    <3> QED
      BY ZenonT(60), <1>1, <1>7, <3>1, PacketUpdates
  <2>2. q.pc = "done"
    BY <1>1 DEF PacketType
  <2>3. packet' = [packet EXCEPT ![c] = q]
    BY <1>7 DEF Finish
  <2> HIDE DEF q
  <2>4. HeldTyped(q)
    BY <2>2 DEF HeldTyped
  <2> QED
    BY <1>4, <2>1, <2>3, <2>4
<1>8. CASE Passes(c)
  BY <1>5, <1>7, <1>8 DEF Passes
<1>9. CASE LookupIndex(c)
  <2>1. CASE p.flow = NoFlow \/ SlotOf(p.flow) = 0
    BY <1>8, <1>9, <2>1 DEF LookupIndex
  <2>2. CASE ~(p.flow = NoFlow \/ SlotOf(p.flow) = 0)
    <3> DEFINE q == [p EXCEPT !.pc = "tail", !.id = SlotOf(p.flow)]
    <3>1. p.flow \in Flows
      BY <1>1, <2>2 DEF PacketType
    <3>2. SlotOf(p.flow) \in Nat
      BY <1>3, <3>1, ConstantsAssumption DEF KernelKey, Keys, SlotOf
    <3>3. q \in PacketType /\ q.pc = "tail"
      BY <1>1, <3>2 DEF PacketType
    <3>4. packet' = [packet EXCEPT ![c] = q]
      BY <1>9, <2>2 DEF LookupIndex
    <3> HIDE DEF q
    <3>5. HeldTyped(q)
      BY <3>3 DEF HeldTyped
    <3> QED
      BY <1>4, <3>3, <3>4, <3>5
  <2> QED
    BY <2>1, <2>2
<1>10. CASE TailCall(c)
  <2>1. CASE ~(p.id < MaxRuleProg /\ ruleProg[p.id] # 0)
    BY <1>8, <1>10, <2>1 DEF TailCall
  <2>2. CASE p.id < MaxRuleProg /\ ruleProg[p.id] # 0
    <3> DEFINE q == [p EXCEPT !.pc = "far", !.prog = ruleProg[p.id]]
    <3>1. ruleProg[p.id] \in 0 .. MaxPrograms
      <4>1. p.id \in 0 .. MaxRuleProg - 1
        BY <1>1, <2>2 DEF PacketType
      <4> QED
        BY <1>3, <4>1
    <3>2. q \in PacketType /\ q.pc = "far" /\ q.prog # 0
      BY <1>1, <2>2, <3>1 DEF PacketType
    <3>3. packet' = [packet EXCEPT ![c] = q]
      BY <1>10, <2>2 DEF TailCall
    <3> HIDE DEF q
    <3>4. HeldTyped(q)
      BY <3>2 DEF HeldTyped
    <3> QED
      BY <1>4, <3>2, <3>3, <3>4
  <2> QED
    BY <2>1, <2>2
<1>11. CASE LookupFar(c)
  <2>1. CASE programs[p.prog].far = NoFar
    <3>1. Finish(c, "drop", "DROP", "asReceived", "original")
      BY <1>11, <2>1 DEF LookupFar
    <3> QED
      BY <1>5, <1>7, <3>1
  <2>2. CASE programs[p.prog].far # NoFar
    <3> DEFINE q == [p EXCEPT !.pc = "apply", !.far = programs[p.prog].far]
    <3>1. programs[p.prog].far \in Fars
      <4>1. p.prog \in 1 .. MaxPrograms
        BY <1>1, <1>11 DEF PacketType, HeldTyped, LookupFar
      <4> QED
        BY <1>3, <2>2, <4>1 DEF ProgramType
    <3>2. q \in PacketType /\ q.pc = "apply" /\ q.far # NoFar
      BY <1>1, <2>2, <3>1 DEF PacketType
    <3>3. packet' = [packet EXCEPT ![c] = q]
      BY <1>11, <2>2 DEF LookupFar
    <3> HIDE DEF q
    <3>4. HeldTyped(q)
      BY <3>2 DEF HeldTyped
    <3> QED
      BY <1>4, <3>2, <3>3, <3>4
  <2> QED
    BY <2>1, <2>2
<1>12. CASE ApplyFar(c)
  <2>1. p.far \in Fates
    BY <1>1, <1>5, <1>12 DEF HeldTyped, ApplyFar, PacketType
  <2>2. \E action \in Actions, shape \in Shapes, mac \in {"original", "nextHop"} :
          Finish(c, p.far, action, shape, mac)
    <3>1. CASE ToCore(c)
      BY <1>5, <3>1 DEF ToCore
    <3>2. CASE ToAccess(c)
      BY <1>5, <3>2 DEF ToAccess
    <3>3. CASE Finish(c, p.far, "PASS", "asReceived", "original")
      BY <1>5, <3>3
    <3> QED
      BY <1>12, <3>1, <3>2, <3>3 DEF ApplyFar
  <2> QED
    BY <1>7, <2>1, <2>2
<1>13. CASE Leave(c)
  <2>1. HeldTyped(NoPacket)
    BY DEF HeldTyped, NoPacket
  <2> QED
    BY <1>2, <1>4, <1>13, <2>1 DEF Leave
<1> QED
  BY <1>6, <1>9, <1>10, <1>11, <1>12, <1>13

(* A step of the management layer only adds to what the packets have seen. *)
LEMMA ManagePacketTypeInv ==
  ASSUME PacketTypeInv, TypeInv', Manage
  PROVE  PacketTypeInv'
<1>1. \A f \in Flows : Route(f)' \in Fars \cup {"pass", "drop"}
  BY RouteTypedNext
<1>2. ASSUME NEW c \in Cpus
      PROVE  packet'[c] \in PacketType /\ HeldTyped(packet'[c])
  <2> DEFINE p == packet[c]
  <2>1. p \in PacketType /\ HeldTyped(p)
    BY DEF PacketTypeInv
  <2>2. CASE ~InFlight(c)
    BY <2>1, <2>2 DEF Manage
  <2>3. CASE InFlight(c)
    <3>1. PICK f \in {p.flow} : TRUE
      OBVIOUS
    <3>2. PICK g \in {Fate(f)'} : TRUE
      OBVIOUS
    <3>3. packet'[c] = [p EXCEPT !.seen = p.seen \cup {g}]
      BY <2>1, <2>3, <3>1, <3>2 DEF Manage, PacketType
    <3>4. f \in Flows \cup {NoFlow}
      BY <2>1, <3>1 DEF PacketType
    <3>5. g \in Fates
      BY <1>1, <3>2, <3>4 DEF Fate, Fates
    <3> DEFINE q == [p EXCEPT !.seen = p.seen \cup {g}]
    <3>6. q \in PacketType /\ q.pc = p.pc /\ q.prog = p.prog /\ q.far = p.far
      BY <2>1, <3>5 DEF PacketType
    <3> HIDE DEF q
    <3>7. HeldTyped(q)
      BY <2>1, <3>6 DEF HeldTyped
    <3> QED
      BY <3>3, <3>6, <3>7 DEF q
  <2> QED
    BY <2>2, <2>3
<1>3. packet' = [c \in Cpus |-> packet'[c]]
  BY DEF Manage
<1>4. packet' \in [Cpus -> PacketType]
  BY <1>2, <1>3
<1>5. \A c \in Cpus : HeldTyped(packet[c])'
  BY <1>2 DEF HeldTyped
<1> QED
  BY <1>4, <1>5 DEF PacketTypeInv

(* PacketTypeInv holds throughout. *)
LEMMA PacketTypeInvariance == PSpec => []PacketTypeInv
<1>1. PInit => PacketTypeInv
  <2> SUFFICES ASSUME PInit PROVE PacketTypeInv
    OBVIOUS
  <2>1. TypeInv
    BY InitTypeInv DEF PInit
  <2>2. \A c \in Cpus : packet[c] = NoPacket
    BY DEF PInit
  <2>3. HeldTyped(NoPacket)
    BY DEF HeldTyped, NoPacket
  <2> QED
    BY <2>1, <2>2, <2>3, PacketDefaults DEF PInit, PacketTypeInv
<1>2. PacketTypeInv /\ [PNext]_pvars => PacketTypeInv'
  <2> SUFFICES ASSUME PacketTypeInv, [PNext]_pvars PROVE PacketTypeInv'
    BY Zenon
  <2>1. [Next]_vars
    BY DEF PNext, Manage, Receive, LookupIndex, TailCall, LookupFar, ApplyFar, Leave,
       pvars
  <2>2. TypeInv'
    BY <2>1, NextTypeInv DEF PacketTypeInv
  <2>3. CASE Manage
    BY <2>2, <2>3, ManagePacketTypeInv
  <2>4. ASSUME NEW c \in Cpus,
               \/ \E fr \in Frames : Receive(c, fr)
               \/ LookupIndex(c) \/ TailCall(c) \/ LookupFar(c) \/ ApplyFar(c) \/ Leave(c)
        PROVE  PacketTypeInv'
    BY <2>2, <2>4, CpuPacketTypeInv
  <2>5. CASE UNCHANGED pvars
    BY <2>2, <2>5 DEF pvars, PacketTypeInv, HeldTyped
  <2> QED
    BY <2>3, <2>4, <2>5 DEF PNext
<1> QED
  BY <1>1, <1>2, PTL DEF PSpec

(* Packets keep their type however the map reads and any number of concurrent
   callers interleave. *)
THEOREM PacketTypeCorrect == PSpec => []PacketTypeOK
<1>1. PacketTypeInv => PacketTypeOK
  BY DEF PacketTypeInv, TypeInv, PacketTypeOK
<1> QED
  BY PacketTypeInvariance, <1>1, PTL

-----------------------------------------------------------------------------
(* UplinkIsDecapsulated, of one packet. *)
Decapsulated(q) ==
  q.action = "UPLINK" =>
    /\ q.mac = "nextHop"
    /\ q.frame.port = "gtpu" /\ ~Tagged(q.frame) => q.shape = "inner"

(* The parser redirects nothing. *)
LEMMA ParserNeverRedirects ==
  ASSUME NEW fr \in Frames
  PROVE  eth_handle(fr).action # "UPLINK"
<1>1. fr \in FrameType
  BY PacketAssumption
<1>2. gtp_handle(fr).action # "UPLINK"
  BY <1>1 DEF gtp_handle, Verdict, Lookup, FrameType
<1>3. udp_handle(fr).action # "UPLINK"
  BY <1>1, <1>2 DEF udp_handle, Verdict, Lookup, FrameType
<1>4. ipv4_handle(fr).action # "UPLINK"
  BY <1>1, <1>3 DEF ipv4_handle, Verdict, Lookup, FrameType
<1> QED
  BY <1>1, <1>4 DEF eth_handle, Verdict

(* A step of one CPU leaves its packet decapsulated if it redirects it to the data
   network: only pfcp_far_apply does, once it has the MAC. *)
LEMMA CpuDecapsulated ==
  ASSUME PacketTypeInv, NEW c \in Cpus, Decapsulated(packet[c]),
         \/ \E fr \in Frames : Receive(c, fr)
         \/ LookupIndex(c) \/ TailCall(c) \/ LookupFar(c) \/ ApplyFar(c) \/ Leave(c)
  PROVE  \E q : Decapsulated(q) /\ packet' = [packet EXCEPT ![c] = q]
<1> DEFINE p == packet[c]
<1>1. p \in PacketType
  BY DEF PacketTypeInv
<1>2. ASSUME NEW fate, NEW action, NEW shape, NEW mac, Finish(c, fate, action, shape, mac),
             action = "UPLINK" =>
               /\ mac = "nextHop"
               /\ p.frame.port = "gtpu" /\ ~Tagged(p.frame) => shape = "inner"
      PROVE  \E q : Decapsulated(q) /\ packet' = [packet EXCEPT ![c] = q]
  <2> DEFINE q == [p EXCEPT !.pc = "done", !.fate = fate, !.action = action,
                            !.shape = shape, !.mac = mac]
  <2>1. q.action = action /\ q.mac = mac /\ q.shape = shape /\ q.frame = p.frame
    BY <1>1 DEF PacketType
  <2>2. packet' = [packet EXCEPT ![c] = q]
    BY <1>2 DEF Finish
  <2> HIDE DEF q
  <2>3. Decapsulated(q)
    BY <1>2, <2>1 DEF Decapsulated, Tagged
  <2> QED
    BY <2>2, <2>3
<1>3. CASE \E fr \in Frames : Receive(c, fr)
  <2>1. PICK fr \in Frames : Receive(c, fr)
    BY <1>3
  <2> DEFINE r == eth_handle(fr)
             q == [NoPacket EXCEPT
                     !.pc = IF r.action = "none" THEN "index" ELSE "done",
                     !.frame = fr, !.flow = r.flow, !.action = r.action,
                     !.seen = {Fate(r.flow)}]
  <2>2. packet' = [packet EXCEPT ![c] = q]
    BY <2>1 DEF Receive
  <2>3. q.action = r.action
    BY DEF NoPacket
  <2>4. r.action # "UPLINK"
    BY ParserNeverRedirects
  <2> HIDE DEF q
  <2> QED
    BY <2>2, <2>3, <2>4 DEF Decapsulated
<1>4. ASSUME NEW q, packet' = [packet EXCEPT ![c] = q], q.action = p.action, q.mac = p.mac,
             q.shape = p.shape, q.frame = p.frame
      PROVE  \E x : Decapsulated(x) /\ packet' = [packet EXCEPT ![c] = x]
  <2>1. Decapsulated(q)
    BY <1>4 DEF Decapsulated, Tagged
  <2> QED
    BY <1>4, <2>1
<1>5. ASSUME Passes(c)
      PROVE  \E q : Decapsulated(q) /\ packet' = [packet EXCEPT ![c] = q]
  BY <1>2, <1>5 DEF Passes
<1>6. CASE LookupIndex(c)
  <2> DEFINE q == [p EXCEPT !.pc = "tail", !.id = SlotOf(packet[c].flow)]
  <2>1. q.action = p.action /\ q.mac = p.mac /\ q.shape = p.shape /\ q.frame = p.frame
    BY <1>1 DEF PacketType
  <2>2. Passes(c) \/ packet' = [packet EXCEPT ![c] = q]
    BY <1>6 DEF LookupIndex
  <2> HIDE DEF q
  <2> QED
    BY <1>4, <1>5, <2>1, <2>2
<1>7. CASE TailCall(c)
  <2> DEFINE q == [p EXCEPT !.pc = "far", !.prog = ruleProg[packet[c].id]]
  <2>1. q.action = p.action /\ q.mac = p.mac /\ q.shape = p.shape /\ q.frame = p.frame
    BY <1>1 DEF PacketType
  <2>2. Passes(c) \/ packet' = [packet EXCEPT ![c] = q]
    BY <1>7 DEF TailCall
  <2> HIDE DEF q
  <2> QED
    BY <1>4, <1>5, <2>1, <2>2
<1>8. CASE LookupFar(c)
  <2> DEFINE q == [p EXCEPT !.pc = "apply", !.far = programs[packet[c].prog].far]
  <2>1. q.action = p.action /\ q.mac = p.mac /\ q.shape = p.shape /\ q.frame = p.frame
    BY <1>1 DEF PacketType
  <2>2. \/ Finish(c, "drop", "DROP", "asReceived", "original")
        \/ packet' = [packet EXCEPT ![c] = q]
    BY <1>8 DEF LookupFar
  <2> HIDE DEF q
  <2> QED
    BY <1>2, <1>4, <2>1, <2>2
<1>9. CASE ApplyFar(c)
  <2>1. CASE ToCore(c)
    <3>1. CASE Finish(c, p.far, "DROP", "garbled", "original")
      BY <1>2, <3>1
    <3>2. CASE Finish(c, p.far, "UPLINK",
                 IF p.frame.port = "gtpu" /\ ~Tagged(p.frame) THEN "inner" ELSE "garbled",
                 "nextHop")
      BY <1>2, <3>2
    <3> QED
      BY <2>1, <3>1, <3>2 DEF ToCore
  <2>2. CASE ToAccess(c)
    <3>1. PICK shape, mac : Finish(c, p.far, "DOWNLINK", shape, mac)
      BY <2>2 DEF ToAccess
    <3> QED
      BY <1>2, <3>1
  <2>3. CASE Finish(c, packet[c].far, "PASS", "asReceived", "original")
    BY <1>2, <2>3
  <2> QED
    BY <1>9, <2>1, <2>2, <2>3 DEF ApplyFar
<1>10. CASE Leave(c)
  <2>1. packet' = [packet EXCEPT ![c] = NoPacket] /\ Decapsulated(NoPacket)
    BY <1>10 DEF Leave, NoPacket, Decapsulated
  <2> QED
    BY <2>1
<1> QED
  BY <1>3, <1>6, <1>7, <1>8, <1>9, <1>10

(* However many callers run concurrently, no packet goes to the data network without
   the MAC of its next hop, nor an untagged G-PDU with its outer headers, though the
   ARP table of a program is written after its flow is live. *)
THEOREM UplinkDecapsulated == PSpec => []UplinkIsDecapsulated
<1> DEFINE All == \A c \in Cpus : Decapsulated(packet[c])
<1>1. PInit => All
  BY DEF PInit, NoPacket, Decapsulated
<1>2. PacketTypeInv /\ All /\ [PNext]_pvars => All'
  <2> SUFFICES ASSUME PacketTypeInv, All, [PNext]_pvars, NEW d \in Cpus
               PROVE  Decapsulated(packet'[d])
    BY DEF Decapsulated, Tagged
  <2>1. packet[d] \in PacketType /\ packet \in [Cpus -> PacketType]
    BY DEF PacketTypeInv
  <2>2. CASE Manage
    <3>1. PICK seen : packet'[d] = packet[d] \/ packet'[d] = [packet[d] EXCEPT !.seen = seen]
      BY <2>2 DEF Manage
    <3>2. /\ packet'[d].action = packet[d].action /\ packet'[d].mac = packet[d].mac
          /\ packet'[d].shape = packet[d].shape /\ packet'[d].frame = packet[d].frame
      BY <2>1, <3>1 DEF PacketType
    <3> QED
      BY <3>2 DEF Decapsulated, Tagged
  <2>3. ASSUME NEW c \in Cpus,
               \/ \E fr \in Frames : Receive(c, fr)
               \/ LookupIndex(c) \/ TailCall(c) \/ LookupFar(c) \/ ApplyFar(c) \/ Leave(c)
        PROVE  Decapsulated(packet'[d])
    <3>1. PICK q : Decapsulated(q) /\ packet' = [packet EXCEPT ![c] = q]
      BY <2>3, CpuDecapsulated
    <3>2. packet'[d] = IF d = c THEN q ELSE packet[d]
      BY <2>1, <3>1
    <3> QED
      BY <3>1, <3>2
  <2>4. CASE UNCHANGED pvars
    BY <2>4 DEF pvars
  <2> QED
    BY <2>2, <2>3, <2>4 DEF PNext
<1>3. All => UplinkIsDecapsulated
  BY DEF UplinkIsDecapsulated, Decapsulated
<1> QED
  BY PacketTypeInvariance, <1>1, <1>2, <1>3, PTL DEF PSpec
=============================================================================
