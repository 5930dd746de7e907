-------------------------- MODULE SessionPipeline --------------------------
(***************************************************************************)
(* The management layer's deployment of PFCP sessions: SessionManager,     *)
(* SessionProgramManager, the FARProgram instances they construct, and the *)
(* two kernel maps of the entry program they write while packets flow:     *)
(*   m_next_rule_prog_index   packet key (teid, interface, UE IP) -> id    *)
(*   m_next_rule_prog         id -> FAR program (a tail-call array)        *)
(* createBPFSession and removeBPFSession take no lock and each of their    *)
(* map writes is visible to the datapath at once, so a call is a sequence  *)
(* of steps of the calling thread.                                         *)
(***************************************************************************)
EXTENDS Naturals, FiniteSets, Sequences

CONSTANTS
  Threads,          \* callers: the workers of the HTTP server, or the one client
  HttpServer,       \* TRUE: concurrent /createSession handlers and nothing else;
                    \* FALSE: one call at a time, of the whole C++ API
  Flows,            \* packet keys: (teid, source interface, UE address)
  Fars,             \* forwarding rules
  Requests,         \* the PFCP sessions that callers hand to createBPFSession
  Seids,            \* 64-bit session ids in use
  SeidModulus,      \* 2^32: createPipeline and removePipeline take a uint32_t
  PadValues,        \* contents of the 3 padding bytes of next_rule_prog_index_key
  MaxIndexEntries,  \* max_entries of m_next_rule_prog_index (10)
  MaxRuleProg,      \* max_entries of m_next_rule_prog (10)
  MaxPrograms,      \* bound on the FARProgram objects a behaviour constructs
  NoFlow, NoFar     \* an absent PDI field; an absent FAR

Keys == [flow : Flows, pad : PadValues]

Seid32s == {s % SeidModulus : s \in Seids}

(* A PDR as createBPFSession reads it: flow is NoFlow when the PDI, its F-TEID,
   its source interface or its UE address is absent, far is NoFar when there is
   no FAR id.  pfcp_session::create admits no PDR without a precedence. *)
Pdrs == [precedence : Nat, flow : Flows \cup {NoFlow}, far : Fars \cup {NoFar}]

(* An ARP table with the FAR's next hop, or without: a request's is "filled" when
   it is well formed and holds that address. *)
ArpTables == {"empty", "filled"}

RequestType ==
  [seid : Seids, pdrs : Seq(Pdrs), fars : SUBSET Fars, arp : ArpTables]

ASSUME ConstantsAssumption ==
  /\ HttpServer \in BOOLEAN
  /\ Seids \subseteq Nat
  /\ SeidModulus \in Nat \ {0}
  /\ PadValues \subseteq Nat /\ 0 \in PadValues
  /\ MaxIndexEntries \in Nat /\ MaxRuleProg \in Nat \ {0} /\ MaxPrograms \in Nat
  /\ Flows # {} /\ NoFlow \notin Flows /\ NoFar \notin Fars
  /\ {"pass", "drop"} \cap (Fars \cup {NoFar}) = {}
  /\ Requests \subseteq RequestType

VARIABLES
  upf,              \* the entry program is set up and linked ("up") or not ("down")
  sIdCounter,       \* BPFProgram::sIdCounter
  nPrograms,        \* FARProgram objects constructed so far
  programs,         \* the FARProgram objects, by order of construction
  ruleIndex,        \* m_next_rule_prog_index; 0 where there is no entry
  ruleProg,         \* m_next_rule_prog; 0 where the slot is empty
  sessionPrograms,  \* SessionProgramManager::mSessionProgramsMap; prog 0: absent
  seidToSession,    \* keys of SessionManager::mSeidToSession
  call              \* the call each thread is executing

kernelMaps == <<ruleIndex, ruleProg>>
tables == <<sessionPrograms, seidToSession>>
vars == <<upf, sIdCounter, nPrograms, programs, ruleIndex, ruleProg,
          sessionPrograms, seidToSession, call>>

-----------------------------------------------------------------------------
(* States of a FARProgram object as seen from user space.  seid and key
   record what it was constructed for; far and arp are its own BPF maps, which
   the kernel keeps as long as a tail-call slot refers to the program. *)
ProgramStates == {"none", "constructed", "loaded", "tornDown"}

ProgramType ==
  [id : Nat, seid : Seids \cup {0}, key : Keys, far : Fars \cup {NoFar},
   arp : ArpTables, state : ProgramStates]

Steps == {"idle", "construct", "load", "store", "setup", "index", "prog", "far",
          "record", "publish", "arp", "faulted", "unindex"}

CallType ==
  [pc : Steps, seid : Seids \cup {0}, key : Keys, far : Fars \cup {NoFar},
   arp : ArpTables, prog : 0 .. MaxPrograms, tmp : Nat]

EntryType == [key : Keys, prog : 0 .. MaxPrograms]

TypeOK ==
  /\ upf \in {"up", "down"}
  /\ sIdCounter \in Nat
  /\ nPrograms \in 0 .. MaxPrograms
  /\ programs \in [1 .. MaxPrograms -> ProgramType]
  /\ ruleIndex \in [Keys -> Nat]
  /\ ruleProg \in [0 .. MaxRuleProg - 1 -> 0 .. MaxPrograms]
  /\ sessionPrograms \in [Seid32s -> EntryType]
  /\ seidToSession \in SUBSET Seids
  /\ call \in [Threads -> CallType]

AnyKey == CHOOSE k \in Keys : TRUE

EmptyProgram ==
  [id |-> 0, seid |-> 0, key |-> AnyKey, far |-> NoFar, arp |-> "empty",
   state |-> "none"]

NoEntry == [key |-> AnyKey, prog |-> 0]

NoCall ==
  [pc |-> "idle", seid |-> 0, key |-> AnyKey, far |-> NoFar, arp |-> "empty",
   prog |-> 0, tmp |-> 0]

Init ==
  /\ upf = "up"
  /\ sIdCounter = 1
  /\ nPrograms = 0
  /\ programs = [p \in 1 .. MaxPrograms |-> EmptyProgram]
  /\ ruleIndex = [k \in Keys |-> 0]
  /\ ruleProg = [i \in 0 .. MaxRuleProg - 1 |-> 0]
  /\ sessionPrograms = [s \in Seid32s |-> NoEntry]
  /\ seidToSession = {}
  /\ call = [t \in Threads |-> NoCall]

Goto(t, step) == call' = [call EXCEPT ![t].pc = step]

Return(t) == call' = [call EXCEPT ![t] = NoCall]

AllIdle == \A t \in Threads : call[t].pc = "idle"

(* A client may start a call of the API: always for the HTTP workers, one call
   at a time otherwise. *)
MayCall(t) == upf = "up" /\ call[t].pc = "idle" /\ (HttpServer \/ AllIdle)

-----------------------------------------------------------------------------
(* createBPFSession up to the call of createPipeline and its key.  std::sort
   is not stable: any PDR of least precedence value may come first.  A session
   without PDR, with fields missing in that PDR or with no such FAR throws,
   leaving everything as it was. *)
HighestPdrs(r) ==
  {r.pdrs[i] : i \in {j \in DOMAIN r.pdrs :
     \A m \in DOMAIN r.pdrs : r.pdrs[j].precedence <= r.pdrs[m].precedence}}

DeployableUnchecked(r, pdr) == pdr.far \in r.fars

Deployable(r, pdr) == pdr.flow \in Flows /\ pdr.far \in r.fars

(* The bound: a call starts only if its program can still be constructed. *)
ProgramLeft ==
  nPrograms + Cardinality({t \in Threads : call[t].pc = "construct"}) < MaxPrograms

BeginCreate(t, r) ==
  /\ MayCall(t)
  /\ ProgramLeft
  /\ \E pdr \in HighestPdrs(r), pad \in PadValues :
       /\ Deployable(r, pdr)
       /\ call' = [call EXCEPT ![t] =
            [pc |-> "construct", seid |-> r.seid,
             key |-> [flow |-> pdr.flow, pad |-> pad], far |-> pdr.far,
             arp |-> r.arp, prog |-> 0, tmp |-> 0]]
  /\ UNCHANGED <<upf, sIdCounter, nPrograms, programs, kernelMaps, tables>>

(* BPFProgram's constructor: mId(sIdCounter), then sIdCounter++, which is a
   load and a store of an unprotected static. *)
Construct(t) ==
  /\ call[t].pc = "construct"
  /\ nPrograms < MaxPrograms
  /\ nPrograms' = nPrograms + 1
  /\ programs' = [programs EXCEPT ![nPrograms + 1] =
       [id |-> sIdCounter, seid |-> call[t].seid, key |-> call[t].key,
        far |-> NoFar, arp |-> "empty", state |-> "constructed"]]
  /\ call' = [call EXCEPT ![t] = [@ EXCEPT !.pc = "load", !.prog = nPrograms + 1]]
  /\ UNCHANGED <<upf, sIdCounter, kernelMaps, tables>>

LoadCounter(t) ==
  /\ call[t].pc = "load"
  /\ call' = [call EXCEPT ![t] = [@ EXCEPT !.pc = "store", !.tmp = sIdCounter]]
  /\ UNCHANGED <<upf, sIdCounter, nPrograms, programs, kernelMaps, tables>>

StoreCounterWithoutIncrement(t) ==
  /\ call[t].pc = "store"
  /\ sIdCounter' = call[t].tmp
  /\ Goto(t, "setup")
  /\ UNCHANGED <<upf, nPrograms, programs, kernelMaps, tables>>

StoreCounter(t) ==
  /\ call[t].pc = "store"
  /\ sIdCounter' = call[t].tmp + 1
  /\ Goto(t, "setup")
  /\ UNCHANGED <<upf, nPrograms, programs, kernelMaps, tables>>

(* FARProgram::setup: open, load, attach and the redirect map.  When a step of
   it fails the exception leaves createBPFSession and the object is dropped: a
   program that was loaded before the redirect map refused stays loaded. *)
SetupProgram(t) ==
  /\ call[t].pc = "setup"
  /\ programs' = [programs EXCEPT ![call[t].prog].state = "loaded"]
  /\ Goto(t, "index")
  /\ UNCHANGED <<upf, sIdCounter, nPrograms, kernelMaps, tables>>

SetupProgramFails(t) ==
  /\ call[t].pc = "setup"
  /\ programs' \in {programs, [programs EXCEPT ![call[t].prog].state = "loaded"]}
  /\ Return(t)
  /\ UNCHANGED <<upf, sIdCounter, nPrograms, kernelMaps, tables>>

Id(t) == programs[call[t].prog].id

(* getNextProgRuleIndexMap()->update(key, id): a hash map refuses a new key
   when it is full, and BPFMap::update throws. *)
IndexHasRoom(key) ==
  \/ ruleIndex[key] # 0
  \/ Cardinality({k \in Keys : ruleIndex[k] # 0}) < MaxIndexEntries

UpdateIndex(t) ==
  /\ call[t].pc = "index"
  /\ IndexHasRoom(call[t].key)
  /\ ruleIndex' = [ruleIndex EXCEPT ![call[t].key] = Id(t)]
  /\ Goto(t, "prog")
  /\ UNCHANGED <<upf, sIdCounter, nPrograms, programs, ruleProg, tables>>

UpdateIndexFails(t) ==
  /\ call[t].pc = "index"
  /\ ~IndexHasRoom(call[t].key)
  /\ Return(t)
  /\ UNCHANGED <<upf, sIdCounter, nPrograms, programs, kernelMaps, tables>>

(* getNextProgRuleMap()->update(id, fd): ids are never reused, so the array
   refuses every program from the MaxRuleProg-th on. *)
UpdateProgOffByOne(t) ==
  /\ call[t].pc = "prog"
  /\ Id(t) < MaxRuleProg
  /\ ruleProg' = [ruleProg EXCEPT ![Id(t) - 1] = call[t].prog]
  /\ Goto(t, "far")
  /\ UNCHANGED <<upf, sIdCounter, nPrograms, programs, ruleIndex, tables>>

UpdateProg(t) ==
  /\ call[t].pc = "prog"
  /\ Id(t) < MaxRuleProg
  /\ ruleProg' = [ruleProg EXCEPT ![Id(t)] = call[t].prog]
  /\ Goto(t, "far")
  /\ UNCHANGED <<upf, sIdCounter, nPrograms, programs, ruleIndex, tables>>

UpdateProgFails(t) ==
  /\ call[t].pc = "prog"
  /\ Id(t) >= MaxRuleProg
  /\ Return(t)
  /\ UNCHANGED <<upf, sIdCounter, nPrograms, programs, kernelMaps, tables>>

UpdateFarSkipped(t) ==
  /\ call[t].pc = "far"
  /\ Goto(t, "record")
  /\ UNCHANGED <<upf, sIdCounter, nPrograms, programs, kernelMaps, tables>>

UpdateFar(t) ==
  /\ call[t].pc = "far"
  /\ programs' = [programs EXCEPT ![call[t].prog].far = call[t].far]
  /\ Goto(t, "record")
  /\ UNCHANGED <<upf, sIdCounter, nPrograms, kernelMaps, tables>>

Seid32(t) == call[t].seid % SeidModulus

(* ~SessionPrograms tears down the FARProgram of the entry it belonged to. *)
TearDownEntry(s) ==
  programs' = IF sessionPrograms[s].prog = 0 THEN programs
              ELSE [programs EXCEPT ![sessionPrograms[s].prog].state = "tornDown"]

(* mSessionProgramsMap[seid] = ...: replaces, and so destroys, an older entry. *)
RecordPipelineIfAbsent(t) ==
  /\ call[t].pc = "record"
  /\ sessionPrograms' = IF sessionPrograms[Seid32(t)].prog # 0 THEN sessionPrograms
       ELSE [sessionPrograms EXCEPT ![Seid32(t)] = [key |-> call[t].key, prog |-> call[t].prog]]
  /\ Goto(t, "publish")
  /\ UNCHANGED <<upf, sIdCounter, nPrograms, programs, kernelMaps, seidToSession>>

RecordPipeline(t) ==
  /\ call[t].pc = "record"
  /\ TearDownEntry(Seid32(t))
  /\ sessionPrograms' =
       [sessionPrograms EXCEPT ![Seid32(t)] = [key |-> call[t].key, prog |-> call[t].prog]]
  /\ Goto(t, "publish")
  /\ UNCHANGED <<upf, sIdCounter, nPrograms, kernelMaps, seidToSession>>

(* The map is not protected: an insertion that overlaps another may be lost. *)
RecordPipelineLost(t) ==
  /\ call[t].pc = "record"
  /\ \E u \in Threads \ {t} : call[u].pc = "record"
  /\ Goto(t, "publish")
  /\ UNCHANGED <<upf, sIdCounter, nPrograms, programs, kernelMaps, tables>>

PublishSession(t) ==
  /\ call[t].pc = "publish"
  /\ seidToSession' = seidToSession \cup {call[t].seid}
  /\ Goto(t, "arp")
  /\ UNCHANGED <<upf, sIdCounter, nPrograms, programs, kernelMaps, sessionPrograms>>

(* The caller then fills the ARP table of whatever findSessionPrograms(seid)
   returns; it gives up at a malformed address, with the session deployed. *)
UpdateArp(t) ==
  /\ call[t].pc = "arp"
  /\ \/ call[t].arp = "empty" /\ UNCHANGED programs
     \/ /\ call[t].arp # "empty"
        /\ sessionPrograms[Seid32(t)].prog # 0
        /\ programs' = [programs EXCEPT ![sessionPrograms[Seid32(t)].prog].arp = "filled"]
  /\ Return(t)
  /\ UNCHANGED <<upf, sIdCounter, nPrograms, kernelMaps, tables>>

(* Without an entry it returns null, which the caller dereferences at the first
   address: the thread is in the SIGSEGV handler, from which it does not return.
   The other threads go on until that handler ends the process (UserPlane). *)
UpdateArpFaults(t) ==
  /\ call[t].pc = "arp"
  /\ call[t].arp # "empty"
  /\ sessionPrograms[Seid32(t)].prog = 0
  /\ Goto(t, "faulted")
  /\ UNCHANGED <<upf, sIdCounter, nPrograms, programs, kernelMaps, tables>>

-----------------------------------------------------------------------------
(* removeBPFSession.  The FAR program is torn down and the entry erased before
   the key leaves the index; mSeidToSession and the tail-call slot are kept. *)
BeginRemoveKeepsEntry(t, s) ==
  /\ ~HttpServer
  /\ MayCall(t)
  /\ s \in seidToSession
  /\ sessionPrograms[s % SeidModulus].prog # 0
  /\ TearDownEntry(s % SeidModulus)
  /\ call' = [call EXCEPT ![t] = [NoCall EXCEPT
       !.pc = "unindex", !.seid = s, !.key = sessionPrograms[s % SeidModulus].key]]
  /\ UNCHANGED <<upf, sIdCounter, nPrograms, kernelMaps, tables>>

BeginRemove(t, s) ==
  /\ ~HttpServer
  /\ MayCall(t)
  /\ s \in seidToSession
  /\ sessionPrograms[s % SeidModulus].prog # 0
  /\ TearDownEntry(s % SeidModulus)
  /\ sessionPrograms' = [sessionPrograms EXCEPT ![s % SeidModulus] = NoEntry]
  /\ call' = [call EXCEPT ![t] = [NoCall EXCEPT
       !.pc = "unindex", !.seid = s, !.key = sessionPrograms[s % SeidModulus].key]]
  /\ UNCHANGED <<upf, sIdCounter, nPrograms, kernelMaps, seidToSession>>

(* Removing a key that is not in the map throws and changes nothing else. *)
RemoveIndex(t) ==
  /\ call[t].pc = "unindex"
  /\ ruleIndex' = [ruleIndex EXCEPT ![call[t].key] = 0]
  /\ Return(t)
  /\ UNCHANGED <<upf, sIdCounter, nPrograms, programs, ruleProg, tables>>

(* UserPlaneComponent::tearDown destroys the entry program and its maps and
   removes the SessionPrograms of createSession, of which this model has none:
   mSessionProgramsMap and its FAR programs stay. *)
TearDown ==
  /\ ~HttpServer
  /\ upf = "up"
  /\ AllIdle
  /\ upf' = "down"
  /\ ruleIndex' = [k \in Keys |-> 0]
  /\ ruleProg' = [i \in 0 .. MaxRuleProg - 1 |-> 0]
  /\ UNCHANGED <<sIdCounter, nPrograms, programs, tables, call>>

(* UserPlaneComponent::setup: a new entry program with empty maps and a new
   SessionManager. *)
Setup ==
  /\ upf = "down"
  /\ upf' = "up"
  /\ seidToSession' = {}
  /\ UNCHANGED <<sIdCounter, nPrograms, programs, kernelMaps, sessionPrograms, call>>

-----------------------------------------------------------------------------
CreateStep(t) ==
  \/ \E r \in Requests : BeginCreate(t, r)
  \/ Construct(t) \/ LoadCounter(t) \/ StoreCounter(t)
  \/ SetupProgram(t) \/ SetupProgramFails(t)
  \/ UpdateIndex(t) \/ UpdateIndexFails(t)
  \/ UpdateProg(t) \/ UpdateProgFails(t)
  \/ UpdateFar(t)
  \/ RecordPipeline(t) \/ RecordPipelineLost(t)
  \/ PublishSession(t)
  \/ UpdateArp(t) \/ UpdateArpFaults(t)

RemoveStep(t) ==
  \/ \E s \in Seids : BeginRemove(t, s)
  \/ RemoveIndex(t)

Next ==
  \/ \E t \in Threads : CreateStep(t) \/ RemoveStep(t)
  \/ TearDown
  \/ Setup

(* A thread that has entered a call keeps executing it. *)
Continue(t) ==
  /\ call[t].pc # "idle"
  /\ CreateStep(t) \/ RemoveStep(t)

Fairness == \A t \in Threads : WF_vars(Continue(t))

Spec == Init /\ [][Next]_vars

FairSpec == Spec /\ Fairness

-----------------------------------------------------------------------------
(* What tail_call_next_prog and the FAR program do with a packet of this flow.
   The kernel zeroes its key before it fills in the fields.  An empty or
   out-of-range slot falls through to XDP_PASS; a FAR program whose m_far is
   still empty drops. *)
KernelKey(f) == [flow |-> f, pad |-> 0]

SlotOf(f) == ruleIndex[KernelKey(f)]

Reached(f) ==
  IF SlotOf(f) # 0 /\ SlotOf(f) < MaxRuleProg THEN ruleProg[SlotOf(f)] ELSE 0

Route(f) ==
  IF Reached(f) = 0 THEN "pass"
  ELSE IF programs[Reached(f)].far = NoFar THEN "drop"
  ELSE programs[Reached(f)].far

-----------------------------------------------------------------------------
(* Some session asks for this FAR to be applied to this flow. *)
Requested(f, far) ==
  \E r \in Requests : \E pdr \in HighestPdrs(r) :
     Deployable(r, pdr) /\ pdr.flow = f /\ pdr.far = far

(* A packet is only ever handled by a FAR that a session requested for the flow
   the packet belongs to: the indirection flow -> id -> program never crosses
   two sessions, whatever was created, replaced, removed or failed before. *)
RoutesRequested ==
  \A f \in Flows : Route(f) \in Fars => Requested(f, Route(f))

(* Between calls every flow that the index knows is forwarded, but for what one
   exception leaves behind.  createPipeline writes the index before the tail-call
   slot, and the array refuses the slot of every id from MaxRuleProg on: the call
   ends there, with the flow in the index under an id that has no slot.  No other
   exception ends a call between the writes of the index, the slot and the FAR,
   and what this one leaves is nobody's: no session entry owns a program of that
   id, and the flow stays with the kernel's stack until an earlier session on it is
   removed or a later one replaces it. *)
IndexedIsForwarded ==
  AllIdle => \A f \in Flows :
    SlotOf(f) # 0 =>
      \/ Route(f) \in Fars
      \/ /\ SlotOf(f) >= MaxRuleProg
         /\ \A s \in Seid32s :
              sessionPrograms[s].prog # 0 => programs[sessionPrograms[s].prog].id # SlotOf(f)

(* As long as the index leads to the id of the program a session entry owns, the
   entry's whole pipeline is in place: that very program in the slot, loaded,
   with its FAR stored. *)
PipelineIntact ==
  \A s \in Seid32s :
    LET e == sessionPrograms[s] IN
      (e.prog # 0 /\ ruleIndex[e.key] = programs[e.prog].id)
        => /\ programs[e.prog].id < MaxRuleProg
           /\ ruleProg[programs[e.prog].id] = e.prog
           /\ programs[e.prog].state = "loaded"
           /\ programs[e.prog].far # NoFar

(* findSessionPrograms(seid), called after createBPFSession to fill the ARP
   table, returns the program this very call deployed. *)
ArpGoesToOwnProgram ==
  \A t \in Threads :
    call[t].pc = "arp" => sessionPrograms[Seid32(t)].prog = call[t].prog

(* A step of a call changes what happens to packets of the call's own flow and
   of no other, even when it replaces or tears down another program. *)
StepTouchesOwnFlow ==
  [][\A t \in Threads : call[t].pc # "idle" /\ call'[t] # call[t] =>
       \A f \in Flows : Route(f)' # Route(f) => f = call[t].key.flow]_vars

(* When createBPFSession returns (its last step is the write to mSeidToSession)
   the datapath applies the FAR of the session's highest PDR to its flow. *)
AppliedOnReturn ==
  [][\A t \in Threads, f \in Flows :
       call[t].pc = "publish" /\ call'[t].pc = "arp" /\ call[t].key.flow = f =>
         Route(f)' = call[t].far]_vars

(* Two FARProgram objects were given the same id: the increment of sIdCounter by
   one thread was overtaken by another's. *)
SharedId(i) ==
  \E p, q \in 1 .. nPrograms : p # q /\ programs[p].id = i /\ programs[q].id = i

(* Handlers may run concurrently without a lock: the race on sIdCounter is the only
   way in which they can mix up two sessions.  A FAR that was not requested for a
   flow is reached through an id that two programs share. *)
MixUpNeedsSharedId ==
  \A f \in Flows : Route(f) \in Fars => Requested(f, Route(f)) \/ SharedId(SlotOf(f))

(* An entry of mSessionProgramsMap owns a loaded program with its FAR stored, and as
   long as the index leads to that program's id the slot holds it or a program that
   shares the id: neither overlapping handlers nor lost insertions undo the rest. *)
IntactUnlessShared ==
  \A s \in Seid32s :
    LET e == sessionPrograms[s]
        id == programs[e.prog].id
    IN  e.prog # 0 =>
          /\ id < MaxRuleProg
          /\ programs[e.prog].state = "loaded"
          /\ programs[e.prog].far # NoFar
          /\ ruleIndex[e.key] = id => ruleProg[id] = e.prog \/ SharedId(id)

(* Whatever the interleaving, a step of a call changes the treatment of the packets
   of another flow only if that flow's program shares its id. *)
OwnFlowUnlessShared ==
  [][\A t \in Threads : call[t].pc # "idle" /\ call'[t] # call[t] =>
       \A f \in Flows : Route(f)' # Route(f) =>
         f = call[t].key.flow \/ SharedId(SlotOf(f))]_vars

(* The window in which a reachable FAR program drops for want of its FAR always
   closes. *)
BlackholeEnds ==
  \A f \in Flows : (Route(f) = "drop") ~> (Route(f) # "drop")

-----------------------------------------------------------------------------
(* The fate of each flow, as the abstract table of FlowTable. *)
FateTable == [f \in Flows |-> Route(f)]

Abstract == INSTANCE FlowTable WITH table <- FateTable

(* With one caller at a time the management layer implements FlowTable. *)
ImplementsFlowTable == Abstract!FairSpec

-----------------------------------------------------------------------------
(* What docs and comments of the repository say and the code does not do. *)

(* A change of rules does not conflict with the switching of packets: no step
   of createBPFSession takes a flow that is being forwarded out of forwarding. *)
HitlessRedeploy ==
  [][\A t \in Threads : call[t].pc \in {"index", "prog", "far"} =>
       \A f \in Flows : Route(f) \in Fars => Route(f)' \in Fars]_vars

(* removeBPFSession(seid) releases the pipeline that was created for seid. *)
RemovesOwnSession ==
  [][\A t \in Threads : call[t].pc = "idle" /\ call'[t].pc = "unindex" =>
       LET e == sessionPrograms[call'[t].seid % SeidModulus]
       IN  programs[e.prog].seid = call'[t].seid]_vars

(* Every deployed pipeline can be destroyed through the seid it is mapped to: a
   flow that is forwarded belongs to an entry of mSessionProgramsMap. *)
RoutedFlowIsRecorded ==
  AllIdle => \A f \in Flows : Route(f) \in Fars =>
    \E s \in Seid32s : sessionPrograms[s].prog # 0 /\ sessionPrograms[s].key.flow = f

(* The program manager stores every program that was loaded. *)
LoadedIsRecorded ==
  AllIdle => \A p \in 1 .. nPrograms : programs[p].state = "loaded" =>
    \E s \in Seid32s : sessionPrograms[s].prog = p

(* Removing a session unloads its programs: a program that was torn down is not
   kept alive by the tail-call array. *)
RemovedIsUnloaded ==
  AllIdle => \A i \in DOMAIN ruleProg :
    ruleProg[i] # 0 => programs[ruleProg[i]].state = "loaded"

(* Tearing down the user plane tears down all programs that were set up. *)
TearDownReleasesAll ==
  upf = "down" => \A p \in 1 .. nPrograms : programs[p].state # "loaded"
=============================================================================
