----------------------- MODULE SessionPipelineProofs -----------------------
(***************************************************************************)
(* Proofs about SessionPipeline for every number of callers, flows, FARs,  *)
(* requests and map sizes.                                                 *)
(***************************************************************************)
EXTENDS SessionPipeline, TLAPS

(* Steps of createBPFSession at which the call has constructed its program. *)
Building == {"load", "store", "setup", "index", "prog", "far", "record",
             "publish", "arp"}

(* A call in progress names a session id in use, and a program once it has one. *)
CallsNamed ==
  \A t \in Threads :
    /\ call[t].pc # "idle" => call[t].seid \in Seids
    /\ call[t].pc \in Building => call[t].prog \in 1 .. nPrograms

TypeInv == TypeOK /\ CallsNamed

(* The default key exists, so the records of "nothing" have their types. *)
LEMMA Defaults ==
  /\ AnyKey \in Keys
  /\ EmptyProgram \in ProgramType
  /\ NoEntry \in EntryType
  /\ NoCall \in CallType
<1>1. Keys # {}
  <2>1. PICK f \in Flows : TRUE
    BY ConstantsAssumption
  <2>2. [flow |-> f, pad |-> 0] \in Keys
    BY ConstantsAssumption DEF Keys
  <2> QED
    BY <2>2
<1>2. AnyKey \in Keys
  BY <1>1 DEF AnyKey
<1>3. 0 \in 0 .. MaxPrograms
  BY ConstantsAssumption
<1> QED
  BY <1>2, <1>3 DEF EmptyProgram, ProgramType, ProgramStates, NoEntry, EntryType,
     NoCall, CallType, Steps, ArpTables

(* Truncation to 32 bits stays within the domain of mSessionProgramsMap. *)
LEMMA Truncation ==
  ASSUME NEW s \in Seids
  PROVE  s % SeidModulus \in Seid32s
BY DEF Seid32s

(* The map sizes are naturals. *)
LEMMA Sizes == MaxPrograms \in Nat /\ MaxRuleProg \in Nat \ {0}
BY ConstantsAssumption

(* The updates that the steps make to the record of a call keep its type. *)
LEMMA CallUpdates ==
  ASSUME NEW c \in CallType, NEW p \in 0 .. MaxPrograms, NEW n \in Nat,
         NEW step \in Steps
  PROVE  /\ [c EXCEPT !.pc = step] \in CallType
         /\ [c EXCEPT !.pc = "load", !.prog = p] \in CallType
         /\ [c EXCEPT !.pc = "store", !.tmp = n] \in CallType
BY DEF CallType, Steps

(* What setup, tearDown and the ARP update do to the FARProgram objects. *)
ProgramsMarked ==
  \/ programs' = programs
  \/ \E q, s : s \in ProgramStates /\ programs' = [programs EXCEPT ![q].state = s]
  \/ \E q : programs' = [programs EXCEPT ![q].arp = "filled"]

(* That leaves every program its id, its key and its FAR. *)
LEMMA MarkedKeeps ==
  ASSUME TypeOK, ProgramsMarked
  PROVE  /\ programs' \in [1 .. MaxPrograms -> ProgramType]
         /\ \A p \in 1 .. nPrograms : /\ programs'[p].id = programs[p].id
                                     /\ programs'[p].key = programs[p].key
                                     /\ programs'[p].far = programs[p].far
<1>1. programs \in [1 .. MaxPrograms -> ProgramType] /\ nPrograms \in 0 .. MaxPrograms
  BY DEF TypeOK
<1>2. \A p \in 1 .. nPrograms : p \in 1 .. MaxPrograms
  BY <1>1, Sizes
<1>3. CASE programs' = programs
  BY <1>1, <1>3
<1>4. ASSUME NEW q, NEW s, s \in ProgramStates,
             programs' = [programs EXCEPT ![q].state = s]
      PROVE  /\ programs' \in [1 .. MaxPrograms -> ProgramType]
             /\ \A p \in 1 .. MaxPrograms : /\ programs'[p].id = programs[p].id
                                           /\ programs'[p].key = programs[p].key
                                           /\ programs'[p].far = programs[p].far
  <2>1. ASSUME NEW p \in 1 .. MaxPrograms
        PROVE  /\ [programs[p] EXCEPT !.state = s] \in ProgramType
               /\ [programs[p] EXCEPT !.state = s].id = programs[p].id
               /\ [programs[p] EXCEPT !.state = s].key = programs[p].key
               /\ [programs[p] EXCEPT !.state = s].far = programs[p].far
    BY <1>1, <1>4 DEF ProgramType
  <2>2. \A p \in 1 .. MaxPrograms :
          programs'[p] = IF p = q THEN [programs[p] EXCEPT !.state = s] ELSE programs[p]
    BY <1>1, <1>4
  <2> QED
    BY <1>1, <1>4, <2>1, <2>2
<1>5. ASSUME NEW q, programs' = [programs EXCEPT ![q].arp = "filled"]
      PROVE  /\ programs' \in [1 .. MaxPrograms -> ProgramType]
             /\ \A p \in 1 .. MaxPrograms : /\ programs'[p].id = programs[p].id
                                           /\ programs'[p].key = programs[p].key
                                           /\ programs'[p].far = programs[p].far
  <2>1. ASSUME NEW p \in 1 .. MaxPrograms
        PROVE  /\ [programs[p] EXCEPT !.arp = "filled"] \in ProgramType
               /\ [programs[p] EXCEPT !.arp = "filled"].id = programs[p].id
               /\ [programs[p] EXCEPT !.arp = "filled"].key = programs[p].key
               /\ [programs[p] EXCEPT !.arp = "filled"].far = programs[p].far
    BY <1>1, <1>5 DEF ProgramType, ArpTables
  <2>2. \A p \in 1 .. MaxPrograms :
          programs'[p] = IF p = q THEN [programs[p] EXCEPT !.arp = "filled"] ELSE programs[p]
    BY <1>1, <1>5
  <2> QED
    BY <1>1, <1>5, <2>1, <2>2
<1> QED
  BY <1>2, <1>3, <1>4, <1>5 DEF ProgramsMarked

(* setup, tearDown, the ARP update and the start of a removal are such steps. *)
LEMMA MarkingSteps ==
  ASSUME NEW t \in Threads,
         \/ SetupProgram(t) \/ SetupProgramFails(t) \/ RecordPipeline(t)
         \/ UpdateArp(t) \/ \E s \in Seids : BeginRemove(t, s)
  PROVE  ProgramsMarked
<1>1. CASE SetupProgram(t)
  BY <1>1 DEF SetupProgram, ProgramsMarked, ProgramStates
<1>2. CASE RecordPipeline(t)
  BY <1>2 DEF RecordPipeline, TearDownEntry, ProgramsMarked, ProgramStates
<1>3. CASE UpdateArp(t)
  BY <1>3 DEF UpdateArp, ProgramsMarked
<1>4. ASSUME NEW s \in Seids, BeginRemove(t, s) PROVE ProgramsMarked
  BY <1>4 DEF BeginRemove, TearDownEntry, ProgramsMarked, ProgramStates
<1>5. CASE SetupProgramFails(t)
  BY <1>5 DEF SetupProgramFails, ProgramsMarked, ProgramStates
<1> QED
  BY <1>1, <1>2, <1>3, <1>4, <1>5

(* The initial state is well typed. *)
LEMMA InitTypeInv == Init => TypeInv
<1> SUFFICES ASSUME Init PROVE TypeInv
  OBVIOUS
<1>1. TypeOK
  BY Defaults, ConstantsAssumption DEF Init, TypeOK
<1>2. CallsNamed
  BY DEF Init, CallsNamed, NoCall, Building
<1> QED
  BY <1>1, <1>2 DEF TypeInv

(* Every step of a thread preserves the types. *)
LEMMA ThreadTypeInv ==
  ASSUME TypeInv, NEW t \in Threads, CreateStep(t) \/ RemoveStep(t)
  PROVE  TypeInv'
<1> USE Defaults, Sizes DEF TypeInv, TypeOK, CallsNamed, Building
<1>1. ASSUME NEW r \in Requests, BeginCreate(t, r) PROVE TypeInv'
  <2>1. PICK pdr \in HighestPdrs(r), pad \in PadValues :
          /\ Deployable(r, pdr)
          /\ call' = [call EXCEPT ![t] =
               [pc |-> "construct", seid |-> r.seid,
                key |-> [flow |-> pdr.flow, pad |-> pad], far |-> pdr.far,
                arp |-> r.arp, prog |-> 0, tmp |-> 0]]
    BY <1>1 DEF BeginCreate
  <2>2. r \in RequestType
    BY ConstantsAssumption
  <2>3. /\ [flow |-> pdr.flow, pad |-> pad] \in Keys
        /\ pdr.far \in Fars /\ r.seid \in Seids /\ r.arp \in ArpTables
    BY <2>1, <2>2 DEF Deployable, RequestType, Keys
  <2>4. [pc |-> "construct", seid |-> r.seid,
         key |-> [flow |-> pdr.flow, pad |-> pad], far |-> pdr.far,
         arp |-> r.arp, prog |-> 0, tmp |-> 0] \in CallType
    BY <2>3 DEF CallType, Steps
  <2>5. call' \in [Threads -> CallType]
    BY <2>1, <2>4
  <2>6. CallsNamed'
    BY <1>1, <2>1, <2>3 DEF BeginCreate
  <2> QED
    BY <1>1, <2>5, <2>6 DEF BeginCreate, kernelMaps, tables
<1>2. CASE Construct(t)
  <2>1. nPrograms + 1 \in 1 .. MaxPrograms
    BY <1>2 DEF Construct
  <2>2. [id |-> sIdCounter, seid |-> call[t].seid, key |-> call[t].key,
         far |-> NoFar, arp |-> "empty", state |-> "constructed"] \in ProgramType
    BY <1>2 DEF Construct, CallType, ProgramType, ProgramStates, ArpTables
  <2>0. [call[t] EXCEPT !.pc = "load", !.prog = nPrograms + 1] \in CallType
    <3>1. call[t] \in CallType /\ nPrograms + 1 \in 0 .. MaxPrograms /\ "load" \in Steps
      BY <2>1 DEF Steps
    <3> QED
      BY <3>1, CallUpdates
  <2>5. call' \in [Threads -> CallType]
    BY <1>2, <2>0 DEF Construct
  <2>6. programs' \in [1 .. MaxPrograms -> ProgramType]
    BY <1>2, <2>1, <2>2 DEF Construct
  <2>3. TypeOK'
    BY <1>2, <2>1, <2>5, <2>6 DEF Construct, kernelMaps, tables
  <2>7. /\ call'[t].pc = "load" /\ call'[t].seid = call[t].seid
        /\ call'[t].prog = nPrograms' /\ call[t].pc # "idle"
        /\ nPrograms' = nPrograms + 1
        /\ \A u \in Threads : u # t => call'[u] = call[u]
    BY <1>2, <2>1 DEF Construct, CallType
  <2>8. ASSUME NEW u \in Threads
        PROVE  /\ call'[u].pc # "idle" => call'[u].seid \in Seids
               /\ call'[u].pc \in Building => call'[u].prog \in 1 .. nPrograms'
    <3>1. CASE u = t
      BY <2>1, <2>7, <3>1
    <3>2. CASE u # t
      BY <2>1, <2>7, <3>2
    <3> QED
      BY <3>1, <3>2
  <2>4. CallsNamed'
    BY <2>8, Zenon DEF CallsNamed
  <2> QED
    BY <2>3, <2>4
<1>3. CASE LoadCounter(t)
  <2>1. [call[t] EXCEPT !.pc = "store", !.tmp = sIdCounter] \in CallType
    BY CallUpdates DEF Steps
  <2>2. call' \in [Threads -> CallType]
    BY <1>3, <2>1 DEF LoadCounter
  <2> QED
    BY <1>3, <2>2 DEF LoadCounter, kernelMaps, tables
<1>4. CASE StoreCounter(t)
  <2>1. call' \in [Threads -> CallType]
    BY <1>4, CallUpdates DEF StoreCounter, Goto, Steps
  <2>2. sIdCounter' \in Nat
    BY <1>4 DEF StoreCounter, CallType
  <2> QED
    BY SMTT(60), <1>4, <2>1, <2>2 DEF StoreCounter, Goto, kernelMaps, tables
<1>5. CASE SetupProgram(t)
  <2>1. programs' \in [1 .. MaxPrograms -> ProgramType]
    BY <1>5, MarkingSteps, MarkedKeeps
  <2>2. call' \in [Threads -> CallType]
    BY <1>5 DEF SetupProgram, Goto, CallType, Steps
  <2> QED
    BY <1>5, <2>1, <2>2 DEF SetupProgram, Goto, kernelMaps, tables
<1>6. CASE \/ SetupProgramFails(t) \/ UpdateIndexFails(t) \/ UpdateProgFails(t)
  <2>1. /\ Return(t)
        /\ UNCHANGED <<upf, sIdCounter, nPrograms, ruleIndex, ruleProg,
                        sessionPrograms, seidToSession>>
    BY <1>6 DEF SetupProgramFails, UpdateIndexFails, UpdateProgFails, kernelMaps, tables
  <2>2. programs' \in [1 .. MaxPrograms -> ProgramType]
    BY <1>6, MarkingSteps, MarkedKeeps DEF UpdateIndexFails, UpdateProgFails
  <2> QED
    BY <2>1, <2>2 DEF Return, NoCall
<1>7. CASE UpdateIndex(t)
  <2>1. Id(t) \in Nat
    BY <1>7 DEF UpdateIndex, Id, ProgramType
  <2> QED
    BY <1>7, <2>1 DEF UpdateIndex, Goto, CallType, Steps, tables
<1>8. CASE UpdateProg(t)
  BY <1>8 DEF UpdateProg, Goto, CallType, Steps, tables
<1>9. CASE UpdateFar(t)
  <2>1. programs' \in [1 .. MaxPrograms -> ProgramType]
    <3>1. call[t].far \in Fars \cup {NoFar}
      BY DEF CallType
    <3>2. ASSUME NEW p \in 1 .. MaxPrograms
          PROVE  [programs[p] EXCEPT !.far = call[t].far] \in ProgramType
      BY <3>1 DEF ProgramType
    <3> QED
      BY <1>9, <3>2 DEF UpdateFar
  <2>2. call' \in [Threads -> CallType]
    BY <1>9 DEF UpdateFar, Goto, CallType, Steps
  <2> QED
    BY <1>9, <2>1, <2>2 DEF UpdateFar, Goto, kernelMaps, tables
<1>10. CASE RecordPipeline(t)
  <2>1. programs' \in [1 .. MaxPrograms -> ProgramType]
    BY <1>10, MarkingSteps, MarkedKeeps
  <2>2. [key |-> call[t].key, prog |-> call[t].prog] \in EntryType
    BY DEF CallType, EntryType
  <2>3. sessionPrograms' \in [Seid32s -> EntryType]
    BY <1>10, <2>2 DEF RecordPipeline
  <2>4. call' \in [Threads -> CallType]
    BY ZenonT(60), <1>10 DEF RecordPipeline, Goto, CallType, Steps
  <2> QED
    BY <1>10, <2>1, <2>3, <2>4 DEF RecordPipeline, Goto, kernelMaps
<1>11. CASE RecordPipelineLost(t)
  BY <1>11 DEF RecordPipelineLost, Goto, CallType, Steps, kernelMaps, tables
<1>12. CASE PublishSession(t)
  BY <1>12 DEF PublishSession, Goto, CallType, Steps, kernelMaps
<1>13. CASE UpdateArp(t)
  <2>1. programs' \in [1 .. MaxPrograms -> ProgramType]
    BY <1>13, MarkingSteps, MarkedKeeps
  <2> QED
    BY <1>13, <2>1 DEF UpdateArp, Return, NoCall, kernelMaps, tables
<1>14. ASSUME NEW s \in Seids, BeginRemove(t, s) PROVE TypeInv'
  <2>1. programs' \in [1 .. MaxPrograms -> ProgramType]
    BY <1>14, MarkingSteps, MarkedKeeps
  <2>2. sessionPrograms[s % SeidModulus].key \in Keys
    BY Truncation DEF EntryType
  <2>3. [NoCall EXCEPT !.pc = "unindex", !.seid = s,
           !.key = sessionPrograms[s % SeidModulus].key] \in CallType
    BY <2>2 DEF CallType, Steps
  <2>4. CallsNamed'
    BY <1>14 DEF BeginRemove, NoCall
  <2> QED
    BY <1>14, <2>1, <2>3, <2>4 DEF BeginRemove, kernelMaps
<1>15. CASE RemoveIndex(t)
  BY <1>15 DEF RemoveIndex, Return, NoCall, tables
<1>16. CASE UpdateArpFaults(t)
  BY <1>16 DEF UpdateArpFaults, Goto, CallType, Steps, kernelMaps, tables
<1> QED
  BY <1>1, <1>2, <1>3, <1>4, <1>5, <1>6, <1>7, <1>8, <1>9, <1>10, <1>11, <1>12,
     <1>13, <1>14, <1>15, <1>16 DEF CreateStep, RemoveStep

(* Every step keeps types. *)
LEMMA NextTypeInv == TypeInv /\ [Next]_vars => TypeInv'
<1> SUFFICES ASSUME TypeInv, [Next]_vars PROVE TypeInv'
  OBVIOUS
<1> USE DEF TypeInv, TypeOK, CallsNamed
<1>1. ASSUME NEW t \in Threads, CreateStep(t) \/ RemoveStep(t) PROVE TypeInv'
  BY <1>1, ThreadTypeInv
<1>2. CASE TearDown
  BY <1>2, ConstantsAssumption DEF TearDown, tables
<1>3. CASE Setup
  BY <1>3 DEF Setup, kernelMaps
<1>4. CASE UNCHANGED vars
  BY <1>4 DEF vars, Building
<1> QED
  BY <1>1, <1>2, <1>3, <1>4 DEF Next

(* Every reachable state is well typed: ids, slots, entries and calls in
   progress stay within their maps, however the callers interleave. *)
THEOREM TypeCorrect == Spec => []TypeOK
<1>1. TypeInv => TypeOK
  BY DEF TypeInv
<1> QED
  BY InitTypeInv, NextTypeInv, <1>1, PTL DEF Spec

-----------------------------------------------------------------------------
(***************************************************************************)
(* One caller at a time.  The inductive invariant: the n-th program has id *)
(* n; a slot holds the program of that id; an index entry leads to a       *)
(* program constructed for its key; a program holds no FAR but one         *)
(* requested for its flow.  Each part needs the others: a slot may be      *)
(* overwritten only if ids are not fresh, an entry lead astray only if     *)
(* slots are.                                                              *)
(***************************************************************************)
CreateSteps == Building \cup {"construct"}

Active(t) == call[t].pc # "idle"

OneCall == \A t, u \in Threads : Active(t) /\ Active(u) => t = u

FreshIds ==
  /\ \A p \in 1 .. nPrograms : programs[p].id = p
  /\ (\A t \in Threads : call[t].pc \notin {"load", "store"}) => sIdCounter = nPrograms + 1
  /\ \A t \in Threads :
       /\ call[t].pc \in {"load", "store"} => sIdCounter = nPrograms
       /\ call[t].pc = "store" => call[t].tmp = nPrograms
       /\ call[t].pc \in Building => call[t].prog = nPrograms

SlotsSound ==
  \A i \in 0 .. MaxRuleProg - 1 :
    ruleProg[i] # 0 => ruleProg[i] = i /\ i <= nPrograms

IndexSound ==
  \A k \in Keys : ruleIndex[k] # 0 =>
    ruleIndex[k] \in 1 .. nPrograms /\ programs[ruleIndex[k]].key = k

FarsRequested ==
  \A p \in 1 .. nPrograms :
    programs[p].far # NoFar => Requested(programs[p].key.flow, programs[p].far)

CallsRequested ==
  \A t \in Threads :
    /\ call[t].pc \in CreateSteps => Requested(call[t].key.flow, call[t].far)
    /\ call[t].pc \in Building => programs[call[t].prog].key = call[t].key

(* How far the pipeline of the call in progress has been built. *)
CallProgress ==
  \A t \in Threads :
    /\ call[t].pc \in {"load", "store", "setup", "index", "prog", "far"} =>
         programs[call[t].prog].far = NoFar
    /\ call[t].pc \in {"load", "store", "setup", "index"} =>
         \A k \in Keys : ruleIndex[k] # call[t].prog
    /\ call[t].pc \in {"load", "store", "setup", "index", "prog"} =>
         \A i \in 0 .. MaxRuleProg - 1 : ruleProg[i] # call[t].prog
    /\ call[t].pc \in {"prog", "far", "record", "publish"} =>
         ruleIndex[call[t].key] = call[t].prog
    /\ call[t].pc \in {"far", "record", "publish"} =>
         call[t].prog < MaxRuleProg /\ ruleProg[call[t].prog] = call[t].prog
    /\ call[t].pc \in {"record", "publish"} =>
         programs[call[t].prog].far = call[t].far

(* A program in a slot lacks its FAR only while its call is about to store it. *)
SlotsFilled ==
  \A i \in 0 .. MaxRuleProg - 1 :
    ruleProg[i] # 0 /\ programs[ruleProg[i]].far = NoFar =>
      \E t \in Threads : call[t].pc = "far" /\ call[t].prog = ruleProg[i]

SerialInv ==
  /\ TypeInv
  /\ OneCall
  /\ FreshIds
  /\ SlotsSound
  /\ IndexSound
  /\ FarsRequested
  /\ CallsRequested
  /\ CallProgress
  /\ SlotsFilled

(* A requested FAR is a FAR. *)
LEMMA RequestedIsFar ==
  ASSUME NEW f, NEW far, Requested(f, far)
  PROVE  far \in Fars /\ far # NoFar
BY ConstantsAssumption DEF Requested, Deployable, RequestType

(* One caller at a time: while thread t takes a step every other thread is idle
   and stays so. *)
LEMMA OthersIdle ==
  ASSUME ~HttpServer, TypeInv, OneCall, NEW t \in Threads, CreateStep(t) \/ RemoveStep(t)
  PROVE  /\ \A u \in Threads \ {t} : call[u].pc = "idle" /\ call'[u] = call[u]
         /\ OneCall'
<1>1. \A u \in Threads \ {t} : call'[u] = call[u]
  BY DEF TypeInv, TypeOK, CreateStep, RemoveStep, BeginCreate, Construct, LoadCounter,
     StoreCounter, SetupProgram, SetupProgramFails, UpdateIndex, UpdateIndexFails,
     UpdateProg, UpdateProgFails, UpdateFar, RecordPipeline, RecordPipelineLost,
     PublishSession, UpdateArp, UpdateArpFaults, BeginRemove, RemoveIndex, Goto, Return
<1>2. Active(t) \/ AllIdle
  BY DEF Active, CreateStep, RemoveStep, BeginCreate, Construct, LoadCounter,
     StoreCounter, SetupProgram, SetupProgramFails, UpdateIndex, UpdateIndexFails,
     UpdateProg, UpdateProgFails, UpdateFar, RecordPipeline, RecordPipelineLost,
     PublishSession, UpdateArp, UpdateArpFaults, BeginRemove, RemoveIndex, MayCall
<1>3. \A u \in Threads \ {t} : call[u].pc = "idle"
  BY <1>2 DEF OneCall, Active, AllIdle
<1>4. OneCall'
  BY <1>1, <1>3 DEF OneCall, Active
<1> QED
  BY <1>1, <1>3, <1>4

(* The initial state satisfies SerialInv. *)
LEMMA InitSerialInv == Init => SerialInv
<1> SUFFICES ASSUME Init PROVE SerialInv
  OBVIOUS
<1>1. OneCall /\ FreshIds /\ SlotsSound /\ IndexSound /\ FarsRequested
  BY Sizes DEF Init, OneCall, Active, FreshIds, SlotsSound, IndexSound, FarsRequested,
     NoCall, Building
<1>2. CallsRequested /\ CallProgress /\ SlotsFilled
  BY Sizes DEF Init, CallsRequested, CallProgress, SlotsFilled, NoCall, Building, CreateSteps
<1> QED
  BY <1>1, <1>2, InitTypeInv DEF SerialInv

(* Every step of the one thread in a call preserves the invariant. *)
LEMMA ThreadSerialInv ==
  ASSUME ~HttpServer, SerialInv, NEW t \in Threads, CreateStep(t) \/ RemoveStep(t)
  PROVE  SerialInv'
<1>1. TypeInv' /\ OneCall'
  BY ThreadTypeInv, OthersIdle DEF SerialInv
<1>2. \A u \in Threads \ {t} : call[u].pc = "idle" /\ call'[u] = call[u]
  BY OthersIdle DEF SerialInv
<1>3. TypeInv /\ TypeOK /\ TypeOK' /\ CallsNamed
  BY <1>1 DEF SerialInv, TypeInv
<1> DEFINE Rest == FreshIds /\ SlotsSound /\ IndexSound /\ FarsRequested
                   /\ CallsRequested /\ CallProgress /\ SlotsFilled
<1> SUFFICES Rest'
  BY <1>1 DEF SerialInv
<1> USE <1>2, <1>3, Sizes
<1>16. \A i \in 0 .. MaxRuleProg - 1 : ruleProg[i] # 0 => ruleProg[i] \in 1 .. nPrograms
  BY DEF SerialInv, SlotsSound, TypeOK
<1>17. call[t].pc # "far" =>
         \A i \in 0 .. MaxRuleProg - 1 : ruleProg[i] # 0 => programs[ruleProg[i]].far # NoFar
  BY DEF SerialInv, SlotsFilled
<1>4. ASSUME NEW r \in Requests, BeginCreate(t, r) PROVE Rest'
  <2>1. PICK pdr \in HighestPdrs(r), pad \in PadValues :
          /\ Deployable(r, pdr)
          /\ call' = [call EXCEPT ![t] =
               [pc |-> "construct", seid |-> r.seid,
                key |-> [flow |-> pdr.flow, pad |-> pad], far |-> pdr.far,
                arp |-> r.arp, prog |-> 0, tmp |-> 0]]
    BY <1>4 DEF BeginCreate
  <2>2. /\ call'[t].pc = "construct" /\ call'[t].key.flow = pdr.flow
        /\ call'[t].far = pdr.far
    BY <2>1 DEF TypeOK
  <2>3. Requested(call'[t].key.flow, call'[t].far)
    BY <2>1, <2>2 DEF Requested
  <2>4. call[t].pc = "idle"
    BY <1>4 DEF BeginCreate, MayCall
  <2>5. UNCHANGED <<sIdCounter, nPrograms, programs, ruleIndex, ruleProg>>
    BY <1>4 DEF BeginCreate, kernelMaps
  <2>6. FreshIds' /\ SlotsSound' /\ IndexSound' /\ FarsRequested'
    BY <2>2, <2>4, <2>5 DEF SerialInv, FreshIds, SlotsSound, IndexSound, FarsRequested, Building
  <2>7. CallsRequested' /\ CallProgress' /\ SlotsFilled'
    BY <2>2, <2>3, <2>4, <2>5 DEF SerialInv, CallsRequested, CallProgress, SlotsFilled,
       Building, CreateSteps
  <2> QED
    BY <2>6, <2>7
<1>5. CASE Construct(t)
  <2> DEFINE n == nPrograms + 1
  <2>1. /\ call[t].pc = "construct" /\ n \in 1 .. MaxPrograms /\ nPrograms' = n
        /\ call'[t].pc = "load" /\ call'[t].prog = n
        /\ call'[t].key = call[t].key /\ call'[t].far = call[t].far
        /\ UNCHANGED <<sIdCounter, ruleIndex, ruleProg>>
    BY <1>5 DEF Construct, TypeOK, CallType, kernelMaps
  <2>2. /\ programs'[n].id = sIdCounter /\ programs'[n].far = NoFar
        /\ programs'[n].key = call[t].key
        /\ \A p \in 1 .. nPrograms : programs'[p] = programs[p]
    BY <1>5, <2>1 DEF Construct, TypeOK
  <2>3. sIdCounter = n
    BY <2>1 DEF SerialInv, FreshIds
  <2>4. FreshIds'
    <3>1. \A p \in 1 .. n : programs'[p].id = p
      BY <2>1, <2>2, <2>3 DEF SerialInv, FreshIds, TypeOK
    <3> QED
      BY <2>1, <2>3, <3>1 DEF FreshIds, Building
  <2>5. SlotsSound' /\ IndexSound' /\ FarsRequested'
    BY <2>1, <2>2 DEF SerialInv, SlotsSound, IndexSound, FarsRequested, TypeOK
  <2>6. CallsRequested'
    BY <2>1, <2>2 DEF SerialInv, CallsRequested, Building, CreateSteps
  <2>7. CallProgress'
    <3>0. \A k \in Keys : ruleIndex[k] # 0 => ruleIndex[k] \in 1 .. nPrograms
      BY DEF SerialInv, IndexSound
    <3>1. \A k \in Keys : ruleIndex'[k] # n
      <4>1. nPrograms \in Nat
        BY DEF TypeOK
      <4>2. ruleIndex' = ruleIndex
        BY <2>1
      <4> QED
        BY <3>0, <4>1, <4>2
    <3>2. \A i \in 0 .. MaxRuleProg - 1 : ruleProg'[i] # n
      BY SMTT(60), <2>1, <1>16 DEF TypeOK
    <3> QED
      BY <2>1, <2>2, <3>1, <3>2 DEF CallProgress
  <2>8. SlotsFilled'
    BY <2>1, <2>2, <1>16, <1>17 DEF SlotsFilled
  <2> QED
    BY <2>4, <2>5, <2>6, <2>7, <2>8
<1>6. CASE LoadCounter(t) \/ StoreCounter(t)
  <2>1. /\ call[t].pc \in {"load", "store"} /\ call'[t].pc \in {"store", "setup"}
        /\ call'[t].prog = call[t].prog /\ call'[t].key = call[t].key
        /\ call'[t].far = call[t].far
        /\ UNCHANGED <<nPrograms, programs, ruleIndex, ruleProg>>
    <3>1. CASE LoadCounter(t)
      BY <3>1 DEF LoadCounter, TypeOK, CallType, kernelMaps
    <3>2. CASE StoreCounter(t)
      BY <3>2 DEF StoreCounter, Goto, TypeOK, CallType, kernelMaps
    <3> QED
      BY <1>6, <3>1, <3>2
  <2>2. FreshIds'
    <3>1. CASE LoadCounter(t)
      BY SMTT(60), <2>1, <3>1 DEF LoadCounter, SerialInv, FreshIds, TypeOK, CallType, Building
    <3>2. CASE StoreCounter(t)
      BY SMTT(60), <2>1, <3>2 DEF StoreCounter, Goto, SerialInv, FreshIds, TypeOK, CallType, Building
    <3> QED
      BY <1>6, <3>1, <3>2
  <2>3. SlotsSound' /\ IndexSound' /\ FarsRequested' /\ SlotsFilled'
    BY <2>1 DEF SerialInv, SlotsSound, IndexSound, FarsRequested, SlotsFilled
  <2>4. CallsRequested' /\ CallProgress'
    BY <2>1 DEF SerialInv, CallsRequested, CallProgress, Building, CreateSteps
  <2> QED
    BY <2>2, <2>3, <2>4
<1>7. CASE SetupProgram(t)
  <2>1. /\ call[t].pc = "setup" /\ call'[t].pc = "index"
        /\ call'[t].prog = call[t].prog /\ call'[t].key = call[t].key
        /\ call'[t].far = call[t].far
        /\ UNCHANGED <<sIdCounter, nPrograms, ruleIndex, ruleProg>>
    BY <1>7 DEF SetupProgram, Goto, TypeOK, CallType, kernelMaps
  <2>2. \A p \in 1 .. nPrograms : /\ programs'[p].id = programs[p].id
                                  /\ programs'[p].key = programs[p].key
                                  /\ programs'[p].far = programs[p].far
    BY <1>7, MarkingSteps, MarkedKeeps
  <2>3. call[t].prog \in 1 .. nPrograms
    BY <2>1 DEF CallsNamed, Building
  <2>4. FreshIds' /\ SlotsSound' /\ IndexSound' /\ FarsRequested'
    BY <2>1, <2>2 DEF SerialInv, FreshIds, SlotsSound, IndexSound, FarsRequested, Building
  <2>5. CallsRequested' /\ CallProgress'
    BY <2>1, <2>2, <2>3 DEF SerialInv, CallsRequested, CallProgress, Building, CreateSteps
  <2>6. SlotsFilled'
    BY <2>1, <2>2, <1>16, <1>17 DEF SlotsFilled
  <2> QED
    BY <2>4, <2>5, <2>6
<1>8. CASE SetupProgramFails(t) \/ UpdateIndexFails(t) \/ UpdateProgFails(t)
  <2>1. /\ call[t].pc \in {"setup", "index", "prog"} /\ call'[t].pc = "idle"
        /\ UNCHANGED <<sIdCounter, nPrograms, ruleIndex, ruleProg>>
    BY <1>8 DEF SetupProgramFails, UpdateIndexFails, UpdateProgFails, Return, NoCall,
       TypeOK, kernelMaps
  <2>2. \A p \in 1 .. nPrograms : /\ programs'[p].id = programs[p].id
                                  /\ programs'[p].key = programs[p].key
                                  /\ programs'[p].far = programs[p].far
    BY <1>8, MarkingSteps, MarkedKeeps DEF UpdateIndexFails, UpdateProgFails
  <2>3. FreshIds' /\ SlotsSound' /\ IndexSound' /\ FarsRequested'
    BY <2>1, <2>2 DEF SerialInv, FreshIds, SlotsSound, IndexSound, FarsRequested, Building
  <2>4. CallsRequested' /\ CallProgress'
    BY <2>1 DEF CallsRequested, CallProgress, Building, CreateSteps
  <2>5. SlotsFilled'
    BY <2>1, <2>2, <1>16, <1>17 DEF SlotsFilled
  <2> QED
    BY <2>3, <2>4, <2>5
<1>9. CASE UpdateIndex(t)
  <2>1. /\ call[t].pc = "index" /\ call'[t].pc = "prog"
        /\ call'[t].prog = call[t].prog /\ call'[t].key = call[t].key
        /\ call'[t].far = call[t].far /\ call[t].key \in Keys
        /\ UNCHANGED <<sIdCounter, nPrograms, programs, ruleProg>>
    BY <1>9 DEF UpdateIndex, Goto, TypeOK, CallType
  <2>2. call[t].prog \in 1 .. nPrograms /\ Id(t) = call[t].prog
    BY <2>1 DEF CallsNamed, Building, Id, SerialInv, FreshIds
  <2>3. /\ ruleIndex'[call[t].key] = call[t].prog
        /\ \A k \in Keys \ {call[t].key} : ruleIndex'[k] = ruleIndex[k]
    BY <1>9, <2>1, <2>2 DEF UpdateIndex, TypeOK
  <2>4. FreshIds' /\ SlotsSound' /\ FarsRequested' /\ SlotsFilled'
    BY <2>1 DEF SerialInv, FreshIds, SlotsSound, FarsRequested, SlotsFilled, Building
  <2>5. IndexSound'
    BY <2>1, <2>2, <2>3 DEF SerialInv, IndexSound, CallsRequested, Building
  <2>6. CallsRequested' /\ CallProgress'
    BY <2>1, <2>3 DEF SerialInv, CallsRequested, CallProgress, Building, CreateSteps
  <2> QED
    BY <2>4, <2>5, <2>6
<1>10. CASE UpdateProg(t)
  <2>1. /\ call[t].pc = "prog" /\ call'[t].pc = "far"
        /\ call'[t].prog = call[t].prog /\ call'[t].key = call[t].key
        /\ call'[t].far = call[t].far
        /\ UNCHANGED <<sIdCounter, nPrograms, programs, ruleIndex>>
    BY <1>10 DEF UpdateProg, Goto, TypeOK, CallType
  <2>2. call[t].prog \in 1 .. nPrograms /\ Id(t) = call[t].prog
    BY <2>1 DEF CallsNamed, Building, Id, SerialInv, FreshIds
  <2>3. /\ call[t].prog \in 0 .. MaxRuleProg - 1
        /\ ruleProg'[call[t].prog] = call[t].prog
        /\ \A i \in 0 .. MaxRuleProg - 1 :
             i # call[t].prog => ruleProg'[i] = ruleProg[i]
    BY <1>10, <2>2 DEF UpdateProg, TypeOK
  <2>4. FreshIds' /\ IndexSound' /\ FarsRequested' /\ CallsRequested'
    BY <2>1 DEF SerialInv, FreshIds, IndexSound, FarsRequested, CallsRequested, Building,
       CreateSteps
  <2>5. SlotsSound'
    BY SMTT(60), <2>1, <2>2, <2>3 DEF SerialInv, SlotsSound, TypeOK
  <2>6. CallProgress'
    BY <2>1, <2>2, <2>3 DEF SerialInv, CallProgress
  <2>7. SlotsFilled'
    BY <2>1, <2>2, <2>3 DEF SerialInv, SlotsFilled
  <2> QED
    BY <2>4, <2>5, <2>6, <2>7
<1>11. CASE UpdateFar(t)
  <2>1. /\ call[t].pc = "far" /\ call'[t].pc = "record"
        /\ call'[t].prog = call[t].prog /\ call'[t].key = call[t].key
        /\ call'[t].far = call[t].far
        /\ UNCHANGED <<sIdCounter, nPrograms, ruleIndex, ruleProg>>
    BY <1>11 DEF UpdateFar, Goto, TypeOK, CallType, kernelMaps
  <2>2. call[t].prog \in 1 .. nPrograms
    BY <2>1 DEF CallsNamed, Building
  <2>3. /\ \A p \in 1 .. nPrograms : /\ programs'[p].id = programs[p].id
                                     /\ programs'[p].key = programs[p].key
                                     /\ p # call[t].prog => programs'[p].far = programs[p].far
        /\ programs'[call[t].prog].far = call[t].far
    BY SMTT(60), <1>11, <2>2 DEF UpdateFar, TypeOK, ProgramType
  <2>4. FreshIds' /\ SlotsSound' /\ IndexSound'
    BY <2>1, <2>3 DEF SerialInv, FreshIds, SlotsSound, IndexSound, Building
  <2>5. FarsRequested'
    BY <2>1, <2>2, <2>3 DEF SerialInv, FarsRequested, CallsRequested, CreateSteps, Building
  <2>6. CallsRequested' /\ CallProgress'
    BY <2>1, <2>2, <2>3 DEF SerialInv, CallsRequested, CallProgress, Building, CreateSteps
  <2>7. SlotsFilled'
    <3>1. call[t].far # NoFar
      BY <2>1, RequestedIsFar DEF SerialInv, CallsRequested, CreateSteps, Building
    <3> QED
      BY <2>1, <2>2, <2>3, <3>1, <1>16 DEF SerialInv, SlotsFilled
  <2> QED
    BY <2>4, <2>5, <2>6, <2>7
<1>12. CASE RecordPipeline(t) \/ RecordPipelineLost(t) \/ PublishSession(t)
  <2>1. /\ call[t].pc \in {"record", "publish"}
        /\ call'[t].pc \in {"publish", "arp"}
        /\ call'[t].prog = call[t].prog /\ call'[t].key = call[t].key
        /\ call'[t].far = call[t].far
        /\ UNCHANGED <<sIdCounter, nPrograms, ruleIndex, ruleProg>>
    BY SMTT(60), <1>12 DEF RecordPipeline, RecordPipelineLost, PublishSession, Goto, TypeOK,
       CallType, kernelMaps
  <2>2. \A p \in 1 .. nPrograms : /\ programs'[p].id = programs[p].id
                                  /\ programs'[p].key = programs[p].key
                                  /\ programs'[p].far = programs[p].far
    <3>1. CASE RecordPipeline(t)
      BY <3>1, MarkingSteps, MarkedKeeps
    <3>2. CASE RecordPipelineLost(t) \/ PublishSession(t)
      BY <3>2 DEF RecordPipelineLost, PublishSession
    <3> QED
      BY <1>12, <3>1, <3>2
  <2>3. call[t].prog \in 1 .. nPrograms
    BY <2>1 DEF CallsNamed, Building
  <2>4. FreshIds' /\ SlotsSound' /\ IndexSound' /\ FarsRequested'
    BY <2>1, <2>2 DEF SerialInv, FreshIds, SlotsSound, IndexSound, FarsRequested, Building
  <2>5. CallsRequested' /\ CallProgress'
    BY <2>1, <2>2, <2>3 DEF SerialInv, CallsRequested, CallProgress, Building, CreateSteps
  <2>6. SlotsFilled'
    BY <2>1, <2>2, <1>16, <1>17 DEF SlotsFilled
  <2> QED
    BY <2>4, <2>5, <2>6
<1>13. CASE UpdateArp(t)
  <2>1. /\ call[t].pc = "arp" /\ call'[t].pc = "idle"
        /\ UNCHANGED <<sIdCounter, nPrograms, ruleIndex, ruleProg>>
    BY <1>13 DEF UpdateArp, Return, NoCall, TypeOK, kernelMaps
  <2>2. \A p \in 1 .. nPrograms : /\ programs'[p].id = programs[p].id
                                  /\ programs'[p].key = programs[p].key
                                  /\ programs'[p].far = programs[p].far
    BY <1>13, MarkingSteps, MarkedKeeps
  <2>3. FreshIds' /\ SlotsSound' /\ IndexSound' /\ FarsRequested'
    BY <2>1, <2>2 DEF SerialInv, FreshIds, SlotsSound, IndexSound, FarsRequested, Building
  <2>4. CallsRequested' /\ CallProgress'
    BY <2>1 DEF CallsRequested, CallProgress, Building, CreateSteps
  <2>5. SlotsFilled'
    BY <2>1, <2>2, <1>16, <1>17 DEF SlotsFilled
  <2> QED
    BY <2>3, <2>4, <2>5
<1>14. ASSUME NEW s \in Seids, BeginRemove(t, s) PROVE Rest'
  <2>1. /\ call[t].pc = "idle" /\ call'[t].pc = "unindex"
        /\ UNCHANGED <<sIdCounter, nPrograms, ruleIndex, ruleProg>>
    BY <1>14 DEF BeginRemove, MayCall, NoCall, TypeOK, kernelMaps
  <2>2. \A p \in 1 .. nPrograms : /\ programs'[p].id = programs[p].id
                                  /\ programs'[p].key = programs[p].key
                                  /\ programs'[p].far = programs[p].far
    BY <1>14, MarkingSteps, MarkedKeeps
  <2>3. FreshIds' /\ SlotsSound' /\ IndexSound' /\ FarsRequested'
    BY <2>1, <2>2 DEF SerialInv, FreshIds, SlotsSound, IndexSound, FarsRequested, Building
  <2>4. CallsRequested' /\ CallProgress'
    BY <2>1 DEF CallsRequested, CallProgress, Building, CreateSteps
  <2>5. SlotsFilled'
    BY <2>1, <2>2, <1>16, <1>17 DEF SlotsFilled
  <2> QED
    BY <2>3, <2>4, <2>5
<1>15. CASE RemoveIndex(t)
  <2>1. /\ call[t].pc = "unindex" /\ call'[t].pc = "idle"
        /\ UNCHANGED <<sIdCounter, nPrograms, programs, ruleProg>>
    BY <1>15 DEF RemoveIndex, Return, NoCall, TypeOK
  <2>2. \A k \in Keys : ruleIndex'[k] \in {0, ruleIndex[k]}
    BY <1>15 DEF RemoveIndex, TypeOK
  <2>3. FreshIds' /\ SlotsSound' /\ IndexSound' /\ FarsRequested'
    BY <2>1, <2>2 DEF SerialInv, FreshIds, SlotsSound, IndexSound, FarsRequested, Building
  <2>4. CallsRequested' /\ CallProgress' /\ SlotsFilled'
    BY <2>1 DEF SerialInv, CallsRequested, CallProgress, SlotsFilled, Building, CreateSteps
  <2> QED
    BY <2>3, <2>4
<1>18. CASE UpdateArpFaults(t)
  <2>1. /\ call[t].pc = "arp" /\ call'[t].pc = "faulted"
        /\ UNCHANGED <<sIdCounter, nPrograms, programs, ruleIndex, ruleProg>>
    BY <1>18 DEF UpdateArpFaults, Goto, TypeOK, CallType, kernelMaps
  <2>2. FreshIds' /\ SlotsSound' /\ IndexSound' /\ FarsRequested'
    BY <2>1 DEF SerialInv, FreshIds, SlotsSound, IndexSound, FarsRequested, Building
  <2>3. CallsRequested' /\ CallProgress' /\ SlotsFilled'
    BY <2>1 DEF SerialInv, CallsRequested, CallProgress, SlotsFilled, Building, CreateSteps
  <2> QED
    BY <2>2, <2>3
<1> QED
  BY <1>4, <1>5, <1>6, <1>7, <1>8, <1>9, <1>10, <1>11, <1>12, <1>13, <1>14, <1>15, <1>18
     DEF CreateStep, RemoveStep

(* Every step keeps SerialInv. *)
LEMMA NextSerialInv ==
  ASSUME ~HttpServer
  PROVE  SerialInv /\ [Next]_vars => SerialInv'
<1> SUFFICES ASSUME SerialInv, [Next]_vars PROVE SerialInv'
  OBVIOUS
<1>1. ASSUME NEW t \in Threads, CreateStep(t) \/ RemoveStep(t) PROVE SerialInv'
  BY <1>1, ThreadSerialInv
<1>2. TypeInv'
  BY NextTypeInv DEF SerialInv
<1>3. CASE TearDown
  <2>1. /\ \A t \in Threads : call[t].pc = "idle"
        /\ UNCHANGED <<sIdCounter, nPrograms, programs, call>>
        /\ \A k \in Keys : ruleIndex'[k] = 0
        /\ \A i \in 0 .. MaxRuleProg - 1 : ruleProg'[i] = 0
    BY <1>3, Sizes DEF TearDown, AllIdle
  <2> QED
    BY <1>2, <2>1 DEF SerialInv, OneCall, Active, FreshIds, SlotsSound, IndexSound,
       FarsRequested, CallsRequested, CallProgress, SlotsFilled, Building, CreateSteps
<1>4. CASE Setup \/ UNCHANGED vars
  <2>1. UNCHANGED <<sIdCounter, nPrograms, programs, call, ruleIndex, ruleProg>>
    BY <1>4 DEF Setup, vars, kernelMaps
  <2> QED
    BY <1>2, <2>1 DEF SerialInv, OneCall, Active, FreshIds, SlotsSound, IndexSound,
       FarsRequested, CallsRequested, CallProgress, SlotsFilled
<1> QED
  BY <1>1, <1>3, <1>4 DEF Next

(* The invariant holds in every behaviour with one caller at a time. *)
LEMMA SerialInvariance ==
  ASSUME ~HttpServer
  PROVE  Spec => []SerialInv
<1>1. SerialInv /\ [Next]_vars => SerialInv'
  BY NextSerialInv
<1> QED
  BY InitSerialInv, <1>1, PTL DEF Spec

(* What a lookup by the kernel reaches: the program whose id the index gives,
   and that program was constructed for the packet's key. *)
LEMMA ReachedOwn ==
  ASSUME SerialInv, NEW f \in Flows, Reached(f) # 0
  PROVE  /\ Reached(f) \in 1 .. nPrograms
         /\ Reached(f) = SlotOf(f)
         /\ programs[Reached(f)].key = KernelKey(f)
<1>1. KernelKey(f) \in Keys
  BY ConstantsAssumption DEF KernelKey, Keys
<1>2. SlotOf(f) \in Nat
  BY <1>1 DEF SlotOf, SerialInv, TypeInv, TypeOK
<1>3. SlotOf(f) \in 0 .. MaxRuleProg - 1 /\ Reached(f) = ruleProg[SlotOf(f)] /\ SlotOf(f) # 0
  BY <1>2, Sizes DEF Reached
<1>4. Reached(f) = SlotOf(f)
  BY <1>3 DEF SerialInv, SlotsSound
<1>5. SlotOf(f) \in 1 .. nPrograms /\ programs[SlotOf(f)].key = KernelKey(f)
  BY <1>1, <1>3 DEF SerialInv, IndexSound, SlotOf
<1> QED
  BY <1>4, <1>5

(* Isolation of sessions: with one caller at a time, whatever sessions are
   created, replaced, removed or refused, and whatever their order, the kernel
   applies to a flow only a FAR that some session requested for that flow. *)
THEOREM Isolation ==
  ASSUME ~HttpServer
  PROVE  Spec => []RoutesRequested
<1>1. SerialInv => RoutesRequested
  <2> SUFFICES ASSUME SerialInv, NEW f \in Flows, Route(f) \in Fars
               PROVE  Requested(f, Route(f))
    BY DEF RoutesRequested
  <2>1. Reached(f) # 0 /\ Route(f) = programs[Reached(f)].far /\ Route(f) # NoFar
    BY ConstantsAssumption DEF Route
  <2>2. /\ Reached(f) \in 1 .. nPrograms
        /\ programs[Reached(f)].key.flow = f
    <3>1. Reached(f) \in 1 .. nPrograms /\ programs[Reached(f)].key = KernelKey(f)
      BY <2>1, ReachedOwn
    <3> QED
      BY <3>1 DEF KernelKey
  <2> QED
    BY <2>1, <2>2 DEF SerialInv, FarsRequested
<1> QED
  BY SerialInvariance, <1>1, PTL

-----------------------------------------------------------------------------
(* What a flow's fate may become in one step of its table: see FlowTable. *)
LegalChange(before, after) ==
  \/ before = "pass" /\ after = "drop"
  \/ before = "drop" /\ after \in Fars
  \/ before \in Fars /\ after = "pass"

(* The fate of a flow is a FAR, "pass" or "drop". *)
LEMMA RouteValues ==
  ASSUME SerialInv, NEW f \in Flows
  PROVE  /\ Route(f) \in Fars \cup {"pass", "drop"}
         /\ (\A t \in Threads : call[t].pc # "far") => Route(f) # "drop"
<1>1. CASE Reached(f) = 0
  BY <1>1, ConstantsAssumption DEF Route
<1>2. CASE Reached(f) # 0
  <2>1. Reached(f) \in 1 .. nPrograms /\ Reached(f) = SlotOf(f)
    BY <1>2, ReachedOwn
  <2>2. programs[Reached(f)].far \in Fars \cup {NoFar}
    <3>1. Reached(f) \in 1 .. MaxPrograms /\ programs \in [1 .. MaxPrograms -> ProgramType]
      BY <2>1, Sizes DEF SerialInv, TypeInv, TypeOK
    <3> QED
      BY <3>1 DEF ProgramType
  <2>3. SlotOf(f) \in 0 .. MaxRuleProg - 1 /\ ruleProg[SlotOf(f)] = Reached(f)
    BY <1>2, <2>1, Sizes DEF Reached, SerialInv, TypeInv, TypeOK
  <2>4. programs[Reached(f)].far = NoFar =>
          \E t \in Threads : call[t].pc = "far" /\ call[t].prog = Reached(f)
    BY <1>2, <2>3 DEF SerialInv, SlotsFilled
  <2>5. "drop" \notin Fars
    BY ConstantsAssumption
  <2> QED
    BY <1>2, <2>2, <2>4, <2>5 DEF Route
<1> QED
  BY <1>1, <1>2

(* A flow keeps its fate when its index entry, the slots and the FARs of the
   programs in the slots stay as they are. *)
LEMMA RouteFrame ==
  ASSUME SerialInv, NEW f \in Flows, ruleProg' = ruleProg,
         ruleIndex'[KernelKey(f)] = ruleIndex[KernelKey(f)],
         \A p \in 1 .. nPrograms : programs'[p].far = programs[p].far
  PROVE  Route(f)' = Route(f)
<1>1. SlotOf(f)' = SlotOf(f)
  BY DEF SlotOf, KernelKey
<1>2. Reached(f)' = Reached(f)
  BY <1>1 DEF Reached
<1>3. Reached(f) # 0 => Reached(f) \in 1 .. nPrograms
  BY ReachedOwn
<1> QED
  BY <1>2, <1>3 DEF Route

(* A step of a call leaves every fate as it is, or changes the fate of its own
   flow alone, and legally. *)
LEMMA RouteStep ==
  ASSUME ~HttpServer, SerialInv, NEW t \in Threads, CreateStep(t) \/ RemoveStep(t),
         NEW f \in Flows
  PROVE  \/ Route(f)' = Route(f)
         \/ f = call[t].key.flow /\ Active(t) /\ LegalChange(Route(f), Route(f)')
<1> USE Sizes
<1>1. TypeInv /\ TypeOK /\ CallsNamed /\ SerialInv'
  BY ThreadSerialInv DEF SerialInv, TypeInv
<1>2. \A u \in Threads \ {t} : call[u].pc = "idle"
  BY OthersIdle DEF SerialInv
<1>3. KernelKey(f) \in Keys
  BY ConstantsAssumption DEF KernelKey, Keys
<1>4. call[t].pc # "far" => Route(f) \in Fars \cup {"pass"}
  BY <1>2, RouteValues
<1>5. CASE UpdateIndex(t)
  <2>1. /\ call[t].pc = "index" /\ call[t].key \in Keys /\ call[t].prog \in 1 .. nPrograms
        /\ UNCHANGED <<nPrograms, programs, ruleProg>>
    BY <1>5, <1>1 DEF UpdateIndex, CallsNamed, Building, TypeOK, CallType
  <2>2. Id(t) = call[t].prog
    BY <2>1 DEF Id, SerialInv, FreshIds
  <2>3. /\ ruleIndex'[call[t].key] = call[t].prog
        /\ \A k \in Keys \ {call[t].key} : ruleIndex'[k] = ruleIndex[k]
    BY <1>5, <1>1, <2>1, <2>2 DEF UpdateIndex, TypeOK
  <2>4. CASE KernelKey(f) # call[t].key
    BY <1>3, <2>1, <2>3, <2>4, RouteFrame
  <2>5. CASE KernelKey(f) = call[t].key
    <3>1. \A i \in 0 .. MaxRuleProg - 1 : ruleProg[i] = 0 \/ ruleProg[i] = i
      BY DEF SerialInv, SlotsSound
    <3>2. \A i \in 0 .. MaxRuleProg - 1 : ruleProg[i] # call[t].prog
      BY <2>1 DEF SerialInv, CallProgress
    <3>3. SlotOf(f)' = call[t].prog
      BY <2>3, <2>5 DEF SlotOf, KernelKey
    <3>4. Reached(f)' = 0
      BY <2>1, <3>1, <3>2, <3>3, <1>1 DEF Reached, TypeOK
    <3>5. Route(f)' = "pass"
      BY <3>4 DEF Route
    <3>6. f = call[t].key.flow
      BY <2>5 DEF KernelKey
    <3> QED
      BY <1>4, <2>1, <3>5, <3>6 DEF LegalChange, Active
  <2> QED
    BY <2>4, <2>5
<1>6. CASE UpdateProg(t)
  <2>1. /\ call[t].pc = "prog" /\ call[t].key \in Keys /\ call[t].prog \in 1 .. nPrograms
        /\ UNCHANGED <<nPrograms, programs, ruleIndex>>
    BY <1>6, <1>1 DEF UpdateProg, CallsNamed, Building, TypeOK, CallType
  <2>2. Id(t) = call[t].prog
    BY <2>1 DEF Id, SerialInv, FreshIds
  <2>3. /\ call[t].prog \in 1 .. MaxRuleProg - 1
        /\ ruleProg'[call[t].prog] = call[t].prog
        /\ \A i \in 0 .. MaxRuleProg - 1 : i # call[t].prog => ruleProg'[i] = ruleProg[i]
    BY <1>6, <1>1, <2>1, <2>2 DEF UpdateProg, TypeOK
  <2>4. SlotOf(f)' = SlotOf(f) /\ SlotOf(f) \in Nat
    BY <1>1, <1>3, <2>1 DEF SlotOf, KernelKey, TypeOK
  <2>5. CASE SlotOf(f) # call[t].prog
    <3>1. Reached(f)' = Reached(f)
      BY <2>3, <2>4, <2>5 DEF Reached
    <3> QED
      BY <2>1, <3>1 DEF Route
  <2>6. CASE SlotOf(f) = call[t].prog
    <3>1. programs[call[t].prog].key = KernelKey(f)
      BY <1>3, <2>1, <2>6 DEF SlotOf, SerialInv, IndexSound
    <3>2. programs[call[t].prog].key = call[t].key
      BY <2>1 DEF SerialInv, CallsRequested, Building
    <3>3. f = call[t].key.flow
      BY <3>1, <3>2 DEF KernelKey
    <3>4. programs[call[t].prog].far = NoFar
      BY <2>1 DEF SerialInv, CallProgress
    <3>5. Reached(f) = 0
      <4>1. ruleProg[call[t].prog] # call[t].prog
        BY <2>1, <2>3 DEF SerialInv, CallProgress
      <4>2. ruleProg[call[t].prog] = 0
        BY <2>3, <4>1 DEF SerialInv, SlotsSound
      <4> QED
        BY <2>3, <2>6, <4>2 DEF Reached
    <3>6. Reached(f)' = call[t].prog
      BY <2>3, <2>4, <2>6 DEF Reached
    <3>7. Route(f) = "pass" /\ Route(f)' = "drop"
      BY <2>1, <2>3, <3>4, <3>5, <3>6 DEF Route
    <3> QED
      BY <2>1, <3>3, <3>7 DEF LegalChange, Active
  <2> QED
    BY <2>5, <2>6
<1>7. CASE UpdateFar(t)
  <2>1. /\ call[t].pc = "far" /\ call[t].prog \in 1 .. nPrograms
        /\ UNCHANGED <<nPrograms, ruleIndex, ruleProg>>
    BY <1>7, <1>1 DEF UpdateFar, CallsNamed, Building, kernelMaps
  <2>2. /\ \A p \in 1 .. nPrograms : p # call[t].prog => programs'[p].far = programs[p].far
        /\ programs'[call[t].prog].far = call[t].far
    BY <1>7, <1>1, <2>1 DEF UpdateFar, TypeOK, ProgramType
  <2>3. Reached(f)' = Reached(f)
    BY <2>1 DEF Reached, SlotOf, KernelKey
  <2>4. CASE Reached(f) # call[t].prog
    <3>1. Reached(f) # 0 => Reached(f) \in 1 .. nPrograms
      BY ReachedOwn
    <3> QED
      BY <2>2, <2>3, <2>4, <3>1 DEF Route
  <2>5. CASE Reached(f) = call[t].prog
    <3>1. Reached(f) # 0
      BY <1>1, <2>1, <2>5 DEF TypeOK
    <3>2. programs[call[t].prog].key = KernelKey(f)
      BY <2>5, <3>1, ReachedOwn
    <3>3. programs[call[t].prog].key = call[t].key
      BY <2>1 DEF SerialInv, CallsRequested, Building
    <3>4. f = call[t].key.flow
      BY <3>2, <3>3 DEF KernelKey
    <3>5. programs[call[t].prog].far = NoFar
      BY <2>1 DEF SerialInv, CallProgress
    <3>6. call[t].far \in Fars /\ call[t].far # NoFar
      BY <2>1, RequestedIsFar DEF SerialInv, CallsRequested, CreateSteps, Building
    <3>7. Route(f) = "drop" /\ Route(f)' = call[t].far
      BY <2>2, <2>3, <2>5, <3>1, <3>5, <3>6 DEF Route
    <3> QED
      BY <2>1, <3>4, <3>6, <3>7 DEF LegalChange, Active
  <2> QED
    BY <2>4, <2>5
<1>8. CASE RemoveIndex(t)
  <2>1. /\ call[t].pc = "unindex" /\ call[t].key \in Keys
        /\ UNCHANGED <<nPrograms, programs, ruleProg>>
    BY <1>8, <1>1 DEF RemoveIndex, TypeOK, CallType
  <2>2. /\ ruleIndex'[call[t].key] = 0
        /\ \A k \in Keys \ {call[t].key} : ruleIndex'[k] = ruleIndex[k]
    BY <1>8, <1>1, <2>1 DEF RemoveIndex, TypeOK
  <2>3. CASE KernelKey(f) # call[t].key
    BY <1>3, <2>1, <2>2, <2>3, RouteFrame
  <2>4. CASE KernelKey(f) = call[t].key
    <3>1. SlotOf(f)' = 0
      BY <2>2, <2>4 DEF SlotOf, KernelKey
    <3>2. Route(f)' = "pass"
      BY <3>1 DEF Reached, Route
    <3>3. f = call[t].key.flow
      BY <2>4 DEF KernelKey
    <3> QED
      BY <1>4, <2>1, <3>2, <3>3 DEF LegalChange, Active
  <2> QED
    BY <2>3, <2>4
<1>9. CASE ~(UpdateIndex(t) \/ UpdateProg(t) \/ UpdateFar(t) \/ RemoveIndex(t))
  <2>1. UNCHANGED <<ruleIndex, ruleProg>>
    BY <1>9 DEF CreateStep, RemoveStep, BeginCreate, Construct, LoadCounter,
       StoreCounter, SetupProgram, SetupProgramFails, UpdateIndexFails,
       UpdateProgFails, RecordPipeline, RecordPipelineLost, PublishSession,
       UpdateArp, UpdateArpFaults, BeginRemove, kernelMaps
  <2>2. \A p \in 1 .. nPrograms : programs'[p].far = programs[p].far
    <3>1. CASE Construct(t)
      BY <3>1, <1>1 DEF Construct, TypeOK
    <3>2. CASE SetupProgram(t)
      BY <3>2, <1>1 DEF SetupProgram, TypeOK, ProgramType
    <3>3. CASE RecordPipeline(t)
      BY <3>3, <1>1 DEF RecordPipeline, TearDownEntry, TypeOK, ProgramType
    <3>4. CASE UpdateArp(t)
      BY <3>4, <1>1 DEF UpdateArp, TypeOK, ProgramType
    <3>5. ASSUME NEW s \in Seids, BeginRemove(t, s)
          PROVE  \A p \in 1 .. nPrograms : programs'[p].far = programs[p].far
      BY <3>5, <1>1 DEF BeginRemove, TearDownEntry, TypeOK, ProgramType
    <3>6. CASE programs' = programs
      BY <3>6
    <3>7. CASE SetupProgramFails(t)
      BY <3>7, <1>1, MarkingSteps, MarkedKeeps
    <3> QED
      BY <1>9, <3>1, <3>2, <3>3, <3>4, <3>5, <3>6, <3>7 DEF CreateStep, RemoveStep,
         BeginCreate, LoadCounter, StoreCounter, UpdateIndexFails, UpdateProgFails,
         RecordPipelineLost, PublishSession, UpdateArpFaults
  <2> QED
    BY <2>1, <2>2, RouteFrame
<1> QED
  BY <1>5, <1>6, <1>7, <1>8, <1>9

(* A call in progress only ever changes the treatment of its own flow: creating,
   replacing or removing one session never disturbs the packets of another. *)
THEOREM OwnFlowOnly ==
  ASSUME ~HttpServer
  PROVE  Spec => StepTouchesOwnFlow
<1> DEFINE Own == \A t \in Threads : call[t].pc # "idle" /\ call'[t] # call[t] =>
                    \A f \in Flows : Route(f)' # Route(f) => f = call[t].key.flow
<1>1. SerialInv /\ [Next]_vars => [Own]_vars
  <2> SUFFICES ASSUME SerialInv, [Next]_vars,
                      NEW t \in Threads, call[t].pc # "idle", call'[t] # call[t],
                      NEW f \in Flows, Route(f)' # Route(f)
               PROVE  f = call[t].key.flow
    OBVIOUS
  <2>1. PICK u \in Threads : CreateStep(u) \/ RemoveStep(u)
    BY DEF Next, TearDown, Setup, vars
  <2>2. t = u
    BY <2>1, OthersIdle DEF SerialInv
  <2> QED
    BY <2>1, <2>2, RouteStep
<1> QED
  BY SerialInvariance, <1>1, PTL DEF Spec, StepTouchesOwnFlow

(* Every flow passes in the initial state and after the maps were destroyed. *)
LEMMA EmptyIndexPasses ==
  ASSUME NEW f \in Flows, ruleIndex[KernelKey(f)] = 0
  PROVE  Route(f) = "pass"
BY DEF Route, Reached, SlotOf

(* With one caller at a time the two-level indirection through ids and slots,
   written in three separate steps, implements the flow table: flows change one
   at a time, and a FAR is replaced only by way of "pass" and "drop". *)
THEOREM Refinement ==
  ASSUME ~HttpServer
  PROVE  Spec => Abstract!Spec
<1>1. Init => Abstract!Init
  <2> SUFFICES ASSUME Init, NEW f \in Flows PROVE Route(f) = "pass"
    BY DEF Abstract!Init, FateTable
  <2>1. KernelKey(f) \in Keys
    BY ConstantsAssumption DEF KernelKey, Keys
  <2> QED
    BY <2>1, EmptyIndexPasses DEF Init
<1>2. SerialInv /\ [Next]_vars => [Abstract!Next]_FateTable
  <2> SUFFICES ASSUME SerialInv, [Next]_vars PROVE [Abstract!Next]_FateTable
    OBVIOUS
  <2>1. ASSUME NEW t \in Threads, CreateStep(t) \/ RemoveStep(t)
        PROVE  [Abstract!Next]_FateTable
    <3> DEFINE g == call[t].key.flow
    <3>1. CASE \A f \in Flows : Route(f)' = Route(f)
      BY <3>1 DEF FateTable
    <3>2. ASSUME NEW h \in Flows, Route(h)' # Route(h) PROVE Abstract!Next
      <4>1. h = g /\ LegalChange(Route(h), Route(h)')
        BY <2>1, <3>2, RouteStep
      <4>2. \A f \in Flows \ {h} : Route(f)' = Route(f)
        BY <2>1, <4>1, RouteStep
      <4>3. FateTable' = [FateTable EXCEPT ![h] = Route(h)'] /\ FateTable[h] = Route(h)
        BY <4>2 DEF FateTable
      <4>4. Abstract!Open(h) \/ Abstract!Install(h) \/ Abstract!Close(h)
        BY <4>1, <4>3 DEF LegalChange, Abstract!Open, Abstract!Install, Abstract!Close
      <4> QED
        BY <4>4 DEF Abstract!Next
    <3> QED
      BY <3>1, <3>2
  <2>2. CASE TearDown
    <3>1. \A f \in Flows : Route(f)' = "pass"
      <4> TAKE f \in Flows
      <4>1. KernelKey(f) \in Keys
        BY ConstantsAssumption DEF KernelKey, Keys
      <4>2. ruleIndex'[KernelKey(f)] = 0
        BY <2>2, <4>1 DEF TearDown
      <4> QED
        BY <4>2 DEF Route, Reached, SlotOf, KernelKey
    <3> QED
      BY <3>1 DEF FateTable, Abstract!Next, Abstract!Reset
  <2>3. CASE Setup \/ UNCHANGED vars
    <3>1. UNCHANGED <<ruleIndex, ruleProg, programs>>
      BY <2>3 DEF Setup, vars, kernelMaps
    <3> QED
      BY <3>1 DEF FateTable, Route, Reached, SlotOf, KernelKey
  <2> QED
    BY <2>1, <2>2, <2>3 DEF Next
<1> QED
  BY SerialInvariance, <1>1, <1>2, PTL DEF Spec, Abstract!Spec

(* When the build zeroes the padding of its keys, a session that createBPFSession
   reports as created is one whose FAR the kernel applies to its flow. *)
THEOREM Applied ==
  ASSUME ~HttpServer, PadValues = {0}
  PROVE  Spec => AppliedOnReturn
<1> DEFINE Appl == \A t \in Threads, f \in Flows :
                     call[t].pc = "publish" /\ call'[t].pc = "arp" /\ call[t].key.flow = f =>
                       Route(f)' = call[t].far
<1>1. SerialInv /\ [Next]_vars => [Appl]_vars
  <2> SUFFICES ASSUME SerialInv, [Next]_vars,
                      NEW t \in Threads, NEW f \in Flows,
                      call[t].pc = "publish", call'[t].pc = "arp", call[t].key.flow = f
               PROVE  Route(f)' = call[t].far
    OBVIOUS
  <2>1. TypeOK /\ CallsNamed
    BY DEF SerialInv, TypeInv
  <2>2. call[t].key \in Keys
    BY <2>1 DEF TypeOK, CallType
  <2>3. call[t].key = KernelKey(f)
    BY <2>2 DEF Keys, KernelKey
  <2>4. /\ ruleIndex[KernelKey(f)] = call[t].prog
        /\ call[t].prog < MaxRuleProg /\ ruleProg[call[t].prog] = call[t].prog
        /\ programs[call[t].prog].far = call[t].far
    BY <2>3 DEF SerialInv, CallProgress
  <2>5. call[t].prog \in 1 .. nPrograms /\ nPrograms \in Nat
    BY <2>1 DEF CallsNamed, Building, TypeOK
  <2>6. call[t].far # NoFar
    BY RequestedIsFar DEF SerialInv, CallsRequested, CreateSteps, Building
  <2>7. Reached(f) = call[t].prog
    BY <2>4, <2>5 DEF Reached, SlotOf
  <2>8. Route(f) = call[t].far
    BY <2>4, <2>5, <2>6, <2>7 DEF Route
  <2>9. PICK u \in Threads : CreateStep(u) \/ RemoveStep(u)
    BY DEF Next, TearDown, Setup, vars
  <2>10. t = u
    BY SMTT(60), <2>9, OthersIdle DEF SerialInv
  <2>11. PublishSession(t)
    BY <2>9, <2>10 DEF CreateStep, RemoveStep, BeginCreate, MayCall, Construct,
       LoadCounter, StoreCounter, SetupProgram, SetupProgramFails, UpdateIndex,
       UpdateIndexFails, UpdateProg, UpdateProgFails, UpdateFar, RecordPipeline,
       RecordPipelineLost, UpdateArp, UpdateArpFaults, BeginRemove, RemoveIndex
  <2>12. UNCHANGED <<ruleIndex, ruleProg, programs>>
    BY <2>11 DEF PublishSession, kernelMaps
  <2> QED
    BY <2>8, <2>12 DEF Route, Reached, SlotOf, KernelKey
<1> QED
  BY SerialInvariance, <1>1, PTL DEF Spec, AppliedOnReturn
=============================================================================
