------------------------ MODULE PipelineEntryProofs -------------------------
(***************************************************************************)
(* Proofs about the entries of mSessionProgramsMap in SessionPipeline, for *)
(* every number of flows, sessions and programs.  First one caller at a    *)
(* time: EntryInv, a second inductive invariant on top of SerialInv.  Then *)
(* any number of concurrent callers, where SerialInv is lost: MapInv says  *)
(* what the maps keep nevertheless, OwnInv what a program keeps as long as *)
(* its id was given once.                                                  *)
(***************************************************************************)
EXTENDS SessionPipelineProofs

Owned(s) == sessionPrograms[s].prog

(* An entry owns a program that is loaded and has its FAR, alone. *)
EntriesSound ==
  \A s \in Seid32s : Owned(s) # 0 =>
    /\ Owned(s) \in 1 .. nPrograms /\ Owned(s) < MaxRuleProg
    /\ programs[Owned(s)].state = "loaded"
    /\ programs[Owned(s)].far # NoFar
    /\ \A u \in Seid32s : Owned(u) = Owned(s) => u = s

(* An indexed program is in its slot, or about to be put there. *)
IndexPlaced ==
  \A k \in Keys : ruleIndex[k] # 0 /\ ruleIndex[k] < MaxRuleProg =>
    \/ ruleProg[ruleIndex[k]] = ruleIndex[k]
    \/ \E t \in Threads : call[t].pc = "prog" /\ call[t].prog = ruleIndex[k]

(* The program of a call is in no entry before it is recorded, then in its own. *)
CallsPlaced ==
  \A t \in Threads :
    /\ call[t].pc \in {"load", "store", "setup", "index", "prog", "far", "record"} =>
         \A s \in Seid32s : Owned(s) # call[t].prog
    /\ call[t].pc \in {"index", "prog", "far", "record"} =>
         programs[call[t].prog].state = "loaded"
    /\ call[t].pc \in {"publish", "arp"} => Owned(Seid32(t)) = call[t].prog

EntryInv == EntriesSound /\ IndexPlaced /\ CallsPlaced

(* There are no entries and no calls at first. *)
LEMMA InitEntryInv == Init => EntryInv
BY DEF Init, EntryInv, EntriesSound, IndexPlaced, CallsPlaced, Owned, NoEntry, NoCall

-----------------------------------------------------------------------------
(* What the three kinds of writes to a FARProgram leave of the others. *)
LEMMA StateWritten ==
  ASSUME TypeOK, NEW q \in 1 .. MaxPrograms, NEW s \in ProgramStates,
         programs' = [programs EXCEPT ![q].state = s]
  PROVE  \A p \in 1 .. MaxPrograms :
           /\ programs'[p].far = programs[p].far
           /\ programs'[p].state = IF p = q THEN s ELSE programs[p].state
<1>1. \A p \in 1 .. MaxPrograms : programs[p] \in ProgramType
  BY DEF TypeOK
<1>2. \A p \in 1 .. MaxPrograms :
        programs'[p] = IF p = q THEN [programs[p] EXCEPT !.state = s] ELSE programs[p]
  BY DEF TypeOK
<1>3. ASSUME NEW p \in 1 .. MaxPrograms, p = q
      PROVE  programs'[p].state = s /\ programs'[p].far = programs[p].far
  <2> DEFINE r == programs[p]
  <2>1. r \in ProgramType /\ programs'[p] = [r EXCEPT !.state = s]
    BY <1>1, <1>2, <1>3
  <2> HIDE DEF r
  <2>2. programs'[p].state = s /\ programs'[p].far = r.far
    BY <2>1 DEF ProgramType
  <2> QED
    BY <2>2 DEF r
<1>4. \A p \in 1 .. MaxPrograms : p # q => programs'[p] = programs[p]
  BY <1>2
<1> QED
  BY <1>3, <1>4

(* The FAR map of one program is written. *)
LEMMA FarWritten ==
  ASSUME TypeOK, NEW q \in 1 .. MaxPrograms, NEW f \in Fars \cup {NoFar},
         programs' = [programs EXCEPT ![q].far = f]
  PROVE  \A p \in 1 .. MaxPrograms :
           /\ programs'[p].far = IF p = q THEN f ELSE programs[p].far
           /\ programs'[p].state = programs[p].state
<1>1. \A p \in 1 .. MaxPrograms : programs[p] \in ProgramType
  BY DEF TypeOK
<1>2. \A p \in 1 .. MaxPrograms :
        programs'[p] = IF p = q THEN [programs[p] EXCEPT !.far = f] ELSE programs[p]
  BY DEF TypeOK
<1>3. ASSUME NEW p \in 1 .. MaxPrograms, p = q
      PROVE  programs'[p].far = f /\ programs'[p].state = programs[p].state
  <2> DEFINE r == programs[p]
  <2>1. r \in ProgramType /\ programs'[p] = [r EXCEPT !.far = f]
    BY <1>1, <1>2, <1>3
  <2> HIDE DEF r
  <2>2. programs'[p].far = f /\ programs'[p].state = r.state
    BY <2>1 DEF ProgramType
  <2> QED
    BY <2>2 DEF r
<1>4. \A p \in 1 .. MaxPrograms : p # q => programs'[p] = programs[p]
  BY <1>2
<1> QED
  BY <1>3, <1>4

(* The ARP table of one program is filled. *)
LEMMA ArpWritten ==
  ASSUME TypeOK, NEW q \in 1 .. MaxPrograms,
         programs' = [programs EXCEPT ![q].arp = "filled"]
  PROVE  \A p \in 1 .. MaxPrograms :
           programs'[p].far = programs[p].far /\ programs'[p].state = programs[p].state
<1>1. \A p \in 1 .. MaxPrograms : programs[p] \in ProgramType
  BY DEF TypeOK
<1>2. ASSUME NEW r \in ProgramType
      PROVE  [r EXCEPT !.arp = "filled"].far = r.far
             /\ [r EXCEPT !.arp = "filled"].state = r.state
  BY DEF ProgramType
<1>3. \A p \in 1 .. MaxPrograms :
        programs'[p] = IF p = q THEN [programs[p] EXCEPT !.arp = "filled"] ELSE programs[p]
  BY DEF TypeOK
<1> QED
  BY <1>1, <1>2, <1>3

(* A setup that fails leaves its program as it was, or loaded; it touches no other. *)
LEMMA SetupFailed ==
  ASSUME TypeInv, NEW t \in Threads, SetupProgramFails(t)
  PROVE  \A p \in 1 .. nPrograms :
           /\ programs'[p].far = programs[p].far
           /\ programs'[p].state \in {programs[p].state, "loaded"}
<1>1. TypeOK /\ 1 .. nPrograms \subseteq 1 .. MaxPrograms
  BY Sizes DEF TypeInv, TypeOK
<1>2. call[t].prog \in 1 .. MaxPrograms
  BY <1>1 DEF SetupProgramFails, TypeInv, CallsNamed, Building
<1>3. CASE programs' = [programs EXCEPT ![call[t].prog].state = "loaded"]
  <2>1. "loaded" \in ProgramStates
    BY DEF ProgramStates
  <2> QED
    BY <1>1, <1>2, <1>3, <2>1, StateWritten
<1> QED
  BY <1>3 DEF SetupProgramFails

-----------------------------------------------------------------------------
(* One step of the one call keeps the entries sound. *)
LEMMA ThreadEntryInv ==
  ASSUME ~HttpServer, SerialInv, EntryInv, NEW t \in Threads, CreateStep(t) \/ RemoveStep(t)
  PROVE  EntryInv'
<1>1. \A u \in Threads \ {t} : call[u].pc = "idle" /\ call'[u] = call[u]
  BY OthersIdle DEF SerialInv
<1>2. TypeOK /\ CallsNamed /\ TypeInv
  BY DEF SerialInv, TypeInv
<1>3. nPrograms \in 0 .. MaxPrograms /\ nPrograms \in Nat
      /\ 1 .. nPrograms \subseteq 1 .. MaxPrograms
  BY <1>2, Sizes DEF TypeOK
<1>4. \A k \in Keys : ruleIndex[k] # 0 => ruleIndex[k] \in 1 .. nPrograms
  BY DEF SerialInv, IndexSound
<1>5. /\ call[t].pc \in Building => call[t].prog = nPrograms /\ call[t].prog \in 1 .. nPrograms
      /\ \A p \in 1 .. nPrograms : programs[p].id = p
  BY <1>2 DEF SerialInv, FreshIds, CallsNamed
<1>6. call[t] \in CallType /\ DOMAIN call = Threads
  BY <1>2 DEF TypeOK
<1>7. call[t].pc # "idle" => Seid32(t) \in Seid32s
  BY <1>2, Truncation DEF Seid32, CallsNamed
<1> USE DEF EntryInv
<1>8. ASSUME UNCHANGED <<nPrograms, programs, sessionPrograms, ruleIndex, ruleProg>>,
             \/ call'[t].pc \in {"idle", "construct", "faulted"} /\ call[t].pc # "prog"
             \/ call'[t].pc \in {"idle", "construct"} /\ call[t].prog >= MaxRuleProg
             \/ /\ call'[t].prog = call[t].prog /\ call'[t].seid = call[t].seid
                /\ \/ call[t].pc = "load" /\ call'[t].pc = "store"
                   \/ call[t].pc = "store" /\ call'[t].pc = "setup"
                   \/ call[t].pc = "publish" /\ call'[t].pc = "arp"
      PROVE  EntryInv'
  <2>1. EntriesSound'
    BY <1>8 DEF EntriesSound, Owned
  <2>2. IndexPlaced'
    <3> SUFFICES ASSUME NEW k \in Keys, ruleIndex[k] # 0, ruleIndex[k] < MaxRuleProg,
                        ruleProg[ruleIndex[k]] # ruleIndex[k]
                 PROVE  FALSE
      BY <1>8 DEF IndexPlaced
    <3>1. call[t].pc = "prog" /\ call[t].prog = ruleIndex[k]
      BY <1>1 DEF IndexPlaced
    <3> QED
      BY <1>3, <1>4, <1>8, <3>1, Sizes
  <2>3. CallsPlaced'
    BY <1>1, <1>8 DEF CallsPlaced, Owned, Seid32
  <2> QED
    BY <2>1, <2>2, <2>3
<1>9. ASSUME NEW r \in Requests, BeginCreate(t, r) PROVE EntryInv'
  <2>1. call'[t].pc = "construct" /\ call[t].pc = "idle"
    BY <1>6, <1>9 DEF BeginCreate, MayCall
  <2> QED
    BY <1>8, <1>9, <2>1 DEF BeginCreate, kernelMaps, tables
<1>10. CASE LoadCounter(t)
  <2>1. call[t].pc = "load" /\ call'[t].pc = "store" /\ call'[t].prog = call[t].prog
        /\ call'[t].seid = call[t].seid
    BY <1>6, <1>10 DEF LoadCounter, CallType
  <2> QED
    BY <1>8, <1>10, <2>1 DEF LoadCounter, kernelMaps, tables
<1>11. CASE StoreCounter(t)
  <2>1. call[t].pc = "store" /\ call'[t].pc = "setup" /\ call'[t].prog = call[t].prog
        /\ call'[t].seid = call[t].seid
    BY <1>6, <1>11 DEF StoreCounter, Goto, CallType
  <2> QED
    BY <1>8, <1>11, <2>1 DEF StoreCounter, kernelMaps, tables
<1>12. CASE PublishSession(t)
  <2>1. call[t].pc = "publish" /\ call'[t].pc = "arp" /\ call'[t].prog = call[t].prog
        /\ call'[t].seid = call[t].seid
    BY <1>6, <1>12 DEF PublishSession, Goto, CallType
  <2> QED
    BY <1>8, <1>12, <2>1 DEF PublishSession, kernelMaps
<1>13. CASE UpdateIndexFails(t) \/ UpdateProgFails(t)
  <2>1. call'[t].pc = "idle"
    BY <1>6, <1>13 DEF UpdateIndexFails, UpdateProgFails, Return, NoCall
  <2>2. call[t].pc # "prog" \/ call[t].prog >= MaxRuleProg
    BY <1>5, <1>13 DEF UpdateIndexFails, UpdateProgFails, Id, Building
  <2> QED
    BY <1>8, <1>13, <2>1, <2>2 DEF UpdateIndexFails, UpdateProgFails, kernelMaps, tables
<1>25. CASE SetupProgramFails(t)
  <2>1. /\ call[t].pc = "setup" /\ call'[t].pc = "idle"
        /\ UNCHANGED <<nPrograms, sessionPrograms, ruleIndex, ruleProg>>
    BY <1>6, <1>25 DEF SetupProgramFails, Return, NoCall, kernelMaps, tables
  <2>2. \A p \in 1 .. nPrograms :
          /\ programs'[p].far = programs[p].far
          /\ programs'[p].state \in {programs[p].state, "loaded"}
    BY <1>2, <1>25, SetupFailed
  <2>3. EntriesSound'
    BY <1>3, <2>1, <2>2 DEF EntriesSound, Owned
  <2>4. IndexPlaced'
    BY <1>1, <2>1 DEF IndexPlaced
  <2>5. CallsPlaced'
    BY <1>1, <2>1 DEF CallsPlaced
  <2> QED
    BY <2>3, <2>4, <2>5
<1>26. CASE UpdateArpFaults(t)
  <2>1. /\ call[t].pc = "arp" /\ call'[t].pc = "faulted"
        /\ UNCHANGED <<nPrograms, programs, sessionPrograms, ruleIndex, ruleProg>>
    BY <1>6, <1>26 DEF UpdateArpFaults, Goto, CallType, kernelMaps, tables
  <2> QED
    BY <1>8, <2>1
<1>14. CASE Construct(t)
  <2> DEFINE n == nPrograms + 1
  <2>1. /\ call[t].pc = "construct" /\ n \in 1 .. MaxPrograms /\ nPrograms' = n
        /\ call'[t].pc = "load" /\ call'[t].prog = n
        /\ UNCHANGED <<sessionPrograms, ruleIndex, ruleProg>>
    BY <1>3, <1>6, <1>14, Sizes DEF Construct, CallType, kernelMaps, tables
  <2>2. \A p \in 1 .. nPrograms : programs'[p] = programs[p]
    BY <1>2, <1>3, <1>14 DEF Construct, TypeOK
  <2>3. EntriesSound'
    BY <1>3, <2>1, <2>2 DEF EntriesSound, Owned
  <2>4. IndexPlaced'
    BY <1>1, <2>1 DEF IndexPlaced
  <2>5. \A s \in Seid32s : Owned(s) # n
    BY <1>3 DEF EntriesSound
  <2>6. CallsPlaced'
    BY <1>1, <2>1, <2>5 DEF CallsPlaced, Owned
  <2> QED
    BY <2>3, <2>4, <2>6
<1>15. CASE SetupProgram(t)
  <2>1. /\ call[t].pc = "setup" /\ call'[t].pc = "index" /\ call'[t].prog = call[t].prog
        /\ UNCHANGED <<nPrograms, sessionPrograms, ruleIndex, ruleProg>>
    BY <1>6, <1>15 DEF SetupProgram, Goto, CallType, kernelMaps, tables
  <2>2. call[t].prog \in 1 .. MaxPrograms
    BY <1>3, <1>5, <2>1 DEF Building
  <2>3. \A p \in 1 .. MaxPrograms :
          /\ programs'[p].far = programs[p].far
          /\ programs'[p].state = IF p = call[t].prog THEN "loaded" ELSE programs[p].state
    BY <1>2, <1>15, <2>2, StateWritten DEF SetupProgram, ProgramStates
  <2>4. EntriesSound'
    BY <1>3, <2>1, <2>3 DEF EntriesSound, Owned
  <2>5. IndexPlaced'
    BY <1>1, <2>1 DEF IndexPlaced
  <2>6. CallsPlaced'
    BY <1>1, <2>1, <2>2, <2>3 DEF CallsPlaced, Owned
  <2> QED
    BY <2>4, <2>5, <2>6
<1>16. CASE UpdateIndex(t)
  <2>1. /\ call[t].pc = "index" /\ call'[t].pc = "prog" /\ call'[t].prog = call[t].prog
        /\ UNCHANGED <<nPrograms, programs, sessionPrograms, ruleProg>>
    BY <1>6, <1>16 DEF UpdateIndex, Goto, CallType, tables
  <2>2. \A k \in Keys : ruleIndex'[k] = IF k = call[t].key THEN call[t].prog ELSE ruleIndex[k]
    BY <1>2, <1>5, <1>16 DEF UpdateIndex, TypeOK, Id, Building
  <2>3. EntriesSound'
    BY <2>1 DEF EntriesSound, Owned
  <2>4. IndexPlaced'
    BY <1>1, <2>1, <2>2 DEF IndexPlaced
  <2>5. CallsPlaced'
    BY <1>1, <2>1 DEF CallsPlaced, Owned
  <2> QED
    BY <2>3, <2>4, <2>5
<1>17. CASE UpdateProg(t)
  <2>1. /\ call[t].pc = "prog" /\ call'[t].pc = "far" /\ call'[t].prog = call[t].prog
        /\ UNCHANGED <<nPrograms, programs, sessionPrograms, ruleIndex>>
    BY <1>6, <1>17 DEF UpdateProg, Goto, CallType, tables
  <2>2. call[t].prog \in 0 .. MaxRuleProg - 1
    BY <1>3, <1>5, <1>17, <2>1, Sizes DEF UpdateProg, Id, Building
  <2>3. \A i \in 0 .. MaxRuleProg - 1 :
          ruleProg'[i] = IF i = call[t].prog THEN call[t].prog ELSE ruleProg[i]
    BY <1>2, <1>5, <1>17, <2>1, <2>2 DEF UpdateProg, TypeOK, Id, Building
  <2>4. EntriesSound'
    BY <2>1 DEF EntriesSound, Owned
  <2>5. IndexPlaced'
    <3> SUFFICES ASSUME NEW k \in Keys, ruleIndex[k] # 0, ruleIndex[k] < MaxRuleProg
                 PROVE  ruleProg'[ruleIndex[k]] = ruleIndex[k]
      BY <2>1 DEF IndexPlaced
    <3>1. ruleIndex[k] \in 0 .. MaxRuleProg - 1
      BY <1>3, <1>4, Sizes
    <3>2. ruleProg[ruleIndex[k]] = ruleIndex[k] \/ call[t].prog = ruleIndex[k]
      BY <1>1 DEF IndexPlaced
    <3> QED
      BY <2>3, <3>1, <3>2
  <2>6. CallsPlaced'
    BY <1>1, <2>1 DEF CallsPlaced, Owned
  <2> QED
    BY <2>4, <2>5, <2>6
<1>18. CASE UpdateFar(t)
  <2>1. /\ call[t].pc = "far" /\ call'[t].pc = "record" /\ call'[t].prog = call[t].prog
        /\ UNCHANGED <<nPrograms, sessionPrograms, ruleIndex, ruleProg>>
    BY <1>6, <1>18 DEF UpdateFar, Goto, CallType, kernelMaps, tables
  <2>2. call[t].prog \in 1 .. MaxPrograms /\ call[t].far \in Fars \cup {NoFar}
    BY <1>3, <1>5, <1>6, <2>1 DEF Building, CallType
  <2>3. \A p \in 1 .. MaxPrograms :
          /\ programs'[p].far = IF p = call[t].prog THEN call[t].far ELSE programs[p].far
          /\ programs'[p].state = programs[p].state
    BY <1>2, <1>18, <2>2, FarWritten DEF UpdateFar
  <2>4. \A s \in Seid32s : Owned(s) # call[t].prog
    BY <2>1 DEF CallsPlaced
  <2>5. EntriesSound'
    BY <1>3, <2>1, <2>3, <2>4 DEF EntriesSound, Owned
  <2>6. IndexPlaced'
    BY <1>1, <2>1 DEF IndexPlaced
  <2>7. CallsPlaced'
    BY <1>1, <2>1, <2>2, <2>3 DEF CallsPlaced, Owned
  <2> QED
    BY <2>5, <2>6, <2>7
<1>19. ASSUME NEW s \in Seid32s, TearDownEntry(s)
       PROVE  \A p \in 1 .. MaxPrograms :
                /\ programs'[p].far = programs[p].far
                /\ p # Owned(s) => programs'[p].state = programs[p].state
  <2>1. CASE Owned(s) = 0
    BY <1>19, <2>1 DEF TearDownEntry, Owned
  <2>2. CASE Owned(s) # 0
    <3>1. Owned(s) \in 1 .. MaxPrograms
      BY <1>3, <2>2 DEF EntriesSound
    <3>2. programs' = [programs EXCEPT ![Owned(s)].state = "tornDown"]
      BY <1>19, <2>2 DEF TearDownEntry, Owned
    <3>3. "tornDown" \in ProgramStates
      BY DEF ProgramStates
    <3> QED
      BY <1>2, <3>1, <3>2, <3>3, StateWritten
  <2> QED
    BY <2>1, <2>2
<1>20. CASE RecordPipeline(t)
  <2> DEFINE s == Seid32(t)
  <2>1. /\ call[t].pc = "record" /\ call'[t].pc = "publish" /\ call'[t].prog = call[t].prog
        /\ call'[t].seid = call[t].seid
        /\ UNCHANGED <<nPrograms, ruleIndex, ruleProg>>
    BY <1>6, <1>20 DEF RecordPipeline, Goto, CallType, kernelMaps
  <2>2. s \in Seid32s /\ TearDownEntry(s)
    BY <1>7, <1>20, <2>1 DEF RecordPipeline
  <2>3. \A u \in Seid32s : Owned(u)' = IF u = s THEN call[t].prog ELSE Owned(u)
    BY <1>2, <1>20, <2>2 DEF RecordPipeline, TypeOK, Owned
  <2>4. /\ call[t].prog \in 1 .. nPrograms /\ call[t].prog < MaxRuleProg
        /\ programs[call[t].prog].far # NoFar
        /\ programs[call[t].prog].state = "loaded"
        /\ \A u \in Seid32s : Owned(u) # call[t].prog
    <3>1. call[t].prog < MaxRuleProg /\ programs[call[t].prog].far = call[t].far
      BY <2>1 DEF SerialInv, CallProgress
    <3>2. call[t].far # NoFar
      BY <2>1, RequestedIsFar DEF SerialInv, CallsRequested, CreateSteps, Building
    <3> QED
      BY <1>5, <2>1, <3>1, <3>2 DEF CallsPlaced, Building
  <2>5. \A p \in 1 .. MaxPrograms :
          /\ programs'[p].far = programs[p].far
          /\ p # Owned(s) => programs'[p].state = programs[p].state
    BY <1>19, <2>2
  <2> HIDE DEF s
  <2>6. EntriesSound'
    <3> SUFFICES ASSUME NEW u \in Seid32s, Owned(u)' # 0
                 PROVE  /\ Owned(u)' \in 1 .. nPrograms /\ Owned(u)' < MaxRuleProg
                        /\ programs'[Owned(u)'].state = "loaded"
                        /\ programs'[Owned(u)'].far # NoFar
                        /\ \A v \in Seid32s : Owned(v)' = Owned(u)' => v = u
      BY <2>1 DEF EntriesSound
    <3>1. CASE u = s
      BY <1>3, <2>2, <2>3, <2>4, <2>5, <3>1
    <3>2. CASE u # s
      <4>1. Owned(u)' = Owned(u) /\ Owned(u) # 0 /\ Owned(u) # call[t].prog
        BY <2>3, <2>4, <3>2
      <4>2. Owned(u) # Owned(s)
        BY <2>2, <3>2, <4>1 DEF EntriesSound
      <4> QED
        BY <1>3, <2>3, <2>5, <4>1, <4>2 DEF EntriesSound
    <3> QED
      BY <3>1, <3>2
  <2>7. IndexPlaced'
    BY <1>1, <2>1 DEF IndexPlaced
  <2>8. Seid32(t)' = s
    BY <2>1 DEF Seid32, s
  <2>9. CallsPlaced'
    BY <1>1, <2>1, <2>2, <2>3, <2>8 DEF CallsPlaced
  <2> QED
    BY <2>6, <2>7, <2>9
<1>21. CASE RecordPipelineLost(t)
  BY <1>1, <1>21 DEF RecordPipelineLost
<1>22. CASE UpdateArp(t)
  <2>1. /\ call[t].pc = "arp" /\ call'[t].pc = "idle"
        /\ UNCHANGED <<nPrograms, sessionPrograms, ruleIndex, ruleProg>>
    BY <1>6, <1>22 DEF UpdateArp, Return, NoCall, kernelMaps, tables
  <2>2. Owned(Seid32(t)) \in 1 .. MaxPrograms
    BY <1>3, <1>5, <2>1 DEF CallsPlaced, Building
  <2>3. \/ programs' = programs
        \/ programs' = [programs EXCEPT ![Owned(Seid32(t))].arp = "filled"]
    BY <1>22 DEF UpdateArp, Owned
  <2>4. \A p \in 1 .. MaxPrograms :
          programs'[p].far = programs[p].far /\ programs'[p].state = programs[p].state
    BY <1>2, <2>2, <2>3, ArpWritten
  <2>5. EntriesSound'
    BY <1>3, <2>1, <2>4 DEF EntriesSound, Owned
  <2>6. IndexPlaced'
    BY <1>1, <2>1 DEF IndexPlaced
  <2>7. CallsPlaced'
    BY <1>1, <2>1 DEF CallsPlaced
  <2> QED
    BY <2>5, <2>6, <2>7
<1>23. ASSUME NEW id \in Seids, BeginRemove(t, id) PROVE EntryInv'
  <2> DEFINE s == id % SeidModulus
  <2>1. s \in Seid32s /\ TearDownEntry(s) /\ Owned(s) # 0
    BY <1>23, Truncation DEF BeginRemove, Owned
  <2>2. /\ call[t].pc = "idle" /\ call'[t].pc = "unindex"
        /\ UNCHANGED <<nPrograms, ruleIndex, ruleProg>>
    BY <1>6, <1>23 DEF BeginRemove, MayCall, NoCall, kernelMaps
  <2>3. \A u \in Seid32s : Owned(u)' = IF u = s THEN 0 ELSE Owned(u)
    BY <1>2, <1>23, <2>1 DEF BeginRemove, TypeOK, Owned, NoEntry
  <2>4. \A p \in 1 .. MaxPrograms :
          /\ programs'[p].far = programs[p].far
          /\ p # Owned(s) => programs'[p].state = programs[p].state
    BY <1>19, <2>1
  <2> HIDE DEF s
  <2>5. EntriesSound'
    <3> SUFFICES ASSUME NEW u \in Seid32s, Owned(u)' # 0
                 PROVE  /\ Owned(u)' \in 1 .. nPrograms /\ Owned(u)' < MaxRuleProg
                        /\ programs'[Owned(u)'].state = "loaded"
                        /\ programs'[Owned(u)'].far # NoFar
                        /\ \A v \in Seid32s : Owned(v)' = Owned(u)' => v = u
      BY <2>2 DEF EntriesSound
    <3>1. u # s /\ Owned(u)' = Owned(u)
      BY <2>3
    <3>2. Owned(u) # Owned(s)
      BY <2>1, <3>1 DEF EntriesSound
    <3> QED
      BY <1>3, <2>3, <2>4, <3>1, <3>2 DEF EntriesSound
  <2>6. IndexPlaced'
    BY <1>1, <2>2 DEF IndexPlaced
  <2>7. CallsPlaced'
    BY <1>1, <2>2 DEF CallsPlaced
  <2> QED
    BY <2>5, <2>6, <2>7
<1>24. CASE RemoveIndex(t)
  <2>1. /\ call[t].pc = "unindex" /\ call'[t].pc = "idle"
        /\ UNCHANGED <<nPrograms, programs, sessionPrograms, ruleProg>>
    BY <1>6, <1>24 DEF RemoveIndex, Return, NoCall, tables
  <2>2. \A k \in Keys : ruleIndex'[k] = IF k = call[t].key THEN 0 ELSE ruleIndex[k]
    BY <1>2, <1>24 DEF RemoveIndex, TypeOK
  <2>3. EntriesSound'
    BY <2>1 DEF EntriesSound, Owned
  <2>4. IndexPlaced'
    BY <1>1, <2>1, <2>2 DEF IndexPlaced
  <2>5. CallsPlaced'
    BY <1>1, <2>1 DEF CallsPlaced
  <2> QED
    BY <2>3, <2>4, <2>5
<1> QED
  BY <1>9, <1>10, <1>11, <1>12, <1>13, <1>14, <1>15, <1>16, <1>17, <1>18, <1>20, <1>21,
     <1>22, <1>23, <1>24, <1>25, <1>26
  DEF CreateStep, RemoveStep

(* So does the restart of the user plane, which empties the kernel's maps and keeps
   the entries. *)
LEMMA NextEntryInv ==
  ASSUME ~HttpServer
  PROVE  SerialInv /\ EntryInv /\ [Next]_vars => EntryInv'
<1> SUFFICES ASSUME SerialInv, EntryInv, [Next]_vars PROVE EntryInv'
  OBVIOUS
<1>1. ASSUME NEW t \in Threads, CreateStep(t) \/ RemoveStep(t) PROVE EntryInv'
  BY <1>1, ThreadEntryInv
<1>2. CASE TearDown
  BY <1>2
  DEF TearDown, AllIdle, tables, EntryInv, EntriesSound, IndexPlaced, CallsPlaced, Owned
<1>3. CASE Setup \/ UNCHANGED vars
  <2>1. UNCHANGED <<nPrograms, programs, call, ruleIndex, ruleProg, sessionPrograms>>
    BY <1>3 DEF Setup, vars, kernelMaps
  <2> QED
    BY <2>1 DEF EntryInv, EntriesSound, IndexPlaced, CallsPlaced, Owned, Seid32
<1> QED
  BY <1>1, <1>2, <1>3 DEF Next

(* With one caller at a time the entries of mSessionProgramsMap, the index and the
   tail-call array agree throughout: the invariant of the theorems below. *)
THEOREM EntryInvariance ==
  ASSUME ~HttpServer
  PROVE  Spec => [](SerialInv /\ EntryInv)
<1>1. SerialInv /\ EntryInv /\ [Next]_vars => EntryInv'
  BY NextEntryInv
<1>2. Spec => []SerialInv
  BY SerialInvariance
<1> QED
  BY <1>1, <1>2, InitEntryInv, PTL DEF Spec

(* As long as the index leads to the program of a session's entry, the session's
   whole pipeline is in place, whatever was created, replaced, refused, removed
   or restarted before. *)
THEOREM EntriesIntact ==
  ASSUME ~HttpServer
  PROVE  Spec => []PipelineIntact
<1>1. SerialInv /\ EntryInv => PipelineIntact
  <2> SUFFICES ASSUME SerialInv, EntryInv, NEW s \in Seid32s, Owned(s) # 0,
                      ruleIndex[sessionPrograms[s].key] = programs[Owned(s)].id
               PROVE  /\ programs[Owned(s)].id < MaxRuleProg
                      /\ ruleProg[programs[Owned(s)].id] = Owned(s)
                      /\ programs[Owned(s)].state = "loaded"
                      /\ programs[Owned(s)].far # NoFar
    BY DEF PipelineIntact, Owned
  <2>1. /\ Owned(s) \in 1 .. nPrograms /\ Owned(s) < MaxRuleProg
        /\ programs[Owned(s)].state = "loaded" /\ programs[Owned(s)].far # NoFar
    BY DEF EntryInv, EntriesSound
  <2>2. programs[Owned(s)].id = Owned(s)
    BY <2>1 DEF SerialInv, FreshIds
  <2>3. sessionPrograms[s].key \in Keys
    BY DEF SerialInv, TypeInv, TypeOK, EntryType
  <2>4. \A t \in Threads : ~(call[t].pc = "prog" /\ call[t].prog = Owned(s))
    BY DEF EntryInv, CallsPlaced
  <2>5. ruleProg[Owned(s)] = Owned(s)
    BY <2>1, <2>2, <2>3, <2>4 DEF EntryInv, IndexPlaced
  <2> QED
    BY <2>1, <2>2, <2>5
<1>2. Spec => [](SerialInv /\ EntryInv)
  BY EntryInvariance
<1> QED
  BY <1>1, <1>2, PTL

(* The ARP table is given to the program that the call itself deployed. *)
THEOREM ArpOwn ==
  ASSUME ~HttpServer
  PROVE  Spec => []ArpGoesToOwnProgram
<1>1. EntryInv => ArpGoesToOwnProgram
  BY SMTT(60) DEF EntryInv, CallsPlaced, Owned, ArpGoesToOwnProgram
<1>2. Spec => [](SerialInv /\ EntryInv)
  BY EntryInvariance
<1> QED
  BY <1>1, <1>2, PTL
-----------------------------------------------------------------------------
(***************************************************************************)
(* Any number of handlers at once.  Ids may be shared, so the invariant    *)
(* speaks of ids and not of the order of construction: an index entry      *)
(* names the id of a program made for its key, a slot holds a program of   *)
(* its own id, and a slot that the index names is filled or has a call     *)
(* about to fill it.                                                       *)
(***************************************************************************)
IdsPositive == sIdCounter # 0 /\ \A p \in 1 .. nPrograms : programs[p].id # 0

IndexNamed ==
  \A k \in Keys : ruleIndex[k] # 0 =>
    \E p \in 1 .. nPrograms : programs[p].id = ruleIndex[k] /\ programs[p].key = k

SlotsNamed ==
  \A i \in 0 .. MaxRuleProg - 1 : ruleProg[i] # 0 =>
    ruleProg[i] \in 1 .. nPrograms /\ programs[ruleProg[i]].id = i

IndexReached ==
  \A k \in Keys : ruleIndex[k] # 0 /\ ruleIndex[k] < MaxRuleProg =>
    \/ ruleProg[ruleIndex[k]] # 0
    \/ \E t \in Threads : call[t].pc = "prog" /\ Id(t) = ruleIndex[k]

MapInv ==
  /\ TypeInv
  /\ IdsPositive
  /\ IndexNamed
  /\ SlotsNamed
  /\ FarsRequested
  /\ CallsRequested
  /\ SlotsFilled
  /\ IndexReached

(* The entries of mSessionProgramsMap while handlers overlap. *)
BeforeRecord == {"load", "store", "setup", "index", "prog", "far", "record"}

CallsApart ==
  \A t, u \in Threads :
    call[t].pc \in Building /\ call[u].pc \in Building /\ call[t].prog = call[u].prog => t = u

EntriesOwn ==
  \A s \in Seid32s : Owned(s) # 0 =>
    /\ Owned(s) \in 1 .. nPrograms /\ programs[Owned(s)].id < MaxRuleProg
    /\ programs[Owned(s)].state = "loaded"
    /\ programs[Owned(s)].far # NoFar
    /\ \A u \in Seid32s : Owned(u) = Owned(s) => u = s

(* The program of an entry is in its slot, or shares its id, or its id has left the
   index together with the maps of a user plane that was torn down. *)
EntriesInSlot ==
  \A s \in Seid32s : Owned(s) # 0 =>
    \/ ruleProg[programs[Owned(s)].id] = Owned(s)
    \/ SharedId(programs[Owned(s)].id)
    \/ \A k \in Keys : ruleIndex[k] # programs[Owned(s)].id

CallsBuild ==
  \A t \in Threads :
    /\ call[t].pc \in BeforeRecord => \A s \in Seid32s : Owned(s) # call[t].prog
    /\ call[t].pc \in {"index", "prog", "far", "record"} =>
         programs[call[t].prog].state = "loaded"
    /\ call[t].pc \in {"far", "record"} =>
         /\ Id(t) < MaxRuleProg
         /\ ruleProg[Id(t)] = call[t].prog \/ SharedId(Id(t))
    /\ call[t].pc = "record" => programs[call[t].prog].far # NoFar

OwnInv == CallsApart /\ EntriesOwn /\ EntriesInSlot /\ CallsBuild

(* While thread t takes a step the other threads stay where they are. *)
LEMMA OthersStay ==
  ASSUME TypeInv, NEW t \in Threads, CreateStep(t) \/ RemoveStep(t)
  PROVE  \A u \in Threads \ {t} : call'[u] = call[u]
BY DEF TypeInv, TypeOK, CreateStep, RemoveStep, BeginCreate, Construct, LoadCounter,
   StoreCounter, SetupProgram, SetupProgramFails, UpdateIndex, UpdateIndexFails,
   UpdateProg, UpdateProgFails, UpdateFar, RecordPipeline, RecordPipelineLost,
   PublishSession, UpdateArp, UpdateArpFaults, BeginRemove, RemoveIndex, Goto, Return

(* The programs constructed so far keep their ids and keys in every step. *)
ProgramsKept ==
  /\ nPrograms' \in Nat /\ nPrograms <= nPrograms'
  /\ \A p \in 1 .. nPrograms : /\ programs'[p].id = programs[p].id
                               /\ programs'[p].key = programs[p].key

(* Storing the FAR changes nothing else of the programs. *)
LEMMA FarStored ==
  ASSUME TypeInv, NEW t \in Threads, UpdateFar(t)
  PROVE  /\ call[t].pc = "far" /\ call[t].prog \in 1 .. nPrograms
         /\ \A p \in 1 .. nPrograms :
              /\ programs'[p].id = programs[p].id /\ programs'[p].key = programs[p].key
              /\ programs'[p].far = IF p = call[t].prog THEN call[t].far ELSE programs[p].far
<1>1. call[t].pc = "far" /\ call[t].prog \in 1 .. nPrograms
  BY DEF UpdateFar, TypeInv, CallsNamed, Building
<1>2. programs' = [programs EXCEPT ![call[t].prog].far = call[t].far]
  BY DEF UpdateFar
<1>3. /\ programs \in [1 .. MaxPrograms -> ProgramType]
      /\ \A p \in 1 .. nPrograms : p \in 1 .. MaxPrograms
  BY Sizes DEF TypeInv, TypeOK
<1>4. ASSUME NEW r \in ProgramType, NEW f
      PROVE  /\ [r EXCEPT !.far = f].id = r.id /\ [r EXCEPT !.far = f].key = r.key
             /\ [r EXCEPT !.far = f].far = f
  BY DEF ProgramType
<1>5. ASSUME NEW p \in 1 .. nPrograms
      PROVE  programs'[p] = IF p = call[t].prog THEN [programs[p] EXCEPT !.far = call[t].far]
                            ELSE programs[p]
  BY <1>2, <1>3
<1>6. ASSUME NEW p \in 1 .. nPrograms
      PROVE  /\ programs'[p].id = programs[p].id /\ programs'[p].key = programs[p].key
             /\ programs'[p].far = IF p = call[t].prog THEN call[t].far ELSE programs[p].far
  <2> DEFINE r == programs[p]
  <2>1. r \in ProgramType
    BY <1>3
  <2>2. programs'[p] = IF p = call[t].prog THEN [r EXCEPT !.far = call[t].far] ELSE r
    BY <1>5
  <2> HIDE DEF r
  <2>3. /\ programs'[p].id = r.id /\ programs'[p].key = r.key
        /\ programs'[p].far = IF p = call[t].prog THEN call[t].far ELSE r.far
    BY <1>4, <2>1, <2>2
  <2> QED
    BY <2>3 DEF r
<1> QED
  BY <1>1, <1>6

(* ProgramsKept holds of every step of a thread. *)
LEMMA ThreadKeepsPrograms ==
  ASSUME TypeInv, NEW t \in Threads, CreateStep(t) \/ RemoveStep(t)
  PROVE  ProgramsKept
<1>1. TypeOK /\ nPrograms \in Nat
  BY DEF TypeInv, TypeOK
<1>2. CASE Construct(t)
  <2>1. nPrograms' = nPrograms + 1 /\ \A p \in 1 .. nPrograms : programs'[p] = programs[p]
    BY <1>1, <1>2, Sizes DEF Construct, TypeOK
  <2> QED
    BY <1>1, <2>1 DEF ProgramsKept
<1>3. CASE UpdateFar(t)
  BY <1>1, <1>3, FarStored DEF ProgramsKept, UpdateFar
<1>4. CASE \/ SetupProgram(t) \/ SetupProgramFails(t) \/ RecordPipeline(t)
           \/ UpdateArp(t) \/ \E s \in Seids : BeginRemove(t, s)
  <2>1. nPrograms' = nPrograms
    BY <1>4 DEF SetupProgram, SetupProgramFails, RecordPipeline, UpdateArp, BeginRemove
  <2> QED
    BY SMTT(60), <1>1, <1>4, <2>1, MarkingSteps, MarkedKeeps DEF ProgramsKept
<1>5. CASE UNCHANGED <<nPrograms, programs>>
  BY <1>1, <1>5 DEF ProgramsKept
<1> QED
  BY <1>2, <1>3, <1>4, <1>5
  DEF CreateStep, RemoveStep, BeginCreate, LoadCounter, StoreCounter, UpdateArpFaults,
      UpdateIndex, UpdateIndexFails, UpdateProg, UpdateProgFails, RecordPipelineLost,
      PublishSession, RemoveIndex

(* So an id that is shared stays shared. *)
LEMMA SharedStays ==
  ASSUME TypeInv, ProgramsKept, NEW i, SharedId(i)
  PROVE  SharedId(i)'
<1>1. PICK p, q \in 1 .. nPrograms : p # q /\ programs[p].id = i /\ programs[q].id = i
  BY DEF SharedId
<1>2. p \in 1 .. nPrograms' /\ q \in 1 .. nPrograms'
  BY DEF ProgramsKept, TypeInv, TypeOK
<1>3. programs'[p].id = i /\ programs'[q].id = i
  BY <1>1 DEF ProgramsKept
<1> QED
  BY <1>1, <1>2, <1>3 DEF SharedId

(* There are no programs, map entries or calls at first. *)
LEMMA InitMapInv == Init => MapInv
<1> SUFFICES ASSUME Init PROVE MapInv
  OBVIOUS
<1>1. FarsRequested /\ CallsRequested /\ SlotsFilled
  BY InitSerialInv DEF SerialInv
<1>2. IdsPositive /\ IndexNamed /\ SlotsNamed /\ IndexReached
  BY Sizes DEF Init, IdsPositive, IndexNamed, SlotsNamed, IndexReached
<1> QED
  BY <1>1, <1>2, InitTypeInv DEF MapInv

(* Steps that write neither the index nor a slot nor a FAR, and leave the window of
   the call's own writes, if at all, only because its id has no slot. *)
LEMMA MapFrame ==
  ASSUME MapInv, TypeInv', NEW t \in Threads,
         UNCHANGED <<nPrograms, ruleIndex, ruleProg>>, sIdCounter' # 0,
         \A p \in 1 .. nPrograms : /\ programs'[p].id = programs[p].id
                                   /\ programs'[p].key = programs[p].key
                                   /\ programs'[p].far = programs[p].far,
         \A u \in Threads \ {t} : call'[u] = call[u],
         call[t].pc # "far", call[t].pc = "prog" => Id(t) >= MaxRuleProg,
         \/ call'[t].pc \notin CreateSteps
         \/ /\ call[t].pc \in CreateSteps
            /\ call'[t].pc \in Building => call[t].pc \in Building
            /\ call'[t].prog = call[t].prog /\ call'[t].key = call[t].key
            /\ call'[t].far = call[t].far
  PROVE  MapInv'
<1>1. IdsPositive'
  BY DEF MapInv, IdsPositive
<1>2. IndexNamed'
  BY DEF MapInv, IndexNamed
<1>3. SlotsNamed'
  BY DEF MapInv, SlotsNamed
<1>4. FarsRequested'
  BY DEF MapInv, FarsRequested
<1>5. \A u \in Threads : call[u].pc \in Building => call[u].prog \in 1 .. nPrograms
  BY DEF MapInv, TypeInv, CallsNamed
<1>6. CallsRequested'
  <2> SUFFICES ASSUME NEW u \in Threads
               PROVE  /\ call'[u].pc \in CreateSteps => Requested(call'[u].key.flow, call'[u].far)
                      /\ call'[u].pc \in Building => programs'[call'[u].prog].key = call'[u].key
    BY DEF CallsRequested
  <2>1. /\ call[u].pc \in CreateSteps => Requested(call[u].key.flow, call[u].far)
        /\ call[u].pc \in Building => programs[call[u].prog].key = call[u].key
    BY DEF MapInv, CallsRequested
  <2>2. CASE u = t
    BY <1>5, <2>1, <2>2 DEF CreateSteps
  <2>3. CASE u # t
    BY <1>5, <2>1, <2>3
  <2> QED
    BY <2>2, <2>3
<1>7. SlotsFilled'
  <2> SUFFICES ASSUME NEW i \in 0 .. MaxRuleProg - 1, ruleProg[i] # 0,
                      programs'[ruleProg[i]].far = NoFar
               PROVE  \E u \in Threads : call'[u].pc = "far" /\ call'[u].prog = ruleProg[i]
    BY DEF SlotsFilled
  <2>1. programs[ruleProg[i]].far = NoFar
    BY DEF MapInv, SlotsNamed
  <2>2. PICK u \in Threads : call[u].pc = "far" /\ call[u].prog = ruleProg[i]
    BY <2>1 DEF MapInv, SlotsFilled
  <2> QED
    BY <2>2
<1>8. IndexReached'
  <2> SUFFICES ASSUME NEW k \in Keys, ruleIndex[k] # 0, ruleIndex[k] < MaxRuleProg,
                      ruleProg[ruleIndex[k]] = 0
               PROVE  \E u \in Threads : call'[u].pc = "prog" /\ Id(u)' = ruleIndex[k]
    BY DEF IndexReached
  <2>1. PICK u \in Threads : call[u].pc = "prog" /\ Id(u) = ruleIndex[k]
    BY DEF MapInv, IndexReached
  <2>2. Id(u) < MaxRuleProg /\ Id(u) \in Nat
    BY <2>1 DEF MapInv, TypeInv, TypeOK
  <2>3. u # t
    BY <2>1, <2>2, Sizes
  <2>4. call'[u] = call[u] /\ Id(u)' = Id(u)
    BY <1>5, <2>1, <2>3 DEF Id, Building
  <2> QED
    BY <2>1, <2>4
<1> QED
  BY <1>1, <1>2, <1>3, <1>4, <1>6, <1>7, <1>8 DEF MapInv

(* One step of any of the handlers, or of the one client, keeps the maps sound. *)
LEMMA ThreadMapInv ==
  ASSUME MapInv, NEW t \in Threads, CreateStep(t) \/ RemoveStep(t)
  PROVE  MapInv'
<1>1. TypeInv /\ TypeOK /\ CallsNamed /\ TypeInv' /\ ProgramsKept
  BY ThreadTypeInv, ThreadKeepsPrograms DEF MapInv, TypeInv
<1>2. \A u \in Threads \ {t} : call'[u] = call[u]
  BY <1>1, OthersStay
<1>3. call[t] \in CallType /\ DOMAIN call = Threads /\ nPrograms \in Nat
  BY <1>1 DEF TypeOK
<1>4. \A u \in Threads : call[u].pc \in Building => call[u].prog \in 1 .. nPrograms
  BY <1>1 DEF CallsNamed
<1>5. /\ \A p \in 1 .. nPrograms : p \in 1 .. nPrograms'
      /\ \A p \in 1 .. nPrograms : programs'[p].id = programs[p].id
                                   /\ programs'[p].key = programs[p].key
  BY <1>1, <1>3 DEF ProgramsKept
<1>6. \A u \in Threads : call[u].pc \in Building /\ call'[u].prog = call[u].prog => Id(u)' = Id(u)
  BY <1>4, <1>5 DEF Id
<1>7. sIdCounter # 0 /\ \A p \in 1 .. nPrograms : programs[p].id # 0
  BY DEF MapInv, IdsPositive
<1>8. ASSUME NEW r \in Requests, BeginCreate(t, r) PROVE MapInv'
  <2>1. PICK pdr \in HighestPdrs(r), pad \in PadValues :
          /\ Deployable(r, pdr)
          /\ call' = [call EXCEPT ![t] =
               [pc |-> "construct", seid |-> r.seid,
                key |-> [flow |-> pdr.flow, pad |-> pad], far |-> pdr.far,
                arp |-> r.arp, prog |-> 0, tmp |-> 0]]
    BY <1>8 DEF BeginCreate
  <2>2. /\ call'[t].pc = "construct" /\ call'[t].key.flow = pdr.flow
        /\ call'[t].far = pdr.far /\ call[t].pc = "idle"
        /\ UNCHANGED <<sIdCounter, nPrograms, programs, ruleIndex, ruleProg>>
    BY <1>3, <1>8, <2>1 DEF BeginCreate, MayCall, kernelMaps
  <2>3. Requested(call'[t].key.flow, call'[t].far)
    BY <2>1, <2>2 DEF Requested
  <2>4. IdsPositive' /\ IndexNamed' /\ SlotsNamed' /\ FarsRequested'
    BY <2>2 DEF MapInv, IdsPositive, IndexNamed, SlotsNamed, FarsRequested
  <2>5. CallsRequested'
    BY <1>2, <2>2, <2>3 DEF MapInv, CallsRequested, Building, CreateSteps
  <2>6. SlotsFilled'
    BY <1>2, <2>2 DEF MapInv, SlotsFilled
  <2>7. IndexReached'
    BY <1>2, <2>2 DEF MapInv, IndexReached, Id
  <2> QED
    BY <1>1, <2>4, <2>5, <2>6, <2>7 DEF MapInv
<1>9. CASE Construct(t)
  <2> DEFINE n == nPrograms + 1
  <2>1. /\ call[t].pc = "construct" /\ n \in 1 .. MaxPrograms /\ nPrograms' = n
        /\ call'[t].pc = "load" /\ call'[t].prog = n
        /\ call'[t].key = call[t].key /\ call'[t].far = call[t].far
        /\ UNCHANGED <<sIdCounter, ruleIndex, ruleProg>>
    BY <1>1, <1>3, <1>9, Sizes DEF Construct, TypeOK, CallType, kernelMaps
  <2>2. /\ programs'[n].id = sIdCounter /\ programs'[n].far = NoFar
        /\ programs'[n].key = call[t].key
        /\ \A p \in 1 .. nPrograms : programs'[p] = programs[p]
    BY <1>1, <1>9, <2>1 DEF Construct, TypeOK
  <2>3. \A p \in 1 .. n : p = n \/ p \in 1 .. nPrograms
    BY <1>3
  <2>4. IdsPositive' /\ FarsRequested'
    BY <1>7, <2>1, <2>2, <2>3 DEF MapInv, IdsPositive, FarsRequested
  <2>5. IndexNamed' /\ SlotsNamed'
    BY <1>5, <2>1, <2>2 DEF MapInv, IndexNamed, SlotsNamed
  <2>6. CallsRequested'
    <3> SUFFICES ASSUME NEW u \in Threads
                 PROVE  /\ call'[u].pc \in CreateSteps =>
                             Requested(call'[u].key.flow, call'[u].far)
                        /\ call'[u].pc \in Building =>
                             programs'[call'[u].prog].key = call'[u].key
      BY DEF CallsRequested
    <3>1. /\ call[u].pc \in CreateSteps => Requested(call[u].key.flow, call[u].far)
          /\ call[u].pc \in Building => programs[call[u].prog].key = call[u].key
      BY DEF MapInv, CallsRequested
    <3>2. CASE u = t
      BY <2>1, <2>2, <3>1, <3>2 DEF CreateSteps
    <3>3. CASE u # t
      BY <1>2, <1>4, <2>2, <3>1, <3>3
    <3> QED
      BY <3>2, <3>3
  <2>7. SlotsFilled'
    BY <1>2, <2>1, <2>2 DEF MapInv, SlotsFilled, SlotsNamed
  <2>8. IndexReached'
    BY <1>2, <1>6, <2>1 DEF MapInv, IndexReached, Building
  <2> QED
    BY <1>1, <2>4, <2>5, <2>6, <2>7, <2>8 DEF MapInv
<1>10. CASE LoadCounter(t) \/ StoreCounter(t)
  <2>1. /\ call[t].pc \in {"load", "store"} /\ call'[t].pc \in {"store", "setup"}
        /\ call'[t].prog = call[t].prog /\ call'[t].key = call[t].key
        /\ call'[t].far = call[t].far
        /\ UNCHANGED <<nPrograms, programs, ruleIndex, ruleProg>>
    <3>1. CASE LoadCounter(t)
      BY <1>3, <3>1 DEF LoadCounter, CallType, kernelMaps
    <3>2. CASE StoreCounter(t)
      BY <1>3, <3>2 DEF StoreCounter, Goto, CallType, kernelMaps
    <3> QED
      BY <1>10, <3>1, <3>2
  <2>2. sIdCounter' # 0
    BY <1>3, <1>7, <1>10 DEF LoadCounter, StoreCounter, CallType
  <2> QED
    BY <1>1, <1>2, <2>1, <2>2, MapFrame DEF Building, CreateSteps
<1>11. CASE SetupProgramFails(t) \/ UpdateIndexFails(t) \/ UpdateProgFails(t)
  <2>1. /\ call'[t].pc = "idle" /\ call[t].pc # "far"
        /\ UNCHANGED <<sIdCounter, nPrograms, ruleIndex, ruleProg>>
    BY <1>3, <1>11 DEF SetupProgramFails, UpdateIndexFails, UpdateProgFails, Return, NoCall,
       kernelMaps
  <2>2. call[t].pc = "prog" => Id(t) >= MaxRuleProg
    BY <1>11 DEF SetupProgramFails, UpdateIndexFails, UpdateProgFails
  <2>3. \A p \in 1 .. nPrograms : /\ programs'[p].id = programs[p].id
                                  /\ programs'[p].key = programs[p].key
                                  /\ programs'[p].far = programs[p].far
    BY <1>1, <1>11, MarkingSteps, MarkedKeeps DEF UpdateIndexFails, UpdateProgFails
  <2> QED
    BY <1>1, <1>2, <1>7, <2>1, <2>2, <2>3, MapFrame DEF Building, CreateSteps
<1>17. CASE UpdateArpFaults(t)
  <2>1. /\ call[t].pc = "arp" /\ call'[t].pc = "faulted"
        /\ UNCHANGED <<sIdCounter, nPrograms, programs, ruleIndex, ruleProg>>
    BY <1>3, <1>17 DEF UpdateArpFaults, Goto, CallType, kernelMaps
  <2> QED
    BY <1>1, <1>2, <1>7, <2>1, MapFrame DEF Building, CreateSteps
<1>12. CASE RecordPipelineLost(t) \/ PublishSession(t)
  <2>1. /\ call[t].pc \in {"record", "publish"} /\ call'[t].pc \in {"publish", "arp"}
        /\ call'[t].prog = call[t].prog /\ call'[t].key = call[t].key
        /\ call'[t].far = call[t].far
        /\ UNCHANGED <<sIdCounter, nPrograms, programs, ruleIndex, ruleProg>>
    BY <1>3, <1>12 DEF RecordPipelineLost, PublishSession, Goto, CallType, kernelMaps
  <2> QED
    BY <1>1, <1>2, <1>7, <2>1, MapFrame DEF Building, CreateSteps
<1>13. CASE \/ SetupProgram(t) \/ RecordPipeline(t) \/ UpdateArp(t)
            \/ \E s \in Seids : BeginRemove(t, s)
  <2>1. \A p \in 1 .. nPrograms : /\ programs'[p].id = programs[p].id
                                  /\ programs'[p].key = programs[p].key
                                  /\ programs'[p].far = programs[p].far
    BY <1>1, <1>13, MarkingSteps, MarkedKeeps
  <2>2. CASE SetupProgram(t) \/ RecordPipeline(t)
    <3>1. /\ call[t].pc \in {"setup", "record"} /\ call'[t].pc \in {"index", "publish"}
          /\ call'[t].prog = call[t].prog /\ call'[t].key = call[t].key
          /\ call'[t].far = call[t].far
          /\ UNCHANGED <<sIdCounter, nPrograms, ruleIndex, ruleProg>>
      BY <1>3, <2>2 DEF SetupProgram, RecordPipeline, Goto, CallType, kernelMaps
    <3> QED
      BY <1>1, <1>2, <1>7, <2>1, <3>1, MapFrame DEF Building, CreateSteps
  <2>3. CASE UpdateArp(t) \/ \E s \in Seids : BeginRemove(t, s)
    <3>1. /\ call[t].pc \in {"arp", "idle"} /\ call'[t].pc \in {"idle", "unindex"}
          /\ UNCHANGED <<sIdCounter, nPrograms, ruleIndex, ruleProg>>
      <4>1. CASE UpdateArp(t)
        BY <1>3, <4>1 DEF UpdateArp, Return, NoCall, kernelMaps
      <4>2. ASSUME NEW s \in Seids, BeginRemove(t, s)
            PROVE  /\ call[t].pc = "idle" /\ call'[t].pc = "unindex"
                   /\ UNCHANGED <<sIdCounter, nPrograms, ruleIndex, ruleProg>>
        BY <1>3, <4>2 DEF BeginRemove, MayCall, NoCall, kernelMaps
      <4> QED
        BY <2>3, <4>1, <4>2
    <3> QED
      BY <1>1, <1>2, <1>7, <2>1, <3>1, MapFrame DEF Building, CreateSteps
  <2> QED
    BY <1>13, <2>2, <2>3
<1>14. CASE UpdateIndex(t) \/ RemoveIndex(t)
  <2> DEFINE new == IF call[t].pc = "index" THEN Id(t) ELSE 0
  <2>1. /\ call[t].key \in Keys
        /\ \A k \in Keys : ruleIndex'[k] = IF k = call[t].key THEN new ELSE ruleIndex[k]
    BY <1>1, <1>3, <1>14 DEF UpdateIndex, RemoveIndex, TypeOK, CallType
  <2>2. /\ call[t].pc \in {"index", "unindex"}
        /\ call[t].pc = "index" => /\ call'[t].pc = "prog" /\ call'[t].prog = call[t].prog
                                   /\ call'[t].key = call[t].key /\ call'[t].far = call[t].far
        /\ call[t].pc = "unindex" => call'[t].pc = "idle"
        /\ UNCHANGED <<sIdCounter, nPrograms, programs, ruleProg>>
    BY <1>3, <1>14 DEF UpdateIndex, RemoveIndex, Goto, Return, NoCall, CallType
  <2>3. /\ call[t].pc = "index" => /\ call[t].prog \in 1 .. nPrograms
                                   /\ programs[call[t].prog].key = call[t].key
    BY <1>4 DEF MapInv, CallsRequested, Building
  <2>4. IdsPositive' /\ SlotsNamed' /\ FarsRequested'
    BY <2>2 DEF MapInv, IdsPositive, SlotsNamed, FarsRequested
  <2>5. IndexNamed'
    <3> SUFFICES ASSUME NEW k \in Keys, ruleIndex'[k] # 0
                 PROVE  \E p \in 1 .. nPrograms :
                          programs[p].id = ruleIndex'[k] /\ programs[p].key = k
      BY <2>2 DEF IndexNamed
    <3>1. CASE k = call[t].key
      BY <2>1, <2>2, <2>3, <3>1 DEF Id
    <3>2. CASE k # call[t].key
      BY <2>1, <3>2 DEF MapInv, IndexNamed
    <3> QED
      BY <3>1, <3>2
  <2>6. CallsRequested'
    BY <1>2, <2>2 DEF MapInv, CallsRequested, Building, CreateSteps
  <2>7. SlotsFilled'
    BY <1>2, <2>2 DEF MapInv, SlotsFilled
  <2>8. IndexReached'
    <3> SUFFICES ASSUME NEW k \in Keys, ruleIndex'[k] # 0, ruleIndex'[k] < MaxRuleProg,
                        ruleProg[ruleIndex'[k]] = 0
                 PROVE  \E u \in Threads : call'[u].pc = "prog" /\ Id(u)' = ruleIndex'[k]
      BY <2>2 DEF IndexReached
    <3>1. CASE k = call[t].key
      BY <1>6, <2>1, <2>2, <3>1 DEF Building
    <3>2. CASE k # call[t].key
      <4>1. ruleIndex'[k] = ruleIndex[k]
        BY <2>1, <3>2
      <4>2. PICK u \in Threads : call[u].pc = "prog" /\ Id(u) = ruleIndex[k]
        BY <4>1 DEF MapInv, IndexReached
      <4>3. u # t /\ call'[u] = call[u] /\ Id(u)' = Id(u)
        BY <1>2, <1>6, <2>2, <4>2 DEF Building
      <4> QED
        BY <4>1, <4>2, <4>3
    <3> QED
      BY <3>1, <3>2
  <2> QED
    BY <1>1, <2>4, <2>5, <2>6, <2>7, <2>8 DEF MapInv
<1>15. CASE UpdateProg(t)
  <2> DEFINE i == Id(t)
             p == call[t].prog
  <2>1. /\ call[t].pc = "prog" /\ call'[t].pc = "far" /\ call'[t].prog = p
        /\ call'[t].key = call[t].key /\ call'[t].far = call[t].far
        /\ UNCHANGED <<sIdCounter, nPrograms, programs, ruleIndex>>
    BY <1>3, <1>15 DEF UpdateProg, Goto, CallType
  <2>2. p \in 1 .. nPrograms /\ p # 0 /\ i \in 0 .. MaxRuleProg - 1 /\ programs[p].id = i
    <3>1. p \in 1 .. nPrograms /\ p \in 1 .. MaxPrograms
      BY <1>1, <1>4, <2>1, Sizes DEF Building, TypeOK
    <3>2. programs[p].id \in Nat
      BY <1>1, <3>1 DEF TypeOK, ProgramType
    <3> QED
      BY <1>15, <3>1, <3>2, Sizes DEF UpdateProg, Id
  <2>3. \A j \in 0 .. MaxRuleProg - 1 : ruleProg'[j] = IF j = i THEN p ELSE ruleProg[j]
    BY <1>1, <1>15, <2>2 DEF UpdateProg, TypeOK
  <2> HIDE DEF i, p
  <2>4. IdsPositive' /\ IndexNamed' /\ FarsRequested'
    BY <2>1 DEF MapInv, IdsPositive, IndexNamed, FarsRequested
  <2>5. SlotsNamed'
    BY <2>1, <2>2, <2>3 DEF MapInv, SlotsNamed
  <2>6. CallsRequested'
    BY <1>2, <2>1 DEF MapInv, CallsRequested, Building, CreateSteps, p
  <2>7. SlotsFilled'
    <3> SUFFICES ASSUME NEW j \in 0 .. MaxRuleProg - 1, ruleProg'[j] # 0,
                        programs[ruleProg'[j]].far = NoFar
                 PROVE  \E u \in Threads : call'[u].pc = "far" /\ call'[u].prog = ruleProg'[j]
      BY <2>1 DEF SlotsFilled
    <3>1. CASE j = i
      BY <2>1, <2>3, <3>1
    <3>2. CASE j # i
      BY <1>2, <2>1, <2>3, <3>2 DEF MapInv, SlotsFilled
    <3> QED
      BY <3>1, <3>2
  <2>8. IndexReached'
    <3> SUFFICES ASSUME NEW k \in Keys, ruleIndex[k] # 0, ruleIndex[k] < MaxRuleProg,
                        ruleProg'[ruleIndex[k]] = 0
                 PROVE  \E u \in Threads : call'[u].pc = "prog" /\ Id(u)' = ruleIndex[k]
      BY <2>1 DEF IndexReached
    <3>1. ruleIndex[k] \in 0 .. MaxRuleProg - 1
      BY <1>1, Sizes DEF TypeOK
    <3>2. ruleIndex[k] # i /\ ruleProg[ruleIndex[k]] = 0
      BY <2>2, <2>3, <3>1
    <3>3. PICK u \in Threads : call[u].pc = "prog" /\ Id(u) = ruleIndex[k]
      BY <3>2 DEF MapInv, IndexReached
    <3>4. u # t
      BY <3>2, <3>3 DEF i
    <3>5. call'[u] = call[u] /\ Id(u)' = Id(u)
      BY <1>2, <1>6, <3>3, <3>4 DEF Building
    <3> QED
      BY <3>3, <3>5
  <2> QED
    BY <1>1, <2>4, <2>5, <2>6, <2>7, <2>8 DEF MapInv
<1>16. CASE UpdateFar(t)
  <2>1. /\ call[t].pc = "far" /\ call'[t].pc = "record" /\ call'[t].prog = call[t].prog
        /\ call'[t].key = call[t].key /\ call'[t].far = call[t].far
        /\ UNCHANGED <<sIdCounter, nPrograms, ruleIndex, ruleProg>>
    BY <1>3, <1>16 DEF UpdateFar, Goto, CallType, kernelMaps
  <2>2. /\ call[t].prog \in 1 .. nPrograms
        /\ \A p \in 1 .. nPrograms :
             programs'[p].far = IF p = call[t].prog THEN call[t].far ELSE programs[p].far
    BY <1>1, <1>16, FarStored
  <2>3. /\ Requested(call[t].key.flow, call[t].far) /\ call[t].far # NoFar
        /\ programs[call[t].prog].key = call[t].key
    BY <2>1, RequestedIsFar DEF MapInv, CallsRequested, Building, CreateSteps
  <2>4. IdsPositive' /\ IndexNamed' /\ SlotsNamed'
    BY <1>5, <2>1 DEF MapInv, IdsPositive, IndexNamed, SlotsNamed
  <2>5. FarsRequested'
    BY <1>5, <2>1, <2>2, <2>3 DEF MapInv, FarsRequested
  <2>6. CallsRequested'
    <3> SUFFICES ASSUME NEW u \in Threads
                 PROVE  /\ call'[u].pc \in CreateSteps =>
                             Requested(call'[u].key.flow, call'[u].far)
                        /\ call'[u].pc \in Building =>
                             programs'[call'[u].prog].key = call'[u].key
      BY DEF CallsRequested
    <3>1. /\ call[u].pc \in CreateSteps => Requested(call[u].key.flow, call[u].far)
          /\ call[u].pc \in Building => programs[call[u].prog].key = call[u].key
      BY DEF MapInv, CallsRequested
    <3>2. CASE u = t
      BY <1>5, <2>1, <2>2, <2>3, <3>2
    <3>3. CASE u # t
      BY <1>2, <1>4, <1>5, <3>1, <3>3
    <3> QED
      BY <3>2, <3>3
  <2>7. SlotsFilled'
    <3> SUFFICES ASSUME NEW j \in 0 .. MaxRuleProg - 1, ruleProg[j] # 0,
                        programs'[ruleProg[j]].far = NoFar
                 PROVE  \E u \in Threads : call'[u].pc = "far" /\ call'[u].prog = ruleProg[j]
      BY <2>1 DEF SlotsFilled
    <3>1. ruleProg[j] \in 1 .. nPrograms
      BY DEF MapInv, SlotsNamed
    <3>2. ruleProg[j] # call[t].prog /\ programs[ruleProg[j]].far = NoFar
      BY <2>2, <2>3, <3>1
    <3>3. PICK u \in Threads : call[u].pc = "far" /\ call[u].prog = ruleProg[j]
      BY <3>2 DEF MapInv, SlotsFilled
    <3> QED
      BY <1>2, <3>2, <3>3
  <2>8. IndexReached'
    BY <1>2, <1>6, <2>1 DEF MapInv, IndexReached, Building
  <2> QED
    BY <1>1, <2>4, <2>5, <2>6, <2>7, <2>8 DEF MapInv
<1> QED
  BY <1>8, <1>9, <1>10, <1>11, <1>12, <1>13, <1>14, <1>15, <1>16, <1>17
  DEF CreateStep, RemoveStep

(* So does the restart of the user plane. *)
LEMMA NextMapInv == MapInv /\ [Next]_vars => MapInv'
<1> SUFFICES ASSUME MapInv, [Next]_vars PROVE MapInv'
  OBVIOUS
<1>1. TypeInv'
  BY NextTypeInv DEF MapInv
<1>2. ASSUME NEW t \in Threads, CreateStep(t) \/ RemoveStep(t) PROVE MapInv'
  BY <1>2, ThreadMapInv
<1>3. CASE TearDown
  <2>1. /\ UNCHANGED <<sIdCounter, nPrograms, programs, call>>
        /\ \A k \in Keys : ruleIndex'[k] = 0
        /\ \A i \in 0 .. MaxRuleProg - 1 : ruleProg'[i] = 0
    BY <1>3 DEF TearDown
  <2> QED
    BY <1>1, <2>1 DEF MapInv, IdsPositive, IndexNamed, SlotsNamed, FarsRequested,
       CallsRequested, SlotsFilled, IndexReached
<1>4. CASE Setup \/ UNCHANGED vars
  <2>1. UNCHANGED <<sIdCounter, nPrograms, programs, ruleIndex, ruleProg, call>>
    BY <1>4 DEF Setup, vars, kernelMaps
  <2> QED
    BY <1>1, <2>1 DEF MapInv, IdsPositive, IndexNamed, SlotsNamed, FarsRequested,
       CallsRequested, SlotsFilled, IndexReached, Id
<1> QED
  BY <1>2, <1>3, <1>4 DEF Next

(* However many handlers run at once, and without a lock, the index, the tail-call
   array and the FARs stay consistent by id: the invariant of the theorems below. *)
THEOREM MapInvariance == Spec => []MapInv
BY InitMapInv, NextMapInv, PTL DEF Spec

(* What the kernel reaches for a flow while ids may be shared: a program of the id
   that the index gives, next to one that was made for the flow's key. *)
LEMMA ReachedById ==
  ASSUME MapInv, NEW f \in Flows
  PROVE  /\ KernelKey(f) \in Keys
         /\ Reached(f) # 0 =>
              /\ SlotOf(f) \in 1 .. MaxRuleProg - 1 /\ Reached(f) = ruleProg[SlotOf(f)]
              /\ Reached(f) \in 1 .. nPrograms /\ programs[Reached(f)].id = SlotOf(f)
         /\ SlotOf(f) # 0 =>
              \E q \in 1 .. nPrograms : /\ programs[q].id = SlotOf(f)
                                        /\ programs[q].key = KernelKey(f)
<1>1. KernelKey(f) \in Keys
  BY ConstantsAssumption DEF KernelKey, Keys
<1>2. SlotOf(f) \in Nat
  BY <1>1 DEF SlotOf, MapInv, TypeInv, TypeOK
<1>3. ASSUME Reached(f) # 0
      PROVE  /\ SlotOf(f) \in 1 .. MaxRuleProg - 1 /\ Reached(f) = ruleProg[SlotOf(f)]
             /\ Reached(f) \in 1 .. nPrograms /\ programs[Reached(f)].id = SlotOf(f)
  <2>1. SlotOf(f) \in 1 .. MaxRuleProg - 1 /\ Reached(f) = ruleProg[SlotOf(f)]
    BY <1>2, <1>3, Sizes DEF Reached
  <2>2. SlotOf(f) \in 0 .. MaxRuleProg - 1
    BY <2>1, Sizes
  <2> QED
    BY <1>3, <2>1, <2>2 DEF MapInv, SlotsNamed
<1> QED
  BY <1>1, <1>3 DEF MapInv, IndexNamed, SlotOf

(* The race on sIdCounter is the only way in which handlers that overlap can mix up
   two sessions: a FAR nobody requested for a flow is reached through an id that two
   programs share. *)
THEOREM MixUpsShareIds == Spec => []MixUpNeedsSharedId
<1>1. MapInv => MixUpNeedsSharedId
  <2> SUFFICES ASSUME MapInv, NEW f \in Flows, Route(f) \in Fars, ~SharedId(SlotOf(f))
               PROVE  Requested(f, Route(f))
    BY DEF MixUpNeedsSharedId
  <2>1. Reached(f) # 0 /\ Route(f) = programs[Reached(f)].far /\ Route(f) # NoFar
    BY ConstantsAssumption DEF Route
  <2>2. Reached(f) \in 1 .. nPrograms /\ programs[Reached(f)].id = SlotOf(f) /\ SlotOf(f) # 0
    BY <2>1, ReachedById, Sizes
  <2>3. PICK q \in 1 .. nPrograms : programs[q].id = SlotOf(f) /\ programs[q].key = KernelKey(f)
    BY <2>2, ReachedById
  <2>4. q = Reached(f)
    BY <2>2, <2>3 DEF SharedId
  <2>5. programs[Reached(f)].key.flow = f
    BY <2>3, <2>4 DEF KernelKey
  <2> QED
    BY <2>1, <2>2, <2>5 DEF MapInv, FarsRequested
<1> QED
  BY <1>1, MapInvariance, PTL

(* A step that leaves the index entry of a flow, the slots and the FARs alone leaves
   the fate of the flow alone. *)
LEMMA FateFrame ==
  ASSUME MapInv, NEW f \in Flows, ruleProg' = ruleProg,
         ruleIndex'[KernelKey(f)] = ruleIndex[KernelKey(f)],
         \A p \in 1 .. nPrograms : programs'[p].far = programs[p].far
  PROVE  Route(f)' = Route(f)
<1>1. Reached(f)' = Reached(f)
  BY DEF Reached, SlotOf, KernelKey
<1>2. Reached(f) # 0 => Reached(f) \in 1 .. nPrograms
  BY ReachedById
<1> QED
  BY <1>1, <1>2 DEF Route

(* A program of the id that the index gives for f, made for another flow's key, is
   not the one made for f: the id is shared. *)
LEMMA StrangerShares ==
  ASSUME MapInv, NEW f \in Flows, SlotOf(f) # 0,
         NEW p \in 1 .. nPrograms, programs[p].id = SlotOf(f), programs[p].key.flow # f
  PROVE  SharedId(SlotOf(f))
<1>1. PICK q \in 1 .. nPrograms : programs[q].id = SlotOf(f) /\ programs[q].key = KernelKey(f)
  BY ReachedById
<1>2. p # q
  BY <1>1 DEF KernelKey
<1> QED
  BY <1>1, <1>2 DEF SharedId

(* A step of a handler changes the fate of its own flow, or of a flow whose id is
   shared. *)
LEMMA FateStep ==
  ASSUME MapInv, NEW t \in Threads, CreateStep(t) \/ RemoveStep(t), NEW f \in Flows,
         Route(f)' # Route(f)
  PROVE  f = call[t].key.flow \/ SharedId(SlotOf(f))
<1>1. TypeInv /\ TypeOK /\ CallsNamed /\ KernelKey(f) \in Keys
  BY ReachedById DEF MapInv, TypeInv
<1>2. call[t] \in CallType
  BY <1>1 DEF TypeOK
<1>3. call[t].pc \in Building => call[t].prog \in 1 .. nPrograms
                                 /\ programs[call[t].prog].key = call[t].key
  BY <1>1 DEF CallsNamed, MapInv, CallsRequested
<1>4. CASE UpdateIndex(t) \/ RemoveIndex(t)
  <2>1. /\ UNCHANGED <<programs, ruleProg>>
        /\ \A k \in Keys \ {call[t].key} : ruleIndex'[k] = ruleIndex[k]
    BY <1>1, <1>2, <1>4 DEF UpdateIndex, RemoveIndex, TypeOK, CallType
  <2>2. KernelKey(f) = call[t].key
    BY <1>1, <2>1, FateFrame
  <2> QED
    BY <2>2 DEF KernelKey
<1>5. CASE UpdateProg(t)
  <2>1. /\ call[t].prog \in 1 .. nPrograms /\ Id(t) = programs[call[t].prog].id
        /\ programs[call[t].prog].key = call[t].key
        /\ UNCHANGED <<nPrograms, programs, ruleIndex>>
    BY <1>3, <1>5 DEF UpdateProg, Building, Id
  <2>2. SlotOf(f)' = SlotOf(f) /\ SlotOf(f) \in Nat
    BY <1>1, <2>1 DEF SlotOf, KernelKey, TypeOK
  <2>3. \A i \in 0 .. MaxRuleProg - 1 : i # Id(t) => ruleProg'[i] = ruleProg[i]
    BY <1>1, <1>5 DEF UpdateProg, TypeOK
  <2>4. SlotOf(f) # 0 /\ SlotOf(f) = Id(t)
    <3> SUFFICES ASSUME SlotOf(f) = 0 \/ SlotOf(f) # Id(t) PROVE Route(f)' = Route(f)
      OBVIOUS
    <3>1. Reached(f)' = Reached(f)
      BY <2>2, <2>3, Sizes DEF Reached
    <3> QED
      BY <2>1, <3>1 DEF Route
  <2> QED
    BY <2>1, <2>4, StrangerShares
<1>6. CASE UpdateFar(t)
  <2>1. /\ call[t].prog \in 1 .. nPrograms
        /\ programs[call[t].prog].key = call[t].key
        /\ UNCHANGED <<nPrograms, ruleIndex, ruleProg>>
    BY <1>3, <1>6 DEF UpdateFar, Building, kernelMaps
  <2>2. \A p \in 1 .. nPrograms : p # call[t].prog => programs'[p].far = programs[p].far
    BY <1>1, <1>6, FarStored
  <2>3. Reached(f)' = Reached(f)
    BY <2>1 DEF Reached, SlotOf, KernelKey
  <2>4. Reached(f) # 0 => /\ Reached(f) \in 1 .. nPrograms /\ SlotOf(f) # 0
                          /\ programs[Reached(f)].id = SlotOf(f)
    BY ReachedById, Sizes
  <2>5. Reached(f) # 0 /\ Reached(f) = call[t].prog
    BY <2>2, <2>3, <2>4 DEF Route
  <2> QED
    BY <2>1, <2>4, <2>5, StrangerShares
<1>7. CASE ~(UpdateIndex(t) \/ UpdateProg(t) \/ UpdateFar(t) \/ RemoveIndex(t))
  <2>1. UNCHANGED <<ruleIndex, ruleProg>>
    BY <1>7 DEF CreateStep, RemoveStep, BeginCreate, Construct, LoadCounter,
       StoreCounter, SetupProgram, SetupProgramFails, UpdateIndexFails,
       UpdateProgFails, RecordPipeline, RecordPipelineLost, PublishSession,
       UpdateArp, UpdateArpFaults, BeginRemove, kernelMaps
  <2>2. \A p \in 1 .. nPrograms : programs'[p].far = programs[p].far
    <3>1. CASE Construct(t)
      BY <1>1, <3>1 DEF Construct, TypeOK
    <3>2. CASE \/ SetupProgram(t) \/ SetupProgramFails(t) \/ RecordPipeline(t)
               \/ UpdateArp(t) \/ \E s \in Seids : BeginRemove(t, s)
      BY <1>1, <3>2, MarkingSteps, MarkedKeeps
    <3>3. CASE programs' = programs
      BY <3>3
    <3> QED
      BY <1>7, <3>1, <3>2, <3>3 DEF CreateStep, RemoveStep, BeginCreate, LoadCounter,
         StoreCounter, UpdateIndexFails, UpdateProgFails, RecordPipelineLost,
         PublishSession, UpdateArpFaults
  <2> QED
    BY <2>1, <2>2, FateFrame
<1> QED
  BY <1>4, <1>5, <1>6, <1>7

(* However the handlers interleave, a step of one changes the treatment of another
   flow's packets only if that flow's program shares its id. *)
THEOREM OthersUndisturbed == Spec => OwnFlowUnlessShared
<1> DEFINE Own == \A t \in Threads : call[t].pc # "idle" /\ call'[t] # call[t] =>
                    \A f \in Flows : Route(f)' # Route(f) =>
                      f = call[t].key.flow \/ SharedId(SlotOf(f))
<1>1. MapInv /\ [Next]_vars => [Own]_vars
  <2> SUFFICES ASSUME MapInv, [Next]_vars,
                      NEW t \in Threads, call[t].pc # "idle", call'[t] # call[t],
                      NEW f \in Flows, Route(f)' # Route(f)
               PROVE  f = call[t].key.flow \/ SharedId(SlotOf(f))
    OBVIOUS
  <2>1. PICK u \in Threads : CreateStep(u) \/ RemoveStep(u)
    BY DEF Next, TearDown, Setup, vars
  <2>2. t = u
    BY <2>1, OthersStay DEF MapInv
  <2> QED
    BY <2>1, <2>2, FateStep
<1> QED
  BY MapInvariance, <1>1, PTL DEF Spec, OwnFlowUnlessShared

-----------------------------------------------------------------------------
(* There are no entries and no calls at first. *)
LEMMA InitOwnInv == Init => OwnInv
BY DEF Init, OwnInv, CallsApart, EntriesOwn, EntriesInSlot, CallsBuild, Owned, NoEntry,
   NoCall, Building, BeforeRecord

(* ~SessionPrograms touches the state of the program its entry owned and no other. *)
LEMMA EntryTornDown ==
  ASSUME TypeOK, EntriesOwn, NEW s \in Seid32s, TearDownEntry(s)
  PROVE  \A p \in 1 .. MaxPrograms :
           /\ programs'[p].far = programs[p].far
           /\ p # Owned(s) => programs'[p].state = programs[p].state
<1>1. CASE Owned(s) = 0
  BY <1>1 DEF TearDownEntry, Owned
<1>2. CASE Owned(s) # 0
  <2>1. Owned(s) \in 1 .. MaxPrograms
    BY <1>2, Sizes DEF EntriesOwn, TypeOK
  <2>2. programs' = [programs EXCEPT ![Owned(s)].state = "tornDown"]
    BY <1>2 DEF TearDownEntry, Owned
  <2>3. "tornDown" \in ProgramStates
    BY DEF ProgramStates
  <2> QED
    BY <2>1, <2>2, <2>3, StateWritten
<1> QED
  BY <1>1, <1>2

(* SharedId of an id in the state after a step. *)
SharedAfter(i) ==
  \E p, q \in 1 .. nPrograms' : p # q /\ programs'[p].id = i /\ programs'[q].id = i

(* Steps that at most take a key out of the index, and bring no call nearer to the
   recording of its program. *)
LEMMA OwnFrame ==
  ASSUME MapInv, OwnInv, ProgramsKept, NEW t \in Threads,
         UNCHANGED <<nPrograms, sessionPrograms, ruleProg>>,
         \A k \in Keys : ruleIndex'[k] = ruleIndex[k] \/ ruleIndex'[k] = 0,
         \A p \in 1 .. nPrograms : /\ programs'[p].far = programs[p].far
                                   /\ programs'[p].state \in {programs[p].state, "loaded"},
         \A u \in Threads \ {t} : call'[u] = call[u],
         \/ call'[t].pc \notin Building
         \/ /\ call[t].pc \in Building /\ call'[t].prog = call[t].prog
            /\ call'[t].pc \in {"store", "setup", "publish", "arp"}
            /\ call'[t].pc \in {"store", "setup"} => call[t].pc \in BeforeRecord
  PROVE  OwnInv'
<1>1. TypeInv /\ \A p \in 1 .. nPrograms : programs'[p].id = programs[p].id /\ programs[p].id # 0
  BY DEF MapInv, IdsPositive, ProgramsKept
<1>2. \A i : SharedId(i) => SharedAfter(i)
  BY <1>1, SharedStays DEF SharedId, SharedAfter
<1>3. \A u \in Threads : call[u].pc \in Building => call[u].prog \in 1 .. nPrograms
  BY <1>1 DEF TypeInv, CallsNamed
<1>4. \A s \in Seid32s : Owned(s)' = Owned(s) /\ (Owned(s) # 0 => Owned(s) \in 1 .. nPrograms)
  BY DEF OwnInv, EntriesOwn, Owned
<1>5. CallsApart'
  BY DEF OwnInv, CallsApart
<1>6. EntriesOwn'
  BY <1>1, <1>4 DEF OwnInv, EntriesOwn
<1>7. EntriesInSlot'
  <2> SUFFICES ASSUME NEW s \in Seid32s, Owned(s) # 0,
                      ~SharedId(programs[Owned(s)].id), ruleProg[programs[Owned(s)].id] # Owned(s)
               PROVE  \A k \in Keys : ruleIndex'[k] # programs[Owned(s)].id
    BY <1>1, <1>2, <1>4 DEF EntriesInSlot, SharedId, SharedAfter
  <2>1. \A k \in Keys : ruleIndex[k] # programs[Owned(s)].id
    BY DEF OwnInv, EntriesInSlot
  <2> QED
    BY <1>1, <1>4, <2>1
<1>8. CallsBuild'
  <2> SUFFICES ASSUME NEW u \in Threads
               PROVE  /\ call'[u].pc \in BeforeRecord => \A s \in Seid32s : Owned(s) # call'[u].prog
                      /\ call'[u].pc \in {"index", "prog", "far", "record"} =>
                           programs'[call'[u].prog].state = "loaded"
                      /\ call'[u].pc \in {"far", "record"} =>
                           /\ Id(u)' < MaxRuleProg
                           /\ ruleProg[Id(u)'] = call'[u].prog \/ SharedAfter(Id(u)')
                      /\ call'[u].pc = "record" => programs'[call'[u].prog].far # NoFar
    BY <1>4 DEF CallsBuild, SharedId, SharedAfter
  <2>1. CASE u = t
    BY <2>1 DEF OwnInv, CallsBuild, Building, BeforeRecord
  <2>2. CASE u # t
    <3>1. call'[u] = call[u] /\ (call[u].pc \in Building => Id(u)' = Id(u))
      BY <1>1, <1>3, <2>2 DEF Id
    <3> QED
      BY <1>2, <1>3, <3>1 DEF OwnInv, CallsBuild, Building
  <2> QED
    BY <2>1, <2>2
<1> QED
  BY <1>5, <1>6, <1>7, <1>8 DEF OwnInv

(* One step of any of the handlers keeps every entry with a program of its own. *)
LEMMA ThreadOwnInv ==
  ASSUME MapInv, OwnInv, NEW t \in Threads, CreateStep(t) \/ RemoveStep(t)
  PROVE  OwnInv'
<1>1. TypeInv /\ TypeOK /\ CallsNamed /\ ProgramsKept
  BY ThreadKeepsPrograms DEF MapInv, TypeInv
<1>2. \A u \in Threads \ {t} : call'[u] = call[u]
  BY <1>1, OthersStay
<1>3. /\ call[t] \in CallType /\ DOMAIN call = Threads /\ nPrograms \in Nat
      /\ \A p \in 1 .. nPrograms : p \in 1 .. MaxPrograms
  BY <1>1, Sizes DEF TypeOK
<1>4. \A u \in Threads : call[u].pc \in Building => call[u].prog \in 1 .. nPrograms
  BY <1>1 DEF CallsNamed
<1>5. \A p \in 1 .. nPrograms : programs'[p].id = programs[p].id /\ programs[p].id # 0
  BY <1>1 DEF ProgramsKept, MapInv, IdsPositive
<1>6. \A i : SharedId(i) => SharedAfter(i)
  BY <1>1, SharedStays DEF SharedId, SharedAfter
<1>7. ASSUME NEW p \in 1 .. nPrograms, NEW q \in 1 .. nPrograms, p # q,
             programs[p].id = programs[q].id
      PROVE  SharedId(programs[p].id)
  BY <1>7 DEF SharedId
<1>8. \A u \in Threads : call[u].pc \in Building /\ call'[u].prog = call[u].prog => Id(u)' = Id(u)
  BY <1>4, <1>5 DEF Id
<1>9. \A s \in Seid32s : Owned(s) # 0 => Owned(s) \in 1 .. nPrograms
  BY DEF OwnInv, EntriesOwn
<1>10. \A s \in Seid32s : call[t].pc \in BeforeRecord => Owned(s) # call[t].prog
  BY DEF OwnInv, CallsBuild
<1>11. \A u \in Threads \ {t} : call[t].pc \in Building /\ call[u].pc \in Building =>
                                  call[u].prog # call[t].prog
  BY DEF OwnInv, CallsApart
<1> DEFINE Builds(u) ==
             /\ call'[u].pc \in BeforeRecord => \A s \in Seid32s : Owned(s)' # call'[u].prog
             /\ call'[u].pc \in {"index", "prog", "far", "record"} =>
                  programs'[call'[u].prog].state = "loaded"
             /\ call'[u].pc \in {"far", "record"} =>
                  /\ Id(u)' < MaxRuleProg
                  /\ ruleProg'[Id(u)'] = call'[u].prog \/ SharedAfter(Id(u)')
             /\ call'[u].pc = "record" => programs'[call'[u].prog].far # NoFar
           Slotted(s) ==
             Owned(s)' # 0 =>
               \/ ruleProg'[programs'[Owned(s)'].id] = Owned(s)'
               \/ SharedAfter(programs'[Owned(s)'].id)
               \/ \A k \in Keys : ruleIndex'[k] # programs'[Owned(s)'].id
<1>12. /\ (\A u \in Threads : Builds(u)) => CallsBuild'
       /\ (\A s \in Seid32s : Slotted(s)) => EntriesInSlot'
  BY DEF CallsBuild, EntriesInSlot, SharedId, SharedAfter
<1> HIDE DEF Builds, Slotted
<1>13. ASSUME NEW r \in Requests, BeginCreate(t, r) PROVE OwnInv'
  <2>1. call'[t].pc = "construct"
    BY <1>3, <1>13 DEF BeginCreate
  <2>2. UNCHANGED <<nPrograms, programs, sessionPrograms, ruleIndex, ruleProg>>
    BY <1>13 DEF BeginCreate, kernelMaps, tables
  <2> QED
    BY <1>1, <1>2, <2>1, <2>2, OwnFrame DEF Building
<1>14. CASE \/ LoadCounter(t) \/ StoreCounter(t) \/ RecordPipelineLost(t) \/ PublishSession(t)
  <2>1. /\ UNCHANGED <<nPrograms, programs, sessionPrograms, ruleIndex, ruleProg>>
        /\ call'[t].prog = call[t].prog
        /\ \/ call[t].pc = "load" /\ call'[t].pc = "store"
           \/ call[t].pc = "store" /\ call'[t].pc = "setup"
           \/ call[t].pc = "record" /\ call'[t].pc = "publish"
           \/ call[t].pc = "publish" /\ call'[t].pc = "arp"
    <3>1. CASE LoadCounter(t)
      BY <1>3, <3>1 DEF LoadCounter, CallType, kernelMaps, tables
    <3>2. CASE StoreCounter(t)
      BY <1>3, <3>2 DEF StoreCounter, Goto, CallType, kernelMaps, tables
    <3>3. CASE RecordPipelineLost(t)
      BY <1>3, <3>3 DEF RecordPipelineLost, Goto, CallType, kernelMaps, tables
    <3>4. CASE PublishSession(t)
      BY <1>3, <3>4 DEF PublishSession, Goto, CallType, kernelMaps
    <3> QED
      BY <1>14, <3>1, <3>2, <3>3, <3>4
  <2> QED
    BY <1>1, <1>2, <2>1, OwnFrame DEF Building, BeforeRecord
<1>15. CASE SetupProgramFails(t) \/ UpdateIndexFails(t) \/ UpdateProgFails(t)
  <2>1. /\ call'[t].pc = "idle"
        /\ UNCHANGED <<nPrograms, sessionPrograms, ruleIndex, ruleProg>>
    BY <1>3, <1>15 DEF SetupProgramFails, UpdateIndexFails, UpdateProgFails, Return, NoCall,
       kernelMaps, tables
  <2>2. \A p \in 1 .. nPrograms :
          /\ programs'[p].far = programs[p].far
          /\ programs'[p].state \in {programs[p].state, "loaded"}
    BY <1>1, <1>15, SetupFailed DEF UpdateIndexFails, UpdateProgFails
  <2> QED
    BY <1>1, <1>2, <2>1, <2>2, OwnFrame DEF Building
<1>25. CASE UpdateArpFaults(t)
  <2>1. /\ call'[t].pc = "faulted"
        /\ UNCHANGED <<nPrograms, programs, sessionPrograms, ruleIndex, ruleProg>>
    BY <1>3, <1>25 DEF UpdateArpFaults, Goto, CallType, kernelMaps, tables
  <2> QED
    BY <1>1, <1>2, <2>1, OwnFrame DEF Building
<1>16. CASE RemoveIndex(t)
  <2>1. /\ call'[t].pc = "idle"
        /\ UNCHANGED <<nPrograms, programs, sessionPrograms, ruleProg>>
        /\ \A k \in Keys : ruleIndex'[k] = ruleIndex[k] \/ ruleIndex'[k] = 0
    BY <1>1, <1>3, <1>16 DEF RemoveIndex, Return, NoCall, tables, TypeOK
  <2> QED
    BY <1>1, <1>2, <2>1, OwnFrame DEF Building
<1>17. CASE UpdateArp(t)
  <2>1. /\ call[t].pc = "arp" /\ call'[t].pc = "idle"
        /\ UNCHANGED <<nPrograms, sessionPrograms, ruleIndex, ruleProg>>
    BY <1>3, <1>17 DEF UpdateArp, Return, NoCall, kernelMaps, tables
  <2>2. Seid32(t) \in Seid32s
    BY <1>1, <2>1, Truncation DEF Seid32, CallsNamed
  <2>3. \/ programs' = programs
        \/ /\ Owned(Seid32(t)) \in 1 .. MaxPrograms
           /\ programs' = [programs EXCEPT ![Owned(Seid32(t))].arp = "filled"]
    BY <1>3, <1>9, <1>17, <2>2 DEF UpdateArp, Owned
  <2>4. \A p \in 1 .. nPrograms :
          programs'[p].far = programs[p].far /\ programs'[p].state = programs[p].state
    BY <1>1, <1>3, <2>3, ArpWritten
  <2> QED
    BY <1>1, <1>2, <2>1, <2>4, OwnFrame DEF Building
<1>18. CASE Construct(t)
  <2> DEFINE n == nPrograms + 1
  <2>1. /\ call[t].pc = "construct" /\ nPrograms' = n
        /\ call'[t].pc = "load" /\ call'[t].prog = n
        /\ UNCHANGED <<sessionPrograms, ruleIndex, ruleProg>>
    BY <1>1, <1>3, <1>18, Sizes DEF Construct, TypeOK, CallType, kernelMaps, tables
  <2>2. \A p \in 1 .. nPrograms : programs'[p] = programs[p] /\ p \in 1 .. n /\ p # n
    BY <1>1, <1>3, <1>18, Sizes DEF Construct, TypeOK
  <2>3. \A s \in Seid32s : Owned(s)' = Owned(s) /\ Owned(s) # n
    BY <1>3, <1>9, <2>1 DEF Owned
  <2>4. CallsApart'
    BY <1>2, <1>4, <2>1, <2>2 DEF OwnInv, CallsApart
  <2>5. EntriesOwn'
    BY <1>9, <2>1, <2>2, <2>3 DEF OwnInv, EntriesOwn
  <2>6. EntriesInSlot'
    BY <1>6, <1>9, <1>12, <2>1, <2>2, <2>3 DEF OwnInv, EntriesInSlot, Slotted
  <2>7. ASSUME NEW u \in Threads PROVE Builds(u)
    <3>1. CASE u = t
      BY <2>1, <2>3, <3>1 DEF Builds
    <3>2. CASE u # t
      <4>1. call'[u] = call[u] /\ (call[u].pc \in Building => Id(u)' = Id(u))
        BY <1>2, <1>8, <3>2
      <4> QED
        BY <1>4, <1>6, <2>1, <2>2, <2>3, <4>1
        DEF Builds, OwnInv, CallsBuild, Building
    <3> QED
      BY <3>1, <3>2
  <2> QED
    BY <1>12, <2>4, <2>5, <2>6, <2>7 DEF OwnInv
<1>19. CASE SetupProgram(t)
  <2>1. /\ call[t].pc = "setup" /\ call'[t].pc = "index" /\ call'[t].prog = call[t].prog
        /\ UNCHANGED <<nPrograms, sessionPrograms, ruleIndex, ruleProg>>
    BY <1>3, <1>19 DEF SetupProgram, Goto, CallType, kernelMaps, tables
  <2>2. call[t].prog \in 1 .. nPrograms
    BY <1>4, <2>1 DEF Building
  <2>3. \A p \in 1 .. nPrograms :
          /\ programs'[p].far = programs[p].far
          /\ programs'[p].state = IF p = call[t].prog THEN "loaded" ELSE programs[p].state
    BY ZenonT(60), <1>1, <1>3, <1>19, <2>2, StateWritten DEF SetupProgram, ProgramStates
  <2>4. \A s \in Seid32s : Owned(s)' = Owned(s) /\ Owned(s) # call[t].prog
    BY <1>10, <2>1 DEF Owned, BeforeRecord
  <2>5. CallsApart'
    BY <1>2, <2>1 DEF OwnInv, CallsApart, Building
  <2>6. EntriesOwn'
    BY <1>5, <1>9, <2>1, <2>3, <2>4 DEF OwnInv, EntriesOwn
  <2>7. EntriesInSlot'
    BY <1>5, <1>6, <1>9, <1>12, <2>1, <2>4 DEF OwnInv, EntriesInSlot, Slotted
  <2>8. ASSUME NEW u \in Threads PROVE Builds(u)
    <3>1. CASE u = t
      BY <2>1, <2>2, <2>3, <2>4, <3>1 DEF Builds
    <3>2. CASE u # t
      <4>1. call'[u] = call[u] /\ (call[u].pc \in Building => Id(u)' = Id(u))
        BY <1>2, <1>8, <3>2
      <4> QED
        BY <1>4, <1>6, <2>1, <2>3, <2>4, <4>1
        DEF Builds, OwnInv, CallsBuild, Building
    <3> QED
      BY <3>1, <3>2
  <2> QED
    BY <1>12, <2>5, <2>6, <2>7, <2>8 DEF OwnInv
<1>20. CASE UpdateIndex(t)
  <2>1. /\ call[t].pc = "index" /\ call'[t].pc = "prog" /\ call'[t].prog = call[t].prog
        /\ UNCHANGED <<nPrograms, programs, sessionPrograms, ruleProg>>
    BY <1>3, <1>20 DEF UpdateIndex, Goto, CallType, tables
  <2>2. call[t].prog \in 1 .. nPrograms /\ Id(t) = programs[call[t].prog].id
    BY <1>4, <2>1 DEF Building, Id
  <2>3. \A k \in Keys : ruleIndex'[k] = ruleIndex[k] \/ ruleIndex'[k] = Id(t)
    BY <1>1, <1>20 DEF UpdateIndex, TypeOK
  <2>4. \A s \in Seid32s : Owned(s)' = Owned(s) /\ Owned(s) # call[t].prog
    BY <1>10, <2>1 DEF Owned, BeforeRecord
  <2>5. CallsApart' /\ EntriesOwn'
    BY <1>2, <2>1, <2>4 DEF OwnInv, CallsApart, EntriesOwn, Building
  <2>6. EntriesInSlot'
    <3> SUFFICES ASSUME NEW s \in Seid32s, Owned(s) # 0,
                        ~SharedId(programs[Owned(s)].id),
                        ruleProg[programs[Owned(s)].id] # Owned(s)
                 PROVE  \A k \in Keys : ruleIndex'[k] # programs[Owned(s)].id
      BY <1>6, <1>12, <2>1, <2>4 DEF Slotted
    <3>1. \A k \in Keys : ruleIndex[k] # programs[Owned(s)].id
      BY DEF OwnInv, EntriesInSlot
    <3>2. programs[Owned(s)].id # Id(t)
      BY <1>7, <1>9, <2>2, <2>4
    <3> QED
      BY <2>3, <3>1, <3>2
  <2>7. ASSUME NEW u \in Threads PROVE Builds(u)
    <3>1. CASE u = t
      BY <2>1, <2>4, <3>1 DEF Builds, OwnInv, CallsBuild
    <3>2. CASE u # t
      <4>1. call'[u] = call[u] /\ (call[u].pc \in Building => Id(u)' = Id(u))
        BY <1>2, <1>8, <3>2
      <4> QED
        BY <1>6, <2>1, <2>4, <4>1 DEF Builds, OwnInv, CallsBuild, Building
    <3> QED
      BY <3>1, <3>2
  <2> QED
    BY <1>12, <2>5, <2>6, <2>7 DEF OwnInv
<1>21. CASE UpdateProg(t)
  <2>1. /\ call[t].pc = "prog" /\ call'[t].pc = "far" /\ call'[t].prog = call[t].prog
        /\ UNCHANGED <<nPrograms, programs, sessionPrograms, ruleIndex>>
    BY <1>3, <1>21 DEF UpdateProg, Goto, CallType, tables
  <2>2. call[t].prog \in 1 .. nPrograms /\ Id(t) = programs[call[t].prog].id
    BY <1>4, <2>1 DEF Building, Id
  <2>3. Id(t) \in 0 .. MaxRuleProg - 1 /\ Id(t) < MaxRuleProg
    <3>1. programs[call[t].prog].id \in Nat
      BY <1>1, <1>3, <2>2 DEF TypeOK, ProgramType
    <3> QED
      BY <1>21, <2>2, <3>1, Sizes DEF UpdateProg
  <2>4. ruleProg'[Id(t)] = call[t].prog /\ \A i : i # Id(t) => ruleProg'[i] = ruleProg[i]
    BY <1>1, <1>21, <2>3 DEF UpdateProg, TypeOK
  <2>5. \A s \in Seid32s : Owned(s)' = Owned(s) /\ Owned(s) # call[t].prog
    BY <1>10, <2>1 DEF Owned, BeforeRecord
  <2>6. CallsApart' /\ EntriesOwn'
    BY <1>2, <2>1, <2>5 DEF OwnInv, CallsApart, EntriesOwn, Building
  <2>7. EntriesInSlot'
    <3> SUFFICES ASSUME NEW s \in Seid32s, Owned(s) # 0, ~SharedId(programs[Owned(s)].id)
                 PROVE  \/ ruleProg'[programs[Owned(s)].id] = Owned(s)
                        \/ \A k \in Keys : ruleIndex[k] # programs[Owned(s)].id
      BY <1>6, <1>12, <2>1, <2>5 DEF Slotted
    <3>1. \/ ruleProg[programs[Owned(s)].id] = Owned(s)
          \/ \A k \in Keys : ruleIndex[k] # programs[Owned(s)].id
      BY DEF OwnInv, EntriesInSlot
    <3>2. programs[Owned(s)].id # Id(t)
      BY <1>7, <1>9, <2>2, <2>5
    <3> QED
      BY <2>4, <3>1, <3>2
  <2>8. ASSUME NEW u \in Threads PROVE Builds(u)
    <3>1. CASE u = t
      <4>1. Id(u)' = Id(t)
        BY <1>8, <2>1, <3>1 DEF Building
      <4> QED
        BY <2>1, <2>3, <2>4, <2>5, <3>1, <4>1 DEF Builds, OwnInv, CallsBuild
    <3>2. CASE u # t
      <4>1. call'[u] = call[u] /\ (call[u].pc \in Building => Id(u)' = Id(u))
        BY <1>2, <1>8, <3>2
      <4>2. call[u].pc \in {"far", "record"} =>
              ruleProg'[Id(u)] = call[u].prog \/ SharedId(Id(u))
        <5> SUFFICES ASSUME call[u].pc \in {"far", "record"}, ~SharedId(Id(u))
                     PROVE  ruleProg'[Id(u)] = call[u].prog
          OBVIOUS
        <5>1. /\ call[u].prog \in 1 .. nPrograms /\ Id(u) = programs[call[u].prog].id
              /\ call[u].prog # call[t].prog
          BY <1>4, <1>11, <2>1, <3>2 DEF Building, Id
        <5>2. Id(u) # Id(t)
          BY <1>7, <2>2, <5>1
        <5>3. ruleProg[Id(u)] = call[u].prog
          BY DEF OwnInv, CallsBuild
        <5> QED
          BY <2>4, <5>2, <5>3
      <4> QED
        BY <1>6, <2>1, <2>5, <4>1, <4>2 DEF Builds, OwnInv, CallsBuild, Building
    <3> QED
      BY <3>1, <3>2
  <2> QED
    BY <1>12, <2>6, <2>7, <2>8 DEF OwnInv
<1>22. CASE UpdateFar(t)
  <2>1. /\ call[t].pc = "far" /\ call'[t].pc = "record" /\ call'[t].prog = call[t].prog
        /\ UNCHANGED <<nPrograms, sessionPrograms, ruleIndex, ruleProg>>
    BY <1>3, <1>22 DEF UpdateFar, Goto, CallType, kernelMaps, tables
  <2>2. call[t].prog \in 1 .. nPrograms /\ call[t].far \in Fars \cup {NoFar}
    BY <1>3, <1>4, <2>1 DEF Building, CallType
  <2>3. \A p \in 1 .. nPrograms :
          /\ programs'[p].far = IF p = call[t].prog THEN call[t].far ELSE programs[p].far
          /\ programs'[p].state = programs[p].state
    BY <1>1, <1>3, <1>22, <2>2, FarWritten DEF UpdateFar
  <2>4. call[t].far # NoFar
    BY <2>1, RequestedIsFar DEF MapInv, CallsRequested, CreateSteps, Building
  <2>5. \A s \in Seid32s : Owned(s)' = Owned(s) /\ Owned(s) # call[t].prog
    BY <1>10, <2>1 DEF Owned, BeforeRecord
  <2>6. CallsApart'
    BY <1>2, <2>1 DEF OwnInv, CallsApart, Building
  <2>7. EntriesOwn'
    BY <1>5, <1>9, <2>1, <2>3, <2>5 DEF OwnInv, EntriesOwn
  <2>8. EntriesInSlot'
    BY <1>5, <1>6, <1>9, <1>12, <2>1, <2>5 DEF OwnInv, EntriesInSlot, Slotted
  <2>9. ASSUME NEW u \in Threads PROVE Builds(u)
    <3>1. call[u].pc \in Building => Id(u)' = Id(u)
      BY <1>2, <1>8, <2>1
    <3>2. CASE u = t
      <4>1. Id(t)' = Id(t) /\ programs'[call[t].prog].far # NoFar
            /\ programs'[call[t].prog].state = programs[call[t].prog].state
        BY <2>1, <2>2, <2>3, <2>4, <3>1, <3>2 DEF Building
      <4>2. /\ programs[call[t].prog].state = "loaded" /\ Id(t) < MaxRuleProg
            /\ ruleProg[Id(t)] = call[t].prog \/ SharedId(Id(t))
        BY <2>1 DEF OwnInv, CallsBuild
      <4> QED
        BY <1>6, <2>1, <2>5, <3>2, <4>1, <4>2 DEF Builds
    <3>3. CASE u # t
      <4>1. call'[u] = call[u]
        BY <1>2, <3>3
      <4>2. call[u].pc \in Building =>
              /\ programs'[call[u].prog].state = programs[call[u].prog].state
              /\ programs'[call[u].prog].far = programs[call[u].prog].far
        BY <1>4, <1>11, <2>1, <2>3, <3>3 DEF Building
      <4> QED
        BY <1>6, <2>1, <2>5, <3>1, <4>1, <4>2 DEF Builds, OwnInv, CallsBuild, Building
    <3> QED
      BY <3>2, <3>3
  <2> QED
    BY <1>12, <2>6, <2>7, <2>8, <2>9 DEF OwnInv
<1>23. CASE RecordPipeline(t)
  <2> DEFINE s == Seid32(t)
  <2>1. /\ call[t].pc = "record" /\ call'[t].pc = "publish" /\ call'[t].prog = call[t].prog
        /\ UNCHANGED <<nPrograms, ruleIndex, ruleProg>>
    BY <1>3, <1>23 DEF RecordPipeline, Goto, CallType, kernelMaps
  <2>2. s \in Seid32s /\ TearDownEntry(s)
    BY <1>1, <1>23, <2>1, Truncation DEF RecordPipeline, Seid32, CallsNamed
  <2>3. \A u \in Seid32s : Owned(u)' = IF u = s THEN call[t].prog ELSE Owned(u)
    BY <1>1, <1>23, <2>2 DEF RecordPipeline, TypeOK, Owned
  <2>4. /\ call[t].prog \in 1 .. nPrograms /\ Id(t) = programs[call[t].prog].id
        /\ Id(t) < MaxRuleProg
        /\ ruleProg[Id(t)] = call[t].prog \/ SharedId(Id(t))
        /\ programs[call[t].prog].far # NoFar
        /\ programs[call[t].prog].state = "loaded"
        /\ \A u \in Seid32s : Owned(u) # call[t].prog
    BY <1>4, <1>10, <2>1 DEF OwnInv, CallsBuild, Building, BeforeRecord, Id
  <2>5. \A p \in 1 .. nPrograms :
          /\ programs'[p].far = programs[p].far
          /\ p # Owned(s) => programs'[p].state = programs[p].state
    BY <1>1, <1>3, <2>2, EntryTornDown DEF OwnInv
  <2> HIDE DEF s
  <2>6. CallsApart'
    BY <1>2, <2>1 DEF OwnInv, CallsApart, Building
  <2>7. EntriesOwn'
    <3> SUFFICES ASSUME NEW u \in Seid32s, Owned(u)' # 0
                 PROVE  /\ Owned(u)' \in 1 .. nPrograms /\ programs'[Owned(u)'].id < MaxRuleProg
                        /\ programs'[Owned(u)'].state = "loaded"
                        /\ programs'[Owned(u)'].far # NoFar
                        /\ \A v \in Seid32s : Owned(v)' = Owned(u)' => v = u
      BY <2>1 DEF EntriesOwn
    <3>1. CASE u = s
      BY <1>5, <2>2, <2>3, <2>4, <2>5, <3>1
    <3>2. CASE u # s
      <4>1. Owned(u)' = Owned(u) /\ Owned(u) # 0 /\ Owned(u) # call[t].prog
        BY <2>3, <2>4, <3>2
      <4>2. /\ Owned(u) # Owned(s)
            /\ Owned(u) \in 1 .. nPrograms /\ programs[Owned(u)].id < MaxRuleProg
            /\ programs[Owned(u)].state = "loaded" /\ programs[Owned(u)].far # NoFar
        BY <2>2, <3>2, <4>1 DEF OwnInv, EntriesOwn
      <4>3. \A v \in Seid32s : Owned(v)' = Owned(u)' => v = u
        BY <2>3, <3>2, <4>1 DEF OwnInv, EntriesOwn
      <4> QED
        BY <1>5, <2>5, <4>1, <4>2, <4>3
    <3> QED
      BY <3>1, <3>2
  <2>8. EntriesInSlot'
    <3> SUFFICES ASSUME NEW u \in Seid32s, Owned(u)' # 0
                 PROVE  \/ ruleProg[programs'[Owned(u)'].id] = Owned(u)'
                        \/ SharedAfter(programs'[Owned(u)'].id)
                        \/ \A k \in Keys : ruleIndex[k] # programs'[Owned(u)'].id
      BY <1>12, <2>1 DEF Slotted
    <3>1. CASE u = s
      <4>1. Owned(u)' = call[t].prog /\ programs'[Owned(u)'].id = Id(t)
        BY <1>5, <2>3, <2>4, <3>1
      <4> QED
        BY <1>6, <2>4, <4>1
    <3>2. CASE u # s
      <4>1. Owned(u)' = Owned(u) /\ Owned(u) # 0 /\ programs'[Owned(u)].id = programs[Owned(u)].id
        BY <1>5, <1>9, <2>3, <3>2
      <4> QED
        BY <1>6, <4>1 DEF OwnInv, EntriesInSlot
    <3> QED
      BY <3>1, <3>2
  <2>9. ASSUME NEW u \in Threads PROVE Builds(u)
    <3>1. CASE u = t
      BY <2>1, <3>1 DEF Builds, BeforeRecord
    <3>2. CASE u # t
      <4>1. call'[u] = call[u] /\ (call[u].pc \in Building => Id(u)' = Id(u))
        BY <1>2, <1>8, <3>2
      <4>2. call[u].pc \in BeforeRecord => /\ call[u].prog # call[t].prog
                                           /\ call[u].prog \in 1 .. nPrograms
                                           /\ \A v \in Seid32s : Owned(v) # call[u].prog
        BY <1>4, <1>11, <2>1, <3>2 DEF OwnInv, CallsBuild, BeforeRecord, Building
      <4>3. call[u].pc \in BeforeRecord => \A v \in Seid32s : Owned(v)' # call[u].prog
        BY <2>3, <4>2
      <4>4. call[u].pc \in BeforeRecord =>
              /\ programs'[call[u].prog].state = programs[call[u].prog].state
              /\ programs'[call[u].prog].far = programs[call[u].prog].far
        BY <2>2, <2>5, <4>2
      <4> QED
        BY <1>6, <2>1, <4>1, <4>3, <4>4
        DEF Builds, OwnInv, CallsBuild, Building, BeforeRecord
    <3> QED
      BY <3>1, <3>2
  <2> QED
    BY <1>12, <2>6, <2>7, <2>8, <2>9 DEF OwnInv
<1>24. ASSUME NEW id \in Seids, BeginRemove(t, id) PROVE OwnInv'
  <2> DEFINE s == id % SeidModulus
  <2>1. s \in Seid32s /\ TearDownEntry(s) /\ Owned(s) # 0
    BY <1>24, Truncation DEF BeginRemove, Owned
  <2>2. /\ call[t].pc = "idle" /\ call'[t].pc = "unindex"
        /\ UNCHANGED <<nPrograms, ruleIndex, ruleProg>>
    BY <1>3, <1>24 DEF BeginRemove, MayCall, NoCall, kernelMaps
  <2>3. \A u \in Seid32s : Owned(u)' = IF u = s THEN 0 ELSE Owned(u)
    BY <1>1, <1>24, <2>1 DEF BeginRemove, TypeOK, Owned, NoEntry
  <2>4. \A p \in 1 .. nPrograms :
          /\ programs'[p].far = programs[p].far
          /\ p # Owned(s) => programs'[p].state = programs[p].state
    BY <1>1, <1>3, <2>1, EntryTornDown DEF OwnInv
  <2> HIDE DEF s
  <2>5. CallsApart'
    BY <1>2, <2>2 DEF OwnInv, CallsApart, Building
  <2>6. EntriesOwn'
    <3> SUFFICES ASSUME NEW u \in Seid32s, Owned(u)' # 0
                 PROVE  /\ Owned(u)' \in 1 .. nPrograms /\ programs'[Owned(u)'].id < MaxRuleProg
                        /\ programs'[Owned(u)'].state = "loaded"
                        /\ programs'[Owned(u)'].far # NoFar
                        /\ \A v \in Seid32s : Owned(v)' = Owned(u)' => v = u
      BY <2>2 DEF EntriesOwn
    <3>1. u # s /\ Owned(u)' = Owned(u)
      BY <2>3
    <3>2. /\ Owned(u) # Owned(s)
          /\ Owned(u) \in 1 .. nPrograms /\ programs[Owned(u)].id < MaxRuleProg
          /\ programs[Owned(u)].state = "loaded" /\ programs[Owned(u)].far # NoFar
      BY <2>1, <3>1 DEF OwnInv, EntriesOwn
    <3>3. \A v \in Seid32s : Owned(v)' = Owned(u)' => v = u
      BY <2>3, <3>1 DEF OwnInv, EntriesOwn
    <3> QED
      BY <1>5, <2>4, <3>1, <3>2, <3>3
  <2>7. EntriesInSlot'
    <3> SUFFICES ASSUME NEW u \in Seid32s, Owned(u)' # 0
                 PROVE  \/ ruleProg[programs'[Owned(u)'].id] = Owned(u)'
                        \/ SharedAfter(programs'[Owned(u)'].id)
                        \/ \A k \in Keys : ruleIndex[k] # programs'[Owned(u)'].id
      BY <1>12, <2>2 DEF Slotted
    <3>1. Owned(u)' = Owned(u) /\ Owned(u) # 0 /\ programs'[Owned(u)].id = programs[Owned(u)].id
      BY <1>5, <1>9, <2>3
    <3> QED
      BY <1>6, <3>1 DEF OwnInv, EntriesInSlot
  <2>8. ASSUME NEW u \in Threads PROVE Builds(u)
    <3>1. CASE u = t
      BY <2>2, <3>1 DEF Builds, BeforeRecord
    <3>2. CASE u # t
      <4>1. call'[u] = call[u] /\ (call[u].pc \in Building => Id(u)' = Id(u))
        BY <1>2, <1>8, <3>2
      <4>2. call[u].pc \in BeforeRecord =>
              /\ call[u].prog \in 1 .. nPrograms /\ call[u].prog # 0
              /\ \A v \in Seid32s : Owned(v) # call[u].prog
        BY <1>4 DEF OwnInv, CallsBuild, BeforeRecord, Building
      <4>3. call[u].pc \in BeforeRecord =>
              /\ \A v \in Seid32s : Owned(v)' # call[u].prog
              /\ programs'[call[u].prog].state = programs[call[u].prog].state
              /\ programs'[call[u].prog].far = programs[call[u].prog].far
        BY <2>1, <2>3, <2>4, <4>2
      <4> QED
        BY <1>6, <2>2, <4>1, <4>3 DEF Builds, OwnInv, CallsBuild, Building, BeforeRecord
    <3> QED
      BY <3>1, <3>2
  <2> QED
    BY <1>12, <2>5, <2>6, <2>7, <2>8 DEF OwnInv
<1> QED
  BY <1>13, <1>14, <1>15, <1>16, <1>17, <1>18, <1>19, <1>20, <1>21, <1>22, <1>23, <1>24,
     <1>25
  DEF CreateStep, RemoveStep

(* So does the restart of the user plane, which empties the index. *)
LEMMA NextOwnInv == MapInv /\ OwnInv /\ [Next]_vars => OwnInv'
<1> SUFFICES ASSUME MapInv, OwnInv, [Next]_vars PROVE OwnInv'
  OBVIOUS
<1>1. ASSUME NEW t \in Threads, CreateStep(t) \/ RemoveStep(t) PROVE OwnInv'
  BY <1>1, ThreadOwnInv
<1>2. CASE TearDown
  <2>1. /\ UNCHANGED <<nPrograms, programs, sessionPrograms, call>>
        /\ \A k \in Keys : ruleIndex'[k] = 0
        /\ \A u \in Threads : call[u].pc = "idle"
    BY <1>2 DEF TearDown, tables, AllIdle
  <2>2. \A s \in Seid32s : Owned(s)' = Owned(s) /\ (Owned(s) # 0 => programs[Owned(s)].id # 0)
    BY <2>1 DEF OwnInv, EntriesOwn, MapInv, IdsPositive, Owned
  <2>3. CallsApart' /\ CallsBuild'
    BY <2>1 DEF CallsApart, CallsBuild, Building, BeforeRecord
  <2>4. EntriesOwn' /\ EntriesInSlot'
    BY <2>1, <2>2 DEF OwnInv, EntriesOwn, EntriesInSlot
  <2> QED
    BY <2>3, <2>4 DEF OwnInv
<1>3. CASE Setup \/ UNCHANGED vars
  <2>1. UNCHANGED <<nPrograms, programs, call, ruleIndex, ruleProg, sessionPrograms>>
    BY <1>3 DEF Setup, vars, kernelMaps
  <2> QED
    BY <2>1 DEF OwnInv, CallsApart, EntriesOwn, EntriesInSlot, CallsBuild, Owned, Id, SharedId
<1> QED
  BY <1>1, <1>2, <1>3 DEF Next

(* However the handlers overlap, an entry of mSessionProgramsMap owns a loaded program
   with its FAR, and the slot that the index leads to holds it unless its id is
   shared. *)
THEOREM EntriesSurviveOverlap == Spec => []IntactUnlessShared
<1>1. MapInv /\ OwnInv => IntactUnlessShared
  <2> SUFFICES ASSUME MapInv, OwnInv, NEW s \in Seid32s, Owned(s) # 0
               PROVE  /\ programs[Owned(s)].id < MaxRuleProg
                      /\ programs[Owned(s)].state = "loaded"
                      /\ programs[Owned(s)].far # NoFar
                      /\ ruleIndex[sessionPrograms[s].key] = programs[Owned(s)].id =>
                           \/ ruleProg[programs[Owned(s)].id] = Owned(s)
                           \/ SharedId(programs[Owned(s)].id)
    BY DEF IntactUnlessShared, Owned
  <2>1. sessionPrograms[s].key \in Keys
    BY DEF MapInv, TypeInv, TypeOK, EntryType
  <2> QED
    BY <2>1 DEF OwnInv, EntriesOwn, EntriesInSlot
<1> QED
  BY <1>1, InitOwnInv, NextOwnInv, MapInvariance, PTL DEF Spec

(* Between calls an indexed flow is forwarded, however the handlers overlapped before,
   unless the call that indexed it was refused its tail-call slot; the id the index
   then holds is beyond the array and belongs to no session entry. *)
THEOREM IndexedStaysForwarded == Spec => []IndexedIsForwarded
<1>1. MapInv /\ OwnInv => IndexedIsForwarded
  <2> SUFFICES ASSUME MapInv, OwnInv, AllIdle, NEW f \in Flows, SlotOf(f) # 0
               PROVE  \/ Route(f) \in Fars
                      \/ /\ SlotOf(f) >= MaxRuleProg
                         /\ \A s \in Seid32s : Owned(s) # 0 => programs[Owned(s)].id # SlotOf(f)
    BY DEF IndexedIsForwarded, Owned
  <2>1. KernelKey(f) \in Keys /\ SlotOf(f) \in Nat
    BY ReachedById DEF SlotOf, MapInv, TypeInv, TypeOK
  <2>2. CASE SlotOf(f) < MaxRuleProg
    <3>1. Reached(f) # 0
      BY <2>1, <2>2 DEF SlotOf, Reached, AllIdle, MapInv, IndexReached
    <3>2. /\ SlotOf(f) \in 0 .. MaxRuleProg - 1 /\ Reached(f) = ruleProg[SlotOf(f)]
          /\ Reached(f) \in 1 .. nPrograms
      BY <3>1, ReachedById, Sizes
    <3>3. programs[Reached(f)].far # NoFar
      BY <3>1, <3>2 DEF AllIdle, MapInv, SlotsFilled
    <3>4. programs[Reached(f)].far \in Fars
      BY <3>2, <3>3, RequestedIsFar DEF MapInv, FarsRequested
    <3> QED
      BY <3>1, <3>3, <3>4 DEF Route
  <2>3. CASE SlotOf(f) >= MaxRuleProg
    <3>1. ASSUME NEW s \in Seid32s, Owned(s) # 0
          PROVE  programs[Owned(s)].id # SlotOf(f)
      <4>1. programs[Owned(s)].id < MaxRuleProg /\ programs[Owned(s)].id \in Nat
        <5>1. Owned(s) \in 1 .. nPrograms /\ programs[Owned(s)].id < MaxRuleProg
          BY <3>1 DEF OwnInv, EntriesOwn
        <5>2. Owned(s) \in 1 .. MaxPrograms
          BY <5>1, Sizes DEF MapInv, TypeInv, TypeOK
        <5>3. programs[Owned(s)] \in ProgramType
          BY <5>2 DEF MapInv, TypeInv, TypeOK
        <5> QED
          BY <5>1, <5>3 DEF ProgramType
      <4> QED
        BY <2>1, <2>3, <4>1, Sizes
    <3> QED
      BY <2>3, <3>1
  <2> QED
    BY <2>1, <2>2, <2>3, Sizes
<1> QED
  BY <1>1, InitOwnInv, NextOwnInv, MapInvariance, PTL DEF Spec
=============================================================================
