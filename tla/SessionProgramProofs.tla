------------------------ MODULE SessionProgramProofs ------------------------
(***************************************************************************)
(* Proofs about SessionProgram for every number of sessions, programs,     *)
(* rules, frames and CPUs.                                                 *)
(***************************************************************************)
EXTENDS SessionProgram, FiniteSetTheorems, TLAPS

-----------------------------------------------------------------------------
(* The manager: sessions, programs and the one client. *)

Seid32s == 0 .. SeidModulus - 1

Creating == client.pc \in {"uplink", "downlink"}

ManagerTypeOK ==
  /\ mSessionProgramMap \in [Seid32s -> 0 .. nPrograms]
  /\ nPrograms \in 0 .. MaxPrograms
  /\ live \subseteq 1 .. nPrograms
  /\ client \in ClientType
  /\ lost \subseteq Directions
  /\ process \in {"running", "killed"}

Distinct ==
  \A s, other \in Seid32s :
    mSessionProgramMap[s] # 0 /\ mSessionProgramMap[other] = mSessionProgramMap[s]
      => other = s

(* Every entry is live, but for the one the handler is about to fault on. *)
Entered ==
  IF client.pc = "handler"
  THEN \E s \in Seid32s :
         /\ mSessionProgramMap[s] # 0 /\ mSessionProgramMap[s] \notin live
         /\ \A other \in Seid32s \ {s} :
              mSessionProgramMap[other] # 0 => mSessionProgramMap[other] \in live
  ELSE \A s \in Seid32s : mSessionProgramMap[s] # 0 => mSessionProgramMap[s] \in live

(* The program being created is loaded, and in no entry; its seid has none. *)
CreatedIsNew ==
  /\ client.pc \in {"setup", "uplink", "downlink"} => mSessionProgramMap[client.seid] = 0
  /\ client.pc = "setup" => nPrograms < MaxPrograms
  /\ Creating => /\ nPrograms \in live
                 /\ \A s \in Seid32s : mSessionProgramMap[s] # nPrograms

KilledByHandler == process = "killed" => client.pc = "handler"

ManagerInv ==
  ManagerTypeOK /\ Distinct /\ Entered /\ CreatedIsNew /\ KilledByHandler

(* The initial state satisfies ManagerInv. *)
LEMMA ManagerInit == Init => ManagerInv
BY SessionProgramAssumption
DEF Init, ManagerInv, ManagerTypeOK, Distinct, Entered, CreatedIsNew, KilledByHandler, Creating, Seid32s, ClientType, Idle, Directions

(* Steps of packets and rule writes leave ManagerInv alone. *)
LEMMA ManagerUntouched ==
  ASSUME ManagerInv, UNCHANGED <<managerVars, client, lost, process>>
  PROVE  ManagerInv'
BY DEF ManagerInv, ManagerTypeOK, Distinct, Entered, CreatedIsNew, KilledByHandler, Creating, managerVars

(* A truncated seid is a 32-bit seid. *)
LEMMA Truncation ==
  ASSUME NEW s \in Seids
  PROVE  Seid32(s) \in Seid32s
BY SessionProgramAssumption DEF Seid32, Seid32s

(* A loaded program is one that was set up. *)
LEMMA LiveInRange ==
  ASSUME ManagerTypeOK, NEW p \in live
  PROVE  p \in 1 .. MaxPrograms
BY SessionProgramAssumption DEF ManagerTypeOK

(* One step per action of the client. *)
LEMMA ManagerNext == ManagerInv /\ [Next]_vars => ManagerInv'
<1> SUFFICES ASSUME ManagerInv, [Next]_vars PROVE ManagerInv'
  OBVIOUS
<1> USE DEF ManagerInv, ManagerTypeOK, Creating
<1>1. ASSUME NEW seid \in Seids, Create(seid) PROVE ManagerInv'
  <2>1. Seid32(seid) \in Seid32s
    BY Truncation
  <2>2. client' = [pc |-> "setup", seid |-> Seid32(seid), found |-> {}]
    BY <1>1 DEF Create, Idle
  <2>3. ManagerTypeOK'
    BY <1>1, <2>1, <2>2 DEF Create, managerVars, ClientType, Seid32s
  <2> QED
    BY <1>1, <2>1, <2>2, <2>3
    DEF Create, At, managerVars, Distinct, Entered, CreatedIsNew, KilledByHandler, findSessionProgram
<1>2. ASSUME SetUp PROVE ManagerInv'
  <2>1. client' = [client EXCEPT !.pc = "uplink", !.found = Directions \ lost]
    BY <1>2 DEF SetUp
  <2>2. client' \in ClientType /\ client'.pc = "uplink" /\ client'.seid = client.seid
    BY <2>1 DEF ClientType
  <2>3. nPrograms < MaxPrograms /\ client.pc = "setup"
    BY <1>2 DEF SetUp, At, CreatedIsNew
  <2>4. ManagerTypeOK'
    BY <1>2, <2>2, <2>3, SessionProgramAssumption DEF SetUp
  <2>5. \A s \in Seid32s : mSessionProgramMap[s] # nPrograms + 1
    BY SessionProgramAssumption
  <2>6. CreatedIsNew'
    BY <1>2, <2>2, <2>3, <2>5 DEF SetUp, CreatedIsNew
  <2> QED
    BY <1>2, <2>2, <2>3, <2>4, <2>6
    DEF SetUp, At, Distinct, Entered, KilledByHandler
<1>3. ASSUME SetUpFails PROVE ManagerInv'
  BY <1>3, SessionProgramAssumption
  DEF SetUpFails, At, managerVars, Idle, ClientType, Directions, Distinct, Entered,
      CreatedIsNew, KilledByHandler
<1>4. ASSUME UpdateUplink PROVE ManagerInv'
  <2>1. client' \in ClientType /\ client'.pc = "downlink" /\ client'.seid = client.seid
    BY <1>4 DEF UpdateUplink, ClientType
  <2> QED
    BY <1>4, <2>1
    DEF UpdateUplink, At, managerVars, Distinct, Entered, CreatedIsNew, KilledByHandler
<1>5. ASSUME UpdateDownlink PROVE ManagerInv'
  <2>1. client.pc = "downlink" /\ client.seid \in Seid32s
    BY <1>5 DEF UpdateDownlink, At, ClientType, Seid32s
  <2>2. mSessionProgramMap' = [mSessionProgramMap EXCEPT ![client.seid] = nPrograms]
    BY <1>5 DEF UpdateDownlink, Insert
  <2>3. client'.pc = "idle" /\ client' \in ClientType
    BY <1>5, SessionProgramAssumption DEF UpdateDownlink, Idle, ClientType, Directions
  <2>4. nPrograms \in live /\ nPrograms # 0
    BY <2>1 DEF CreatedIsNew
  <2>5. ManagerTypeOK'
    BY <1>5, <2>1, <2>2, <2>3 DEF UpdateDownlink
  <2>6. Distinct'
    BY <1>5, <2>1, <2>2, <2>4 DEF UpdateDownlink, Distinct, CreatedIsNew
  <2>7. Entered'
    BY <1>5, <2>1, <2>2, <2>3, <2>4 DEF UpdateDownlink, Entered
  <2> QED
    BY <1>5, <2>3, <2>5, <2>6, <2>7
    DEF UpdateDownlink, At, CreatedIsNew, KilledByHandler
<1>6. ASSUME EgressFails PROVE ManagerInv'
  BY <1>6, SessionProgramAssumption
  DEF EgressFails, At, managerVars, Idle, ClientType, Directions, Distinct, Entered,
      CreatedIsNew, KilledByHandler
<1>7. ASSUME NEW seid \in Seids, Remove(seid) PROVE ManagerInv'
  <2>1. Seid32(seid) \in Seid32s
    BY Truncation
  <2>2. /\ client.pc = "idle" /\ client' = client
        /\ mSessionProgramMap[Seid32(seid)] # 0
        /\ live' = live \ {mSessionProgramMap[Seid32(seid)]}
        /\ mSessionProgramMap' = [mSessionProgramMap EXCEPT ![Seid32(seid)] = 0]
        /\ UNCHANGED <<nPrograms, lost, process>>
    BY <1>7 DEF Remove, At, findSessionProgram, Insert
  <2>3. ManagerTypeOK'
    <3>1. 0 \in 0 .. nPrograms
      OBVIOUS
    <3>2. mSessionProgramMap' \in [Seid32s -> 0 .. nPrograms]
      BY <2>1, <2>2, <3>1
    <3> QED
      BY <2>2, <3>2
  <2>4. Distinct'
    BY <2>1, <2>2 DEF Distinct
  <2>5. Entered'
    BY <2>1, <2>2 DEF Entered, Distinct
  <2> QED
    BY <2>2, <2>3, <2>4, <2>5 DEF CreatedIsNew, KilledByHandler
<1>8. ASSUME RemoveAll PROVE ManagerInv'
  <2>1. client'.pc \in {"idle", "removeAll"} /\ client' \in ClientType
    BY <1>8, SessionProgramAssumption DEF RemoveAll, Idle, ClientType, Directions
  <2> QED
    BY <1>8, <2>1
    DEF RemoveAll, At, managerVars, Distinct, Entered, CreatedIsNew, KilledByHandler
<1>9. ASSUME RemoveFirst PROVE ManagerInv'
  <2>1. client'.pc = "handler" /\ client' \in ClientType
    BY <1>9 DEF RemoveFirst, ClientType
  <2>2. PICK s \in Seid32s : /\ mSessionProgramMap[s] # 0
                             /\ live' = live \ {mSessionProgramMap[s]}
    BY <1>9 DEF RemoveFirst, Sessions, findSessionProgram
  <2>3. /\ client.pc = "removeAll"
        /\ UNCHANGED <<mSessionProgramMap, nPrograms, lost, process>>
    BY <1>9 DEF RemoveFirst, At
  <2>4. Entered'
    BY <2>1, <2>2, <2>3 DEF Entered, Distinct
  <2> QED
    BY <2>1, <2>2, <2>3, <2>4 DEF Distinct, CreatedIsNew, KilledByHandler
<1>10. ASSUME Fault PROVE ManagerInv'
  BY <1>10
  DEF Fault, At, managerVars, Distinct, Entered, CreatedIsNew, KilledByHandler
<1>11. ASSUME NEW dir \in Directions, InterfaceLost(dir) PROVE ManagerInv'
  BY <1>11
  DEF InterfaceLost, managerVars, Distinct, Entered, CreatedIsNew, KilledByHandler
<1>12. ASSUME \/ \E seid \in RuledSeids : WriteRule(seid)
              \/ \E c \in Cpus, seid \in Seids, fr \in Frames : Receive(c, seid, fr)
              \/ \E c \in Cpus : Datapath(c)
              \/ UNCHANGED vars
       PROVE  ManagerInv'
  <2>1. UNCHANGED <<managerVars, client, lost, process>>
    BY <1>12
    DEF WriteRule, Written, Receive, Datapath, LookupPdr, LookupFar, Decapsulate,
        Encapsulate, Leave, vars
  <2> QED
    BY SMTT(60), <2>1, ManagerUntouched
<1> QED
  BY <1>1, <1>2, <1>3, <1>4, <1>5, <1>6, <1>7, <1>8, <1>9, <1>10, <1>11, <1>12
  DEF Next, Manage

(* Through every creation, failure and removal the manager's table, its loaded programs
   and the call under way stay consistent: the inductive invariant of the theorems below. *)
THEOREM ManagerInvariant == Spec => []ManagerInv
BY ManagerInit, ManagerNext, PTL DEF Spec

(* For every number of sessions and programs, an entry of mSessionProgramMap names
   a loaded program that is no other session's. *)
THEOREM EntriesStayLive == Spec => []EntriesLive
<1>1. ManagerInv => EntriesLive
  BY DEF ManagerInv, ManagerTypeOK, Entered, Distinct, EntriesLive, Sessions,
         findSessionProgram
<1> QED
  BY <1>1, ManagerInvariant, PTL

(* The program being created will be lost: an interface that it has found is gone. *)
Doomed == Creating /\ client.found \cap lost # {}

(* LiveIsAccounted, with the program that is about to be lost counted too. *)
AccountInv ==
  \/ Cardinality(Orphans) < Cardinality(lost)
  \/ Cardinality(Orphans) <= Cardinality(lost) /\ ~Doomed

(* Both sets can be counted. *)
LEMMA AccountsFinite ==
  ASSUME ManagerInv
  PROVE  /\ IsFiniteSet(Orphans) /\ Cardinality(Orphans) \in Nat
         /\ IsFiniteSet(lost) /\ Cardinality(lost) \in Nat
<1>1. IsFiniteSet(1 .. nPrograms) /\ IsFiniteSet({"UPLINK", "DOWNLINK"})
  <2>1. nPrograms \in Int /\ 1 \in Int
    BY SessionProgramAssumption DEF ManagerInv, ManagerTypeOK
  <2>2. IsFiniteSet(1 .. nPrograms)
    BY <2>1, FS_Interval
  <2>3. IsFiniteSet({"UPLINK"} \cup {"DOWNLINK"})
    BY FS_Singleton, FS_AddElement
  <2>4. {"UPLINK", "DOWNLINK"} = {"UPLINK"} \cup {"DOWNLINK"}
    OBVIOUS
  <2> QED
    BY <2>2, <2>3, <2>4, Zenon
<1>2. Orphans \subseteq 1 .. nPrograms /\ lost \subseteq {"UPLINK", "DOWNLINK"}
  BY DEF ManagerInv, ManagerTypeOK, Orphans, Directions
<1> QED
  BY <1>1, <1>2, FS_Subset, FS_CardinalityType

(* A step that loses neither a program nor an interface. *)
LEMMA AccountKeeps ==
  ASSUME ManagerInv, AccountInv, Orphans' \subseteq Orphans, lost' = lost,
         Doomed' => Doomed
  PROVE  AccountInv'
<1>1. Cardinality(Orphans') \in Nat /\ Cardinality(Orphans') <= Cardinality(Orphans)
  BY AccountsFinite, FS_Subset, FS_CardinalityType
<1> QED
  BY <1>1, AccountsFinite DEF AccountInv

(* Only a creation under way is lost, and only with an interface. *)
LEMMA AccountNext == ManagerInv /\ ManagerInv' /\ AccountInv /\ [Next]_vars => AccountInv'
<1> SUFFICES ASSUME ManagerInv, ManagerInv', AccountInv, [Next]_vars PROVE AccountInv'
  OBVIOUS
<1> USE DEF Orphans, Sessions, findSessionProgram
<1>1. CASE EgressFails
  <2>1. /\ Doomed /\ ~Doomed' /\ lost' = lost
        /\ Orphans' \subseteq Orphans \cup {nPrograms}
    BY <1>1 DEF EgressFails, At, Accepted, Doomed, Creating, Idle, managerVars
  <2> HIDE DEF Orphans
  <2>2. /\ IsFiniteSet(Orphans \cup {nPrograms})
        /\ Cardinality(Orphans \cup {nPrograms}) \in Nat
        /\ Cardinality(Orphans \cup {nPrograms}) <= Cardinality(Orphans) + 1
    <3>1. /\ IsFiniteSet(Orphans \cup {nPrograms})
          /\ Cardinality(Orphans \cup {nPrograms}) =
               IF nPrograms \in Orphans THEN Cardinality(Orphans)
               ELSE Cardinality(Orphans) + 1
      BY AccountsFinite, FS_AddElement, Zenon
    <3> QED
      BY <3>1, AccountsFinite
  <2>3. Cardinality(Orphans') \in Nat /\ Cardinality(Orphans') <= Cardinality(Orphans) + 1
    BY <2>1, <2>2, AccountsFinite, FS_Subset, FS_CardinalityType
  <2> QED
    BY <2>1, <2>3, AccountsFinite DEF AccountInv
<1>2. ASSUME NEW dir \in Directions, InterfaceLost(dir) PROVE AccountInv'
  <2>1. Orphans' = Orphans /\ lost' = lost \cup {dir}
    BY <1>2 DEF InterfaceLost, managerVars
  <2>2. CASE dir \in lost
    <3>1. lost' = lost /\ client' = client
      BY <1>2, <2>1, <2>2 DEF InterfaceLost
    <3> QED
      BY <2>1, <3>1, AccountKeeps DEF Doomed, Creating
  <2>3. CASE dir \notin lost
    <3>1. Cardinality(lost') = Cardinality(lost) + 1
      BY <2>1, <2>3, AccountsFinite, FS_AddElement
    <3> HIDE DEF Orphans
    <3> QED
      BY <2>1, <3>1, AccountsFinite DEF AccountInv
  <2> QED
    BY <2>2, <2>3
<1>3. ASSUME NEW seid \in Seids, Create(seid) PROVE AccountInv'
  <2>1. Orphans' = Orphans /\ lost' = lost /\ ~Doomed'
    BY <1>3 DEF Create, At, Idle, managerVars, Doomed, Creating
  <2> QED
    BY <2>1, AccountKeeps
<1>4. ASSUME SetUp PROVE AccountInv'
  <2>1. /\ client.pc = "setup" /\ client'.pc = "uplink" /\ lost' = lost
        /\ client'.found = Directions \ lost
        /\ mSessionProgramMap' = mSessionProgramMap
        /\ nPrograms' = nPrograms + 1 /\ live' = live \cup {nPrograms + 1}
    BY <1>4 DEF SetUp, At, ManagerInv, ManagerTypeOK, ClientType
  <2>2. Orphans' \subseteq Orphans /\ ~Doomed'
    BY <2>1 DEF Doomed
  <2> QED
    BY <2>1, <2>2, AccountKeeps
<1>5. ASSUME SetUpFails \/ RemoveAll PROVE AccountInv'
  <2>1. /\ client.pc \in {"setup", "idle"} /\ client'.pc \in {"idle", "removeAll"}
        /\ lost' = lost /\ UNCHANGED <<mSessionProgramMap, nPrograms, live>>
    BY <1>5 DEF SetUpFails, RemoveAll, At, Idle, managerVars
  <2>2. Orphans' \subseteq Orphans /\ ~Doomed'
    BY <2>1 DEF Doomed, Creating
  <2> QED
    BY <2>1, <2>2, AccountKeeps
<1>6. ASSUME UpdateUplink PROVE AccountInv'
  <2>1. /\ client.pc = "uplink" /\ client'.pc = "downlink"
        /\ client'.found = client.found
        /\ lost' = lost /\ UNCHANGED <<mSessionProgramMap, nPrograms, live>>
    BY <1>6 DEF UpdateUplink, At, managerVars, ManagerInv, ManagerTypeOK, ClientType
  <2>2. Orphans' = Orphans /\ Doomed' = Doomed
    BY <2>1 DEF Doomed, Creating
  <2> QED
    BY <2>1, <2>2, AccountKeeps
<1>7. ASSUME UpdateDownlink PROVE AccountInv'
  <2>1. /\ client.pc = "downlink" /\ client'.pc = "idle" /\ lost' = lost
        /\ client.seid \in Seid32s /\ mSessionProgramMap \in [Seid32s -> 0 .. nPrograms]
        /\ mSessionProgramMap[client.seid] = 0
        /\ mSessionProgramMap' = [mSessionProgramMap EXCEPT ![client.seid] = nPrograms]
        /\ UNCHANGED <<nPrograms, live>> /\ nPrograms # 0
    BY <1>7 DEF UpdateDownlink, Insert, At, Idle, ManagerInv, ManagerTypeOK, ClientType,
                CreatedIsNew, Creating, Seid32s
  <2>2. Orphans' \subseteq Orphans
    <3> SUFFICES ASSUME NEW p \in Orphans' PROVE p \in Orphans
      OBVIOUS
    <3>1. p \in live /\ \A s \in Seid32s : mSessionProgramMap'[s] # 0 =>
                           mSessionProgramMap'[s] # p
      BY <2>1
    <3>2. p # nPrograms
      BY <2>1, <3>1
    <3>3. \A s \in Seid32s : mSessionProgramMap[s] # 0 => mSessionProgramMap[s] # p
      BY <2>1, <3>1
    <3> QED
      BY <2>1, <3>1, <3>2, <3>3
  <2>3. ~Doomed'
    BY <2>1 DEF Doomed, Creating
  <2> QED
    BY <2>1, <2>2, <2>3, AccountKeeps
<1>8. ASSUME NEW seid \in Seids, Remove(seid) PROVE AccountInv'
  <2>1. /\ client.pc = "idle" /\ client' = client /\ lost' = lost
        /\ Seid32(seid) \in Seid32s /\ mSessionProgramMap \in [Seid32s -> 0 .. nPrograms]
        /\ live' = live \ {mSessionProgramMap[Seid32(seid)]}
        /\ mSessionProgramMap' = [mSessionProgramMap EXCEPT ![Seid32(seid)] = 0]
        /\ nPrograms' = nPrograms
    BY <1>8, Truncation DEF Remove, Insert, At, ManagerInv, ManagerTypeOK
  <2>2. Orphans' \subseteq Orphans /\ ~Doomed'
    BY <2>1 DEF Doomed, Creating
  <2> QED
    BY <2>1, <2>2, AccountKeeps
<1>9. ASSUME RemoveFirst PROVE AccountInv'
  <2>1. /\ client.pc = "removeAll" /\ client'.pc = "handler" /\ lost' = lost
        /\ live' \subseteq live /\ UNCHANGED <<mSessionProgramMap, nPrograms>>
    BY <1>9 DEF RemoveFirst, At, ManagerInv, ManagerTypeOK, ClientType
  <2>2. Orphans' \subseteq Orphans /\ ~Doomed'
    BY <2>1 DEF Doomed, Creating
  <2> QED
    BY <2>1, <2>2, AccountKeeps
<1>10. ASSUME \/ Fault
              \/ \E seid \in RuledSeids : WriteRule(seid)
              \/ \E c \in Cpus, seid \in Seids, fr \in Frames : Receive(c, seid, fr)
              \/ \E c \in Cpus : Datapath(c)
              \/ UNCHANGED vars
       PROVE  AccountInv'
  <2>1. UNCHANGED <<managerVars, client, lost>>
    BY <1>10
    DEF Fault, WriteRule, Written, Receive, Datapath, LookupPdr, LookupFar, Decapsulate,
        Encapsulate, Leave, vars
  <2>2. Orphans' = Orphans /\ Doomed' = Doomed
    BY <2>1 DEF managerVars, Doomed, Creating
  <2> QED
    BY <2>1, <2>2, AccountKeeps
<1> QED
  BY <1>1, <1>2, <1>3, <1>4, <1>5, <1>6, <1>7, <1>8, <1>9, <1>10 DEF Next, Manage

(* However many creations fail, create loses track of no more programs than there are
   interfaces that disappeared. *)
THEOREM LiveStaysAccounted == Spec => []LiveIsAccounted
<1>1. Init => AccountInv
  <2> SUFFICES ASSUME Init PROVE AccountInv
    OBVIOUS
  <2>1. Orphans = {} /\ lost = {} /\ ~Doomed
    BY DEF Init, Orphans, Doomed
  <2> QED
    BY <2>1, FS_EmptySet DEF AccountInv
<1>2. ManagerInv /\ AccountInv => LiveIsAccounted
  BY AccountsFinite DEF AccountInv, LiveIsAccounted
<1> QED
  BY <1>1, <1>2, AccountNext, ManagerInvariant, PTL DEF Spec

-----------------------------------------------------------------------------
(* The maps and the packets. *)

DataTypeOK ==
  /\ maps \in [1 .. MaxPrograms -> MapsType]
  /\ packet \in [Cpus -> PacketType]

Inside(c) == packet[c].pc \in {"pdr", "far", "arp"}

(* A packet under way is in a program, and has the rules that its step reads. *)
PacketsNamed ==
  \A c \in Cpus :
    /\ packet[c].pc # "none" => packet[c].prog \in 1 .. MaxPrograms
    /\ packet[c].pc = "far" => packet[c].pdr \in Pdrs
    /\ packet[c].pc = "arp" => packet[c].far \in Fars

(* The egress entries of program p lack only interfaces that are lost. *)
Equipped(p) == \A dir \in Directions \ lost : dir \in maps[p].egress

(* Sessions, and the programs that packets are in, are equipped; a program being
   created is on its way. *)
SessionsEquipped ==
  \A s \in Seid32s : mSessionProgramMap[s] \in live => Equipped(mSessionProgramMap[s])

CreationEquipped ==
  /\ Creating => \A dir \in Directions \ lost : dir \in client.found
  /\ client.pc = "downlink" /\ "UPLINK" \notin lost => "UPLINK" \in maps[nPrograms].egress

PacketsEquipped == \A c \in Cpus : Inside(c) => Equipped(packet[c].prog)

EgressKept == SessionsEquipped /\ CreationEquipped /\ PacketsEquipped

DataInv == DataTypeOK /\ PacketsNamed /\ EgressKept /\ AbortsNeedLostInterface

(* An idle CPU and a fresh program are well typed. *)
LEMMA Defaults == NoPacket \in PacketType /\ EmptyMaps \in MapsType
<1>1. (CHOOSE fr \in Frames : TRUE) \in Frames
  BY SessionProgramAssumption
<1>2. NoPacket \in PacketType
  BY <1>1, SessionProgramAssumption DEF NoPacket, PacketType
<1>3. EmptyMaps \in MapsType
  BY DEF EmptyMaps, MapsType
<1> QED
  BY <1>2, <1>3

(* The initial state satisfies DataInv. *)
LEMMA DataInit == Init => DataInv
<1> SUFFICES ASSUME Init PROVE DataInv
  OBVIOUS
<1>1. DataTypeOK
  BY Defaults DEF Init, DataTypeOK
<1>2. \A c \in Cpus : packet[c].pc = "none" /\ packet[c].verdict = "none"
  BY DEF Init, NoPacket
<1>3. PacketsNamed /\ AbortsNeedLostInterface /\ PacketsEquipped
  BY <1>2 DEF PacketsNamed, AbortsNeedLostInterface, PacketsEquipped, Inside
<1>4. SessionsEquipped /\ CreationEquipped
  BY DEF Init, SessionsEquipped, CreationEquipped, Creating, Idle, Seid32s
<1> QED
  BY <1>1, <1>3, <1>4 DEF DataInv, EgressKept

(* What a step may do to a packet without disturbing what is said of it. *)
SamePackets ==
  /\ packet' \in [Cpus -> PacketType]
  /\ \A c \in Cpus :
       /\ packet'[c].pc = packet[c].pc /\ packet'[c].prog = packet[c].prog
       /\ packet'[c].pdr = packet[c].pdr /\ packet'[c].far = packet[c].far
       /\ packet'[c].verdict = packet[c].verdict /\ packet'[c].frame = packet[c].frame

(* Withdrawing the quiet mark changes nothing DataInv depends on. *)
LEMMA QuietKeeps ==
  ASSUME DataTypeOK, NEW q \in [Cpus -> BOOLEAN],
         packet' = [c \in Cpus |-> [packet[c] EXCEPT !.quiet = q[c]]]
  PROVE  SamePackets
<1>1. ASSUME NEW m \in PacketType, NEW b \in BOOLEAN
      PROVE  [m EXCEPT !.quiet = b] \in PacketType
  BY DEF PacketType
<1>2. \A c \in Cpus : packet[c] \in PacketType /\ q[c] \in BOOLEAN
                     /\ packet'[c] = [packet[c] EXCEPT !.quiet = q[c]]
  BY DEF DataTypeOK
<1>3. packet' \in [Cpus -> PacketType]
  BY <1>1, <1>2
<1>4. ASSUME NEW c \in Cpus
      PROVE  /\ packet'[c].pc = packet[c].pc /\ packet'[c].prog = packet[c].prog
             /\ packet'[c].pdr = packet[c].pdr /\ packet'[c].far = packet[c].far
             /\ packet'[c].verdict = packet[c].verdict /\ packet'[c].frame = packet[c].frame
  <2> DEFINE m == packet[c]
             b == q[c]
  <2>1. m \in PacketType /\ b \in BOOLEAN /\ packet'[c] = [m EXCEPT !.quiet = b]
    BY <1>2
  <2> HIDE DEF m, b
  <2>2. /\ packet'[c].pc = m.pc /\ packet'[c].prog = m.prog
        /\ packet'[c].pdr = m.pdr /\ packet'[c].far = m.far
        /\ packet'[c].verdict = m.verdict /\ packet'[c].frame = m.frame
    BY <2>1 DEF PacketType
  <2> QED
    BY <2>2 DEF m
<1> QED
  BY <1>3, <1>4 DEF SamePackets

(* Neither does a step that leaves packets alone. *)
LEMMA UnchangedKeeps ==
  ASSUME DataTypeOK, packet' = packet
  PROVE  SamePackets
BY DEF DataTypeOK, SamePackets

(* New egress entries in a program's maps. *)
LEMMA EgressUpdate ==
  ASSUME NEW m \in MapsType, NEW e \in SUBSET Directions
  PROVE  /\ [m EXCEPT !.egress = e] \in MapsType
         /\ [m EXCEPT !.egress = e].egress = e
BY DEF MapsType

(* Packets stay equipped when their programs do. *)
LEMMA PacketsStayEquipped ==
  ASSUME PacketsNamed, PacketsEquipped, SamePackets,
         \A p \in 1 .. MaxPrograms : Equipped(p) => Equipped(p)'
  PROVE  PacketsEquipped'
<1> SUFFICES ASSUME NEW c \in Cpus, Inside(c)' PROVE Equipped(packet[c].prog)'
  BY DEF PacketsEquipped
<1>1. Inside(c) /\ packet'[c].prog = packet[c].prog
  BY DEF SamePackets, Inside
<1>2. packet[c].prog \in 1 .. MaxPrograms /\ Equipped(packet[c].prog)
  BY <1>1 DEF PacketsNamed, PacketsEquipped, Inside
<1>3. \A dir \in Directions \ lost' : dir \in maps'[packet[c].prog].egress
  BY <1>2 DEF Equipped
<1> QED
  BY <1>1, <1>3 DEF Equipped

(* The client's steps, which leave the packets where they are. *)
LEMMA DataManage ==
  ASSUME ManagerInv, ManagerInv', DataInv,
         Manage \/ \E dir \in Directions : InterfaceLost(dir)
  PROVE  DataInv'
<1> USE DEF DataInv, DataTypeOK, ManagerInv, ManagerTypeOK
<1>1. ASSUME SamePackets, lost \subseteq lost', maps' \in [1 .. MaxPrograms -> MapsType]
      PROVE  DataTypeOK' /\ PacketsNamed' /\ AbortsNeedLostInterface'
  <2>1. PacketsNamed'
    BY <1>1 DEF SamePackets, PacketsNamed
  <2>2. AbortsNeedLostInterface'
    BY <1>1 DEF SamePackets, AbortsNeedLostInterface
  <2> QED
    BY <1>1, <2>1, <2>2 DEF SamePackets
<1>2. ASSUME \/ \E seid \in Seids : Create(seid)
             \/ SetUp \/ SetUpFails \/ EgressFails
             \/ RemoveAll \/ RemoveFirst \/ Fault
      PROVE  DataInv'
  <2>1. UNCHANGED <<maps, lost, packet>>
    BY <1>2 DEF Create, SetUp, SetUpFails, EgressFails, RemoveAll, RemoveFirst, Fault
  <2>2. SamePackets
    BY <2>1, UnchangedKeeps
  <2>3. \A p \in 1 .. MaxPrograms : Equipped(p) => Equipped(p)'
    BY <2>1 DEF Equipped
  <2>4. SessionsEquipped'
    <3>1. mSessionProgramMap' = mSessionProgramMap
      BY <1>2
      DEF Create, SetUp, SetUpFails, EgressFails, RemoveAll, RemoveFirst, Fault, managerVars
    <3>2. live' \subseteq live \cup {nPrograms + 1}
      BY <1>2
      DEF Create, SetUp, SetUpFails, EgressFails, RemoveAll, RemoveFirst, Fault, managerVars
    <3>3. ASSUME NEW s \in Seid32s, mSessionProgramMap[s] \in live'
          PROVE  mSessionProgramMap[s] \in live
      <4>1. mSessionProgramMap[s] \in 0 .. nPrograms /\ nPrograms \in Nat
        OBVIOUS
      <4>2. mSessionProgramMap[s] # nPrograms + 1
        BY <4>1
      <4> QED
        BY <3>2, <3>3, <4>2
    <3> QED
      BY <2>1, <3>1, <3>3 DEF SessionsEquipped, EgressKept, Equipped
  <2>5. CreationEquipped'
    <3>1. CASE SetUp
      BY <2>1, <3>1 DEF SetUp, ClientType, CreationEquipped, Creating
    <3>2. CASE ~SetUp
      <4>1. ASSUME NEW seid \in Seids, Create(seid) PROVE client'.pc = "setup"
        BY <4>1 DEF Create, Idle
      <4>2. ASSUME SetUpFails \/ EgressFails PROVE client'.pc = "idle"
        BY <4>2 DEF SetUpFails, EgressFails, Idle
      <4>3. ASSUME RemoveAll PROVE client'.pc \in {"idle", "removeAll"}
        BY <4>3 DEF RemoveAll, Idle
      <4>4. ASSUME RemoveFirst \/ Fault PROVE client'.pc = "handler"
        BY <4>4 DEF RemoveFirst, Fault, At, ClientType
      <4> QED
        BY <1>2, <3>2, <4>1, <4>2, <4>3, <4>4 DEF CreationEquipped, Creating
    <3> QED
      BY <3>1, <3>2
  <2>6. PacketsEquipped'
    BY <2>2, <2>3, PacketsStayEquipped DEF EgressKept
  <2> QED
    BY <1>1, <2>1, <2>2, <2>4, <2>5, <2>6 DEF EgressKept
<1>3. ASSUME UpdateUplink PROVE DataInv'
  <2>1. /\ client.pc = "uplink" /\ client'.pc = "downlink" /\ client'.found = client.found
        /\ UNCHANGED <<mSessionProgramMap, nPrograms, live, lost, packet>>
    BY <1>3 DEF UpdateUplink, At, managerVars, ClientType
  <2>2. nPrograms \in 1 .. MaxPrograms
    BY <2>1 DEF CreatedIsNew, Creating
  <2>3. maps' = [maps EXCEPT ![nPrograms] = [@ EXCEPT !.egress =
                   maps[nPrograms].egress \cup (client.found \cap {"UPLINK"})]]
    BY <1>3 DEF UpdateUplink, Egress
  <2> DEFINE e == maps[nPrograms].egress \cup (client.found \cap {"UPLINK"})
  <2>4. e \in SUBSET Directions /\ maps[nPrograms] \in MapsType
    BY <2>2 DEF MapsType, ClientType
  <2>5. /\ maps' \in [1 .. MaxPrograms -> MapsType]
        /\ maps'[nPrograms].egress = e
        /\ \A p \in 1 .. MaxPrograms : p # nPrograms => maps'[p] = maps[p]
    BY <2>2, <2>3, <2>4, EgressUpdate
  <2>6. \A p \in 1 .. MaxPrograms : Equipped(p) => Equipped(p)'
    BY <2>1, <2>5 DEF Equipped
  <2>7. SamePackets
    BY <2>1, UnchangedKeeps
  <2>8. SessionsEquipped'
    BY <2>1, <2>6, LiveInRange DEF EgressKept, SessionsEquipped, Equipped
  <2>9. CreationEquipped'
    BY <2>1, <2>5 DEF EgressKept, CreationEquipped, Creating, Directions
  <2>10. PacketsEquipped'
    BY <2>6, <2>7, PacketsStayEquipped DEF EgressKept
  <2> QED
    BY <1>1, <2>1, <2>5, <2>7, <2>8, <2>9, <2>10 DEF EgressKept
<1>4. ASSUME UpdateDownlink PROVE DataInv'
  <2>1. /\ client.pc = "downlink" /\ client'.pc = "idle"
        /\ client.seid \in Seid32s
        /\ mSessionProgramMap' = [mSessionProgramMap EXCEPT ![client.seid] = nPrograms]
        /\ UNCHANGED <<nPrograms, live, lost, packet>>
    BY <1>4 DEF UpdateDownlink, At, Insert, Idle, ClientType, Seid32s
  <2>2. nPrograms \in 1 .. MaxPrograms
    BY <2>1 DEF CreatedIsNew, Creating
  <2>3. maps' = [maps EXCEPT ![nPrograms] = [@ EXCEPT !.egress =
                   maps[nPrograms].egress \cup (client.found \cap {"DOWNLINK"})]]
    BY <1>4 DEF UpdateDownlink, Egress
  <2> DEFINE e == maps[nPrograms].egress \cup (client.found \cap {"DOWNLINK"})
  <2>4. e \in SUBSET Directions /\ maps[nPrograms] \in MapsType
    BY <2>2 DEF MapsType, ClientType
  <2>5. /\ maps' \in [1 .. MaxPrograms -> MapsType]
        /\ maps'[nPrograms].egress = e
        /\ \A p \in 1 .. MaxPrograms : p # nPrograms => maps'[p] = maps[p]
    BY <2>2, <2>3, <2>4, EgressUpdate
  <2>6. \A p \in 1 .. MaxPrograms : Equipped(p) => Equipped(p)'
    BY <2>1, <2>5 DEF Equipped
  <2>7. SamePackets
    BY <2>1, UnchangedKeeps
  <2>8. Equipped(nPrograms)'
    BY <2>1, <2>2, <2>5 DEF EgressKept, CreationEquipped, Creating, Directions, Equipped
  <2>9. SessionsEquipped'
    <3> SUFFICES ASSUME NEW s \in Seid32s, mSessionProgramMap'[s] \in live'
                 PROVE  Equipped(mSessionProgramMap[s])'
      BY DEF SessionsEquipped
    <3>1. CASE s = client.seid
      BY <2>1, <2>8, <3>1 DEF Equipped
    <3>2. CASE s # client.seid
      <4>1. mSessionProgramMap'[s] = mSessionProgramMap[s]
        BY <2>1, <3>2
      <4>2. Equipped(mSessionProgramMap[s]) /\ mSessionProgramMap[s] \in 1 .. MaxPrograms
        BY <2>1, <4>1, LiveInRange DEF EgressKept, SessionsEquipped
      <4> QED
        BY <2>6, <4>1, <4>2 DEF Equipped
    <3> QED
      BY <3>1, <3>2
  <2>10. PacketsEquipped'
    BY <2>6, <2>7, PacketsStayEquipped DEF EgressKept
  <2>11. CreationEquipped'
    BY <2>1 DEF CreationEquipped, Creating
  <2> QED
    BY <1>1, <2>1, <2>5, <2>7, <2>9, <2>10, <2>11 DEF EgressKept
<1>5. ASSUME NEW seid \in Seids, Remove(seid) PROVE DataInv'
  <2> DEFINE p == mSessionProgramMap[Seid32(seid)]
  <2>1. Seid32(seid) \in Seid32s
    BY Truncation
  <2>2. /\ client.pc = "idle" /\ p # 0
        /\ live' = live \ {p}
        /\ mSessionProgramMap' = [mSessionProgramMap EXCEPT ![Seid32(seid)] = 0]
        /\ UNCHANGED <<nPrograms, client, lost, packet>>
    BY <1>5 DEF Remove, At, findSessionProgram, Insert
  <2>3. \/ maps' = maps
        \/ /\ \A c \in Cpus : packet[c].prog # p
           /\ maps' = [maps EXCEPT ![p] = EmptyMaps]
    BY <1>5 DEF Remove, Freed, findSessionProgram
  <2>4. maps' \in [1 .. MaxPrograms -> MapsType]
    BY <2>3, Defaults
  <2>5. SamePackets
    BY <2>2, UnchangedKeeps
  <2>6. \A q \in 1 .. MaxPrograms : q # p => maps'[q] = maps[q]
    BY <2>3
  <2>7. \A c \in Cpus : Inside(c) => maps'[packet[c].prog] = maps[packet[c].prog]
    BY <2>3 DEF Inside, PacketsNamed
  <2>8. SessionsEquipped'
    <3> SUFFICES ASSUME NEW s \in Seid32s, mSessionProgramMap'[s] \in live'
                 PROVE  Equipped(mSessionProgramMap[s])'
      BY DEF SessionsEquipped
    <3>1. s # Seid32(seid) /\ mSessionProgramMap'[s] = mSessionProgramMap[s]
      BY <2>1, <2>2
    <3>2. mSessionProgramMap[s] # p /\ mSessionProgramMap[s] \in 1 .. MaxPrograms
      BY <2>2, <3>1, LiveInRange
    <3>3. Equipped(mSessionProgramMap[s])
      BY <2>2, <3>1 DEF EgressKept, SessionsEquipped
    <3> QED
      BY <2>2, <2>6, <3>1, <3>2, <3>3 DEF Equipped
  <2>9. PacketsEquipped'
    BY <2>2, <2>7 DEF EgressKept, PacketsEquipped, Equipped, Inside
  <2>10. CreationEquipped'
    BY <2>2 DEF CreationEquipped, Creating
  <2> QED
    BY <1>1, <2>2, <2>4, <2>5, <2>8, <2>9, <2>10 DEF EgressKept
<1>6. ASSUME NEW seid \in RuledSeids, WriteRule(seid) PROVE DataInv'
  <2> DEFINE p == mSessionProgramMap[Seid32(seid)]
  <2>1. p \in 1 .. MaxPrograms
    BY <1>6, Truncation, SessionProgramAssumption DEF WriteRule, findSessionProgram
  <2>2. PICK new \in MapsType : new.egress = maps[p].egress /\ Written(p, new)
    <3>1. maps[p] \in MapsType
      BY <2>1
    <3>2. ASSUME NEW t \in Teids, NEW r \in Pdrs \cup {NoPdr}
          PROVE  /\ [maps[p] EXCEPT !.uplink[t] = r] \in MapsType
                 /\ [maps[p] EXCEPT !.uplink[t] = r].egress = maps[p].egress
      BY <3>1 DEF MapsType
    <3>3. ASSUME NEW u \in Ues, NEW r \in Pdrs \cup {NoPdr}
          PROVE  /\ [maps[p] EXCEPT !.downlink[u] = r] \in MapsType
                 /\ [maps[p] EXCEPT !.downlink[u] = r].egress = maps[p].egress
      BY <3>1 DEF MapsType
    <3>4. ASSUME NEW f \in FarIds, NEW r \in Fars \cup {NoFar}
          PROVE  /\ [maps[p] EXCEPT !.fars[f] = r] \in MapsType
                 /\ [maps[p] EXCEPT !.fars[f] = r].egress = maps[p].egress
      BY <3>1 DEF MapsType
    <3>5. ASSUME NEW known \in SUBSET Hops
          PROVE  /\ [maps[p] EXCEPT !.arp = known] \in MapsType
                 /\ [maps[p] EXCEPT !.arp = known].egress = maps[p].egress
      BY <3>1 DEF MapsType
    <3> QED
      BY <1>6, <3>2, <3>3, <3>4, <3>5, Zenon DEF WriteRule, findSessionProgram
  <2>3. /\ maps' = [maps EXCEPT ![p] = new]
        /\ UNCHANGED <<mSessionProgramMap, nPrograms, live, client, lost>>
    BY <2>2 DEF Written, managerVars
  <2>4. SamePackets
    <3> DEFINE q == [c \in Cpus |-> packet[c].quiet /\ packet[c].prog # p]
    <3>1. q \in [Cpus -> BOOLEAN]
      OBVIOUS
    <3>2. packet' = [c \in Cpus |-> [packet[c] EXCEPT !.quiet = q[c]]]
      BY <2>2 DEF Written
    <3> HIDE DEF q
    <3> QED
      BY <3>1, <3>2, QuietKeeps
  <2>5. maps' \in [1 .. MaxPrograms -> MapsType]
    BY <2>2, <2>3
  <2>6. \A n \in 1 .. MaxPrograms : maps'[n].egress = maps[n].egress
    BY <2>1, <2>2, <2>3
  <2>7. \A n \in 1 .. MaxPrograms : Equipped(n) => Equipped(n)'
    BY <2>3, <2>6 DEF Equipped
  <2>8. SessionsEquipped'
    BY <2>3, <2>7 DEF EgressKept, SessionsEquipped, Equipped
  <2>9. PacketsEquipped'
    BY <2>4, <2>7, PacketsStayEquipped DEF EgressKept
  <2>10. CreationEquipped'
    BY <1>6, <2>3 DEF WriteRule, At, CreationEquipped, Creating
  <2> QED
    BY <1>1, <2>3, <2>4, <2>5, <2>8, <2>9, <2>10 DEF EgressKept
<1>7. ASSUME NEW dir \in Directions, InterfaceLost(dir) PROVE DataInv'
  <2>1. /\ lost' = lost \cup {dir}
        /\ maps' = [p \in 1 .. MaxPrograms |-> [maps[p] EXCEPT !.egress = @ \ {dir}]]
        /\ UNCHANGED <<mSessionProgramMap, nPrograms, live, client>>
    BY <1>7 DEF InterfaceLost, managerVars
  <2>2. SamePackets
    <3> DEFINE q == [c \in Cpus |-> FALSE]
    <3>1. packet' = [c \in Cpus |-> [packet[c] EXCEPT !.quiet = q[c]]]
      BY <1>7 DEF InterfaceLost
    <3>2. q \in [Cpus -> BOOLEAN]
      OBVIOUS
    <3> HIDE DEF q
    <3> QED
      BY <3>1, <3>2, QuietKeeps
  <2> DEFINE cut(p) == [maps[p] EXCEPT !.egress = maps[p].egress \ {dir}]
  <2>3. ASSUME NEW p \in 1 .. MaxPrograms
        PROVE  cut(p) \in MapsType /\ cut(p).egress = maps[p].egress \ {dir}
    <3>1. maps[p] \in MapsType
      OBVIOUS
    <3>2. maps[p].egress \ {dir} \in SUBSET Directions
      BY <3>1 DEF MapsType
    <3> QED
      BY <3>1, <3>2, EgressUpdate
  <2>4. maps' = [p \in 1 .. MaxPrograms |-> cut(p)]
    BY <2>1
  <2> HIDE DEF cut
  <2>5. maps' \in [1 .. MaxPrograms -> MapsType]
    BY <2>3, <2>4
  <2>6. \A p \in 1 .. MaxPrograms : maps'[p].egress = maps[p].egress \ {dir}
    BY <2>3, <2>4
  <2>7. \A p \in 1 .. MaxPrograms : Equipped(p) => Equipped(p)'
    BY <2>1, <2>6 DEF Equipped
  <2>8. SessionsEquipped'
    BY <2>1, <2>7, LiveInRange DEF EgressKept, SessionsEquipped, Equipped
  <2>9. PacketsEquipped'
    BY <2>2, <2>7, PacketsStayEquipped DEF EgressKept
  <2>10. CreationEquipped'
    <3>1. Creating => nPrograms \in 1 .. MaxPrograms
      BY DEF CreatedIsNew
    <3> QED
      BY <2>1, <2>6, <3>1 DEF EgressKept, CreationEquipped, Creating
  <2> QED
    BY <1>1, <2>1, <2>2, <2>5, <2>8, <2>9, <2>10 DEF EgressKept
<1> QED
  BY <1>2, <1>3, <1>4, <1>5, <1>6, <1>7 DEF Manage

(* What Finish makes of a packet. *)
LEMMA FinishedPacket ==
  ASSUME NEW m \in PacketType,
         NEW v \in {"PASS", "DROP", "ABORTED", "REDIRECT"},
         NEW sh \in {"asReceived", "inner", "gtpu", "half", "garbled"}
  PROVE  [m EXCEPT !.pc = "done", !.verdict = v, !.shape = sh] \in PacketType
<1>1. [m EXCEPT !.pc = "done"] \in PacketType
  BY DEF PacketType
<1>2. ASSUME NEW k \in PacketType PROVE [k EXCEPT !.verdict = v] \in PacketType
  BY DEF PacketType
<1>3. ASSUME NEW k \in PacketType PROVE [k EXCEPT !.shape = sh] \in PacketType
  BY DEF PacketType
<1> QED
  BY <1>1, <1>2, <1>3

(* The packets' steps, which leave the managers alone. *)
LEMMA DataPackets ==
  ASSUME ManagerInv, DataInv,
         \/ \E c \in Cpus, seid \in Seids, fr \in Frames : Receive(c, seid, fr)
         \/ \E c \in Cpus : Datapath(c)
  PROVE  DataInv'
<1> USE DEF DataInv, DataTypeOK, ManagerInv, ManagerTypeOK
<1>1. UNCHANGED <<mSessionProgramMap, nPrograms, live, client, lost>>
  BY DEF Receive, Datapath, LookupPdr, LookupFar, Decapsulate, Encapsulate, Leave,
         managerVars
(* One packet moves on, with the fields its new step needs, in the same maps. *)
<1>2. ASSUME NEW c \in Cpus, NEW new \in PacketType, maps' = maps,
             packet' = [packet EXCEPT ![c] = new],
             new.pc # "none", new.prog \in 1 .. MaxPrograms,
             new.pc = "far" => new.pdr \in Pdrs,
             new.pc = "arp" => new.far \in Fars,
             new.pc # "done" => Equipped(new.prog),
             new.verdict = "ABORTED" => new.frame.dir \in lost
      PROVE  DataInv'
  <2>1. /\ packet' \in [Cpus -> PacketType]
        /\ packet'[c] = new
        /\ \A d \in Cpus : d # c => packet'[d] = packet[d]
    BY <1>2
  <2>2. PacketsNamed'
    BY <1>2, <2>1 DEF PacketsNamed
  <2>3. PacketsEquipped'
    BY <1>1, <1>2, <2>1 DEF EgressKept, PacketsEquipped, Inside, Equipped
  <2>4. AbortsNeedLostInterface'
    BY <1>1, <1>2, <2>1 DEF AbortsNeedLostInterface
  <2>5. SessionsEquipped' /\ CreationEquipped'
    BY <1>1, <1>2 DEF EgressKept, SessionsEquipped, CreationEquipped, Equipped, Creating
  <2> QED
    BY <1>2, <2>1, <2>2, <2>3, <2>4, <2>5 DEF EgressKept
(* The verdict on a packet under way. *)
<1>3. ASSUME NEW c \in Cpus, Inside(c), maps' = maps,
             NEW verdict \in {"PASS", "DROP", "ABORTED", "REDIRECT"},
             NEW shape \in {"asReceived", "inner", "gtpu", "half", "garbled"},
             Finish(c, verdict, shape),
             verdict = "ABORTED" => packet[c].frame.dir \in lost
      PROVE  DataInv'
  <2> DEFINE new == [packet[c] EXCEPT !.pc = "done", !.verdict = verdict, !.shape = shape]
  <2>1. /\ new \in PacketType /\ new.pc = "done" /\ new.prog = packet[c].prog
        /\ new.verdict = verdict /\ new.frame = packet[c].frame
    <3> DEFINE m == packet[c]
    <3>1. m \in PacketType
      OBVIOUS
    <3> HIDE DEF m
    <3> DEFINE n == [m EXCEPT !.pc = "done", !.verdict = verdict, !.shape = shape]
    <3>2. n \in PacketType
      BY <3>1, FinishedPacket
    <3>3. n.pc = "done" /\ n.prog = m.prog /\ n.verdict = verdict /\ n.frame = m.frame
      BY <3>1 DEF PacketType
    <3> QED
      BY <3>2, <3>3, Zenon DEF m
  <2>2. packet' = [packet EXCEPT ![c] = new]
    BY <1>3 DEF Finish
  <2>3. packet[c].prog \in 1 .. MaxPrograms
    BY <1>3 DEF PacketsNamed, Inside
  <2> HIDE DEF new
  <2> QED
    BY <1>2, <1>3, <2>1, <2>2, <2>3
<1>4. ASSUME NEW c \in Cpus, NEW seid \in Seids, NEW fr \in Frames, Receive(c, seid, fr)
      PROVE  DataInv'
  <2> DEFINE p == mSessionProgramMap[Seid32(seid)]
             new == Arrived(p, fr)
  <2>1. p \in live /\ Seid32(seid) \in Seid32s
    BY <1>4, Truncation DEF Receive, findSessionProgram
  <2>2. p \in 1 .. MaxPrograms /\ Equipped(p)
    BY <2>1, LiveInRange DEF EgressKept, SessionsEquipped
  <2>3. packet' = [packet EXCEPT ![c] = new] /\ maps' = maps
    BY <1>4 DEF Receive, findSessionProgram
  <2>4. /\ new \in PacketType /\ new.pc \in {"done", "pdr"} /\ new.prog = p
        /\ new.verdict \in {"PASS", "none"}
    BY <2>2, SessionProgramAssumption DEF Arrived, PacketType
  <2> HIDE DEF new, p
  <2> QED
    BY <1>2, <2>2, <2>3, <2>4
<1>5. ASSUME NEW c \in Cpus, LookupPdr(c) PROVE DataInv'
  <2> DEFINE pdr == PdrOf(maps[packet[c].prog], packet[c].frame)
             new == [packet[c] EXCEPT !.pc = "far", !.pdr = pdr]
  <2>1. /\ packet[c].pc = "pdr" /\ maps' = maps
        /\ packet[c] \in PacketType
        /\ packet[c].prog \in 1 .. MaxPrograms /\ Equipped(packet[c].prog)
    BY <1>5 DEF LookupPdr, PacketsNamed, EgressKept, PacketsEquipped, Inside
  <2>2. maps[packet[c].prog] \in MapsType /\ packet[c].frame \in FrameType
    BY <2>1, SessionProgramAssumption DEF PacketType
  <2>3. pdr \in Pdrs \cup {NoPdr}
    BY <2>2 DEF PdrOf, MapsType, FrameType
  <2>4. CASE Finish(c, "DROP", "asReceived") \/ Finish(c, "PASS", "asReceived")
    BY <1>3, <2>1, <2>4 DEF Inside
  <2>5. CASE pdr # NoPdr /\ packet' = [packet EXCEPT ![c] = new]
    <3>1. /\ new \in PacketType /\ new.pc = "far" /\ new.prog = packet[c].prog
          /\ new.pdr = pdr /\ new.verdict = packet[c].verdict
          /\ new.frame = packet[c].frame
      BY <2>1, <2>3 DEF PacketType
    <3>2. packet[c].verdict = "ABORTED" => packet[c].frame.dir \in lost
      BY DEF AbortsNeedLostInterface
    <3> HIDE DEF new, pdr
    <3> QED
      BY <1>2, <2>1, <2>3, <2>5, <3>1, <3>2
  <2> QED
    BY <1>5, <2>4, <2>5 DEF LookupPdr
<1>6. ASSUME NEW c \in Cpus, LookupFar(c) PROVE DataInv'
  <2> DEFINE far == maps[packet[c].prog].fars[packet[c].pdr.far]
             new == [packet[c] EXCEPT !.pc = "arp", !.far = far]
  <2>1. /\ packet[c].pc = "far" /\ maps' = maps
        /\ packet[c] \in PacketType /\ packet[c].pdr \in Pdrs
        /\ packet[c].prog \in 1 .. MaxPrograms /\ Equipped(packet[c].prog)
    BY <1>6 DEF LookupFar, PacketsNamed, EgressKept, PacketsEquipped, Inside
  <2>2. maps[packet[c].prog] \in MapsType /\ packet[c].pdr \in PdrType
    BY <2>1, SessionProgramAssumption
  <2>3. far \in Fars \cup {NoFar}
    BY <2>2 DEF MapsType, PdrType
  <2>4. CASE Finish(c, "DROP", "asReceived") \/ Finish(c, "PASS", "asReceived")
    BY <1>3, <2>1, <2>4 DEF Inside
  <2>5. CASE far # NoFar /\ packet' = [packet EXCEPT ![c] = new]
    <3>1. /\ new \in PacketType /\ new.pc = "arp" /\ new.prog = packet[c].prog
          /\ new.far = far /\ new.verdict = packet[c].verdict
          /\ new.frame = packet[c].frame
      BY <2>1, <2>3 DEF PacketType
    <3>2. packet[c].verdict = "ABORTED" => packet[c].frame.dir \in lost
      BY DEF AbortsNeedLostInterface
    <3> HIDE DEF new, far
    <3> QED
      BY <1>2, <2>1, <2>3, <2>5, <3>1, <3>2
  <2> QED
    BY <1>6, <2>4, <2>5 DEF LookupFar
<1>7. ASSUME NEW c \in Cpus, Decapsulate(c) \/ Encapsulate(c) PROVE DataInv'
  <2>1. packet[c].pc = "arp" /\ maps' = maps /\ packet[c] \in PacketType
    BY <1>7 DEF Decapsulate, Encapsulate
  <2>2. Equipped(packet[c].prog) /\ packet[c].frame.dir \in Directions
    BY <2>1, SessionProgramAssumption
    DEF EgressKept, PacketsEquipped, Inside, PacketType, FrameType, Directions
  <2>3. ASSUME NEW shape \in {"inner", "gtpu", "half", "garbled"}, Redirect(c, shape)
        PROVE  DataInv'
    <3>1. packet[c].frame.dir \notin maps[packet[c].prog].egress
            => packet[c].frame.dir \in lost
      BY <2>2 DEF Equipped
    <3> QED
      BY <1>3, <2>1, <2>3, <3>1 DEF Redirect, EgressKey, Inside
  <2>4. ASSUME Finish(c, "DROP", "asReceived") PROVE DataInv'
    BY <1>3, <2>1, <2>4 DEF Inside
  <2> QED
    BY <1>7, <2>3, <2>4 DEF Decapsulate, Encapsulate, Decapsulated
<1>8. ASSUME NEW c \in Cpus, Leave(c) PROVE DataInv'
  <2> DEFINE p == packet[c].prog
  <2>1. packet' = [packet EXCEPT ![c] = NoPacket] /\ p \in 1 .. MaxPrograms
    BY <1>8 DEF Leave, PacketsNamed
  <2>2. \/ maps' = maps
        \/ /\ p \notin live
           /\ \A d \in Cpus \ {c} : packet[d].prog # p
           /\ maps' = [maps EXCEPT ![p] = EmptyMaps]
    BY <1>8 DEF Leave, Freed
  <2>3. /\ packet'[c] = NoPacket /\ NoPacket.pc = "none" /\ NoPacket.verdict = "none"
        /\ \A d \in Cpus : d # c => packet'[d] = packet[d]
    BY <2>1 DEF NoPacket
  <2>4. DataTypeOK'
    BY <2>1, <2>2, Defaults
  <2>5. PacketsNamed' /\ AbortsNeedLostInterface'
    BY <1>1, <2>3 DEF PacketsNamed, AbortsNeedLostInterface
  <2>6. \A q \in 1 .. MaxPrograms : q # p => maps'[q] = maps[q]
    BY <2>2
  <2>7. \A q \in live : maps'[q] = maps[q]
    BY <2>2, <2>6, LiveInRange
  <2>8. PacketsEquipped'
    <3> SUFFICES ASSUME NEW d \in Cpus, Inside(d)' PROVE Equipped(packet[d].prog)'
      BY DEF PacketsEquipped
    <3>1. d # c /\ packet'[d] = packet[d] /\ Inside(d)
      BY <2>3 DEF Inside
    <3>2. maps'[packet[d].prog] = maps[packet[d].prog]
      BY <2>2, <3>1 DEF PacketsNamed, Inside
    <3>3. Equipped(packet[d].prog)
      BY <3>1 DEF EgressKept, PacketsEquipped
    <3> QED
      BY <1>1, <3>1, <3>2, <3>3 DEF Equipped
  <2>9. SessionsEquipped'
    BY <1>1, <2>7 DEF EgressKept, SessionsEquipped, Equipped
  <2>10. CreationEquipped'
    <3>1. Creating => nPrograms \in live
      BY DEF CreatedIsNew
    <3> QED
      BY <1>1, <2>7, <3>1 DEF EgressKept, CreationEquipped, Creating
  <2> QED
    BY <2>4, <2>5, <2>8, <2>9, <2>10 DEF EgressKept
<1> QED
  BY <1>4, <1>5, <1>6, <1>7, <1>8 DEF Datapath

(* Every step keeps DataInv. *)
LEMMA DataNext == ManagerInv /\ ManagerInv' /\ DataInv /\ [Next]_vars => DataInv'
<1> SUFFICES ASSUME ManagerInv, ManagerInv', DataInv, [Next]_vars PROVE DataInv'
  OBVIOUS
<1>1. CASE UNCHANGED vars
  BY <1>1
  DEF vars, managerVars, DataInv, DataTypeOK, PacketsNamed, EgressKept, SessionsEquipped,
      CreationEquipped, PacketsEquipped, Inside, Equipped, Creating,
      AbortsNeedLostInterface
<1> QED
  BY <1>1, DataManage, DataPackets DEF Next

(* Whatever clients write while packets are inside, packets name loaded maps and rules that
   exist, and every session's program has its egress interfaces. *)
THEOREM DataInvariant == Spec => []DataInv
BY DataInit, DataNext, ManagerInvariant, PTL DEF Spec

(* Every variable keeps its type, whatever the numbers of sessions, programs, rules,
   frames and CPUs, and whatever the build leaves in the index. *)
THEOREM SessionTypeCorrect == Spec => []SessionTypeOK
<1>1. ManagerInv /\ DataInv => SessionTypeOK
  <2> SUFFICES ASSUME ManagerInv, DataInv PROVE SessionTypeOK
    OBVIOUS
  <2>1. mSessionProgramMap \in [0 .. SeidModulus - 1 -> 0 .. MaxPrograms]
    BY SessionProgramAssumption DEF ManagerInv, ManagerTypeOK, Seid32s
  <2> QED
    BY <2>1 DEF ManagerInv, ManagerTypeOK, DataInv, DataTypeOK, SessionTypeOK
<1> QED
  BY <1>1, ManagerInvariant, DataInvariant, PTL

(* A packet's redirect fails only when its interface is gone, though packets outlive
   the session whose program they are in. *)
THEOREM RedirectsFindInterface == Spec => []AbortsNeedLostInterface
<1>1. DataInv => AbortsNeedLostInterface
  BY DEF DataInv
<1> QED
  BY <1>1, DataInvariant, PTL

-----------------------------------------------------------------------------
(* The packets and the rules: what the verdict on a packet says of the maps.  What a
   packet has read is still there, as long as it is quiet. *)

MapFar(m, fr) == IF PdrOf(m, fr) = NoPdr THEN NoFar ELSE m.fars[PdrOf(m, fr).far]

Forwarding(far) == far # NoFar /\ (ToCore(far) \/ ToAccess(far))

(* The reasons to drop a frame. *)
Dropping(m, fr) ==
  LET far == MapFar(m, fr) IN
  \/ far = NoFar
  \/ ToCore(far) /\ (fr.size # "full" \/ fr.hop \notin m.arp)

(* The verdict and shape of pk are ones that the rules of m give. *)
Judged(pk, m) ==
  LET pdr == PdrOf(m, pk.frame)
      far == MapFar(m, pk.frame)
      redirected == pk.verdict \in {"REDIRECT", "ABORTED"}
  IN /\ pk.verdict = "DROP" => Dropping(m, pk.frame)
     /\ redirected => /\ Forwarding(far) /\ ~Dropping(m, pk.frame)
                      /\ TRUE \in Outcomes(pdr, pk.frame)
     /\ pk.verdict = "PASS" =>
          /\ pdr # NoPdr
          /\ FALSE \in Outcomes(pdr, pk.frame) \/ (far # NoFar /\ ~Forwarding(far))
     /\ pk.shape = "half" <=> redirected /\ ToAccess(far) /\ far.hop \notin m.arp

(* The PDR pk carries is the one m has, and was taken to match. *)
FoundPdr(pk, m) ==
  /\ pk.pdr = PdrOf(m, pk.frame) /\ pk.pdr # NoPdr
  /\ TRUE \in Outcomes(pk.pdr, pk.frame)

(* The FAR too, and the headers it looks at are in the frame. *)
FoundFar(pk, m) ==
  /\ pk.far = MapFar(m, pk.frame) /\ Forwarding(pk.far)
  /\ ToCore(pk.far) => pk.frame.size = "full"

Follows(pk, m) ==
  /\ pk.pc = "far" => FoundPdr(pk, m)
  /\ pk.pc = "arp" => FoundPdr(pk, m) /\ FoundFar(pk, m)
  /\ pk.pc = "done" => Judged(pk, m)

QuietInv ==
  \A c \in Cpus :
    packet[c].pc # "none" /\ packet[c].quiet /\ packet[c].frame.size # "short" =>
      Follows(packet[c], maps[packet[c].prog])

(* The verdict and the shape are settled by Finish alone, and the FAR stays. *)
ShapeInv ==
  /\ RedirectedShape
  /\ \A c \in Cpus : packet[c].pc # "done" => packet[c].verdict = "none"
PacketInv == QuietInv /\ ShapeInv

(* The initial state satisfies PacketInv: no CPU has a packet. *)
LEMMA PacketInit == Init => PacketInv
<1> SUFFICES ASSUME Init PROVE PacketInv
  OBVIOUS
<1>1. \A c \in Cpus : packet[c].pc = "none" /\ packet[c].verdict = "none"
  BY DEF Init, NoPacket
<1> QED
  BY <1>1 DEF PacketInv, QuietInv, ShapeInv, RedirectedShape

(* What a packet reads of its program's maps when it judges. *)
SameRules(m, n) ==
  /\ n.uplink = m.uplink /\ n.downlink = m.downlink
  /\ n.fars = m.fars /\ n.arp = m.arp

(* The egress entries are not among it. *)
LEMMA RulesDecide ==
  ASSUME NEW m, NEW n, SameRules(m, n), NEW pk, Follows(pk, m)
  PROVE  Follows(pk, n)
<1>1. PdrOf(n, pk.frame) = PdrOf(m, pk.frame)
  BY DEF SameRules, PdrOf
<1>2. MapFar(n, pk.frame) = MapFar(m, pk.frame)
  BY <1>1 DEF SameRules, MapFar
<1>3. Dropping(n, pk.frame) <=> Dropping(m, pk.frame)
  BY <1>2 DEF SameRules, Dropping
<1>4. Judged(pk, m) => Judged(pk, n)
  BY <1>1, <1>2, <1>3, Zenon DEF SameRules, Judged
<1>5. FoundPdr(pk, m) => FoundPdr(pk, n)
  BY <1>1 DEF FoundPdr
<1>6. FoundFar(pk, m) => FoundFar(pk, n)
  BY <1>2 DEF FoundFar
<1> QED
  BY <1>4, <1>5, <1>6 DEF Follows

(* A packet that stands still while others move: only the quiet mark may go, and it
   stays only if the rules do. *)
Undisturbed(c) ==
  \/ packet'[c] = packet[c] /\ (packet[c].pc # "none" =>
       SameRules(maps[packet[c].prog], maps'[packet[c].prog]))
  \/ packet'[c] = [packet[c] EXCEPT !.quiet = FALSE]

(* Such a packet keeps what PacketInv says of it. *)
LEMMA UndisturbedKeeps ==
  ASSUME DataTypeOK, PacketInv, \A c \in Cpus : Undisturbed(c)
  PROVE  PacketInv'
<1>1. ASSUME NEW c \in Cpus
      PROVE  /\ packet'[c].pc = packet[c].pc /\ packet'[c].verdict = packet[c].verdict
             /\ packet'[c].shape = packet[c].shape /\ packet'[c].far = packet[c].far
             /\ packet'[c].frame = packet[c].frame
             /\ packet'[c].quiet => packet'[c] = packet[c]
                  /\ (packet[c].pc # "none" =>
                        SameRules(maps[packet[c].prog], maps'[packet[c].prog]))
  <2>1. packet[c] \in PacketType
    BY DEF DataTypeOK
  <2>2. CASE packet'[c] = packet[c]
             /\ (packet[c].pc # "none" =>
                   SameRules(maps[packet[c].prog], maps'[packet[c].prog]))
    BY <2>2
  <2>3. CASE packet'[c] = [packet[c] EXCEPT !.quiet = FALSE]
    <3> DEFINE m == packet[c]
    <3>1. m \in PacketType /\ packet'[c] = [m EXCEPT !.quiet = FALSE]
      BY <2>1, <2>3
    <3> HIDE DEF m
    <3>2. /\ packet'[c].pc = m.pc /\ packet'[c].verdict = m.verdict
          /\ packet'[c].shape = m.shape /\ packet'[c].far = m.far
          /\ packet'[c].frame = m.frame /\ ~packet'[c].quiet
      BY <3>1 DEF PacketType
    <3> QED
      BY <3>2 DEF m
  <2> QED
    BY <2>2, <2>3 DEF Undisturbed
<1>2. QuietInv'
  <2> SUFFICES ASSUME NEW c \in Cpus, packet'[c].pc # "none", packet'[c].quiet,
                      packet'[c].frame.size # "short"
               PROVE  Follows(packet'[c], maps'[packet'[c].prog])
    BY DEF QuietInv
  <2>1. /\ packet'[c] = packet[c]
        /\ SameRules(maps[packet[c].prog], maps'[packet[c].prog])
    BY <1>1
  <2>2. Follows(packet[c], maps[packet[c].prog])
    BY <2>1 DEF PacketInv, QuietInv
  <2> QED
    BY <2>1, <2>2, RulesDecide
<1>3. ShapeInv'
  <2>1. \A c \in Cpus : Network(packet'[c]) = Network(packet[c])
    BY <1>1 DEF Network, EgressKey
  <2> QED
    BY <1>1, <2>1 DEF PacketInv, ShapeInv, RedirectedShape
<1> QED
  BY <1>2, <1>3 DEF PacketInv

(* The client's steps and the loss of an interface.  Rules change under a packet only
   when they are written, and the maps are freed only when no packet reads them. *)
LEMMA PacketManage ==
  ASSUME ManagerInv, DataInv, PacketInv,
         Manage \/ \E dir \in Directions : InterfaceLost(dir)
  PROVE  PacketInv'
<1> USE DEF DataInv, DataTypeOK
<1> SUFFICES \A c \in Cpus : Undisturbed(c)
  BY UndisturbedKeeps
<1>1. ASSUME \/ \E seid \in Seids : Create(seid)
             \/ SetUp \/ SetUpFails \/ EgressFails
             \/ RemoveAll \/ RemoveFirst \/ Fault
      PROVE  \A c \in Cpus : Undisturbed(c)
  <2>1. UNCHANGED <<maps, packet>>
    BY <1>1 DEF Create, SetUp, SetUpFails, EgressFails, RemoveAll, RemoveFirst, Fault
  <2> QED
    BY <2>1 DEF Undisturbed, SameRules
<1>2. ASSUME UpdateUplink \/ UpdateDownlink
      PROVE  \A c \in Cpus : Undisturbed(c)
  <2>1. PICK e : packet' = packet /\ maps' = [maps EXCEPT ![nPrograms] =
                                      [maps[nPrograms] EXCEPT !.egress = e]]
    BY <1>2 DEF UpdateUplink, UpdateDownlink, Egress
  <2>2. ASSUME NEW p \in 1 .. MaxPrograms PROVE SameRules(maps[p], maps'[p])
    <3>1. CASE p # nPrograms
      BY <2>1, <3>1 DEF SameRules
    <3>2. CASE p = nPrograms
      <4> DEFINE m == maps[nPrograms]
      <4>1. m \in MapsType /\ maps'[p] = [m EXCEPT !.egress = e]
        BY <2>1, <3>2
      <4> HIDE DEF m
      <4>2. SameRules(m, maps'[p])
        BY <4>1 DEF SameRules, MapsType
      <4> QED
        BY <3>2, <4>2 DEF m
    <3> QED
      BY <3>1, <3>2
  <2> QED
    BY <2>1, <2>2 DEF Undisturbed, PacketsNamed
<1>3. ASSUME NEW seid \in Seids, Remove(seid)
      PROVE  \A c \in Cpus : Undisturbed(c)
  <2> DEFINE p == findSessionProgram(Seid32(seid))
  <2>1. packet' = packet /\ (\/ maps' = maps
                             \/ /\ \A c \in Cpus : packet[c].prog # p
                                /\ maps' = [maps EXCEPT ![p] = EmptyMaps])
    BY <1>3 DEF Remove, Freed
  <2>2. \A c \in Cpus : packet[c].pc # "none" =>
                          maps'[packet[c].prog] = maps[packet[c].prog]
    BY <2>1 DEF PacketsNamed
  <2> QED
    BY <2>1, <2>2 DEF Undisturbed, SameRules
<1>4. ASSUME NEW seid \in RuledSeids, WriteRule(seid)
      PROVE  \A c \in Cpus : Undisturbed(c)
  <2> DEFINE p == findSessionProgram(Seid32(seid))
  <2>1. PICK new : /\ maps' = [maps EXCEPT ![p] = new]
                   /\ packet' = [c \in Cpus |-> [packet[c] EXCEPT
                                   !.quiet = packet[c].quiet /\ packet[c].prog # p]]
    BY <1>4 DEF WriteRule, Written
  <2> SUFFICES ASSUME NEW c \in Cpus PROVE Undisturbed(c)
    OBVIOUS
  <2>2. CASE packet[c].prog = p
    BY <2>1, <2>2 DEF Undisturbed
  <2>3. CASE packet[c].prog # p
    <3>1. packet'[c] = [packet[c] EXCEPT !.quiet = packet[c].quiet]
      BY <2>1, <2>3 DEF PacketType
    <3>2. packet'[c] = packet[c]
      <4> DEFINE m == packet[c]
      <4>1. m \in PacketType /\ packet'[c] = [m EXCEPT !.quiet = m.quiet]
        BY <3>1
      <4> HIDE DEF m
      <4>2. packet'[c] = m
        BY <4>1 DEF PacketType
      <4> QED
        BY <4>2 DEF m
    <3>3. packet[c].pc # "none" => maps'[packet[c].prog] = maps[packet[c].prog]
      BY <2>1, <2>3 DEF PacketsNamed
    <3> QED
      BY <3>2, <3>3 DEF Undisturbed, SameRules
  <2> QED
    BY <2>2, <2>3
<1>5. ASSUME NEW dir \in Directions, InterfaceLost(dir)
      PROVE  \A c \in Cpus : Undisturbed(c)
  BY <1>5 DEF InterfaceLost, Undisturbed
<1> QED
  BY <1>1, <1>2, <1>3, <1>4, <1>5 DEF Manage

(* One packet moves on in unchanged maps: what is asked of its new state. *)
LEMMA PacketMoves ==
  ASSUME DataTypeOK, PacketInv, NEW c \in Cpus, NEW new, maps' = maps,
         packet' = [packet EXCEPT ![c] = new],
         new.pc # "done" => new.verdict = "none",
         new.verdict = "REDIRECT" => Leaving(Network(new), new.far, new.shape),
         new.pc # "none" /\ new.quiet /\ new.frame.size # "short" =>
           Follows(new, maps[new.prog])
  PROVE  PacketInv'
<1>1. packet'[c] = new /\ \A d \in Cpus : d # c => packet'[d] = packet[d]
  BY DEF DataTypeOK
<1>2. QuietInv'
  <2> SUFFICES ASSUME NEW d \in Cpus, packet'[d].pc # "none", packet'[d].quiet,
                      packet'[d].frame.size # "short"
               PROVE  Follows(packet'[d], maps'[packet'[d].prog])
    BY DEF QuietInv
  <2>1. CASE d = c
    BY <1>1, <2>1
  <2>2. CASE d # c
    BY <1>1, <2>2 DEF PacketInv, QuietInv
  <2> QED
    BY <2>1, <2>2
<1>3. \A d \in Cpus : packet'[d].pc # "done" => packet'[d].verdict = "none"
  BY <1>1 DEF PacketInv, ShapeInv
<1>4. RedirectedShape'
  <2> SUFFICES ASSUME NEW d \in Cpus, packet'[d].verdict = "REDIRECT"
               PROVE  Leaving(Network(packet'[d]), packet'[d].far, packet'[d].shape)
    BY DEF RedirectedShape
  <2>1. CASE d = c
    BY <1>1, <2>1
  <2>2. CASE d # c
    BY <1>1, <2>2 DEF PacketInv, ShapeInv, RedirectedShape
  <2> QED
    BY <2>1, <2>2
<1> QED
  BY <1>2, <1>3, <1>4 DEF PacketInv, ShapeInv

(* A packet that gets its verdict keeps the rest. *)
LEMMA PacketFinishes ==
  ASSUME DataTypeOK, PacketInv, NEW c \in Cpus, maps' = maps,
         NEW verdict, NEW shape, Finish(c, verdict, shape),
         verdict = "REDIRECT" => Leaving(Network(packet[c]), packet[c].far, shape),
         \A pk : /\ pk.frame = packet[c].frame
                 /\ pk.verdict = verdict /\ pk.shape = shape
                 /\ packet[c].quiet /\ packet[c].frame.size # "short"
                 => Judged(pk, maps[packet[c].prog])
  PROVE  PacketInv'
<1> DEFINE m == packet[c]
           new == [m EXCEPT !.pc = "done", !.verdict = verdict, !.shape = shape]
<1>1. packet' = [packet EXCEPT ![c] = new] /\ m \in PacketType
  BY DEF Finish, DataTypeOK
<1>2. /\ new.pc = "done" /\ new.verdict = verdict /\ new.shape = shape
      /\ new.far = packet[c].far /\ new.frame = packet[c].frame
      /\ new.prog = packet[c].prog /\ new.quiet = packet[c].quiet
  <2> HIDE DEF m
  <2>1. /\ new.pc = "done" /\ new.verdict = verdict /\ new.shape = shape
        /\ new.far = m.far /\ new.frame = m.frame
        /\ new.prog = m.prog /\ new.quiet = m.quiet
    BY <1>1 DEF PacketType
  <2> QED
    BY <2>1 DEF m
<1> HIDE DEF new
<1>3. new.quiet /\ new.frame.size # "short" => Follows(new, maps[new.prog])
  BY <1>2 DEF Follows
<1>4. Network(new) = Network(packet[c])
  BY <1>2 DEF Network, EgressKey
<1> QED
  BY <1>1, <1>2, <1>3, <1>4, PacketMoves

(* The comparison of the PDI gives TRUE or FALSE, whatever the index. *)
LEMMA OutcomesAreBoolean ==
  ASSUME NEW pdr, NEW fr, NEW b \in Outcomes(pdr, fr)
  PROVE  b \in BOOLEAN
<1>1. Matches(pdr, fr) \in BOOLEAN
  BY Zenon DEF Matches, pfcp_pdr_match_pdi_access, pfcp_pdr_match_pdi_downlink
<1> QED
  BY <1>1, Zenon DEF Outcomes

(* A FAR does not forward to both sides. *)
LEMMA OneSide == ASSUME NEW far PROVE ~(ToCore(far) /\ ToAccess(far))
BY DEF ToCore, ToAccess

(* pfcp_pdr_lookup: the verdict, or the PDR to go on with. *)
LEMMA PdrStep ==
  ASSUME DataInv, PacketInv, NEW c \in Cpus, LookupPdr(c)
  PROVE  PacketInv'
<1> USE DEF DataInv
<1> DEFINE m == maps[packet[c].prog]
           fr == packet[c].frame
           pdr == PdrOf(m, fr)
           new == [packet[c] EXCEPT !.pc = "far", !.pdr = pdr]
<1>1. packet[c].pc = "pdr" /\ maps' = maps /\ packet[c].verdict = "none"
  BY DEF LookupPdr, PacketInv, ShapeInv
<1>2. CASE pdr = NoPdr /\ Finish(c, "DROP", "asReceived")
  <2>1. ASSUME NEW pk, pk.frame = fr, pk.verdict = "DROP", pk.shape = "asReceived"
        PROVE  Judged(pk, m)
    BY <1>2, <2>1 DEF Judged, Dropping, MapFar
  <2> HIDE DEF m, fr, pdr
  <2> QED
    BY <1>1, <1>2, <2>1, PacketFinishes DEF m, fr
<1>3. CASE pdr # NoPdr /\ FALSE \in Outcomes(pdr, fr) /\ Finish(c, "PASS", "asReceived")
  <2>1. ASSUME NEW pk, pk.frame = fr, pk.verdict = "PASS", pk.shape = "asReceived"
        PROVE  Judged(pk, m)
    BY <1>3, <2>1 DEF Judged
  <2> HIDE DEF m, fr, pdr
  <2> QED
    BY <1>1, <1>3, <2>1, PacketFinishes DEF m, fr
<1>4. CASE pdr # NoPdr /\ TRUE \in Outcomes(pdr, fr) /\ packet' = [packet EXCEPT ![c] = new]
  <2>1. /\ new.pc = "far" /\ new.pdr = pdr /\ new.verdict = "none"
        /\ new.frame = fr /\ new.prog = packet[c].prog
    <3> DEFINE old == packet[c]
    <3>1. old \in PacketType /\ old.verdict = "none"
      BY <1>1 DEF DataTypeOK
    <3> HIDE DEF old, pdr
    <3> DEFINE to == [old EXCEPT !.pc = "far", !.pdr = pdr]
    <3>2. /\ to.pc = "far" /\ to.pdr = pdr /\ to.verdict = "none"
          /\ to.frame = old.frame /\ to.prog = old.prog
      BY <3>1 DEF PacketType
    <3> QED
      BY <3>2 DEF old
  <2> HIDE DEF new
  <2>2. Follows(new, maps[new.prog])
    BY <1>4, <2>1 DEF Follows, FoundPdr
  <2> QED
    BY <1>1, <1>4, <2>1, <2>2, PacketMoves
<1>5. pdr # NoPdr => \E matched \in Outcomes(pdr, fr) :
                       IF matched THEN packet' = [packet EXCEPT ![c] = new]
                       ELSE Finish(c, "PASS", "asReceived")
  BY DEF LookupPdr
<1>6. CASE pdr = NoPdr
  BY <1>2, <1>6 DEF LookupPdr
<1>7. CASE pdr # NoPdr
  <2>1. PICK matched \in Outcomes(pdr, fr) :
               IF matched THEN packet' = [packet EXCEPT ![c] = new]
               ELSE Finish(c, "PASS", "asReceived")
    BY <1>5, <1>7
  <2>2. matched \in BOOLEAN
    BY OutcomesAreBoolean
  <2>3. CASE matched = TRUE
    BY <1>4, <1>7, <2>1, <2>3, Zenon
  <2>4. CASE matched = FALSE
    BY <1>3, <1>7, <2>1, <2>4, Zenon
  <2> QED
    BY <2>2, <2>3, <2>4
<1> QED
  BY <1>6, <1>7

(* pfcp_far_apply up to the lookup of the MAC address. *)
LEMMA FarStep ==
  ASSUME DataInv, PacketInv, NEW c \in Cpus, LookupFar(c)
  PROVE  PacketInv'
<1> USE DEF DataInv
<1> DEFINE m == maps[packet[c].prog]
           fr == packet[c].frame
           far == m.fars[packet[c].pdr.far]
           new == [packet[c] EXCEPT !.pc = "arp", !.far = far]
           quiet == packet[c].quiet /\ fr.size # "short"
<1>1. packet[c].pc = "far" /\ maps' = maps /\ packet[c].verdict = "none"
  BY DEF LookupFar, PacketInv, ShapeInv
<1>2. quiet => /\ packet[c].pdr = PdrOf(m, fr) /\ packet[c].pdr # NoPdr
               /\ TRUE \in Outcomes(packet[c].pdr, fr)
               /\ far = MapFar(m, fr)
  BY <1>1 DEF PacketInv, QuietInv, Follows, FoundPdr, MapFar
<1>3. ASSUME NEW v \in {"DROP", "PASS"}, Finish(c, v, "asReceived"),
             v = "DROP" => far = NoFar \/ (ToCore(far) /\ fr.size # "full"),
             v = "PASS" => far # NoFar /\ ~Forwarding(far)
      PROVE  PacketInv'
  <2>1. ASSUME NEW pk, pk.frame = fr, pk.verdict = v, pk.shape = "asReceived", quiet
        PROVE  Judged(pk, m)
    BY <1>2, <1>3, <2>1 DEF Judged, Dropping
  <2> HIDE DEF far
  <2> QED
    BY <1>1, <1>3, <2>1, PacketFinishes
<1>4. CASE /\ far # NoFar /\ (ToCore(far) \/ ToAccess(far))
           /\ ToCore(far) => fr.size = "full"
           /\ packet' = [packet EXCEPT ![c] = new]
  <2>1. /\ new.pc = "arp" /\ new.far = far /\ new.verdict = "none"
        /\ new.pdr = packet[c].pdr /\ new.quiet = packet[c].quiet
        /\ new.frame = fr /\ new.prog = packet[c].prog
    <3> DEFINE old == packet[c]
    <3>1. old \in PacketType /\ old.verdict = "none"
      BY <1>1 DEF DataTypeOK
    <3> HIDE DEF old, far
    <3> DEFINE to == [old EXCEPT !.pc = "arp", !.far = far]
    <3>2. /\ to.pc = "arp" /\ to.far = far /\ to.verdict = "none"
          /\ to.pdr = old.pdr /\ to.quiet = old.quiet
          /\ to.frame = old.frame /\ to.prog = old.prog
      BY <3>1 DEF PacketType
    <3> QED
      BY <3>2 DEF old
  <2> HIDE DEF new
  <2>2. quiet => Follows(new, maps[new.prog])
    BY <1>2, <1>4, <2>1 DEF Follows, FoundPdr, FoundFar, Forwarding
  <2> QED
    BY <1>1, <1>4, <2>1, <2>2, PacketMoves
<1>5. \/ far = NoFar /\ Finish(c, "DROP", "asReceived")
      \/ ToCore(far) /\ fr.size # "full" /\ Finish(c, "DROP", "asReceived")
      \/ far # NoFar /\ ~Forwarding(far) /\ Finish(c, "PASS", "asReceived")
      \/ /\ far # NoFar /\ (ToCore(far) \/ ToAccess(far))
         /\ ToCore(far) => fr.size = "full"
         /\ packet' = [packet EXCEPT ![c] = new]
  BY Zenon DEF LookupFar, Forwarding
<1> QED
  BY <1>3, <1>4, <1>5, Zenon

(* The rest of pfcp_far_apply: the header that is taken off or put on, and the
   redirect. *)
LEMMA ArpStep ==
  ASSUME DataInv, PacketInv, NEW c \in Cpus, Decapsulate(c) \/ Encapsulate(c)
  PROVE  PacketInv'
<1> USE DEF DataInv
<1> DEFINE m == maps[packet[c].prog]
           fr == packet[c].frame
           far == packet[c].far
           quiet == packet[c].quiet /\ fr.size # "short"
<1>1. packet[c].pc = "arp" /\ maps' = maps
  BY DEF Decapsulate, Encapsulate
<1>2. quiet => /\ far = MapFar(m, fr) /\ Forwarding(far)
               /\ TRUE \in Outcomes(PdrOf(m, fr), fr)
               /\ ToCore(far) => fr.size = "full"
  BY <1>1 DEF PacketInv, QuietInv, Follows, FoundPdr, FoundFar
<1>3. ASSUME NEW shape, Redirect(c, shape),
             \/ /\ ToCore(far) /\ fr.hop \in m.arp
                /\ shape = Decapsulated(fr)
             \/ /\ ToAccess(far)
                /\ shape = IF far.hop \in m.arp THEN "gtpu" ELSE "half"
      PROVE  PacketInv'
  <2>1. PICK v \in {"REDIRECT", "ABORTED"} : Finish(c, v, shape)
    BY <1>3 DEF Redirect
  <2>2. ~(ToCore(far) /\ ToAccess(far))
    BY OneSide
  <2>3. ASSUME NEW pk, pk.frame = fr, pk.verdict = v, pk.shape = shape, quiet
        PROVE  Judged(pk, m)
    <3>1. ~Dropping(m, fr)
      BY <1>2, <1>3, <2>2, <2>3 DEF Dropping, Forwarding
    <3>2. shape = "half" <=> ToAccess(far) /\ far.hop \notin m.arp
      BY <1>3, <2>2 DEF Decapsulated
    <3> HIDE DEF m, fr, far
    <3> QED
      BY <1>2, <2>3, <3>1, <3>2 DEF Judged
  <2>4. Leaving(Network(packet[c]), far, shape)
    BY <1>3 DEF Leaving, Network, EgressKey, Decapsulated
  <2> QED
    BY <1>1, <2>1, <2>3, <2>4, PacketFinishes
<1>4. ASSUME Decapsulate(c) PROVE PacketInv'
  <2>1. CASE fr.hop \in m.arp
    BY <1>3, <1>4, <2>1 DEF Decapsulate
  <2>2. CASE fr.hop \notin m.arp
    <3>1. Finish(c, "DROP", "asReceived") /\ ToCore(far)
      BY <1>4, <2>2 DEF Decapsulate
    <3>2. ASSUME NEW pk, pk.frame = fr, pk.verdict = "DROP", pk.shape = "asReceived", quiet
          PROVE  Judged(pk, m)
      BY <1>2, <2>2, <3>1, <3>2 DEF Judged, Dropping
    <3> QED
      BY <1>1, <3>1, <3>2, PacketFinishes
  <2> QED
    BY <2>1, <2>2
<1>5. ASSUME Encapsulate(c) PROVE PacketInv'
  BY <1>3, <1>5 DEF Encapsulate
<1> QED
  BY <1>4, <1>5

(* A frame that enters has read nothing; a short one has its verdict at once. *)
LEMMA ReceiveStep ==
  ASSUME DataInv, PacketInv, NEW c \in Cpus, NEW seid \in Seids, NEW fr \in Frames,
         Receive(c, seid, fr)
  PROVE  PacketInv'
<1> DEFINE new == Arrived(findSessionProgram(Seid32(seid)), fr)
<1>1. packet' = [packet EXCEPT ![c] = new] /\ maps' = maps
  BY DEF Receive
<1>2. /\ new.pc = IF fr.size = "short" THEN "done" ELSE "pdr"
      /\ new.verdict = IF fr.size = "short" THEN "PASS" ELSE "none"
      /\ new.frame = fr
  BY DEF Arrived
<1> HIDE DEF new
<1>3. new.frame.size # "short" => Follows(new, maps[new.prog])
  BY <1>2 DEF Follows
<1> QED
  BY <1>1, <1>2, <1>3, PacketMoves DEF DataInv

(* A packet leaves, and with the last one the maps of a destroyed program go. *)
LEMMA LeaveStep ==
  ASSUME DataInv, PacketInv, NEW c \in Cpus, Leave(c)
  PROVE  PacketInv'
<1> USE DEF DataInv, DataTypeOK
<1> DEFINE p == packet[c].prog
<1>1. /\ packet'[c].pc = "none" /\ packet'[c].verdict = "none"
      /\ \A d \in Cpus : d # c => packet'[d] = packet[d]
  BY DEF Leave, NoPacket
<1>2. \/ maps' = maps
      \/ /\ \A d \in Cpus \ {c} : packet[d].prog # p
         /\ maps' = [maps EXCEPT ![p] = EmptyMaps]
  BY DEF Leave, Freed
<1>3. ASSUME NEW d \in Cpus, d # c, packet[d].pc # "none"
      PROVE  maps'[packet[d].prog] = maps[packet[d].prog]
  BY <1>2, <1>3 DEF PacketsNamed
<1>4. QuietInv'
  <2> SUFFICES ASSUME NEW d \in Cpus, packet'[d].pc # "none", packet'[d].quiet,
                      packet'[d].frame.size # "short"
               PROVE  Follows(packet'[d], maps'[packet'[d].prog])
    BY DEF QuietInv
  <2>1. d # c /\ packet'[d] = packet[d]
    BY <1>1
  <2>2. Follows(packet[d], maps[packet[d].prog])
    BY <2>1 DEF PacketInv, QuietInv
  <2> QED
    BY <1>3, <2>1, <2>2
<1>5. ShapeInv'
  BY <1>1 DEF PacketInv, ShapeInv, RedirectedShape
<1> QED
  BY <1>4, <1>5 DEF PacketInv

(* Every step keeps PacketInv. *)
LEMMA PacketNext == ManagerInv /\ DataInv /\ PacketInv /\ [Next]_vars => PacketInv'
<1> SUFFICES ASSUME ManagerInv, DataInv, PacketInv, [Next]_vars PROVE PacketInv'
  OBVIOUS
<1>1. CASE UNCHANGED vars
  BY <1>1, UndisturbedKeeps DEF vars, DataInv, Undisturbed, SameRules
<1>2. ASSUME NEW c \in Cpus, Datapath(c) PROVE PacketInv'
  BY <1>2, PdrStep, FarStep, ArpStep, LeaveStep DEF Datapath
<1> QED
  BY <1>1, <1>2, PacketManage, ReceiveStep DEF Next

(* Packets carry what the maps hold while their program's rules are left alone, and
   redirected ones have been given their header or lost it. *)
THEOREM PacketInvariant == Spec => []PacketInv
BY PacketInit, PacketNext, ManagerInvariant, DataInvariant, PTL DEF Spec

(* The verdict of the v1.0 datapath is the one the rules give, for a packet that no write
   of a client overtook: the three lookups, made at different moments while other
   sessions are created and removed, act as one. *)
THEOREM VerdictFollowsRules == Spec => []QuietPacketFollowsRules
<1>1. QuietInv => QuietPacketFollowsRules
  <2> SUFFICES ASSUME QuietInv, NEW c \in Cpus, packet[c].pc = "done", packet[c].quiet,
                      packet[c].frame.size # "short"
               PROVE  Judged(packet[c], maps[packet[c].prog])
    BY DEF QuietPacketFollowsRules, Judged, MapFar, Forwarding, Dropping
  <2> QED
    BY SMTT(60) DEF QuietInv, Follows
<1> QED
  BY <1>1, PacketInvariant, PTL DEF PacketInv

(* Whatever is written meanwhile, a redirected frame went through exactly one of the two
   header changes, the one its own FAR asks for, and left by the interface of the
   direction it came in by, whether or not its FAR leads there. *)
THEOREM RedirectedHasShape == Spec => []RedirectedShape
<1>1. PacketInv => RedirectedShape
  BY DEF PacketInv, ShapeInv
<1> QED
  BY <1>1, PacketInvariant, PTL
=============================================================================
