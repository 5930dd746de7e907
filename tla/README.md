# upf-bpf in TLA+

A verification development of the 5G user plane function `upf-bpf`: XDP programs
that classify and forward packets, and a C++ management layer that deploys one
BPF program per PFCP session while packets flow. The modules describe the code of
`src/`; `PROJECT.json` gives, for every definition that models code, the lines it
models, and lists components, runs, mutants, findings, hazards and theorems.

## 1. The system

```
  HTTP API / test client                      signals
        |  createBPFSession, removeBPFSession    |
        v                                        v
  SessionManager ----> SessionProgramManager   SignalHandler
        |  pfcp_session      |   FARProgram        |
        |  (PDRs, FARs)      |   (one / session)   |
        |                    v                     v
        |        kernel maps: index, tail-call   UserPlaneComponent -> UPFProgram
        |        array, m_far, m_arp_table         -> ProgramLifeCycle -> XDP hooks
        |                    ^
        |                    |  four reads, no lock
        +---- packets: entry program (parser, detector) --tail call--> FAR program
```

| Component | State | Operations | Hard about it |
|---|---|---|---|
| `SessionManager`, `SessionProgramManager` (v2.0 pipeline) | `mSeidToSession`, `mSessionProgramsMap`, the static `sIdCounter`, the maps `m_next_rule_prog_index` and `m_next_rule_prog` | `createBPFSession`, `createPipeline`, `removeBPFSession`, `removePipeline` | a call is several map writes, each visible to packets at once; no lock anywhere; exceptions in the middle; ids never reused; 64-bit ids cut to 32 |
| HTTP test API (`tests/api`) | none | `/createSession`, `/configure` | handlers of a thread pool call the above concurrently |
| Entry program (`upf_xdp_bpf.c`) | the packet | parse, look the key up, tail call | truncated packets; reads two maps one after the other |
| FAR program (`far_bpf.c`) | `m_far`, `m_arp_table`, the packet | look the FAR up, rewrite headers, redirect | runs before its ARP table is filled; keeps running after its session is removed |
| `UserPlaneComponent`, `UPFProgram`, `ProgramLifeCycle` | `mState`, skeleton, linked interfaces, the XDP hooks | `setup`, `tearDown`, `open`, `load`, `attach`, `link`, `destroy` | every step can fail and leaves the others' work to be undone |
| `SignalHandler` | handlers for SIGINT, SIGTERM, SIGSEGV | `tearDown` | interrupts the thread that is in `setup` or `tearDown` |
| `pfcp_session`, `pfcp_pdr`, `pfcp_far` | vectors of PDRs and FARs | `create`, `update`, `remove`, `get`, `cleanup` | searched front to back, sorted in place by every deployment, ids not checked for uniqueness |
| `BPFMap`, `BPFMaps` | a kernel map | `update`, `remove`, `lookup` | full maps and missing keys throw |
| v1.0 sessions (`SessionProgram`, `session_bpf.c`) | `mSessionProgramMap`, one program and six maps per session | `create`, `remove`, `removeAll`, map writes by clients | superseded, but `removeAll` is part of every tear down; four unlocked map reads per packet; an uninitialised index; an observer nobody registers |
| PFCP elements and messages (`oai/pfcp`) | none | `add_ie`, `dump_to`, `load_from`, `to_core_type` | lengths kept by hand on both sides, nested groups, presence bits, commented-out cases |
| `uint_generator` | a counter and a set | `get_uid`, `free_uid` | instantiated nowhere |
| utilities, logging, samples, scripts | | | no state of their own |

What makes each part correct:

* **sessions**: packets of a flow meet only a rule some session requested for that
  flow; a call changes the fate of its own flow only; once a call returns, its rule
  is applied; a half-built pipeline is always completed; what was deployed can be
  removed, by its own id;
* **datapath**: reading four maps without a lock while they change gives a packet a
  fate that its flow really had at some instant; what leaves is what the rule says;
* **life cycle**: no interface runs a destroyed program or one its life cycle has
  forgotten; tearing down takes off its own programs, all of them; a signal or a
  fault ends the process, or else it is known what the thread waits for;
* **rules**: the vectors behave like a table; the deployed rule is the highest;
* **v1.0 sessions**: an entry always names a loaded program of its own; no program is
  leaked; a packet's verdict follows from the rules it met; every session can
  redirect from its first packet on;
* **messages**: what is sent arrives, or is refused as a whole; never something else.

## 2. Modules

| Module | Models | EXTENDS / INSTANCE |
|---|---|---|
| `SessionPipeline` | the management layer and the two maps of the entry program | |
| `FlowTable` | abstract: every flow has a fate | instantiated by `SessionPipeline` |
| `PacketPath` | parser, detector, tail call and FAR program on every CPU, composed with the management layer | `SessionPipeline` |
| `UserPlane` | user plane component, life cycle, XDP hooks, signals | |
| `PfcpSession` | PDR and FAR vectors of one session and the choice of what to deploy | |
| `RuleTable` | abstract: at most one rule per id | instantiated by `PfcpSession` |
| `SessionProgram` | v1.0: the session table, one program per session with its maps, its datapath on every CPU, lost interfaces, `removeAll` and the fault it ends in | |
| `PfcpIes` | the elements: octets written, octets read, lengths | |
| `PfcpContainers` | groups and messages: members, constructors, the cases of the decoder | `PfcpIes` |
| `PfcpCodec` | a message built, sent, loaded and judged | `PfcpContainers` |
| `SessionPipelineProofs`, `PacketPathProofs`, `SessionProgramProofs`, `UserPlaneProofs`, `PfcpSessionProofs` | theorems and proofs | their components |
| `PipelineEntryProofs` | theorems about the session entries of the pipeline | `SessionPipelineProofs` |
| `PfcpElementProofs` | lemmas about the length, the octets and the decoding of every element class | `PfcpCodec` |
| `PfcpCodecProofs` | theorems about messages | `PfcpElementProofs` |
| `MCSessionPipeline`, `MCPacketPath`, `MCUserPlane`, `MCPfcpSession`, `MCSessionProgram`, `MCPfcpCodec` | instances for TLC | |

### SessionPipeline

The variables are the data structures of the code: `sIdCounter` is
`BPFProgram::sIdCounter`, `programs` the `FARProgram` objects in order of
construction (with the contents of their own maps `m_far` and `m_arp_table`),
`ruleIndex` is `m_next_rule_prog_index`, `ruleProg` is `m_next_rule_prog`,
`sessionPrograms` is `mSessionProgramsMap`, `seidToSession` the keys of
`mSeidToSession`; `call` holds the locals of the call each thread executes and
`upf` says whether the entry program is set up.

A call is a sequence of steps, one for each access that another thread or a packet
can observe:

    BeginCreate -> Construct -> LoadCounter -> StoreCounter -> SetupProgram
      -> UpdateIndex -> UpdateProg -> UpdateFar -> RecordPipeline
      -> PublishSession -> UpdateArp                     (createBPFSession + ARP)
    BeginRemove -> RemoveIndex                           (removeBPFSession)

`SetupProgramFails`, `UpdateIndexFails` and `UpdateProgFails` are the exceptions:
the call ends and what it has done stays, which for `SetupProgramFails` includes the
program, loaded when it is an interface of the redirect map that is refused.
`RecordPipelineLost` is the lost insertion of a data race on `std::map`; the caller then
dereferences the null that `findSessionPrograms` returns (`UpdateArpFaults`), and its
thread stays in the SIGSEGV handler. `sIdCounter++` is a load and a store. A session that
`createBPFSession` refuses (no PDR, a field missing in the highest PDR, no such
FAR) changes nothing and has no step. `Route(f)` is what the kernel does with a
packet of flow `f` in the current state: pass, drop, or a FAR.

`HttpServer = TRUE` lets every thread run `/createSession` concurrently, which is
all the HTTP server offers on sessions. `HttpServer = FALSE` is the use the tests
make of the C++ API: one call at a time, with removal and restart of the user
plane; packets are still looked up between any two steps.

Data are abstract: a flow stands for (teid, source interface, UE address), a key is
a flow with the content of its three padding bytes, a FAR is a value. Session ids
are numbers, cut by `% SeidModulus`, the code's 2^32.

### PacketPath

`packet` holds, for each CPU, the packet it processes. `Receive` runs the parser
(`eth_handle`, `ipv4_handle`, `udp_handle`, `gtp_handle` follow the C functions
return by return), `LookupIndex`, `TailCall`, `LookupFar` and `ApplyFar` each read
one map. `Manage` is any step of `SessionPipeline`. A frame says how many of its
headers fit into its length; what leaves is described by its shape (whole GTP-U
packet, inner packet, headers without checksums, garbled) and the MAC address.
`seen` is a history variable: the values of `Route` for the packet's flow since it
was received.

### UserPlane

One `ProgramLifeCycle` per `UPFProgram` constructed, its mutex, the program on each
XDP hook, the client's thread, the signal handlers on it (`"handler"`) and those on
another thread (`"other"`). `mState` is not initialised by the constructor, so
`BeginSetup` chooses it. `SignalThreads` says where signals from outside are handled,
`Interrupts` which of SIGINT and SIGTERM arrive; SIGSEGV always may.

The handler is registered for SIGINT, SIGTERM and SIGSEGV, calls `tearDown` and `exit(0)`
and never returns. So `Handle` replaces the call of its thread: what was interrupted, an
earlier handler too, is over, with `sTearDownMutex` still locked if it had locked it, and
the signals of the handlers entered stay blocked. `Signal` may come at any point, while
a handler for another signal runs too. A fault of the code is a SIGSEGV on the thread that
faults (`Faults`): `tearDown` on a null skeleton (a garbage `mState` of LINKED) or on a
freed one (`TearDownFaults`), `setup` on one that a handler beside it has freed
(`SetupUsesFreed`). With SIGSEGV blocked it kills the process, as does an abort of the
allocator (`DestroyAborts`). The mutex is not recursive: a fault in the locked part of
`tearDown` makes the thread wait for itself (`WaitsForItself`).

### PfcpSession

`pdrs` and `fars` are the two vectors; requests arrive with any information element
missing. `Deploy` is `createBPFSession` up to the hand-over to `createPipeline`: it
sorts the session's own vector, by any of the orders an unstable sort may produce,
also when it then throws. Causes, offending IEs and the elements no check reads
are left out. `UniqueIds = TRUE` is an assumption on the control plane, which the
code does not check; with `FALSE`, TLC refutes `ImplementsRuleTable`: a rule created
under an id in use is invisible until the first one is removed, then takes effect.

### SessionProgram

`mSessionProgramMap` is the table by 32-bit seid, `maps` the BPF maps of each program
set up, `live` the programs whose skeleton is not destroyed, `lost` the directions
whose interface has disappeared, `client` the one thread that calls the managers and
`packet` the packet each CPU processes. `create` is four steps, because packets of
other sessions, and the loss of an interface, come in between:

    Create -> SetUp -> UpdateUplink -> UpdateDownlink        (createSession)
              SetUpFails, EgressFails                        (the exceptions)
    Remove                                                   (removeSession)
    RemoveAll -> RemoveFirst -> Fault                        (tearDown)

An id in use, or an id that is not there, is refused without effect and has no step.
A program that `EgressFails` leaves behind is an orphan: loaded, and in no entry.
`if_nametoindex` answers 0 for an interface that is gone, which empties the entry of
the device map; an index that is no longer valid when it is stored is an exception,
with the program already loaded (`EgressFails`). `removeAll` calls the observer
after the first `tearDown`; no code sets the observer, so the call faults, the
SIGSEGV handler calls `removeAll` again, and the second fault, with the signal
blocked, kills the process.

What is done to a packet goes by its FAR, where it is sent by the program it came in by:
`EgressKey` is the direction of the frame (`session_bpf.c:239`, `:256`), under which `create`
has stored the interface of the other side.

On the datapath `Receive`, `LookupPdr`, `LookupFar` and `Decapsulate` or
`Encapsulate` each read one map (the last also the device map); `WriteRule` lets a
client change any entry between them. The index `i` is never assigned, so the PDI
compared is that of the entry (0) or unknown memory (any outcome): `IndexValues` lists what
the build may leave there. The programs are executed through the file descriptors
of `SessionProgram`; no program of the repository tail-calls them any more, and only
tests fill their maps. A destroyed program's maps live as long as a packet is
inside (`Freed`).

### PfcpIes, PfcpContainers, PfcpCodec

`PfcpIes` has one operator per element class, with the class's name: from the
options of a value (the presence bits of its core type) it gives the length the
constructor leaves, the length `dump_to` writes, the fields it writes, and the
lengths `load_from` accepts and the fields it reads. `PfcpContainers` has one set of
members per container class (`one` value or `many`), one sequence per constructor
in the order of its `add_ie` calls, and the cases of `new_pfcp_ie_from_stream`.
`PfcpCodec` walks the tables: `AddLeaf`, `OpenGroup`, `CloseGroup` are `add_ie`, `Send` is
`pfcp_msg::dump_to`; `LoadHeader`, `LoadLeaf`, `LoadGroup`, `CloseLoaded`, `LoadNull` and
`EndMessage` the nested `load_from` loops with their `to_core_type`. Once a decoder is out
of step with the fields, anything may follow (`LoadJunk`). The sender is this code
(`own`) or a peer that puts any element anywhere, repeated or misplaced.

Lengths are kept in 16 bits (`Uint16`), as `pfcp_tlv::length` is: those of a group or a
message of 65536 octets or more wrap around, and the receiver then sees a shorter
message whose end is cut off. `Fits` says that the elements of a message have fewer
octets than that; what arrives is stated for messages that fit.

What is sent by an element's value is abstract: a field is its name, its width and,
for flags, the options in it. Where a conversion does not preserve a value, the options
tell that value apart and the field written has another name: a rate of more than 40
bits (masked by `dump_to`), a rule id wider than its field, a text whose size is not the
one the caller states, a domain name with a long label. Names are ASCII.
`string_to_dotted` puts a size octet in front of each label, `dotted_to_string` takes one
of 64 to 127 for a character and one of 128 or more, `char` being signed, for a jump
backwards, which from the last label of a name of 255 characters leads to the beginning
again, without end. `TextOctets` and `LongOctets` are the sizes of an
ordinary text and of a label that is too long.

`Understated`, `OutOfStep`, `Altered`, `Endless` and `Unusable` are the elements that the
code does not carry faithfully; the invariants say that **no other** is affected and that
an unusable one takes the whole message with it:

* altered without an error: `urr_id` (host order), `mbr` and `gbr` of more than 40 bits,
  `node_id` with a label of 64 characters or more, a `failed_rule_id` of a BAR that is
  wider than an octet, `volume_threshold` and `subsequent_volume_threshold` (flags never
  read), `user_plane_ip_resource_information`, `sdf_filter` with BID or with a flow
  description of another size than it is said to have, `fteid` with CH or CHID,
  `ue_ip_address` with IPv6D without V6, a second value of a single-valued member;
* of these, not read to their end, or read beyond it (`OutOfStep`), so that what follows
  is misread: the two thresholds, `user_plane_ip_resource_information`, `sdf_filter`, `fteid`
  with CHID alone;
* never sent: `sdf_filter` whose TTC, SPI or flow label has a wrong size (the constructor
  throws), `node_id` with a name of 256 characters or more (`string_to_dotted` does not
  return): verdict `unsent`;
* never accepted: anything of length 0 (an empty group, an empty name),
  `qer_correlation_id`, `user_id` with any part, `failed_rule_id` other than a BAR's,
  `outer_header_creation` without a description, `forwarding_policy` with an identifier of
  another size than it is said to have, `node_report_type`, `create_traffic_endpoint` and
  `create_urr`, whose `to_core_type` calls itself;
* never done with: `node_id` with a name of 255 characters whose last label has 128 or
  more (`Endless`, verdict `spins`).

## 3. Runs

| Run | Shows | Bounds | States |
|---|---|---|---|
| `pipeline_serial` | isolation, intact pipelines, effect on return, refinement of `FlowTable` with its liveness | 3 flows, 2 FARs, 9 requests, 4 programs, ids 1 and 3 equal modulo 2 | 1 520 000 |
| `pipeline_http` | concurrent handlers leave no flow in the index without its FAR, but for an id that has no slot, which no entry then owns; a foreign FAR, a disturbed flow and a broken entry all need a program id given twice | 2 threads, 3 programs, of which the tail-call array refuses the third | 157 000 |
| `packet_serial` | packets in flight: isolation, linearizability, decapsulation | 1 CPU, 15 frames, 3 programs | 403 000 |
| `life_cycle` | interfaces and programs through setups that fail anywhere and signals and faults that interrupt them, and each other, anywhere | 2 interfaces, 3 setups, SIGINT, SIGTERM, SIGSEGV | 1 571 000 |
| `life_cycle_signal` | with handlers on another thread and for faults on either: two threads never wait for each other, and a signal ends the process or a thread that had the mutex waits for itself | 2 setups, SIGINT, SIGSEGV | 299 000 |
| `pfcp_session` | the vectors implement `RuleTable`; what is deployed is highest | 2 PDR ids, 2 FAR ids | 33 000 |
| `session_program` | v1.0: table, programs, packets, interfaces and `removeAll` | 3 ids of which 2 collide, 2 programs, 1 PDR, 3 FARs, 2 hops, 5 frames, 1 CPU | 2 964 000 |
| `pfcp_codec` | messages survive, or are refused whole | every message class, 3 elements, nested, all presence bits and values that conversions change | 419 000 |
| `http_isolation` | **violated**: two handlers get one program id, and one session's packets run the other's FAR | 2 threads | |
| `key_padding` | **violated**: with padding not zeroed, a created session is not found by the kernel | paddings 0, 1 | |
| `next_hop` | **violated**: before the ARP table is filled, downlink packets leave without a next hop and half encapsulated | 2 programs | |
| `signal_hang` | **violated**: the handler waits for a mutex its own thread holds | 1 setup | |

The four violated runs check what a comment, a README or a test of the repository
says; `findings` in `PROJECT.json` quotes it. Comments in
`SessionManagerTests.cpp:124` and `UPFProgram.cpp:50` describe symptoms of two of them.

**Why the bounds are enough.** Three flows with an index of two entries make the
index full; four programs with four slots (ids start at 1) make the tail-call array
refuse one. Replacement takes two programs on one session, take-over of a flow two
sessions, and both with a restart in between fit into four programs. Two handlers
suffice for every pairwise race. One CPU suffices for packets: packets do not write
what another packet reads (the proofs cover any number of CPUs). A life cycle
that fails, one that links and one that replaces it are three setups.
In v1.0 a replacement, a collision of truncated ids and a leak next to a session
each take two programs; the PDR matches one direction only, the three FARs are the
three branches, and with two hops the ARP table of one entry is full. In messages,
a group inside a group with one element is three elements, and so is an element
between two others that are read out of step behind it.
`MaxPrograms`, `MaxSetups`, the `MaxRules` of `PfcpSession` and the three bounds of
`PfcpCodec` are not in the code; `MaxIndexEntries` and `MaxRuleProg` are 10 there, the
`MaxRules` and `MaxArp` of `SessionProgram` 10 and 2.

**Deadlock** is checked except in `pipeline_http` (the server is idle after the last
program the bound allows), the life-cycle runs and `session_program` (the process
ends) and `pfcp_codec` (a message is judged once).

**Fairness.** `SessionPipeline` assumes that a thread inside a call continues
(weak fairness of `Continue(t)`): the calls contain no loop and take no lock. New
calls are never assumed. `UserPlane` assumes that the system runs both threads, and
strong fairness for a handler's acquisition of the mutex: the client may call
`tearDown` again and again, and a waiter is then not passed over forever. `PfcpCodec`
assumes that the loader, straight-line code of one thread, goes on (weak fairness of
`Load`), and nothing of the sender. The violation of `signal_hang` does not depend on
strong fairness: the mutex never becomes free. `FairSpec` of `SessionProgram` assumes that a
call goes on (`Proceed`); no passing run needs it.

**Mutants.** Every property of a passing run has a mutated definition, a plausible
slip in the code (an increment dropped, an index off by one, a record skipped), under
which TLC finds it violated; they stand next to the definitions they mutate.

## 4. Proofs

All theorems hold for every value of the constants: any number of threads, flows,
sessions, programs, CPUs, any map sizes, and messages of any number of elements.

| Theorem | Statement | Assumes |
|---|---|---|
| `TypeCorrect` | `Spec => []TypeOK` | |
| `Isolation` | `Spec => []RoutesRequested` | one caller at a time |
| `OwnFlowOnly` | `Spec => StepTouchesOwnFlow` | one caller at a time |
| `Refinement` | `Spec => Abstract!Spec`: the safety part of `ImplementsFlowTable` | one caller at a time |
| `Applied` | `Spec => AppliedOnReturn` | and padding bytes zero |
| `EntriesIntact` | `Spec => []PipelineIntact` | one caller at a time |
| `ArpOwn` | `Spec => []ArpGoesToOwnProgram` | one caller at a time |
| `IndexedStaysForwarded` | `Spec => []IndexedIsForwarded` | |
| `MixUpsShareIds` | `Spec => []MixUpNeedsSharedId` | |
| `OthersUndisturbed` | `Spec => OwnFlowUnlessShared` | |
| `EntriesSurviveOverlap` | `Spec => []IntactUnlessShared` | |
| `PacketTypeCorrect` | `PSpec => []PacketTypeOK` | |
| `PacketIsolation` | `PSpec => []PacketRunsRequested` | one caller at a time |
| `PacketLinearizable` | `PSpec => []FateWasRoute` | one caller at a time |
| `UplinkDecapsulated` | `PSpec => []UplinkIsDecapsulated` | |
| `UserPlaneTypeCorrect` | `Spec => []UserPlaneTypeOK` | |
| `LinkedStaysLive` | `Spec => []LinkedIsLive` | handler on no other thread |
| `LinksStayAccounted` | `Spec => []LinksAccounted` | handler on no other thread |
| `UnlinksOnlyOwn` | `Spec => []UnlinksOwn` | handler on no other thread |
| `DestroyedStaysReleased` | `Spec => DestroyedIsReleased` | handler on no other thread |
| `ExitReleases` | `Spec => []ExitLeavesOnlyUnrecorded` | handler on no other thread |
| `WaitsEnd` | `Spec => []WaitedForRuns` | |
| `PfcpTypeCorrect` | `Spec => []PfcpTypeOK` | unique ids |
| `RulesAreATable` | `Spec => ImplementsRuleTable` | unique ids |
| `HighestIsDeployed` | `Spec => DeployedIsHighest` | unique ids |
| `SessionTypeCorrect` | `Spec => []SessionTypeOK` (v1.0) | |
| `EntriesStayLive` | `Spec => []EntriesLive` | |
| `LiveStaysAccounted` | `Spec => []LiveIsAccounted` | |
| `RedirectsFindInterface` | `Spec => []AbortsNeedLostInterface` | |
| `VerdictFollowsRules` | `Spec => []QuietPacketFollowsRules` | |
| `RedirectedHasShape` | `Spec => []RedirectedShape` | |
| `CodecTypes` | `Spec => []CodecTypeOK` (messages) | |
| `LengthsAgree` | `Spec => []LengthsAreOctets` | |
| `SoundArrives` | `Spec => []SoundMessageArrives` | |
| `UnusableRejected` | `Spec => []UnusableIsRejected` | |
| `NothingAltered` | `Spec => []NothingSilentlyAltered` | |
| `CrashFromUrr` | `Spec => []CrashNeedsUrr` | |

Every invariant that a passing run checks is stated by a theorem, under the assumptions
in this table.

*One caller at a time* is `~HttpServer`; *handler on no other thread* is
`"other" \notin SignalThreads`, which leaves no signal at all and the POSIX case, handlers
that suspend the thread they interrupt; faults are part of both. The assumptions are needed: `http_isolation`
refutes isolation for concurrent handlers and `key_padding` refutes `AppliedOnReturn`
for other padding; a signal handler on another thread destroys what setup is using;
and two rules of one id make get, update and erase act on the first of them only. The constants satisfy
`ConstantsAssumption`, `PacketAssumption`, `SessionProgramAssumption`,
`UserPlaneAssumption`, `PfcpAssumption` and `CodecAssumption`, which TLC evaluates in
the runs.

**The argument.** `RoutesRequested` is not inductive: it says nothing of programs
that are not reachable yet. `SerialInv` adds what makes the indirection
flow -> id -> slot -> program sound. *FreshIds*: the n-th program has id n, and the
counter is n or n+1 according to the step a call is in. *SlotsSound*: slot i holds
program i or nothing. *IndexSound*: an index entry leads to a program constructed for
that very key. *FarsRequested* and *CallsRequested*: a stored FAR, and the FAR a call
is about to store, were requested for the program's flow. *CallProgress* and
*SlotsFilled*: how much of a pipeline exists at each step of the call, so that a
program in a slot lacks its FAR only while its call is about to write it. *OneCall*
is where the assumption of one caller enters. Given `SerialInv`, the program reached
by a flow carries the flow's key, which is isolation; each step moves `Route` of one
flow along pass -> drop -> FAR -> pass, which is the refinement.

`EntryInv`, on top of it, is about mSessionProgramsMap. *EntriesSound*: an entry owns
a program that is loaded and has its FAR, and no other entry owns it, so that the
`tearDown` of one session never destroys the program of another. *IndexPlaced*: an
indexed program is in its slot unless its call is about to put it there. *CallsPlaced*:
the program of a call is in no entry until it is recorded, then in the one of the
truncated SEID, where `findSessionPrograms` looks.

With concurrent handlers `SerialInv` is lost: `sIdCounter++` is not atomic, so two
programs may get one id. Two weaker invariants survive any number of callers. `MapInv`
is about ids instead of programs: ids are never 0 (*IdsPositive*), an index entry is the
id of some program made for that key (*IndexNamed*), a slot holds a program of its own
id (*SlotsNamed*), and a slot the index names is filled or a call is about to fill it
(*IndexReached*, with *FarsRequested*, *CallsRequested* and *SlotsFilled* kept from
`SerialInv`). If no other program has that id, the program in the slot is the one made
for the key, and its FAR was requested: so the race on the counter is the **only** way
in which unlocked handlers mix sessions up. `OwnInv` adds the entries: two calls never
build the same program (*CallsApart*), no call's program is in an entry before it is
recorded (*CallsBuild*), entries own loaded programs with their FARs, each its own
(*EntriesOwn*), and these are in their slots unless the id is shared or has left the
index with a restart (*EntriesInSlot*). The one call that ends between its map writes is
the one whose slot the tail-call array refuses: the flow then stays in the index under an
id from `MaxRuleProg` on, and as every entry's program has a smaller id, what is left
behind belongs to no session (`IndexedStaysForwarded`). It also covers insertions that the race on
`std::map` loses. This delimits the finding of `http_isolation`: of the unlocked accesses
the model has, the increment of the counter is the one isolation depends on.

For packets in flight `PacketInv` adds *ReadSound*: whatever a packet has read so
far belongs to its flow, and the fate it is heading for is one `Route` has shown
since the packet was received. That is preserved because a program never changes
its key (`ProgramsKept`), and a step that changes what the packet will find in a slot
or a program changes `Route` to that same fate while the index still leads there, or
has already been seen (`FateStep`). What does not depend on whose program is reached,
the types and `UplinkIsDecapsulated`, follows from `PacketTypeInv` for concurrent callers.

For v1.0 three invariants are stacked. `ManagerInv` is about the table and the call
under way: entries are distinct (*Distinct*) and live, but for the one `removeAll` is
about to fault on (*Entered*); the program being created is the newest, loaded and
in no entry, and the id it is for is free (*CreatedIsNew*: without it, inserting could
overwrite an entry or give a program to two); what is loaded is accounted for
(*Accounted*); only the handler's fault kills (*KilledByHandler*). That orphans do not
add up (`LiveStaysAccounted`) needs one more, `AccountInv`: they are no more than the
interfaces lost, and fewer while the program being created is *Doomed*, that is, has found
an interface that is gone by now. Once an interface is gone, `if_nametoindex` answers 0 and
no later creation fails because of it, so each loss dooms one program at most. `DataInv` adds the
maps and packets: a packet past its PDR has one (*PacketsNamed*), and every live
session, and every program a packet is in, has the egress entry of each direction
whose interface exists (*EgressKept*), which needs the half-equipped program of a
creation under way to be unreachable, hence `ManagerInv`. `PacketInv` is about what a
packet has read. As long as nothing is written to its program's maps (`quiet`), the PDR
and the FAR it read are the ones the maps hold (*QuietInv*), so its verdict is the one
the maps give; and what is redirected has been rewritten for its FAR and leaves by its
entry point (*ShapeInv*), written maps or not. The clause of `QuietPacketFollowsRules` on
PDIs that do not match is empty in the run, where `IndexValues` allows any outcome of the
comparison; it is the theorem that covers builds which leave 0 in the index.

For the life cycle `AloneInv` ties four pieces of state together: a program on an
interface is live, and the interface is in its recorded links, is the one just linked
and about to be recorded, or, during `tearDown`, is still in the links to undo
(*LinksKnown*); the links of the current program run it or nothing (*OwnLinks*), which
is what makes it harmless that undone links are never forgotten; before the first link
no interface runs the program, so the failures of `load` and `attach` may free it
(*SetupProgress*). A signal or a fault may come in any of these states, and from then on the
client's thread stands still wherever it is: `HandledInv` says that the handler, and any
that interrupts it, tears down the current program (*ClientSuspended*), that every
interface but one is known to a live program, and that the one the signal met between link
and record is the only one the handlers can miss (*LinksLeft*, *OwnLinksLeft*).
`SignalInv`, the disjunction of the two, is inductive. Independently of the threads the
handlers run on, `TypedInv` says that a life cycle records at most two links, which is what
makes the type an invariant. `HolderInv` is about `sTearDownMutex`: a thread in the locked
part of `tearDown` holds it (*LockedHolds*), and a thread that holds one elsewhere was
stopped in the locked part by a signal or a fault and, if the program is still the current
one, is at the lock again (*HolderKnown*, with *CallsCurrent*: calls are on the current
program). So whoever waits does so for a thread that runs, for itself, or for one that
waits for itself: `WaitsEnd`, for every choice of `SignalThreads`.

For the session rules the invariant is that ids are unique in each vector
(`UniqueInv`). The lemmas say what `Append`, an assignment to one element, the erasure
of the first match and a permutation do to what get returns for every id; that a
sort loses no rule rests on an injection of a finite set into itself being onto.

For messages the difficulty is that a theorem about every message calls for an
induction over nested elements, which these provers do not do. The proofs use instead
that states are built step by step, and, where an induction is needed, that a set of
naturals has a least element.

* *Elements* (`PfcpElementProofs`): for every class and every set of options `Sorted` holds:
  what is written is a sequence of fields of the type of the class (*Formed*); it has
  the announced number of octets unless the class is listed as understating it
  (*Counted*); read back it gives the same value unless the class is listed as altering
  it (*ReadBack*); and its length is one that `load_from` takes unless the class is listed
  as unusable (*Taken*). So the three lists of the model are complete.
* *Sending*: `Tells` says that there is a history, a set of frames each marked with the
  notes of what was put into it, such that every frame of the sender is reached from a
  fresh one by steps that add a leaf or a finished group of the same history (`Told`).
  Lengths agree along every such step, hence at its end: `LengthsAgree`.
* *Receiving*: `OnItsWay` says that each of the nested `load_from` loops is at one frame of
  that history and heading for a later one (`Reading`): it has the content of the frame
  reached, its count is what the goal announces and is not read yet, and the octets on the
  wire are the rest of the innermost goal, then the rest of the one around it, and so on
  out to the message. A finished loop has read the group the sender closed,
  so `CloseLoaded` adds to the receiver's frame what `CloseGroup` added to the sender's.
  An element that is refused ends this correspondence for good, and with it delivery.
* *Crash*: `CrashNeedsUrr` also speaks of messages that do not fit, whose loops stop at
  places where the sender closed nothing, so `OnItsWay` says nothing there. What remains
  true is that the octets still divide into elements, one by one, of the kinds that were
  sent (`InStep`, witnessed by a set of streams closed under taking off an element):
  `Spaced` for the frames of the sender, `Guarded` for the octets on the wire and the
  loops that are open.

`Tells`, `OnItsWay`, `Spaced` and `Guarded` quantify over histories and sets of streams, which
TLC cannot enumerate: the run checks the invariants that follow from them.

**Only model-checked**: liveness (the fairness part of `ImplementsFlowTable`,
`BlackholeEnds`, `SignalEndsOrHangs`, `EveryMessageJudged`), which the proof system does
not reach. `WaitsEnd` is the safety part of `SignalEndsOrHangs`. Conversely the wrap of
lengths at 2^16 is out of the run's bounds: only the proof of `LengthsAgree` covers it. TLC refutes what each theorem says when its assumption on the callers, or on
the handler's thread, is dropped; what remains true then is what the theorems without
the assumption say.

## 5. Further observations

These properties are defined in the modules; TLC refutes each when it is put into
the property list of the configuration named, and no run is kept for them.

* `HitlessRedeploy` (`PipelineSerial.cfg`): creating a session again on a live flow
  passes, then drops its packets until the FAR is written.
* `RemovesOwnSession` (`PipelineSerial.cfg`): the
  64-bit ids of `removeBPFSession` are cut to 32 bits, and removing one session
  releases another one, equal in the low half. The v1.0 calls cut ids as well; there the
  second creation is refused instead.
* `RoutedFlowIsRecorded` (`PipelineSerial.cfg`): a session created again on another flow
  leaves the first flow forwarded, with nothing to remove it by.
* `LoadedIsRecorded` (`PipelineSerial.cfg`): a program whose slot or index entry was
  refused stays loaded and in no table.
* `RemovedIsUnloaded` (`PipelineSerial.cfg`): the tail-call slot of a removed session
  keeps its program in the kernel.
* `TearDownReleasesAll` (`PipelineSerial.cfg`): tearing the user plane down leaves the
  FAR programs of `mSessionProgramsMap` loaded.
* `LookedUpIsIpv4` (`PacketSerial.cfg`): a VLAN frame is parsed as IPv4 whatever its tag
  announces; and the FAR program counts header offsets from the start of the frame,
  so a tagged frame leaves garbled.
* `TearDownReleasesInterfaces` (`LifeCycle.cfg`): a second `setup` replaces the only
  reference to the program that is linked.
* `DestroyedOnce` (`LifeCycle.cfg`): a failed load frees the skeleton and keeps the
  pointer and the state.
* `ExitedIsUnlinked` (`SignalHang.cfg`): a signal between the kernel's link and its
  record ends the process with the interface linked.
* `RemovesAll` (`SessionProgram.cfg`, with `FairSpec` and `Cpus = {}`): `SessionProgramManager.h:57`
  says of `removeAll` "@brief Remove all programs."; with two sessions it tears down the first
  one's program, calls the observer that no code sets (`SessionProgramManager.cpp:178`), and
  the handler of that fault faults there again: the process is killed with the second
  program still loaded and the table not cleared.

`RedirectedShape` holds and says what a reader may not expect: a v1.0 program redirects by
the direction the packet came from and rewrites it by its FAR, so an uplink packet under a
FAR whose destination is the access network leaves with a GTP tunnel on the side of the
data network, and a downlink packet under a FAR to the data network leaves to the access
network with its first headers cut off.

An update of a FAR never reaches a program already deployed, and an update may set
FORW on a FAR that has no forwarding parameters, which creation refuses.

## 6. Not modelled

* `uint_generator`: a template that nothing instantiates; its only include is
  commented out.
* The contents of texts and numbers inside elements, beyond what their conversions do
  to them (section 2); names that are not ASCII.
* `open` returning a null skeleton (libbpf out of memory), in both program life cycles.
* The causes and offending elements of refused rule requests, `notify_cp_requested`
  (it builds a report that is not sent), the v1.0 rule wrappers in `pfcp/`.
* `async_shell_cmd`, pid file, scheduling: unused, and their message layer is not in
  the repository.
* JSON parsing, logging, conversions, interface queries, statistics counters, samples:
  no state that another part reads.
* Header bytes, lengths and checksums of forwarded packets.
* The kernel: map semantics are taken from their use (atomic update and lookup,
  refusal of a full hash map or an index out of range, tail call falling through).

## 7. Plan

Done: the inventory; sessions, datapath, life cycle and signals, session rules, v1.0
sessions and datapath, the message codec; the abstract tables; the proofs of
section 4, for one caller and for concurrent handlers, with and without signals.
What could be added, in this order:

1. Compose `PfcpSession` with `SessionPipeline`: sessions that change between two
   deployments, so that requests come from the rules instead of a fixed set.
2. `BPFMap` as a component of its own, with `lookup`, used by the pipelines.
3. What a life cycle keeps when the handler runs on another thread: the links of
   programs that no setup is using any more.
