------------------------------ MODULE UserPlane ------------------------------
(***************************************************************************)
(* UserPlaneComponent, its UPFProgram and that program's ProgramLifeCycle, *)
(* the XDP hooks of the network interfaces, and SignalHandler, whose       *)
(* tearDown may interrupt the thread that is executing setup or tearDown,  *)
(* or a handler, or run beside them in another thread.  A fault of the     *)
(* program is a signal too: SIGSEGV, handled on the thread that faults.    *)
(***************************************************************************)
EXTENDS Naturals, Sequences, SequencesExt

CONSTANTS
  Interfaces,       \* network interfaces
  Empty, Unknown,   \* "" and the name of no interface
  MaxSetups,        \* bound on the calls of setup
  SignalThreads,    \* where SIGINT, SIGTERM and kill -SEGV are handled: on the
                    \* client's thread ("handler"), on another one ("other")
  Interrupts        \* the signals from outside: SIGINT and SIGTERM

ASSUME UserPlaneAssumption ==
  /\ MaxSetups \in Nat
  /\ SignalThreads \subseteq {"handler", "other"}
  /\ Interrupts \subseteq {"SIGINT", "SIGTERM"}
  /\ Empty # Unknown /\ {Empty, Unknown} \cap Interfaces = {}

VARIABLES
  nPrograms,        \* UPFPrograms constructed; the last one is mpUPFProgram
  life,             \* the ProgramLifeCycle of each
  mutex,            \* the holder of each ProgramLifeCycle's sTearDownMutex
  xdp,              \* the program each interface runs, 0 for none
  sessionManager,   \* mpSessionManager is "null" or "made"
  thread,           \* the call of the client and those of the signal handlers
  process           \* "running", "exited", or "crashed"

vars == <<nPrograms, life, mutex, xdp, sessionManager, thread, process>>

Names == Interfaces \cup {Empty, Unknown}
Handlers == {"handler", "other"}
Actors == {"client"} \cup Handlers
Signals == Interrupts \cup {"SIGSEGV"}
ProgramState == {"IDLE", "OPENED", "LOADED", "ATTACHED", "LINKED", "DESTROYED"}

LifeType == [state : ProgramState, skeleton : {"null", "live", "freed"},
             links : BoundedSeq(Interfaces, 2)]

(* udp and gtp are the arguments of setup, prog is the program that tearDown was
   called on (mpUPFProgram may be replaced meanwhile), todo its links to be undone.
   then is what follows tearDown: the return of tearDown ("return"), the
   exception of link ("throw"), exit(0) ("exit") or the end ("end"); blocked are
   the signals whose handlers have not returned on the thread. *)
ThreadType ==
  [pc : {"idle", "open", "load", "attach", "linkUdp", "recordUdp", "linkGtp",
         "recordGtp", "manager", "lock", "unlink"},
   udp : Names, gtp : Names, prog : 0 .. MaxSetups, todo : BoundedSeq(Interfaces, 2),
   then : {"return", "throw", "exit", "end"}, blocked : SUBSET Signals]

UserPlaneTypeOK ==
  /\ nPrograms \in 0 .. MaxSetups
  /\ life \in [1 .. MaxSetups -> LifeType]
  /\ mutex \in [1 .. MaxSetups -> Actors \cup {"free"}]
  /\ xdp \in [Interfaces -> 0 .. MaxSetups]
  /\ sessionManager \in {"null", "made"}
  /\ thread \in [Actors -> ThreadType]
  /\ process \in {"running", "exited", "crashed"}

Idle == [pc |-> "idle", udp |-> Empty, gtp |-> Empty, prog |-> 0, todo |-> <<>>,
         then |-> "return", blocked |-> {}]

Init ==
  /\ nPrograms = 0
  /\ life = [p \in 1 .. MaxSetups |->
               [state |-> "IDLE", skeleton |-> "null", links |-> <<>>]]
  /\ mutex = [p \in 1 .. MaxSetups |-> "free"]
  /\ xdp = [i \in Interfaces |-> 0]
  /\ sessionManager = "null"
  /\ thread = [a \in Actors |-> Idle]
  /\ process = "running"

-----------------------------------------------------------------------------
(* The client is suspended while a handler runs on its own thread. *)
Runs(a) ==
  /\ process = "running"
  /\ a = "client" => thread["handler"].pc = "idle"

At(a, pc) == Runs(a) /\ thread[a].pc = pc

Goto(a, pc) == thread' = [thread EXCEPT ![a].pc = pc]

Return(a) == thread' = [thread EXCEPT ![a] = Idle]

Set(p, state, skeleton) ==
  life' = [life EXCEPT ![p] = [@ EXCEPT !.state = state, !.skeleton = skeleton]]

This == life[nPrograms]

(* mpUPFProgram->tearDown(), and what is to follow it. *)
CallTearDown(a, then) ==
  thread' = [thread EXCEPT ![a] =
    [Idle EXCEPT !.pc = "lock", !.prog = nPrograms, !.then = then,
                 !.blocked = thread[a].blocked]]

(* SignalHandler::tearDown.  It never returns, so what it interrupts, a handler
   too, is over, with the mutex if it had locked it; an exit(0) within exit(0) does
   not run ~UserPlaneComponent again. *)
Handle(a, signal) ==
  thread' = [thread EXCEPT ![a] =
    [Idle EXCEPT !.pc = "lock", !.prog = nPrograms,
                 !.then = IF \E b \in Actors : thread[b].then = "end"
                          THEN "end" ELSE "exit",
                 !.blocked = thread[a].blocked \cup {signal}]]

(* A fault is a SIGSEGV on the thread that faults, and kills the process where
   SIGSEGV is blocked. *)
HandlerOn(a) == IF a = "client" THEN "handler" ELSE a

Faults(a) ==
  \/ /\ "SIGSEGV" \notin thread[HandlerOn(a)].blocked
     /\ Handle(HandlerOn(a), "SIGSEGV")
     /\ UNCHANGED process
  \/ /\ "SIGSEGV" \in thread[HandlerOn(a)].blocked
     /\ process' = "crashed"
     /\ UNCHANGED thread

-----------------------------------------------------------------------------
(* UserPlaneComponent::setup up to UPFProgram::setup.  mState is not initialised
   by the constructor: it holds what was in memory. *)
BeginSetup(gtp, udp) ==
  /\ At("client", "idle")
  /\ nPrograms < MaxSetups
  /\ nPrograms' = nPrograms + 1
  /\ \E garbage \in ProgramState : Set(nPrograms + 1, garbage, "null")
  /\ thread' = [thread EXCEPT !["client"] =
       [Idle EXCEPT !.pc = "open", !.gtp = gtp, !.udp = udp]]
  /\ UNCHANGED <<mutex, xdp, sessionManager, process>>

(* open; the map wrappers are then made from the skeleton. *)
Open ==
  /\ At("client", "open")
  /\ Set(nPrograms, "OPENED", "live")
  /\ Goto("client", "load")
  /\ UNCHANGED <<nPrograms, mutex, xdp, sessionManager, process>>

(* setrlimit fails: an exception, with mState as it was. *)
OpenFails ==
  /\ At("client", "open")
  /\ Return("client")
  /\ UNCHANGED <<nPrograms, life, mutex, xdp, sessionManager, process>>

Load ==
  /\ At("client", "load")
  /\ Set(nPrograms, "LOADED", This.skeleton)
  /\ Goto("client", "attach")
  /\ UNCHANGED <<nPrograms, mutex, xdp, sessionManager, process>>

Attach ==
  /\ At("client", "attach")
  /\ Set(nPrograms, "ATTACHED", This.skeleton)
  /\ IF Empty \in {thread["client"].gtp, thread["client"].udp}
     THEN Return("client") ELSE Goto("client", "linkUdp")
  /\ UNCHANGED <<nPrograms, mutex, xdp, sessionManager, process>>

(* load and attach destroy the skeleton when they fail and keep mState. *)
LoadOrAttachFails ==
  /\ At("client", "load") \/ At("client", "attach")
  /\ Set(nPrograms, This.state, "freed")
  /\ Return("client")
  /\ UNCHANGED <<nPrograms, mutex, xdp, sessionManager, process>>

(* link: the interface must exist and, by XDP_FLAGS_UPDATE_IF_NOEXIST, run no
   program yet. *)
Linking == [pc : {"linkUdp"}, name : {thread["client"].udp}, next : {"recordUdp"}]
           \cup [pc : {"linkGtp"}, name : {thread["client"].gtp}, next : {"recordGtp"}]

Link ==
  \E l \in Linking :
    /\ At("client", l.pc)
    /\ l.name \in Interfaces
    /\ xdp[l.name] = 0
    /\ xdp' = [xdp EXCEPT ![l.name] = nPrograms]
    /\ Goto("client", l.next)
    /\ UNCHANGED <<nPrograms, life, mutex, sessionManager, process>>

LinkUnknown ==
  \E l \in Linking :
    /\ At("client", l.pc)
    /\ l.name = Unknown
    /\ Return("client")
    /\ UNCHANGED <<nPrograms, life, mutex, xdp, sessionManager, process>>

LinkBusyAfterRecording ==
  \E l \in Linking :
    /\ At("client", l.pc)
    /\ l.name \in Interfaces
    /\ xdp[l.name] # 0
    /\ life' = [life EXCEPT ![nPrograms] =
         [This EXCEPT !.state = "LINKED", !.links = Append(@, l.name)]]
    /\ CallTearDown("client", "throw")
    /\ UNCHANGED <<nPrograms, mutex, xdp, sessionManager, process>>

LinkBusy ==
  \E l \in Linking :
    /\ At("client", l.pc)
    /\ l.name \in Interfaces
    /\ xdp[l.name] # 0
    /\ CallTearDown("client", "throw")
    /\ UNCHANGED <<nPrograms, life, mutex, xdp, sessionManager, process>>

RecordedTwice(pc, name, next) ==
  /\ At("client", pc)
  /\ life' = [life EXCEPT ![nPrograms] =
       [This EXCEPT !.state = "LINKED", !.links = @ \o <<name, name>>]]
  /\ Goto("client", next)
  /\ UNCHANGED <<nPrograms, mutex, xdp, sessionManager, process>>

(* mSectionLinkInterfacesMap and mState follow the link. *)
Recorded(pc, name, next) ==
  /\ At("client", pc)
  /\ life' = [life EXCEPT ![nPrograms] =
       [This EXCEPT !.state = "LINKED", !.links = Append(@, name)]]
  /\ Goto("client", next)
  /\ UNCHANGED <<nPrograms, mutex, xdp, sessionManager, process>>

RecordLinkOnce ==
  \/ Recorded("recordUdp", thread["client"].udp, "linkGtp")
  \/ /\ At("client", "recordGtp")
     /\ Goto("client", "manager")
     /\ UNCHANGED <<nPrograms, life, mutex, xdp, sessionManager, process>>

RecordLink ==
  \/ Recorded("recordUdp", thread["client"].udp, "linkGtp")
  \/ Recorded("recordGtp", thread["client"].gtp, "manager")

(* A handler on another thread may have destroyed the skeleton that setup uses:
   setup goes on, faults or aborts. *)
SetupUsesFreed ==
  /\ Runs("client")
  /\ thread["client"].pc \in {"load", "attach", "linkUdp", "linkGtp"}
  /\ This.skeleton = "freed"
  /\ Faults("client") \/ (process' = "crashed" /\ UNCHANGED thread)
  /\ UNCHANGED <<nPrograms, life, mutex, xdp, sessionManager>>

MakeManager ==
  /\ At("client", "manager")
  /\ sessionManager' = "made"
  /\ Return("client")
  /\ UNCHANGED <<nPrograms, life, mutex, xdp, process>>

-----------------------------------------------------------------------------
(* UserPlaneComponent::tearDown, called by the client. *)
BeginTearDown ==
  /\ At("client", "idle")
  /\ nPrograms > 0
  /\ CallTearDown("client", "return")
  /\ UNCHANGED <<nPrograms, life, mutex, xdp, sessionManager, process>>

(* What follows tearDown.  exit(0) runs ~UserPlaneComponent: one more tearDown. *)
Finished(a) ==
  \/ /\ thread[a].then \in {"return", "throw"}
     /\ Return(a)
     /\ UNCHANGED process
  \/ /\ thread[a].then = "exit" /\ \A b \in Actors : thread[b].then # "end"
     /\ CallTearDown(a, "end")
     /\ UNCHANGED process
  \/ /\ thread[a].then \in {"exit", "end"} /\ \E b \in Actors : thread[b].then = "end"
     /\ Return(a)
     /\ process' = "exited"

Torn(a) == life[thread[a].prog]

LockForLast(a) ==
  /\ At(a, "lock")
  /\ mutex[thread[a].prog] = "free"
  /\ Torn(a).state # "IDLE"
  /\ mutex' = [mutex EXCEPT ![thread[a].prog] = a]
  /\ thread' = [thread EXCEPT ![a] = [@ EXCEPT !.pc = "unlink",
       !.todo = IF Torn(a).state = "LINKED" /\ Torn(a).links # <<>>
                THEN <<Last(Torn(a).links)>> ELSE <<>>]]
  /\ UNCHANGED <<nPrograms, life, xdp, sessionManager, process>>

(* The lock is not recursive: on the thread that holds it, this step never comes. *)
Lock(a) ==
  /\ At(a, "lock")
  /\ mutex[thread[a].prog] = "free"
  /\ Torn(a).state # "IDLE"
  /\ mutex' = [mutex EXCEPT ![thread[a].prog] = a]
  /\ thread' = [thread EXCEPT ![a] = [@ EXCEPT !.pc = "unlink",
       !.todo = IF Torn(a).state = "LINKED" THEN Torn(a).links ELSE <<>>]]
  /\ UNCHANGED <<nPrograms, life, xdp, sessionManager, process>>

LockIdle(a) ==
  /\ At(a, "lock")
  /\ mutex[thread[a].prog] = "free"
  /\ Torn(a).state = "IDLE"
  /\ Finished(a)
  /\ UNCHANGED <<nPrograms, life, mutex, xdp, sessionManager>>

Unlink(a) ==
  /\ At(a, "unlink")
  /\ thread[a].todo # <<>>
  /\ xdp' = [xdp EXCEPT ![Head(thread[a].todo)] = 0]
  /\ thread' = [thread EXCEPT ![a].todo = Tail(@)]
  /\ UNCHANGED <<nPrograms, life, mutex, sessionManager, process>>

(* The exception releases the lock; in a handler nobody catches it. *)
UnlinkFails(a) ==
  /\ At(a, "unlink")
  /\ thread[a].todo # <<>>
  /\ mutex' = [mutex EXCEPT ![thread[a].prog] = "free"]
  /\ Return(a)
  /\ process' = IF a \in Handlers THEN "crashed" ELSE process
  /\ UNCHANGED <<nPrograms, life, xdp, sessionManager>>

(* A garbage mState of LINKED: tearDown is about to dereference a null skeleton. *)
NullLinked(a) == Torn(a).state = "LINKED" /\ Torn(a).skeleton = "null"

(* destroy: mDestroyFunc, which accepts NULL, and IDLE. *)
DestroyKeepsLock(a) ==
  /\ At(a, "unlink")
  /\ thread[a].todo = <<>>
  /\ ~NullLinked(a)
  /\ Set(thread[a].prog, "IDLE", IF Torn(a).skeleton = "null" THEN "null" ELSE "freed")
  /\ Finished(a)
  /\ UNCHANGED <<nPrograms, mutex, xdp, sessionManager>>

DestroyKeepsState(a) ==
  /\ At(a, "unlink")
  /\ thread[a].todo = <<>>
  /\ ~NullLinked(a)
  /\ Set(thread[a].prog, Torn(a).state, IF Torn(a).skeleton = "null" THEN "null" ELSE "freed")
  /\ mutex' = [mutex EXCEPT ![thread[a].prog] = "free"]
  /\ Finished(a)
  /\ UNCHANGED <<nPrograms, xdp, sessionManager>>

Destroy(a) ==
  /\ At(a, "unlink")
  /\ thread[a].todo = <<>>
  /\ ~NullLinked(a)
  /\ Set(thread[a].prog, "IDLE", IF Torn(a).skeleton = "null" THEN "null" ELSE "freed")
  /\ mutex' = [mutex EXCEPT ![thread[a].prog] = "free"]
  /\ Finished(a)
  /\ UNCHANGED <<nPrograms, xdp, sessionManager>>

(* A null skeleton makes tearDown fault, a freed one may; both under the lock. *)
TearDownFaults(a) ==
  /\ At(a, "unlink")
  /\ NullLinked(a) \/ Torn(a).skeleton = "freed"
  /\ Faults(a)
  /\ UNCHANGED <<nPrograms, life, mutex, xdp, sessionManager>>

(* A skeleton destroyed twice is freed twice, which the allocator may detect. *)
DestroyAborts(a) ==
  /\ At(a, "unlink")
  /\ thread[a].todo = <<>>
  /\ Torn(a).skeleton = "freed"
  /\ process' = "crashed"
  /\ UNCHANGED <<nPrograms, life, mutex, xdp, sessionManager, thread>>

TearDownStep(a) ==
  \/ Lock(a) \/ LockIdle(a)
  \/ Unlink(a) \/ UnlinkFails(a)
  \/ Destroy(a) \/ DestroyAborts(a) \/ TearDownFaults(a)

(* SIGINT, SIGTERM or kill -SEGV, once setup has enabled the handlers: also while
   a handler runs, unless for the same signal. *)
Signal(a, signal) ==
  /\ process = "running"
  /\ nPrograms > 0
  /\ signal \notin thread[a].blocked
  /\ Handle(a, signal)
  /\ UNCHANGED <<nPrograms, life, mutex, xdp, sessionManager, process>>

SetupStep ==
  \/ Open \/ OpenFails
  \/ Load \/ Attach \/ LoadOrAttachFails
  \/ Link \/ LinkUnknown \/ LinkBusy \/ RecordLink
  \/ MakeManager \/ SetupUsesFreed

Next ==
  \/ \E gtp, udp \in Names : BeginSetup(gtp, udp)
  \/ SetupStep
  \/ BeginTearDown
  \/ \E a \in Actors : TearDownStep(a)
  \/ \E a \in SignalThreads, signal \in Signals : Signal(a, signal)

Spec == Init /\ [][Next]_vars

(* The operating system runs every thread, and a thread that waits for a mutex
   that becomes free again and again obtains it. *)
FairSpec ==
  /\ Spec
  /\ WF_vars(SetupStep \/ TearDownStep("client"))
  /\ \A a \in Handlers :
       WF_vars(TearDownStep(a)) /\ SF_vars(Lock(a) \/ LockIdle(a))

-----------------------------------------------------------------------------
(* The interface that the kernel has linked and setup has not recorded yet. *)
Unrecorded(i) ==
  \/ thread["client"].pc = "recordUdp" /\ thread["client"].udp = i
  \/ thread["client"].pc = "recordGtp" /\ thread["client"].gtp = i

(* A signal handler has started; none returns. *)
Handling == \E a \in Handlers : thread[a].pc # "idle"
Signalled == Handling \/ process # "running"

(* An interface never runs a program whose skeleton was destroyed, but for the
   one that a signal met between its link and the recording of it. *)
LinkedIsLive ==
  \A i \in Interfaces : xdp[i] # 0 =>
    life[xdp[i]].skeleton = "live" \/ (Signalled /\ Unrecorded(i))

(* Between calls, whatever failed in them, the life cycle of a program knows
   every interface that runs it, so that tearDown can take it off. *)
LinksAccounted ==
  thread["client"].pc = "idle" => \A i \in Interfaces : xdp[i] # 0 =>
    /\ life[xdp[i]].state = "LINKED"
    /\ \E n \in DOMAIN life[xdp[i]].links : life[xdp[i]].links[n] = i

(* tearDown takes no program off an interface but its own, though it forgets
   none of the links it has already undone. *)
UnlinksOwn ==
  \A a \in Actors : thread[a].pc = "unlink" /\ thread[a].todo # <<>> =>
    xdp[Head(thread[a].todo)] \in {0, thread[a].prog}

(* When destroy has run, after a tearDown or a link that failed, no interface
   runs the current program and a further tearDown does nothing.  Only the
   handler's destroy may leave an interface, the one not recorded yet. *)
DestroyedIsReleased ==
  [][\A a \in Actors :
       thread[a].pc = "unlink" /\ thread'[a].pc # "unlink" /\ life' # life =>
         /\ life'[thread[a].prog].state = "IDLE"
         /\ \A i \in Interfaces :
              xdp'[i] = thread[a].prog => a \in Handlers /\ Unrecorded(i)]_vars

(* Wherever the signal interrupts setup or tearDown, the process exits with its
   current program on no interface, but for the one not recorded yet. *)
ExitLeavesOnlyUnrecorded ==
  process = "exited" => \A i \in Interfaces : xdp[i] = nPrograms => Unrecorded(i)

(* The operating system's thread that an actor runs on. *)
OsThread(a) == IF a = "handler" THEN "client" ELSE a

Waits(a) == At(a, "lock") /\ mutex[thread[a].prog] # "free"

(* The thread waits for a mutex that it has locked itself, in a call that a signal
   or a fault has put an end to: the mutex is not recursive, and never unlocked. *)
WaitsForItself(a) == Waits(a) /\ OsThread(mutex[thread[a].prog]) = OsThread(a)

(* A thread that waits for sTearDownMutex waits for itself, or for another one that
   is in the tearDown of the same program and runs, or that waits for itself: two
   threads never wait for each other, and no thread waits for one that went on
   without unlocking. *)
WaitedForRuns ==
  \A a \in Actors : Waits(a) =>
    LET b == mutex[thread[a].prog] IN
      \/ WaitsForItself(a)
      \/ Runs(b) /\ thread[b].pc = "unlink" /\ thread[b].prog = thread[a].prog
      \/ \E c \in Actors : OsThread(c) = OsThread(b) /\ WaitsForItself(c)

(* A signal or a fault ends the process, unless it stopped a thread for good that
   had locked sTearDownMutex. *)
SignalEndsOrHangs ==
  Handling ~> process # "running" \/ \E a \in Actors : WaitsForItself(a)

-----------------------------------------------------------------------------
(* What docs and comments of the repository say and the code does not do. *)

(* A signal ends the process: the handler calls exit(0). *)
SignalEnds == Handling ~> process # "running"

(* tearDown tears down all programs that were set up: when it returns no
   interface runs any of them. *)
TearDownReleasesInterfaces ==
  [][thread["client"].pc \in {"lock", "unlink"} /\ thread["client"].then = "return"
       /\ thread'["client"].pc = "idle" /\ life' # life
     => \A i \in Interfaces : xdp'[i] = 0]_vars

(* A process that ended by a signal has torn down its programs. *)
ExitedIsUnlinked == process = "exited" => \A i \in Interfaces : xdp[i] = 0

(* The skeleton is NULL when it is not open, so nothing is destroyed twice. *)
DestroyedOnce ==
  \A a \in Actors : ~(thread[a].pc = "unlink" /\ thread[a].todo = <<>>
                      /\ Torn(a).skeleton = "freed")
=============================================================================
