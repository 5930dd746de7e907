--------------------------- MODULE UserPlaneProofs ---------------------------
(***************************************************************************)
(* Proofs about UserPlane for every set of interfaces and every number of  *)
(* calls.  While no signal arrives, what the life cycle of a program       *)
(* records is enough to take the program off every interface it was linked *)
(* to, whichever call of setup or tearDown failed before (AloneInv).  A    *)
(* signal or a fault that interrupts the client stops it where it is, and  *)
(* the handlers' tear downs lose sight of one interface at most            *)
(* (HandledInv).  The types (TypedInv) and what is known of the holders of *)
(* the mutexes (HolderInv) hold whichever thread handles the signal.       *)
(***************************************************************************)
EXTENDS UserPlane, SequenceTheorems, TLAPS

Client == thread["client"]
Member(s, i) == \E n \in 1 .. Len(s) : s[n] = i

(* Without signals no handler runs, and the client's tearDown is one it called
   itself, on the current program. *)
ClientAlone ==
  /\ thread["handler"] = Idle /\ thread["other"] = Idle
  /\ Client.then \in {"return", "throw"}
  /\ Client.pc \in {"lock", "unlink"} => Client.prog = nPrograms
  /\ Client.pc # "idle" => nPrograms # 0

(* How far a setup has come. *)
SetupProgress ==
  /\ \A p \in 1 .. MaxSetups : p > nPrograms => life[p].links = <<>>
  /\ Client.pc \in {"open", "load", "attach", "linkUdp", "recordUdp"} => This.links = <<>>
  /\ Client.pc \in {"linkGtp", "recordGtp"} => Len(This.links) < 2
  /\ Client.pc \in {"load", "attach", "linkUdp", "recordUdp", "linkGtp", "recordGtp"} =>
       This.skeleton = "live"
  /\ Client.pc \in {"open", "load", "attach", "linkUdp"} =>
       \A i \in Interfaces : xdp[i] # nPrograms

(* The interface just linked and not recorded yet: Unrecorded. *)
Pending(i) ==
  \/ Client.pc = "recordUdp" /\ Client.udp = i
  \/ Client.pc = "recordGtp" /\ Client.gtp = i

(* A program on an interface was set up, is live, and its life cycle knows the
   interface; a tearDown of it has the interface before it. *)
LinksKnown ==
  \A i \in Interfaces : xdp[i] # 0 =>
    /\ xdp[i] \in 1 .. nPrograms
    /\ life[xdp[i]].skeleton = "live"
    /\ \/ xdp[i] = nPrograms /\ Pending(i)
       \/ life[xdp[i]].state = "LINKED" /\ Member(life[xdp[i]].links, i)
    /\ Client.pc = "unlink" /\ xdp[i] = nPrograms => Member(Client.todo, i)

(* The interfaces the current program was linked to run it or nothing. *)
OwnLinks ==
  /\ Client.pc = "recordUdp" => Client.udp \in Interfaces /\ xdp[Client.udp] = nPrograms
  /\ Client.pc = "recordGtp" => Client.gtp \in Interfaces /\ xdp[Client.gtp] = nPrograms
  /\ nPrograms # 0 => \A i \in Interfaces :
       Member(This.links, i) => xdp[i] \in {0, nPrograms}
  /\ Client.pc = "unlink" => \A i \in Interfaces :
       Member(Client.todo, i) => xdp[i] \in {0, nPrograms}

AloneInv == UserPlaneTypeOK /\ ClientAlone /\ SetupProgress /\ LinksKnown /\ OwnLinks

(* The handler has interrupted the client, which does not go on: the handler, and
   the one that interrupts it, tear down the current program until the process ends
   or waits for itself. *)
Handler == thread["handler"]

ClientSuspended ==
  /\ thread["other"] = Idle /\ nPrograms # 0
  /\ Handler.pc \in {"idle", "lock", "unlink"}
  /\ Handler.pc = "idle" => process # "running"
  /\ Handler.pc # "idle" => Handler.prog = nPrograms /\ Handler.then \in {"exit", "end"}
  /\ Client.pc = "unlink" => Client.prog = nPrograms

(* The interface the signal met unrecorded is lost sight of; the others are known. *)
LinksLeft ==
  \A i \in Interfaces : xdp[i] # 0 =>
    /\ xdp[i] \in 1 .. nPrograms
    /\ \/ xdp[i] = nPrograms /\ Pending(i)
       \/ /\ life[xdp[i]].skeleton = "live" /\ life[xdp[i]].state = "LINKED"
          /\ Member(life[xdp[i]].links, i)
    /\ Handler.pc = "unlink" /\ xdp[i] = nPrograms => Pending(i) \/ Member(Handler.todo, i)
    /\ process = "exited" /\ xdp[i] = nPrograms => Pending(i)

OwnLinksLeft ==
  \A i \in Interfaces :
    \/ Member(This.links, i)
    \/ Client.pc = "unlink" /\ Member(Client.todo, i)
    \/ Handler.pc = "unlink" /\ Member(Handler.todo, i)
    => xdp[i] \in {0, nPrograms}

HandledInv == UserPlaneTypeOK /\ ClientSuspended /\ LinksLeft /\ OwnLinksLeft

SignalInv == (AloneInv /\ process # "exited") \/ HandledInv

Pcs == {"idle", "open", "load", "attach", "linkUdp", "recordUdp", "linkGtp",
        "recordGtp", "manager", "lock", "unlink"}

-----------------------------------------------------------------------------
(* The sequences of at most two interfaces. *)
LEMMA BoundedIs ==
  ASSUME NEW s
  PROVE  s \in BoundedSeq(Interfaces, 2) <=> s \in Seq(Interfaces) /\ Len(s) <= 2
<1>1. BoundedSeq(Interfaces, 2) = UNION {[1 .. m -> Interfaces] : m \in 0 .. 2}
  BY DEF BoundedSeq, SeqOf
<1>2. ASSUME NEW m \in 0 .. 2, s \in [1 .. m -> Interfaces]
      PROVE  s \in Seq(Interfaces) /\ Len(s) <= 2
  <2>1. s \in Seq(Interfaces)
    BY <1>2, IsASeq
  <2>2. Len(s) = m
    BY <1>2, <2>1, LenProperties
  <2> QED
    BY <2>1, <2>2
<1>3. ASSUME s \in Seq(Interfaces), Len(s) <= 2
      PROVE  \E m \in 0 .. 2 : s \in [1 .. m -> Interfaces]
  <2>1. Len(s) \in Nat /\ s \in [1 .. Len(s) -> Interfaces]
    BY <1>3, LenProperties
  <2>2. Len(s) \in 0 .. 2
    BY <1>3, <2>1
  <2> QED
    BY <2>1, <2>2
<1> QED
  BY <1>1, <1>2, <1>3

(* Recording one more link. *)
LEMMA MemberAppend ==
  ASSUME NEW s \in Seq(Interfaces), NEW j \in Interfaces
  PROVE  /\ Append(s, j) \in Seq(Interfaces) /\ Len(Append(s, j)) = Len(s) + 1
         /\ \A i : Member(Append(s, j), i) <=> Member(s, i) \/ i = j
<1>1. /\ Append(s, j) \in Seq(Interfaces) /\ Len(Append(s, j)) = Len(s) + 1 /\ Len(s) \in Nat
      /\ \A n \in 1 .. Len(s) : Append(s, j)[n] = s[n]
      /\ Append(s, j)[Len(s) + 1] = j
  BY AppendProperties, LenProperties
<1>2. 1 .. Len(s) + 1 = (1 .. Len(s)) \cup {Len(s) + 1}
  BY <1>1
<1> QED
  BY <1>1, <1>2 DEF Member

(* Undoing the first link. *)
LEMMA MemberTail ==
  ASSUME NEW s \in Seq(Interfaces), s # <<>>
  PROVE  /\ Head(s) \in Interfaces /\ Tail(s) \in Seq(Interfaces) /\ Len(Tail(s)) < Len(s)
         /\ Member(s, Head(s))
         /\ \A i : Member(Tail(s), i) => Member(s, i)
         /\ \A i : Member(s, i) => i = Head(s) \/ Member(Tail(s), i)
<1>1. /\ Head(s) \in Interfaces /\ Tail(s) \in Seq(Interfaces)
      /\ Len(Tail(s)) = Len(s) - 1 /\ Len(s) \in Nat \ {0} /\ Head(s) = s[1]
      /\ \A n \in 1 .. Len(Tail(s)) : Tail(s)[n] = s[n + 1]
  BY HeadTailProperties, LenProperties, EmptySeq
<1>2. \A n \in 1 .. Len(s) : n = 1 \/ (n - 1 \in 1 .. Len(Tail(s)) /\ n = (n - 1) + 1)
  BY <1>1
<1>3. \A n \in 1 .. Len(Tail(s)) : n + 1 \in 1 .. Len(s)
  BY <1>1
<1>4. \A i : Member(Tail(s), i) => Member(s, i)
  BY <1>1, <1>3 DEF Member
<1>5. \A i : Member(s, i) => i = Head(s) \/ Member(Tail(s), i)
  BY <1>1, <1>2 DEF Member
<1> QED
  BY <1>1, <1>4, <1>5 DEF Member

(* Nothing is in the empty sequence. *)
LEMMA MemberEmpty ==
  /\ <<>> \in Seq(Interfaces) /\ Len(<<>>) = 0
  /\ \A i : ~Member(<<>>, i)
BY EmptySeq DEF Member

-----------------------------------------------------------------------------
(* A thread after the kinds of steps that write it. *)
Kept(a) ==
  /\ thread' \in [Actors -> ThreadType]
  /\ \A b \in Actors : b # a => thread'[b] = thread[b]

SameCallOf(a) ==
  /\ thread'[a].udp = thread[a].udp /\ thread'[a].gtp = thread[a].gtp
  /\ thread'[a].prog = thread[a].prog /\ thread'[a].then = thread[a].then

HandlerKept ==
  /\ thread' \in [Actors -> ThreadType]
  /\ thread'["handler"] = thread["handler"] /\ thread'["other"] = thread["other"]

SameCall ==
  /\ Client'.udp = Client.udp /\ Client'.gtp = Client.gtp
  /\ Client'.prog = Client.prog /\ Client'.then = Client.then

(* An idle thread has the type of a thread. *)
LEMMA IdleType ==
  /\ Idle \in ThreadType /\ Idle.pc = "idle" /\ Idle.then = "return" /\ Idle.prog = 0
  /\ Idle.blocked = {}
<1>1. <<>> \in BoundedSeq(Interfaces, 2)
  <2>1. Len(<<>>) <= 2
    BY MemberEmpty
  <2> QED
    BY <2>1, BoundedIs, MemberEmpty
<1>2. 0 \in 0 .. MaxSetups
  BY UserPlaneAssumption
<1> QED
  BY <1>1, <1>2 DEF Idle, ThreadType, Names

(* One thread is written. *)
LEMMA ThreadWritten ==
  ASSUME UserPlaneTypeOK, NEW a \in Actors, NEW m \in ThreadType,
         thread' = [thread EXCEPT ![a] = m]
  PROVE  Kept(a) /\ thread'[a] = m
BY DEF UserPlaneTypeOK, Kept

(* The call of a thread is over. *)
LEMMA ReturnOf ==
  ASSUME UserPlaneTypeOK, NEW a \in Actors, Return(a)
  PROVE  Kept(a) /\ thread'[a] = Idle
BY IdleType, ThreadWritten DEF Return

(* The call of a thread goes on. *)
LEMMA GotoOf ==
  ASSUME UserPlaneTypeOK, NEW a \in Actors, NEW pc \in Pcs, Goto(a, pc)
  PROVE  Kept(a) /\ SameCallOf(a) /\ thread'[a].pc = pc
<1> DEFINE m == thread[a]
           n == [m EXCEPT !.pc = pc]
<1>1. m \in ThreadType /\ thread' = [thread EXCEPT ![a] = n]
  BY DEF UserPlaneTypeOK, Goto
<1>2. m = thread[a]
  OBVIOUS
<1> HIDE DEF m
<1>3. /\ n \in ThreadType /\ n.udp = m.udp /\ n.gtp = m.gtp /\ n.prog = m.prog
      /\ n.then = m.then /\ n.pc = pc
  BY <1>1 DEF ThreadType, Pcs
<1> HIDE DEF n
<1>4. Kept(a) /\ thread'[a] = n
  BY <1>1, <1>3, ThreadWritten
<1> QED
  BY <1>2, <1>3, <1>4 DEF SameCallOf

(* The signals blocked on a thread. *)
LEMMA BlockedType ==
  ASSUME UserPlaneTypeOK, NEW a \in Actors
  PROVE  thread[a].blocked \in SUBSET Signals
<1>1. thread[a] \in ThreadType
  BY DEF UserPlaneTypeOK
<1> QED
  BY <1>1 DEF ThreadType

(* A thread calls tearDown on the current program. *)
LEMMA CallOf ==
  ASSUME UserPlaneTypeOK, NEW a \in Actors, NEW then \in {"return", "throw", "exit", "end"},
         CallTearDown(a, then)
  PROVE  /\ Kept(a)
         /\ thread'[a].pc = "lock" /\ thread'[a].prog = nPrograms /\ thread'[a].then = then
<1> DEFINE blocked == thread[a].blocked
           m == [Idle EXCEPT !.pc = "lock", !.prog = nPrograms, !.then = then,
                             !.blocked = blocked]
<1>1. thread' = [thread EXCEPT ![a] = m]
  BY DEF CallTearDown
<1>2. blocked \in SUBSET Signals
  BY BlockedType
<1> HIDE DEF blocked
<1>3. m \in ThreadType /\ m.pc = "lock" /\ m.prog = nPrograms /\ m.then = then
  BY <1>2, IdleType DEF UserPlaneTypeOK, Idle, ThreadType
<1> HIDE DEF m
<1> QED
  BY <1>1, <1>3, ThreadWritten

(* A signal handler starts, on the current program. *)
LEMMA HandleOf ==
  ASSUME UserPlaneTypeOK, NEW a \in Actors, NEW signal \in Signals, Handle(a, signal)
  PROVE  /\ Kept(a)
         /\ thread'[a].pc = "lock" /\ thread'[a].prog = nPrograms
         /\ thread'[a].then \in {"exit", "end"}
<1> DEFINE blocked == thread[a].blocked \cup {signal}
           then == IF \E b \in Actors : thread[b].then = "end" THEN "end" ELSE "exit"
           m == [Idle EXCEPT !.pc = "lock", !.prog = nPrograms, !.then = then,
                             !.blocked = blocked]
<1>1. thread' = [thread EXCEPT ![a] = m]
  BY DEF Handle
<1>2. blocked \in SUBSET Signals /\ then \in {"exit", "end"}
  BY BlockedType
<1> HIDE DEF blocked, then
<1>3. m \in ThreadType /\ m.pc = "lock" /\ m.prog = nPrograms /\ m.then = then
  BY <1>2, IdleType DEF UserPlaneTypeOK, Idle, ThreadType
<1> HIDE DEF m
<1> QED
  BY <1>1, <1>2, <1>3, ThreadWritten

(* A thread has the lock, and the links to undo. *)
LEMMA TodoOf ==
  ASSUME UserPlaneTypeOK, NEW a \in Actors, NEW todo \in BoundedSeq(Interfaces, 2),
         thread' = [thread EXCEPT ![a] = [@ EXCEPT !.pc = "unlink", !.todo = todo]]
  PROVE  Kept(a) /\ SameCallOf(a) /\ thread'[a].pc = "unlink" /\ thread'[a].todo = todo
<1> DEFINE m == thread[a]
           n == [m EXCEPT !.pc = "unlink", !.todo = todo]
<1>1. m \in ThreadType /\ thread' = [thread EXCEPT ![a] = n]
  BY DEF UserPlaneTypeOK
<1>2. m = thread[a]
  OBVIOUS
<1> HIDE DEF m
<1>3. /\ n \in ThreadType /\ n.udp = m.udp /\ n.gtp = m.gtp /\ n.prog = m.prog
      /\ n.then = m.then /\ n.pc = "unlink" /\ n.todo = todo
  BY <1>1 DEF ThreadType
<1> HIDE DEF n
<1>4. Kept(a) /\ thread'[a] = n
  BY <1>1, <1>3, ThreadWritten
<1> QED
  BY <1>2, <1>3, <1>4 DEF SameCallOf

(* A thread has undone one link. *)
LEMMA UnlinkOf ==
  ASSUME UserPlaneTypeOK, NEW a \in Actors, thread[a].pc = "unlink", thread[a].todo # <<>>,
         thread' = [thread EXCEPT ![a].todo = Tail(@)]
  PROVE  /\ Kept(a) /\ SameCallOf(a) /\ thread'[a].pc = "unlink"
         /\ thread'[a].todo = Tail(thread[a].todo)
<1> DEFINE m == thread[a]
           todo == Tail(m.todo)
           n == [m EXCEPT !.todo = todo]
<1>1. m \in ThreadType /\ thread' = [thread EXCEPT ![a] = n]
  BY DEF UserPlaneTypeOK
<1>2. m = thread[a] /\ m.pc = "unlink" /\ m.todo # <<>>
  OBVIOUS
<1> HIDE DEF m
<1>3. todo \in BoundedSeq(Interfaces, 2)
  <2>1. m.todo \in Seq(Interfaces) /\ Len(m.todo) <= 2 /\ Len(m.todo) \in Nat
    BY <1>1, BoundedIs, LenProperties DEF ThreadType
  <2>2. todo \in Seq(Interfaces) /\ Len(todo) < Len(m.todo) /\ Len(todo) \in Nat
    BY <1>2, <2>1, MemberTail, LenProperties
  <2>3. Len(todo) <= 2
    BY <2>1, <2>2
  <2> QED
    BY <2>2, <2>3, BoundedIs
<1>4. todo = Tail(thread[a].todo)
  BY <1>2
<1> HIDE DEF todo
<1>5. /\ n \in ThreadType /\ n.udp = m.udp /\ n.gtp = m.gtp /\ n.prog = m.prog
      /\ n.then = m.then /\ n.pc = m.pc /\ n.todo = todo
  BY <1>1, <1>3 DEF ThreadType
<1> HIDE DEF n
<1>6. Kept(a) /\ thread'[a] = n
  BY <1>1, <1>5, ThreadWritten
<1> QED
  BY <1>2, <1>4, <1>5, <1>6 DEF SameCallOf

(* A step of the client, in terms of Client. *)
LEMMA ClientKept ==
  ASSUME Kept("client")
  PROVE  HandlerKept /\ (SameCallOf("client") => SameCall)
BY DEF Kept, HandlerKept, SameCallOf, SameCall, Client, Actors, Handlers

(* The client's call is over; the handler's thread is untouched. *)
LEMMA ReturnFields ==
  ASSUME UserPlaneTypeOK, Return("client")
  PROVE  HandlerKept /\ Client' = Idle
BY ReturnOf, ClientKept DEF Client, Actors, Handlers

(* The client's call goes on. *)
LEMMA GotoFields ==
  ASSUME UserPlaneTypeOK, NEW pc \in Pcs, Goto("client", pc)
  PROVE  HandlerKept /\ SameCall /\ Client'.pc = pc
BY GotoOf, ClientKept DEF Client, Actors, Handlers

(* The client calls tearDown. *)
LEMMA CallFields ==
  ASSUME UserPlaneTypeOK, NEW then \in {"return", "throw"}, CallTearDown("client", then)
  PROVE  /\ HandlerKept
         /\ Client'.pc = "lock" /\ Client'.prog = nPrograms /\ Client'.then = then
BY CallOf, ClientKept DEF Client, Actors, Handlers

(* The client has the lock. *)
LEMMA TodoFields ==
  ASSUME UserPlaneTypeOK, NEW todo \in BoundedSeq(Interfaces, 2),
         thread' = [thread EXCEPT !["client"] = [@ EXCEPT !.pc = "unlink", !.todo = todo]]
  PROVE  HandlerKept /\ SameCall /\ Client'.pc = "unlink" /\ Client'.todo = todo
BY TodoOf, ClientKept DEF Client, Actors, Handlers

(* The client has undone one link. *)
LEMMA UnlinkFields ==
  ASSUME UserPlaneTypeOK, Client.pc = "unlink", Client.todo # <<>>,
         thread' = [thread EXCEPT !["client"].todo = Tail(@)]
  PROVE  HandlerKept /\ SameCall /\ Client'.pc = "unlink" /\ Client'.todo = Tail(Client.todo)
BY UnlinkOf, ClientKept DEF Client, Actors, Handlers

(* A step of the program's life cycle: state, skeleton and links of one program. *)
LEMMA LifeFields ==
  ASSUME UserPlaneTypeOK, NEW p \in 1 .. MaxSetups, NEW state \in ProgramState,
         NEW skeleton \in {"null", "live", "freed"}, Set(p, state, skeleton)
  PROVE  /\ life' \in [1 .. MaxSetups -> LifeType]
         /\ \A q \in 1 .. MaxSetups : q # p => life'[q] = life[q]
         /\ life'[p].state = state /\ life'[p].skeleton = skeleton
         /\ life'[p].links = life[p].links
<1> DEFINE r == life[p]
           n == [r EXCEPT !.state = state, !.skeleton = skeleton]
<1>1. r \in LifeType /\ life' = [life EXCEPT ![p] = n] /\ r = life[p]
  BY DEF UserPlaneTypeOK, Set
<1> HIDE DEF r
<1>2. /\ n \in LifeType /\ n.state = state /\ n.skeleton = skeleton
      /\ n.links = r.links
  BY <1>1 DEF LifeType
<1> HIDE DEF n
<1> QED
  BY <1>1, <1>2 DEF UserPlaneTypeOK

(* A link is recorded. *)
LEMMA RecordFields ==
  ASSUME UserPlaneTypeOK, NEW p \in 1 .. MaxSetups, NEW j \in Interfaces,
         Len(life[p].links) < 2,
         life' = [life EXCEPT ![p] = [life[p] EXCEPT !.state = "LINKED", !.links = Append(@, j)]]
  PROVE  /\ life' \in [1 .. MaxSetups -> LifeType]
         /\ \A q \in 1 .. MaxSetups : q # p => life'[q] = life[q]
         /\ life'[p].state = "LINKED" /\ life'[p].skeleton = life[p].skeleton
         /\ Len(life'[p].links) = Len(life[p].links) + 1
         /\ \A i : Member(life'[p].links, i) <=> Member(life[p].links, i) \/ i = j
<1> DEFINE r == life[p]
           s == Append(r.links, j)
           n == [r EXCEPT !.state = "LINKED", !.links = s]
<1>1. r \in LifeType /\ life' = [life EXCEPT ![p] = n] /\ r = life[p]
  BY DEF UserPlaneTypeOK
<1> HIDE DEF r
<1>2. r.links \in Seq(Interfaces) /\ Len(r.links) < 2 /\ Len(r.links) \in Nat
  BY <1>1, BoundedIs, LenProperties DEF LifeType
<1>3. /\ s \in Seq(Interfaces) /\ Len(s) = Len(r.links) + 1
      /\ \A i : Member(s, i) <=> Member(r.links, i) \/ i = j
  BY <1>2, MemberAppend
<1>4. s \in BoundedSeq(Interfaces, 2)
  <2>1. Len(s) <= 2
    BY <1>2, <1>3
  <2> QED
    BY <1>3, <2>1, BoundedIs
<1> HIDE DEF s
<1>5. n \in LifeType /\ n.state = "LINKED" /\ n.skeleton = r.skeleton /\ n.links = s
  BY <1>1, <1>4 DEF LifeType, ProgramState
<1> HIDE DEF n
<1> QED
  BY <1>1, <1>3, <1>5 DEF UserPlaneTypeOK

-----------------------------------------------------------------------------
OthersTyped ==
  /\ mutex' \in [1 .. MaxSetups -> Actors \cup {"free"}]
  /\ sessionManager' \in {"null", "made"}
  /\ process' \in {"running", "exited", "crashed"}

(* A client in a call is in the setup or tearDown of the current program. *)
LEMMA Current ==
  ASSUME AloneInv, Client.pc # "idle"
  PROVE  nPrograms \in 1 .. MaxSetups /\ nPrograms # 0
BY UserPlaneAssumption DEF AloneInv, UserPlaneTypeOK, ClientAlone

(* A call that ends, or that turns into tearDown, with no link unrecorded. *)
LEMMA LeaveKeeps ==
  ASSUME AloneInv, HandlerKept, OthersTyped, UNCHANGED <<nPrograms, life, xdp>>,
         Client.pc \notin {"recordUdp", "recordGtp"},
         \/ Client' = Idle
         \/ /\ Client'.pc = "lock" /\ Client'.prog = nPrograms /\ nPrograms # 0
            /\ Client'.then \in {"return", "throw"}
  PROVE  AloneInv'
<1>1. Client'.pc \in {"idle", "lock"} /\ Client'.then \in {"return", "throw"}
  BY IdleType
<1>2. UserPlaneTypeOK'
  BY DEF AloneInv, UserPlaneTypeOK, HandlerKept, OthersTyped
<1>3. ClientAlone'
  BY <1>1, IdleType DEF AloneInv, ClientAlone, HandlerKept
<1>4. SetupProgress'
  BY <1>1 DEF AloneInv, SetupProgress
<1>5. LinksKnown'
  BY <1>1 DEF AloneInv, LinksKnown, Pending
<1>6. OwnLinks'
  BY <1>1 DEF AloneInv, OwnLinks, This
<1> QED
  BY <1>2, <1>3, <1>4, <1>5, <1>6 DEF AloneInv

(* open, load and attach: the program is on no interface yet. *)
LEMMA EarlyKeeps ==
  ASSUME AloneInv, HandlerKept, OthersTyped, UNCHANGED <<nPrograms, xdp>>,
         Client.pc \in {"open", "load", "attach"},
         life' \in [1 .. MaxSetups -> LifeType],
         \A q \in 1 .. MaxSetups : q # nPrograms => life'[q] = life[q],
         life'[nPrograms].links = life[nPrograms].links,
         \/ Client' = Idle
         \/ /\ Client'.pc \in {"load", "attach", "linkUdp"} /\ SameCall
            /\ life'[nPrograms].skeleton = "live"
  PROVE  AloneInv'
<1>0. nPrograms \in 1 .. MaxSetups /\ nPrograms # 0 /\ nPrograms \in Nat
  BY Current, UserPlaneAssumption
<1>1. /\ Client'.pc \in {"idle", "load", "attach", "linkUdp"}
      /\ Client'.then \in {"return", "throw"}
      /\ Client'.pc # "idle" => life'[nPrograms].skeleton = "live"
  BY IdleType DEF AloneInv, ClientAlone, SameCall
<1>2. UserPlaneTypeOK'
  BY DEF AloneInv, UserPlaneTypeOK, HandlerKept, OthersTyped
<1>3. ClientAlone'
  BY <1>0, <1>1, IdleType DEF AloneInv, ClientAlone, HandlerKept
<1>4. \A i \in Interfaces : xdp[i] # nPrograms
  BY DEF AloneInv, SetupProgress
<1>5. life[nPrograms].links = <<>>
  BY DEF AloneInv, SetupProgress, This
<1>6. SetupProgress'
  <2>1. \A p \in 1 .. MaxSetups : p > nPrograms => p # nPrograms
    BY <1>0
  <2> QED
    BY <1>0, <1>1, <1>4, <1>5, <2>1 DEF AloneInv, SetupProgress, This
<1>7. LinksKnown'
  <2> SUFFICES ASSUME NEW i \in Interfaces, xdp[i] # 0
               PROVE  /\ xdp[i] \in 1 .. nPrograms /\ life'[xdp[i]].skeleton = "live"
                      /\ life'[xdp[i]].state = "LINKED" /\ Member(life'[xdp[i]].links, i)
    BY <1>1, <1>4 DEF LinksKnown
  <2>1. /\ xdp[i] \in 1 .. nPrograms /\ xdp[i] # nPrograms /\ life[xdp[i]].skeleton = "live"
        /\ life[xdp[i]].state = "LINKED" /\ Member(life[xdp[i]].links, i)
    BY <1>4 DEF AloneInv, LinksKnown
  <2>2. xdp[i] \in 1 .. MaxSetups
    BY <1>0, <2>1, UserPlaneAssumption
  <2>3. life'[xdp[i]] = life[xdp[i]]
    BY <2>1, <2>2
  <2> QED
    BY <2>1, <2>3
<1>8. OwnLinks'
  BY <1>1, <1>5, MemberEmpty DEF OwnLinks, This
<1> QED
  BY <1>2, <1>3, <1>6, <1>7, <1>8 DEF AloneInv

(* A new program is made while every link is recorded. *)
LEMMA BeginSetupKeeps ==
  ASSUME AloneInv, NEW gtp \in Names, NEW udp \in Names, BeginSetup(gtp, udp)
  PROVE  AloneInv'
<1>1. /\ Client.pc = "idle" /\ nPrograms' = nPrograms + 1 /\ xdp' = xdp
      /\ nPrograms \in Nat /\ nPrograms + 1 \in 1 .. MaxSetups
  BY UserPlaneAssumption DEF BeginSetup, At, Client, AloneInv, UserPlaneTypeOK
<1> DEFINE m == [Idle EXCEPT !.pc = "open", !.gtp = gtp, !.udp = udp]
<1>2. m \in ThreadType /\ m.pc = "open" /\ m.then = "return"
  BY IdleType DEF Idle, ThreadType
<1>3. thread' = [thread EXCEPT !["client"] = m]
  BY DEF BeginSetup
<1> HIDE DEF m
<1>4. HandlerKept /\ Client'.pc = "open" /\ Client'.then = "return"
  BY <1>2, <1>3 DEF AloneInv, UserPlaneTypeOK, HandlerKept, Client, Actors, Handlers
<1>5. PICK garbage \in ProgramState : Set(nPrograms + 1, garbage, "null")
  BY DEF BeginSetup
<1>6. /\ life' \in [1 .. MaxSetups -> LifeType]
      /\ \A q \in 1 .. MaxSetups : q # nPrograms + 1 => life'[q] = life[q]
      /\ life'[nPrograms + 1].links = life[nPrograms + 1].links
  BY <1>1, <1>5, LifeFields DEF AloneInv
<1>7. UserPlaneTypeOK'
  BY <1>1, <1>4, <1>6 DEF AloneInv, UserPlaneTypeOK, HandlerKept, BeginSetup
<1>8. ClientAlone'
  BY <1>1, <1>4 DEF AloneInv, ClientAlone, HandlerKept
<1>9. \A i \in Interfaces : xdp[i] # 0 =>
        /\ xdp[i] \in 1 .. nPrograms /\ xdp[i] # nPrograms + 1 /\ xdp[i] \in 1 .. MaxSetups
        /\ life[xdp[i]].skeleton = "live"
        /\ life[xdp[i]].state = "LINKED" /\ Member(life[xdp[i]].links, i)
  <2> SUFFICES ASSUME NEW i \in Interfaces, xdp[i] # 0
               PROVE  /\ xdp[i] \in 1 .. nPrograms /\ xdp[i] # nPrograms + 1
                      /\ xdp[i] \in 1 .. MaxSetups
                      /\ life[xdp[i]].skeleton = "live"
                      /\ life[xdp[i]].state = "LINKED" /\ Member(life[xdp[i]].links, i)
    OBVIOUS
  <2>1. /\ xdp[i] \in 1 .. nPrograms /\ life[xdp[i]].skeleton = "live"
        /\ life[xdp[i]].state = "LINKED" /\ Member(life[xdp[i]].links, i)
    BY <1>1 DEF AloneInv, LinksKnown, Pending
  <2>2. xdp[i] # nPrograms + 1 /\ xdp[i] \in 1 .. MaxSetups
    BY <1>1, <2>1, UserPlaneAssumption
  <2> QED
    BY <2>1, <2>2
<1>10. life[nPrograms + 1].links = <<>>
  BY <1>1 DEF AloneInv, SetupProgress
<1>11. SetupProgress'
  <2>1. \A p \in 1 .. MaxSetups : p > nPrograms + 1 => p # nPrograms + 1 /\ p > nPrograms
    BY <1>1
  <2>2. \A p \in 1 .. MaxSetups : p > nPrograms' => life'[p].links = <<>>
    BY <1>1, <1>6, <2>1 DEF AloneInv, SetupProgress
  <2>3. \A i \in Interfaces : xdp[i] # nPrograms + 1
    BY <1>1, <1>9
  <2> QED
    BY <1>1, <1>4, <1>6, <1>10, <2>2, <2>3 DEF SetupProgress, This
<1>12. LinksKnown'
  <2> SUFFICES ASSUME NEW i \in Interfaces, xdp[i] # 0
               PROVE  /\ xdp[i] \in 1 .. nPrograms + 1 /\ life'[xdp[i]].skeleton = "live"
                      /\ life'[xdp[i]].state = "LINKED" /\ Member(life'[xdp[i]].links, i)
    BY <1>1, <1>4 DEF LinksKnown
  <2>1. xdp[i] \in 1 .. nPrograms + 1
    BY <1>1, <1>9
  <2>2. life'[xdp[i]] = life[xdp[i]]
    BY <1>6, <1>9
  <2> QED
    BY <1>9, <2>1, <2>2
<1>13. OwnLinks'
  BY <1>1, <1>4, <1>6, <1>10, MemberEmpty DEF OwnLinks, This
<1> QED
  BY <1>7, <1>8, <1>11, <1>12, <1>13 DEF AloneInv

(* An interface is linked; its record is pending. *)
LEMMA LinkKeeps ==
  ASSUME AloneInv, Link
  PROVE  AloneInv'
<1>0. PICK l \in Linking :
        /\ At("client", l.pc) /\ l.name \in Interfaces /\ xdp[l.name] = 0
        /\ xdp' = [xdp EXCEPT ![l.name] = nPrograms]
        /\ Goto("client", l.next)
        /\ UNCHANGED <<nPrograms, life, mutex, sessionManager, process>>
  BY DEF Link
<1> DEFINE j == l.name
<1>1. \/ l.pc = "linkUdp" /\ j = Client.udp /\ l.next = "recordUdp"
      \/ l.pc = "linkGtp" /\ j = Client.gtp /\ l.next = "recordGtp"
  BY DEF Linking, Client
<1>2. Client.pc = l.pc /\ Client.pc \in {"linkUdp", "linkGtp"} /\ j \in Interfaces
      /\ l.next \in Pcs
  BY <1>0, <1>1 DEF At, Client, Pcs
<1>3. HandlerKept /\ SameCall /\ Client'.pc = l.next
  BY <1>0, <1>2, GotoFields DEF AloneInv
<1>4. nPrograms \in 1 .. MaxSetups /\ nPrograms # 0 /\ nPrograms \in 1 .. nPrograms
  BY <1>2, Current, UserPlaneAssumption
<1>5. xdp'[j] = nPrograms /\ \A i \in Interfaces : i # j => xdp'[i] = xdp[i]
  BY <1>0 DEF AloneInv, UserPlaneTypeOK
<1>6. xdp[j] = 0 /\ UNCHANGED <<nPrograms, life, mutex, sessionManager, process>>
  BY <1>0
<1>7. UserPlaneTypeOK'
  BY <1>0, <1>3, <1>4 DEF AloneInv, UserPlaneTypeOK, HandlerKept
<1>8. \/ Client'.pc = "recordUdp" /\ Client'.udp = j /\ Client.pc = "linkUdp"
      \/ Client'.pc = "recordGtp" /\ Client'.gtp = j /\ Client.pc = "linkGtp"
  BY <1>1, <1>2, <1>3 DEF SameCall
<1>9. This.skeleton = "live"
  BY <1>2 DEF AloneInv, SetupProgress
<1> HIDE DEF j
<1>10. ClientAlone'
  BY <1>3, <1>4, <1>6, <1>8 DEF AloneInv, ClientAlone, HandlerKept, SameCall
<1>11. SetupProgress'
  BY <1>6, <1>8 DEF AloneInv, SetupProgress, This
<1>12. LinksKnown'
  <2> SUFFICES ASSUME NEW i \in Interfaces, xdp'[i] # 0
               PROVE  /\ xdp'[i] \in 1 .. nPrograms
                      /\ life[xdp'[i]].skeleton = "live"
                      /\ \/ xdp'[i] = nPrograms /\ Pending(i)'
                         \/ life[xdp'[i]].state = "LINKED" /\ Member(life[xdp'[i]].links, i)
    BY <1>6, <1>8 DEF LinksKnown
  <2>1. CASE i = j
    BY <1>4, <1>5, <1>8, <1>9, <2>1 DEF Pending, This
  <2>2. CASE i # j
    BY <1>2, <1>5, <2>2 DEF AloneInv, LinksKnown, Pending
  <2> QED
    BY <2>1, <2>2
<1>13. OwnLinks'
  BY <1>2, <1>4, <1>5, <1>6, <1>8 DEF AloneInv, OwnLinks, This
<1> QED
  BY <1>7, <1>10, <1>11, <1>12, <1>13 DEF AloneInv

(* The record of the link just made. *)
LEMMA RecordKeeps ==
  ASSUME AloneInv, RecordLink
  PROVE  AloneInv'
<1>0. PICK pc \in {"recordUdp", "recordGtp"} :
        \/ /\ pc = "recordUdp" /\ Recorded(pc, Client.udp, "linkGtp")
        \/ /\ pc = "recordGtp" /\ Recorded(pc, Client.gtp, "manager")
  BY DEF RecordLink, Client
<1> DEFINE j == IF pc = "recordUdp" THEN Client.udp ELSE Client.gtp
           next == IF pc = "recordUdp" THEN "linkGtp" ELSE "manager"
<1>1. /\ Client.pc = pc /\ Goto("client", next) /\ next \in Pcs
      /\ life' = [life EXCEPT ![nPrograms] =
           [life[nPrograms] EXCEPT !.state = "LINKED", !.links = Append(@, j)]]
      /\ UNCHANGED <<nPrograms, mutex, xdp, sessionManager, process>>
  BY <1>0 DEF Recorded, At, Client, This, Pcs
<1>2. nPrograms \in 1 .. MaxSetups /\ nPrograms # 0 /\ nPrograms \in Nat
  BY <1>1, Current, UserPlaneAssumption
<1>3. j \in Interfaces /\ xdp[j] = nPrograms /\ This.skeleton = "live"
  BY <1>1 DEF AloneInv, OwnLinks, SetupProgress
<1>4. Len(This.links) < 2 /\ (pc = "recordUdp" => Len(This.links) = 0)
  BY <1>1, MemberEmpty DEF AloneInv, SetupProgress
<1>5. HandlerKept /\ SameCall /\ Client'.pc = next
  BY <1>1, GotoFields DEF AloneInv
<1>6. /\ life' \in [1 .. MaxSetups -> LifeType]
      /\ \A q \in 1 .. MaxSetups : q # nPrograms => life'[q] = life[q]
      /\ life'[nPrograms].state = "LINKED" /\ life'[nPrograms].skeleton = "live"
      /\ Len(life'[nPrograms].links) = Len(This.links) + 1
      /\ \A i : Member(life'[nPrograms].links, i) <=> Member(This.links, i) \/ i = j
  <2> HIDE DEF j
  <2>1. UserPlaneTypeOK /\ This = life[nPrograms]
    BY DEF AloneInv, This
  <2>2. j \in Interfaces /\ Len(life[nPrograms].links) < 2
    BY <1>3, <1>4, <2>1
  <2>3. /\ life' \in [1 .. MaxSetups -> LifeType]
        /\ \A q \in 1 .. MaxSetups : q # nPrograms => life'[q] = life[q]
        /\ life'[nPrograms].state = "LINKED"
        /\ life'[nPrograms].skeleton = life[nPrograms].skeleton
        /\ Len(life'[nPrograms].links) = Len(life[nPrograms].links) + 1
        /\ \A i : Member(life'[nPrograms].links, i)
                    <=> Member(life[nPrograms].links, i) \/ i = j
    BY <1>1, <1>2, <2>1, <2>2, RecordFields, Zenon
  <2> QED
    BY <1>3, <2>1, <2>3
<1>7. UserPlaneTypeOK'
  BY <1>1, <1>5, <1>6 DEF AloneInv, UserPlaneTypeOK, HandlerKept
<1>8. next \in {"linkGtp", "manager"} /\ (next = "linkGtp" => pc = "recordUdp")
  OBVIOUS
<1>9. \A i \in Interfaces : Pending(i) => i = j
  BY <1>1 DEF Pending
<1> HIDE DEF j, next
<1>10. ClientAlone'
  BY <1>1, <1>2, <1>5, <1>8 DEF AloneInv, ClientAlone, HandlerKept, SameCall
<1>11. SetupProgress'
  <2>1. \A p \in 1 .. MaxSetups : p > nPrograms => life'[p].links = <<>>
    <3>1. \A p \in 1 .. MaxSetups : p > nPrograms => p # nPrograms
      BY <1>2
    <3> QED
      BY <1>6, <3>1 DEF AloneInv, SetupProgress
  <2>2. Client'.pc = "linkGtp" => Len(life'[nPrograms].links) < 2
    BY <1>4, <1>5, <1>6, <1>8
  <2> QED
    BY <1>1, <1>5, <1>6, <1>8, <2>1, <2>2 DEF SetupProgress, This
<1>12. LinksKnown'
  <2> SUFFICES ASSUME NEW i \in Interfaces, xdp[i] # 0
               PROVE  /\ xdp[i] \in 1 .. nPrograms /\ life'[xdp[i]].skeleton = "live"
                      /\ life'[xdp[i]].state = "LINKED" /\ Member(life'[xdp[i]].links, i)
    BY <1>1, <1>5, <1>8 DEF LinksKnown
  <2>1. xdp[i] \in 1 .. nPrograms /\ xdp[i] \in 1 .. MaxSetups
    BY <1>2, UserPlaneAssumption DEF AloneInv, LinksKnown
  <2>2. CASE xdp[i] = nPrograms
    <3>1. i = j \/ Member(This.links, i)
      BY <1>9, <2>2 DEF AloneInv, LinksKnown, This
    <3> QED
      BY <1>6, <2>1, <2>2, <3>1
  <2>3. CASE xdp[i] # nPrograms
    <3>1. /\ life[xdp[i]].skeleton = "live" /\ life[xdp[i]].state = "LINKED"
          /\ Member(life[xdp[i]].links, i)
      BY <2>3 DEF AloneInv, LinksKnown
    <3> QED
      BY <1>6, <2>1, <2>3, <3>1
  <2> QED
    BY <2>2, <2>3
<1>13. OwnLinks'
  BY <1>1, <1>3, <1>5, <1>6, <1>8 DEF AloneInv, OwnLinks, This
<1> QED
  BY <1>7, <1>10, <1>11, <1>12, <1>13 DEF AloneInv

(* tearDown starts with every recorded link before it. *)
LEMMA LockKeeps ==
  ASSUME AloneInv, Lock("client")
  PROVE  AloneInv'
<1> DEFINE todo == IF This.state = "LINKED" THEN This.links ELSE <<>>
<1>1. /\ Client.pc = "lock" /\ Client.prog = nPrograms
      /\ UNCHANGED <<nPrograms, life, xdp, sessionManager, process>>
  BY DEF Lock, At, Client, AloneInv, ClientAlone
<1>2. nPrograms \in 1 .. MaxSetups /\ nPrograms # 0
  BY <1>1, Current
<1>3. Torn("client") = This
  BY <1>1 DEF Torn, This, Client
<1>4. thread' = [thread EXCEPT !["client"] = [@ EXCEPT !.pc = "unlink", !.todo = todo]]
  BY <1>3 DEF Lock
<1>5. todo \in BoundedSeq(Interfaces, 2)
  <2>1. This \in LifeType
    BY <1>2 DEF AloneInv, UserPlaneTypeOK, This
  <2>2. This.links \in BoundedSeq(Interfaces, 2)
    BY <2>1 DEF LifeType
  <2>3. <<>> \in BoundedSeq(Interfaces, 2)
    BY IdleType DEF Idle, ThreadType
  <2> QED
    BY <2>2, <2>3
<1>6. \A i \in Interfaces : xdp[i] = nPrograms => Member(todo, i)
  BY <1>1, <1>2 DEF AloneInv, LinksKnown, Pending, This
<1>7. \A i \in Interfaces : Member(todo, i) => xdp[i] \in {0, nPrograms}
  BY <1>2, MemberEmpty DEF AloneInv, OwnLinks
<1> HIDE DEF todo
<1>8. HandlerKept /\ SameCall /\ Client'.pc = "unlink" /\ Client'.todo = todo
  BY <1>4, <1>5, TodoFields DEF AloneInv
<1>9. mutex' \in [1 .. MaxSetups -> Actors \cup {"free"}]
  BY DEF Lock, AloneInv, UserPlaneTypeOK, Actors, Handlers
<1>10. UserPlaneTypeOK'
  BY <1>1, <1>8, <1>9 DEF AloneInv, UserPlaneTypeOK, HandlerKept
<1>11. ClientAlone'
  BY <1>1, <1>2, <1>8 DEF AloneInv, ClientAlone, HandlerKept, SameCall
<1>12. SetupProgress'
  BY <1>1, <1>8 DEF AloneInv, SetupProgress
<1>13. LinksKnown'
  BY <1>1, <1>6, <1>8 DEF AloneInv, LinksKnown, Pending
<1>14. OwnLinks'
  BY <1>1, <1>7, <1>8 DEF AloneInv, OwnLinks, This
<1> QED
  BY <1>10, <1>11, <1>12, <1>13, <1>14 DEF AloneInv

(* tearDown takes the program off one interface. *)
LEMMA UnlinkKeeps ==
  ASSUME AloneInv, Unlink("client")
  PROVE  AloneInv'
<1> DEFINE j == Head(Client.todo)
<1>1. /\ Client.pc = "unlink" /\ Client.todo # <<>> /\ Client.prog = nPrograms
      /\ UNCHANGED <<nPrograms, life, mutex, sessionManager, process>>
      /\ xdp' = [xdp EXCEPT ![j] = 0]
      /\ thread' = [thread EXCEPT !["client"].todo = Tail(@)]
  BY DEF Unlink, At, Client, AloneInv, ClientAlone
<1>2. HandlerKept /\ SameCall /\ Client'.pc = "unlink" /\ Client'.todo = Tail(Client.todo)
  BY <1>1, UnlinkFields DEF AloneInv
<1>3. Client.todo \in Seq(Interfaces)
  <2>1. Client \in ThreadType
    BY DEF AloneInv, UserPlaneTypeOK, Client, Actors, Handlers
  <2> QED
    BY <2>1, BoundedIs DEF ThreadType
<1>4. /\ j \in Interfaces
      /\ \A i : Member(Client'.todo, i) => Member(Client.todo, i)
      /\ \A i : Member(Client.todo, i) => i = j \/ Member(Client'.todo, i)
  BY <1>1, <1>2, <1>3, MemberTail
<1> HIDE DEF j
<1>5. xdp'[j] = 0 /\ \A i \in Interfaces : i # j => xdp'[i] = xdp[i]
  BY <1>1, <1>4 DEF AloneInv, UserPlaneTypeOK
<1>6. UserPlaneTypeOK'
  <2>1. 0 \in 0 .. MaxSetups
    BY UserPlaneAssumption
  <2>2. xdp' \in [Interfaces -> 0 .. MaxSetups]
    BY <1>1, <2>1 DEF AloneInv, UserPlaneTypeOK
  <2> QED
    BY <1>1, <1>2, <2>2 DEF AloneInv, UserPlaneTypeOK, HandlerKept
<1>7. ClientAlone'
  BY <1>1, <1>2 DEF AloneInv, ClientAlone, HandlerKept, SameCall
<1>8. SetupProgress'
  BY <1>1, <1>2 DEF AloneInv, SetupProgress
<1>9. LinksKnown'
  BY <1>1, <1>2, <1>4, <1>5 DEF AloneInv, LinksKnown, Pending
<1>10. OwnLinks'
  BY <1>1, <1>2, <1>4, <1>5 DEF AloneInv, OwnLinks, This
<1> QED
  BY <1>6, <1>7, <1>8, <1>9, <1>10 DEF AloneInv

(* destroy comes when no interface runs the program. *)
LEMMA DestroyKeeps ==
  ASSUME AloneInv, Destroy("client")
  PROVE  /\ AloneInv'
         /\ life'[nPrograms].state = "IDLE" /\ \A i \in Interfaces : xdp'[i] # nPrograms
<1> DEFINE skeleton == IF Torn("client").skeleton = "null" THEN "null" ELSE "freed"
<1>1. /\ Client.pc = "unlink" /\ Client.todo = <<>> /\ Client.prog = nPrograms
      /\ Client.then \in {"return", "throw"}
      /\ UNCHANGED <<nPrograms, xdp, sessionManager>>
      /\ Set(nPrograms, "IDLE", skeleton)
  BY DEF Destroy, At, Client, AloneInv, ClientAlone
<1>2. nPrograms \in 1 .. MaxSetups /\ nPrograms # 0 /\ nPrograms \in Nat
  BY <1>1, Current, UserPlaneAssumption
<1>3. Return("client") /\ process' = process
  BY <1>1 DEF Destroy, Finished, Client
<1>4. HandlerKept /\ Client' = Idle
  BY <1>3, ReturnFields DEF AloneInv
<1>5. /\ life' \in [1 .. MaxSetups -> LifeType]
      /\ \A q \in 1 .. MaxSetups : q # nPrograms => life'[q] = life[q]
      /\ life'[nPrograms].state = "IDLE"
      /\ life'[nPrograms].links = life[nPrograms].links
  <2>1. skeleton \in {"null", "live", "freed"} /\ "IDLE" \in ProgramState
    BY DEF ProgramState
  <2> HIDE DEF skeleton
  <2> QED
    BY <1>1, <1>2, <2>1, LifeFields DEF AloneInv
<1>6. \A i \in Interfaces : xdp[i] # nPrograms
  BY <1>1, <1>2, MemberEmpty DEF AloneInv, LinksKnown
<1>7. mutex' \in [1 .. MaxSetups -> Actors \cup {"free"}]
  BY DEF Destroy, AloneInv, UserPlaneTypeOK
<1>8. UserPlaneTypeOK'
  BY <1>1, <1>3, <1>4, <1>5, <1>7 DEF AloneInv, UserPlaneTypeOK, HandlerKept
<1>9. ClientAlone'
  BY <1>4, IdleType DEF AloneInv, ClientAlone, HandlerKept
<1>10. SetupProgress'
  <2>1. \A p \in 1 .. MaxSetups : p > nPrograms => p # nPrograms
    BY <1>2
  <2> QED
    BY <1>1, <1>4, <1>5, <2>1, IdleType DEF AloneInv, SetupProgress
<1>11. LinksKnown'
  <2> SUFFICES ASSUME NEW i \in Interfaces, xdp[i] # 0
               PROVE  /\ xdp[i] \in 1 .. nPrograms /\ life'[xdp[i]].skeleton = "live"
                      /\ life'[xdp[i]].state = "LINKED" /\ Member(life'[xdp[i]].links, i)
    BY <1>1, <1>4, IdleType DEF LinksKnown
  <2>1. /\ xdp[i] \in 1 .. nPrograms /\ life[xdp[i]].skeleton = "live"
        /\ life[xdp[i]].state = "LINKED" /\ Member(life[xdp[i]].links, i)
    BY <1>6 DEF AloneInv, LinksKnown
  <2>2. xdp[i] \in 1 .. MaxSetups /\ xdp[i] # nPrograms
    BY <1>2, <1>6, <2>1, UserPlaneAssumption
  <2> QED
    BY <1>5, <2>1, <2>2
<1>12. OwnLinks'
  BY <1>1, <1>4, <1>5, IdleType DEF AloneInv, OwnLinks, This
<1> QED
  BY <1>1, <1>5, <1>6, <1>8, <1>9, <1>10, <1>11, <1>12 DEF AloneInv

-----------------------------------------------------------------------------
(* Nothing is linked and nobody calls at first. *)
LEMMA InitAloneInv == Init => AloneInv
<1> SUFFICES ASSUME Init PROVE AloneInv
  OBVIOUS
<1>1. 0 \in 0 .. MaxSetups
  BY UserPlaneAssumption
<1>2. <<>> \in BoundedSeq(Interfaces, 2)
  BY IdleType DEF Idle, ThreadType
<1>3. UserPlaneTypeOK
  BY <1>1, <1>2, IdleType DEF Init, UserPlaneTypeOK, LifeType, ProgramState, Actors, Handlers
<1>4. Client = Idle /\ Client.pc = "idle" /\ Client.then = "return"
  BY IdleType DEF Init, Client, Actors, Handlers
<1>5. ClientAlone
  BY <1>4 DEF Init, ClientAlone, Actors, Handlers
<1>6. SetupProgress /\ LinksKnown /\ OwnLinks
  BY <1>4 DEF Init, SetupProgress, LinksKnown, OwnLinks
<1> QED
  BY <1>3, <1>5, <1>6 DEF AloneInv

(* The steps of setup. *)
LEMMA SetupAloneInv ==
  ASSUME AloneInv, SetupStep
  PROVE  AloneInv'
<1>0. UserPlaneTypeOK /\ ProgramState \cup {"OPENED", "LOADED", "ATTACHED"} = ProgramState
  BY DEF AloneInv, ProgramState
<1>1. ASSUME Client.pc # "idle" PROVE nPrograms \in 1 .. MaxSetups
  BY <1>1, Current
<1>2. CASE Open
  <2>1. /\ Client.pc = "open" /\ Set(nPrograms, "OPENED", "live") /\ Goto("client", "load")
        /\ UNCHANGED <<nPrograms, mutex, xdp, sessionManager, process>>
    BY <1>2 DEF Open, At, Client
  <2>2. OthersTyped
    BY <1>0, <2>1 DEF UserPlaneTypeOK, OthersTyped
  <2>3. HandlerKept /\ SameCall /\ Client'.pc = "load"
    BY <1>0, <2>1, GotoFields DEF Pcs
  <2>4. nPrograms \in 1 .. MaxSetups /\ "OPENED" \in ProgramState
    BY <1>1, <2>1 DEF ProgramState
  <2> QED
    BY <1>0, <2>1, <2>2, <2>3, <2>4, LifeFields, EarlyKeeps
<1>3. CASE OpenFails \/ LinkUnknown \/ MakeManager
  <2>1. /\ Client.pc \in {"open", "linkUdp", "linkGtp", "manager"} /\ Return("client")
        /\ UNCHANGED <<nPrograms, life, xdp>> /\ UNCHANGED <<mutex, process>>
        /\ sessionManager' \in {sessionManager, "made"}
    BY <1>3 DEF OpenFails, LinkUnknown, MakeManager, Linking, At, Client
  <2>2. OthersTyped
    BY <1>0, <2>1 DEF UserPlaneTypeOK, OthersTyped
  <2> QED
    BY <1>0, <2>1, <2>2, ReturnFields, LeaveKeeps
<1>4. CASE Load
  <2>1. /\ Client.pc = "load" /\ Set(nPrograms, "LOADED", This.skeleton)
        /\ Goto("client", "attach")
        /\ UNCHANGED <<nPrograms, mutex, xdp, sessionManager, process>>
    BY <1>4 DEF Load, At, Client
  <2>2. OthersTyped
    BY <1>0, <2>1 DEF UserPlaneTypeOK, OthersTyped
  <2>3. HandlerKept /\ SameCall /\ Client'.pc = "attach"
    BY <1>0, <2>1, GotoFields DEF Pcs
  <2>4. nPrograms \in 1 .. MaxSetups /\ "LOADED" \in ProgramState
    BY <1>1, <2>1 DEF ProgramState
  <2>5. This.skeleton = "live"
    BY <2>1 DEF AloneInv, SetupProgress
  <2> QED
    BY <1>0, <2>1, <2>2, <2>3, <2>4, <2>5, LifeFields, EarlyKeeps
<1>5. CASE Attach
  <2>1. /\ Client.pc = "attach" /\ Set(nPrograms, "ATTACHED", This.skeleton)
        /\ Return("client") \/ Goto("client", "linkUdp")
        /\ UNCHANGED <<nPrograms, mutex, xdp, sessionManager, process>>
    BY <1>5 DEF Attach, At, Client
  <2>2. OthersTyped
    BY <1>0, <2>1 DEF UserPlaneTypeOK, OthersTyped
  <2>3. HandlerKept /\ (Client' = Idle \/ (SameCall /\ Client'.pc = "linkUdp"))
    <3>1. CASE Return("client")
      BY <1>0, <3>1, ReturnFields
    <3>2. CASE Goto("client", "linkUdp")
      BY <1>0, <3>2, GotoFields DEF Pcs
    <3> QED
      BY <2>1, <3>1, <3>2
  <2>4. nPrograms \in 1 .. MaxSetups /\ "ATTACHED" \in ProgramState
    BY <1>1, <2>1 DEF ProgramState
  <2>5. This.skeleton = "live"
    BY <2>1 DEF AloneInv, SetupProgress
  <2> QED
    BY <1>0, <2>1, <2>2, <2>3, <2>4, <2>5, LifeFields, EarlyKeeps
<1>6. CASE LoadOrAttachFails
  <2>1. /\ Client.pc \in {"load", "attach"} /\ Set(nPrograms, This.state, "freed")
        /\ Return("client")
        /\ UNCHANGED <<nPrograms, mutex, xdp, sessionManager, process>>
    BY <1>6 DEF LoadOrAttachFails, At, Client
  <2>2. OthersTyped
    BY <1>0, <2>1 DEF UserPlaneTypeOK, OthersTyped
  <2>3. HandlerKept /\ Client' = Idle
    BY <1>0, <2>1, ReturnFields
  <2>4. nPrograms \in 1 .. MaxSetups
    BY <1>1, <2>1
  <2>5. This \in LifeType
    BY <1>0, <2>4 DEF UserPlaneTypeOK, This
  <2>6. This.state \in ProgramState
    BY <2>5 DEF LifeType
  <2> QED
    BY <1>0, <2>1, <2>2, <2>3, <2>4, <2>6, LifeFields, EarlyKeeps
<1>7. CASE Link
  BY <1>7, LinkKeeps
<1>8. CASE LinkBusy
  <2>1. /\ Client.pc \in {"linkUdp", "linkGtp"} /\ CallTearDown("client", "throw")
        /\ UNCHANGED <<nPrograms, life, xdp>> /\ UNCHANGED <<mutex, sessionManager, process>>
    BY <1>8 DEF LinkBusy, Linking, At, Client
  <2>2. OthersTyped
    BY <1>0, <2>1 DEF UserPlaneTypeOK, OthersTyped
  <2>3. nPrograms # 0
    BY <2>1, Current
  <2> QED
    BY <1>0, <2>1, <2>2, <2>3, CallFields, LeaveKeeps
<1>9. CASE RecordLink
  BY <1>9, RecordKeeps
<1>10. CASE SetupUsesFreed
  <2>1. This.skeleton = "live" /\ This.skeleton = "freed"
    BY <1>10 DEF SetupUsesFreed, Client, AloneInv, SetupProgress
  <2> QED
    BY <2>1
<1> QED
  BY <1>2, <1>3, <1>4, <1>5, <1>6, <1>7, <1>8, <1>9, <1>10 DEF SetupStep

(* The steps of the client's tearDown. *)
LEMMA TearDownAloneInv ==
  ASSUME AloneInv, TearDownStep("client"), ~TearDownFaults("client")
  PROVE  AloneInv'
<1>0. UserPlaneTypeOK /\ Client.then \in {"return", "throw"}
  BY DEF AloneInv, ClientAlone
<1>1. CASE Lock("client")
  BY <1>1, LockKeeps
<1>2. CASE LockIdle("client") \/ UnlinkFails("client")
  <2>1. /\ Client.pc \in {"lock", "unlink"} /\ Return("client")
        /\ UNCHANGED <<nPrograms, life, xdp>> /\ UNCHANGED <<sessionManager, process>>
        /\ mutex' \in [1 .. MaxSetups -> Actors \cup {"free"}]
    BY <1>0, <1>2 DEF LockIdle, UnlinkFails, Finished, At, Client, Handlers, UserPlaneTypeOK
  <2>2. OthersTyped
    BY <1>0, <2>1 DEF UserPlaneTypeOK, OthersTyped
  <2> QED
    BY <1>0, <2>1, <2>2, ReturnFields, LeaveKeeps
<1>3. CASE Unlink("client")
  BY <1>3, UnlinkKeeps
<1>4. CASE Destroy("client")
  BY <1>4, DestroyKeeps
<1>5. CASE DestroyAborts("client")
  <2>1. /\ UNCHANGED <<nPrograms, life, mutex, xdp, sessionManager, thread>>
        /\ process' = "crashed"
    BY <1>5 DEF DestroyAborts
  <2>2. UserPlaneTypeOK'
    BY <1>0, <2>1 DEF UserPlaneTypeOK
  <2>3. ClientAlone' /\ SetupProgress' /\ LinksKnown' /\ OwnLinks'
    BY <2>1 DEF AloneInv, ClientAlone, SetupProgress, LinksKnown, OwnLinks, Pending,
                Client, This
  <2> QED
    BY <2>2, <2>3 DEF AloneInv
<1> QED
  BY <1>1, <1>2, <1>3, <1>4, <1>5 DEF TearDownStep

(* A signal arrives, or the client faults. *)
Interrupted ==
  \/ \E a \in SignalThreads, signal \in Signals : Signal(a, signal)
  \/ TearDownFaults("client")

(* A client's step, or none: what is known of the links stays. *)
LEMMA ClientAloneInv ==
  ASSUME AloneInv, [Next]_vars, ~Interrupted
  PROVE  AloneInv'
<1>1. CASE \E gtp, udp \in Names : BeginSetup(gtp, udp)
  BY <1>1, BeginSetupKeeps
<1>2. CASE SetupStep
  BY <1>2, SetupAloneInv
<1>3. CASE BeginTearDown
  <2>1. /\ Client.pc = "idle" /\ CallTearDown("client", "return") /\ nPrograms # 0
        /\ UNCHANGED <<nPrograms, life, xdp>> /\ UNCHANGED <<mutex, sessionManager, process>>
    BY <1>3, UserPlaneAssumption DEF BeginTearDown, At, Client, AloneInv, UserPlaneTypeOK
  <2>2. OthersTyped /\ UserPlaneTypeOK
    BY <2>1 DEF AloneInv, UserPlaneTypeOK, OthersTyped
  <2> QED
    BY <2>1, <2>2, CallFields, LeaveKeeps
<1>4. CASE TearDownStep("client")
  BY <1>4, TearDownAloneInv DEF Interrupted
<1>5. CASE TearDownStep("handler") \/ TearDownStep("other")
  <2>1. thread["handler"].pc = "idle" /\ thread["other"].pc = "idle"
    BY IdleType DEF AloneInv, ClientAlone
  <2> QED
    BY <1>5, <2>1 DEF TearDownStep, Lock, LockIdle, Unlink, UnlinkFails, Destroy,
                      DestroyAborts, TearDownFaults, At
<1>6. CASE UNCHANGED vars
  BY <1>6 DEF vars, AloneInv, UserPlaneTypeOK, ClientAlone, SetupProgress, LinksKnown, OwnLinks,
              Pending, Client, This
<1> QED
  BY <1>1, <1>2, <1>3, <1>4, <1>5, <1>6 DEF Next, Actors, Handlers, Interrupted

(* Only the end of a handler's tearDown exits. *)
LEMMA ClientDoesNotExit ==
  ASSUME AloneInv, process # "exited", [Next]_vars
  PROVE  process' # "exited"
<1>1. /\ Client.then \in {"return", "throw"}
      /\ thread["handler"].pc = "idle" /\ thread["other"].pc = "idle"
  BY IdleType DEF AloneInv, ClientAlone
<1>2. ASSUME NEW a \in Actors, TearDownStep(a) PROVE process' # "exited"
  <2>1. a = "client"
    BY <1>1, <1>2 DEF Actors, Handlers, TearDownStep, Lock, LockIdle, Unlink, UnlinkFails,
                      Destroy, DestroyAborts, TearDownFaults, At
  <2>2. Finished("client") => process' = process
    BY <1>1 DEF Finished, Client
  <2> QED
    BY <1>2, <2>1, <2>2 DEF TearDownStep, Lock, LockIdle, Unlink, UnlinkFails, Destroy,
                            DestroyAborts, TearDownFaults, Faults
<1>3. ASSUME SetupStep PROVE process' # "exited"
  BY <1>3 DEF SetupStep, Open, OpenFails, Load, Attach, LoadOrAttachFails, Link, LinkUnknown,
              LinkBusy, RecordLink, Recorded, MakeManager, SetupUsesFreed, Faults
<1> QED
  BY <1>2, <1>3 DEF Next, BeginSetup, BeginTearDown, Signal, vars

(* A handler stops the client wherever it is. *)
LEMMA HandlerStarts ==
  ASSUME AloneInv, process = "running", nPrograms # 0,
         NEW signal \in Signals, Handle("handler", signal),
         UNCHANGED <<nPrograms, life, mutex, xdp, sessionManager, process>>
  PROVE  HandledInv'
<1>1. /\ Kept("handler") /\ Handler'.pc = "lock" /\ Handler'.prog = nPrograms
      /\ Handler'.then \in {"exit", "end"}
  BY HandleOf DEF AloneInv, Handler, Actors, Handlers
<1>2. Client' = Client /\ thread'["other"] = thread["other"]
  BY <1>1 DEF Kept, Client, Actors, Handlers
<1>3. UserPlaneTypeOK'
  BY <1>1 DEF AloneInv, UserPlaneTypeOK, Kept
<1>4. ClientSuspended'
  BY <1>1, <1>2 DEF AloneInv, ClientAlone, ClientSuspended
<1>5. LinksLeft'
  BY <1>1, <1>2 DEF AloneInv, LinksKnown, LinksLeft, Pending
<1>6. OwnLinksLeft'
  BY <1>1, <1>2 DEF AloneInv, OwnLinks, OwnLinksLeft, This
<1> QED
  BY <1>3, <1>4, <1>5, <1>6 DEF HandledInv

(* So do a signal and a fault of the client itself. *)
LEMMA InterruptedKeeps ==
  ASSUME "other" \notin SignalThreads, AloneInv, Interrupted
  PROVE  HandledInv'
<1>1. CASE \E a \in SignalThreads, signal \in Signals : Signal(a, signal)
  <2>1. PICK signal \in Signals : Signal("handler", signal)
    BY <1>1, UserPlaneAssumption
  <2>2. /\ process = "running" /\ nPrograms # 0 /\ Handle("handler", signal)
        /\ UNCHANGED <<nPrograms, life, mutex, xdp, sessionManager, process>>
    BY <2>1, UserPlaneAssumption DEF Signal, AloneInv, UserPlaneTypeOK
  <2> QED
    BY <2>2, HandlerStarts
<1>2. CASE TearDownFaults("client")
  <2>1. /\ process = "running" /\ Client.pc = "unlink" /\ Faults("client")
        /\ UNCHANGED <<nPrograms, life, mutex, xdp, sessionManager>>
    BY <1>2 DEF TearDownFaults, At, Runs, Client
  <2>2. thread["handler"].blocked = {}
    BY IdleType DEF AloneInv, ClientAlone
  <2>3. Handle("handler", "SIGSEGV") /\ process' = process
    BY <2>1, <2>2 DEF Faults, HandlerOn
  <2>4. nPrograms # 0 /\ "SIGSEGV" \in Signals
    BY <2>1, Current DEF Signals
  <2> QED
    BY <2>1, <2>3, <2>4, HandlerStarts
<1> QED
  BY <1>1, <1>2 DEF Interrupted

(* A handler stops the handler that it interrupts, with the mutex. *)
LEMMA HandlerInterrupted ==
  ASSUME HandledInv, process = "running", NEW signal \in Signals, Handle("handler", signal),
         UNCHANGED <<nPrograms, life, mutex, xdp, sessionManager, process>>
  PROVE  HandledInv'
<1>1. /\ Kept("handler") /\ Handler'.pc = "lock" /\ Handler'.prog = nPrograms
      /\ Handler'.then \in {"exit", "end"}
  BY HandleOf DEF HandledInv, Handler, Actors, Handlers
<1>2. Client' = Client /\ thread'["other"] = thread["other"]
  BY <1>1 DEF Kept, Client, Actors, Handlers
<1>3. UserPlaneTypeOK'
  BY <1>1 DEF HandledInv, UserPlaneTypeOK, Kept
<1>4. ClientSuspended'
  BY <1>1, <1>2 DEF HandledInv, ClientSuspended
<1>5. LinksLeft'
  BY <1>1, <1>2 DEF HandledInv, LinksLeft, Pending
<1>6. OwnLinksLeft'
  BY <1>1, <1>2 DEF HandledInv, OwnLinksLeft, This
<1> QED
  BY <1>3, <1>4, <1>5, <1>6 DEF HandledInv

(* Once the handler runs, every step is its own or that of the next signal. *)
LEMMA OnlyHandlerSteps ==
  ASSUME "other" \notin SignalThreads, HandledInv, Next
  PROVE  /\ process = "running"
         /\ TearDownStep("handler") \/ \E signal \in Signals : Signal("handler", signal)
<1>1. ~Runs("client") /\ thread["other"].pc = "idle"
  BY IdleType DEF HandledInv, ClientSuspended, Handler, Runs
<1>2. ~SetupStep
  BY <1>1 DEF SetupStep, Open, OpenFails, Load, Attach, LoadOrAttachFails, Link, LinkUnknown,
              LinkBusy, RecordLink, Recorded, MakeManager, SetupUsesFreed, At
<1>3. ~TearDownStep("client") /\ ~TearDownStep("other")
  BY <1>1 DEF TearDownStep, Lock, LockIdle, Unlink, UnlinkFails, Destroy,
              DestroyAborts, TearDownFaults, At
<1>4. \/ TearDownStep("handler")
      \/ \E a \in SignalThreads, signal \in Signals : Signal(a, signal)
  BY <1>1, <1>2, <1>3 DEF Next, BeginSetup, BeginTearDown, At, Actors, Handlers
<1>5. TearDownStep("handler") \/ \E signal \in Signals : Signal("handler", signal)
  BY <1>4, UserPlaneAssumption
<1> QED
  BY <1>5 DEF TearDownStep, Lock, LockIdle, Unlink, UnlinkFails, Destroy,
              DestroyAborts, TearDownFaults, Signal, At, Runs

(* The handler ends a tearDown: it starts the second one or the process is over. *)
LEMMA HandlerGoesOn ==
  ASSUME HandledInv, Kept("handler"), UNCHANGED <<nPrograms, xdp>>, OthersTyped,
         life' \in [1 .. MaxSetups -> LifeType],
         \A q \in 1 .. MaxSetups : q # nPrograms => life'[q] = life[q],
         life'[nPrograms].links = life[nPrograms].links,
         \/ Handler' = Idle /\ process' = "crashed"
         \/ Handler' = Idle /\ process' = "exited"
         \/ /\ Handler'.pc = "lock" /\ Handler'.prog = nPrograms /\ Handler'.then = "end"
            /\ process' = "running",
         life' = life \/ process' # "crashed",
         process' # "crashed" => \A i \in Interfaces : xdp[i] = nPrograms => Pending(i)
  PROVE  HandledInv'
<1>1. Client' = Client /\ thread'["other"] = thread["other"]
  BY DEF Kept, Client, Actors, Handlers
<1>2. Handler'.pc \in {"idle", "lock"}
  BY IdleType
<1>3. nPrograms \in 1 .. MaxSetups
  BY UserPlaneAssumption DEF HandledInv, UserPlaneTypeOK, ClientSuspended
<1>4. UserPlaneTypeOK'
  BY DEF HandledInv, UserPlaneTypeOK, Kept, OthersTyped
<1>5. ClientSuspended'
  BY <1>1, IdleType DEF HandledInv, ClientSuspended
<1>6. LinksLeft'
  <2> SUFFICES ASSUME NEW i \in Interfaces, xdp[i] # 0
               PROVE  /\ xdp[i] \in 1 .. nPrograms
                      /\ \/ xdp[i] = nPrograms /\ Pending(i)
                         \/ /\ life'[xdp[i]].skeleton = "live"
                            /\ life'[xdp[i]].state = "LINKED"
                            /\ Member(life'[xdp[i]].links, i)
                      /\ process' = "exited" /\ xdp[i] = nPrograms => Pending(i)
    BY <1>1, <1>2 DEF LinksLeft, Pending
  <2>1. /\ xdp[i] \in 1 .. nPrograms
        /\ \/ xdp[i] = nPrograms /\ Pending(i)
           \/ /\ life[xdp[i]].skeleton = "live" /\ life[xdp[i]].state = "LINKED"
              /\ Member(life[xdp[i]].links, i)
    BY DEF HandledInv, LinksLeft
  <2>2. xdp[i] \in 1 .. MaxSetups
    BY <1>3, <2>1, UserPlaneAssumption
  <2>3. CASE process' = "crashed"
    BY <2>1, <2>3
  <2>4. CASE process' # "crashed" /\ xdp[i] = nPrograms
    BY <2>1, <2>4
  <2>5. CASE xdp[i] # nPrograms
    <3>1. life'[xdp[i]] = life[xdp[i]]
      BY <2>2, <2>5
    <3> QED
      BY <2>1, <2>5, <3>1
  <2> QED
    BY <2>3, <2>4, <2>5
<1>7. OwnLinksLeft'
  BY <1>1, <1>2 DEF HandledInv, OwnLinksLeft, This
<1> QED
  BY <1>4, <1>5, <1>6, <1>7 DEF HandledInv

(* The handler has the lock. *)
LEMMA HandlerLocks ==
  ASSUME HandledInv, Lock("handler")
  PROVE  HandledInv'
<1> DEFINE todo == IF This.state = "LINKED" THEN This.links ELSE <<>>
<1>1. /\ Handler.pc = "lock" /\ Handler.prog = nPrograms /\ process = "running"
      /\ UNCHANGED <<nPrograms, life, xdp, sessionManager, process>>
  BY DEF Lock, At, Runs, Handler, HandledInv, ClientSuspended
<1>2. nPrograms \in 1 .. MaxSetups
  BY UserPlaneAssumption DEF HandledInv, UserPlaneTypeOK, ClientSuspended
<1>3. Torn("handler") = This
  BY <1>1 DEF Torn, This, Handler
<1>4. thread' = [thread EXCEPT !["handler"] = [@ EXCEPT !.pc = "unlink", !.todo = todo]]
  BY <1>3 DEF Lock
<1>5. todo \in BoundedSeq(Interfaces, 2)
  <2>1. This \in LifeType
    BY <1>2 DEF HandledInv, UserPlaneTypeOK, This
  <2>2. This.links \in BoundedSeq(Interfaces, 2)
    BY <2>1 DEF LifeType
  <2>3. <<>> \in BoundedSeq(Interfaces, 2)
    BY IdleType DEF Idle, ThreadType
  <2> QED
    BY <2>2, <2>3
<1>6. \A i \in Interfaces : xdp[i] = nPrograms => Pending(i) \/ Member(todo, i)
  BY <1>2 DEF HandledInv, ClientSuspended, LinksLeft, This
<1>7. \A i \in Interfaces : Member(todo, i) => xdp[i] \in {0, nPrograms}
  BY MemberEmpty DEF HandledInv, OwnLinksLeft
<1> HIDE DEF todo
<1>8. /\ Kept("handler") /\ Handler'.pc = "unlink" /\ Handler'.todo = todo
      /\ Handler'.prog = Handler.prog /\ Handler'.then = Handler.then
  BY <1>4, <1>5, TodoOf DEF HandledInv, SameCallOf, Handler, Actors, Handlers
<1>9. Client' = Client /\ thread'["other"] = thread["other"]
  BY <1>8 DEF Kept, Client, Actors, Handlers
<1>10. mutex' \in [1 .. MaxSetups -> Actors \cup {"free"}]
  BY DEF Lock, HandledInv, UserPlaneTypeOK, Actors, Handlers
<1>11. UserPlaneTypeOK'
  BY <1>1, <1>8, <1>10 DEF HandledInv, UserPlaneTypeOK, Kept
<1>12. ClientSuspended'
  BY <1>1, <1>8, <1>9 DEF HandledInv, ClientSuspended
<1>13. LinksLeft'
  BY <1>1, <1>6, <1>8, <1>9 DEF HandledInv, LinksLeft, Pending
<1>14. OwnLinksLeft'
  BY <1>1, <1>7, <1>8, <1>9 DEF HandledInv, OwnLinksLeft, This
<1> QED
  BY <1>11, <1>12, <1>13, <1>14 DEF HandledInv

(* The handler takes the program off one interface. *)
LEMMA HandlerUnlinks ==
  ASSUME HandledInv, Unlink("handler")
  PROVE  HandledInv'
<1> DEFINE j == Head(Handler.todo)
<1>1. /\ Handler.pc = "unlink" /\ Handler.todo # <<>> /\ Handler.prog = nPrograms
      /\ process = "running"
      /\ UNCHANGED <<nPrograms, life, mutex, sessionManager, process>>
      /\ xdp' = [xdp EXCEPT ![j] = 0]
      /\ thread' = [thread EXCEPT !["handler"].todo = Tail(@)]
  BY DEF Unlink, At, Runs, Handler, HandledInv, ClientSuspended
<1>2. /\ Kept("handler") /\ Handler'.pc = "unlink" /\ Handler'.todo = Tail(Handler.todo)
      /\ Handler'.prog = Handler.prog /\ Handler'.then = Handler.then
  BY <1>1, UnlinkOf DEF HandledInv, SameCallOf, Handler, Actors, Handlers
<1>3. Handler.todo \in Seq(Interfaces)
  <2>1. Handler \in ThreadType
    BY DEF HandledInv, UserPlaneTypeOK, Handler, Actors, Handlers
  <2> QED
    BY <2>1, BoundedIs DEF ThreadType
<1>4. /\ j \in Interfaces
      /\ \A i : Member(Handler'.todo, i) => Member(Handler.todo, i)
      /\ \A i : Member(Handler.todo, i) => i = j \/ Member(Handler'.todo, i)
  BY <1>1, <1>2, <1>3, MemberTail
<1> HIDE DEF j
<1>5. xdp'[j] = 0 /\ \A i \in Interfaces : i # j => xdp'[i] = xdp[i]
  BY <1>1, <1>4 DEF HandledInv, UserPlaneTypeOK
<1>6. Client' = Client /\ thread'["other"] = thread["other"]
  BY <1>2 DEF Kept, Client, Actors, Handlers
<1>7. UserPlaneTypeOK'
  <2>1. 0 \in 0 .. MaxSetups
    BY UserPlaneAssumption
  <2>2. xdp' \in [Interfaces -> 0 .. MaxSetups]
    BY <1>1, <2>1 DEF HandledInv, UserPlaneTypeOK
  <2> QED
    BY <1>1, <1>2, <2>2 DEF HandledInv, UserPlaneTypeOK, Kept
<1>8. ClientSuspended'
  BY <1>1, <1>2, <1>6 DEF HandledInv, ClientSuspended
<1>9. LinksLeft'
  BY <1>1, <1>2, <1>4, <1>5, <1>6 DEF HandledInv, LinksLeft, Pending
<1>10. OwnLinksLeft'
  BY <1>1, <1>2, <1>4, <1>5, <1>6 DEF HandledInv, OwnLinksLeft, This
<1> QED
  BY <1>7, <1>8, <1>9, <1>10 DEF HandledInv

(* What follows the handler's tearDown. *)
LEMMA HandlerFinishes ==
  ASSUME HandledInv, Handler.pc # "idle", process = "running", Finished("handler")
  PROVE  /\ Kept("handler")
         /\ \/ Handler' = Idle /\ process' = "exited"
            \/ /\ Handler'.pc = "lock" /\ Handler'.prog = nPrograms /\ Handler'.then = "end"
               /\ process' = "running"
<1>1. Handler.then \in {"exit", "end"}
  BY DEF HandledInv, ClientSuspended
<1>2. CASE CallTearDown("handler", "end") /\ process' = process
  BY <1>2, CallOf DEF HandledInv, Handler, Actors, Handlers
<1>3. CASE Return("handler") /\ process' = "exited"
  BY <1>3, ReturnOf DEF HandledInv, Handler, Actors, Handlers
<1> QED
  BY <1>1, <1>2, <1>3 DEF Finished, Handler

(* The handler's destroy finds the program on no interface but the one the signal
   met unrecorded. *)
LEMMA HandlerDestroys ==
  ASSUME HandledInv, Destroy("handler")
  PROVE  /\ HandledInv'
         /\ Handler.prog = nPrograms /\ life'[nPrograms].state = "IDLE"
         /\ \A i \in Interfaces : xdp'[i] = nPrograms => Pending(i)
<1> DEFINE skeleton == IF Torn("handler").skeleton = "null" THEN "null" ELSE "freed"
<1>1. /\ Handler.pc = "unlink" /\ Handler.todo = <<>> /\ Handler.prog = nPrograms
      /\ process = "running" /\ Finished("handler")
      /\ UNCHANGED <<nPrograms, xdp, sessionManager>>
      /\ Set(nPrograms, "IDLE", skeleton)
  BY DEF Destroy, At, Runs, Handler, HandledInv, ClientSuspended
<1>2. nPrograms \in 1 .. MaxSetups
  BY UserPlaneAssumption DEF HandledInv, UserPlaneTypeOK, ClientSuspended
<1>3. /\ life' \in [1 .. MaxSetups -> LifeType]
      /\ \A q \in 1 .. MaxSetups : q # nPrograms => life'[q] = life[q]
      /\ life'[nPrograms].state = "IDLE"
      /\ life'[nPrograms].links = life[nPrograms].links
  <2>1. skeleton \in {"null", "live", "freed"} /\ "IDLE" \in ProgramState
    BY DEF ProgramState
  <2> HIDE DEF skeleton
  <2> QED
    BY <1>1, <1>2, <2>1, LifeFields DEF HandledInv
<1>4. \A i \in Interfaces : xdp[i] = nPrograms => Pending(i)
  BY <1>1, MemberEmpty DEF HandledInv, ClientSuspended, LinksLeft
<1>5. mutex' \in [1 .. MaxSetups -> Actors \cup {"free"}]
  BY DEF Destroy, HandledInv, UserPlaneTypeOK
<1>6. /\ Kept("handler")
      /\ \/ Handler' = Idle /\ process' = "exited"
         \/ /\ Handler'.pc = "lock" /\ Handler'.prog = nPrograms /\ Handler'.then = "end"
            /\ process' = "running"
  BY <1>1, HandlerFinishes
<1>7. OthersTyped
  BY <1>1, <1>5, <1>6 DEF HandledInv, UserPlaneTypeOK, OthersTyped
<1>8. HandledInv'
  BY <1>1, <1>3, <1>4, <1>6, <1>7, HandlerGoesOn
<1> QED
  BY <1>1, <1>3, <1>4, <1>8

(* The handler's steps. *)
LEMMA HandlerKeeps ==
  ASSUME HandledInv, TearDownStep("handler")
  PROVE  HandledInv'
<1>0. /\ Handler.pc # "idle" /\ process = "running"
      /\ Handler.prog = nPrograms /\ nPrograms # 0
  BY DEF TearDownStep, Lock, LockIdle, Unlink, UnlinkFails, Destroy,
         DestroyAborts, TearDownFaults, At, Runs, Handler, HandledInv, ClientSuspended
<1>1. CASE Lock("handler")
  BY <1>1, HandlerLocks
<1>2. CASE LockIdle("handler")
  <2>1. /\ Finished("handler") /\ life[nPrograms].state = "IDLE"
        /\ UNCHANGED <<nPrograms, life, mutex, xdp, sessionManager>>
    BY <1>0, <1>2 DEF LockIdle, Torn, Handler
  <2>2. /\ Kept("handler")
        /\ \/ Handler' = Idle /\ process' = "exited"
           \/ /\ Handler'.pc = "lock" /\ Handler'.prog = nPrograms /\ Handler'.then = "end"
              /\ process' = "running"
    BY <1>0, <2>1, HandlerFinishes
  <2>3. \A i \in Interfaces : xdp[i] = nPrograms => Pending(i)
    BY <1>0, <2>1 DEF HandledInv, LinksLeft
  <2>4. OthersTyped /\ life' \in [1 .. MaxSetups -> LifeType]
    BY <2>1, <2>2 DEF HandledInv, UserPlaneTypeOK, OthersTyped
  <2> QED
    BY <2>1, <2>2, <2>3, <2>4, HandlerGoesOn
<1>3. CASE UnlinkFails("handler")
  <2>1. /\ Return("handler") /\ process' = "crashed"
        /\ UNCHANGED <<nPrograms, life, xdp, sessionManager>>
        /\ mutex' \in [1 .. MaxSetups -> Actors \cup {"free"}]
    BY <1>3 DEF UnlinkFails, HandledInv, UserPlaneTypeOK, Handlers
  <2>2. Kept("handler") /\ Handler' = Idle
    BY <2>1, ReturnOf DEF HandledInv, Handler, Actors, Handlers
  <2>3. OthersTyped /\ life' \in [1 .. MaxSetups -> LifeType]
    BY <2>1 DEF HandledInv, UserPlaneTypeOK, OthersTyped
  <2> QED
    BY <2>1, <2>2, <2>3, HandlerGoesOn
<1>4. CASE Unlink("handler")
  BY <1>4, HandlerUnlinks
<1>5. CASE Destroy("handler")
  BY <1>5, HandlerDestroys
<1>6. CASE /\ UNCHANGED <<nPrograms, life, mutex, xdp, sessionManager, thread>>
           /\ process' = "crashed"
  <2>1. /\ UNCHANGED <<nPrograms, life, mutex, xdp, sessionManager, thread>>
        /\ process' = "crashed"
    BY <1>6
  <2>2. UserPlaneTypeOK'
    BY <2>1 DEF HandledInv, UserPlaneTypeOK
  <2>3. ClientSuspended' /\ LinksLeft' /\ OwnLinksLeft'
    BY <2>1 DEF HandledInv, ClientSuspended, LinksLeft, OwnLinksLeft, Pending, Client, Handler,
                This
  <2> QED
    BY <2>2, <2>3 DEF HandledInv
<1>7. CASE DestroyAborts("handler")
  BY <1>6, <1>7 DEF DestroyAborts
<1>8. CASE TearDownFaults("handler")
  <2>1. /\ Faults("handler") /\ "SIGSEGV" \in Signals
        /\ UNCHANGED <<nPrograms, life, mutex, xdp, sessionManager>>
    BY <1>8 DEF TearDownFaults, Signals
  <2>2. CASE Handle("handler", "SIGSEGV") /\ UNCHANGED process
    BY <1>0, <2>1, <2>2, HandlerInterrupted
  <2>3. CASE process' = "crashed" /\ UNCHANGED thread
    BY <1>6, <2>1, <2>3
  <2> QED
    BY <2>1, <2>2, <2>3 DEF Faults, HandlerOn
<1> QED
  BY <1>1, <1>2, <1>3, <1>4, <1>5, <1>7, <1>8 DEF TearDownStep

(* Every step keeps what is known of the links, before and after the signal. *)
LEMMA NextSignalInv ==
  ASSUME "other" \notin SignalThreads, SignalInv, [Next]_vars
  PROVE  SignalInv'
<1>1. CASE AloneInv /\ process # "exited" /\ Interrupted
  BY <1>1, InterruptedKeeps DEF SignalInv
<1>2. CASE AloneInv /\ process # "exited" /\ ~Interrupted
  BY <1>2, ClientAloneInv, ClientDoesNotExit DEF SignalInv
<1>3. CASE HandledInv /\ Next
  <2>1. CASE TearDownStep("handler")
    BY <1>3, <2>1, HandlerKeeps DEF SignalInv
  <2>2. ASSUME NEW signal \in Signals, Signal("handler", signal) PROVE SignalInv'
    <3>1. /\ process = "running" /\ Handle("handler", signal)
          /\ UNCHANGED <<nPrograms, life, mutex, xdp, sessionManager, process>>
      BY <2>2 DEF Signal
    <3> QED
      BY <1>3, <3>1, HandlerInterrupted DEF SignalInv
  <2> QED
    BY <1>3, <2>1, <2>2, OnlyHandlerSteps
<1>4. CASE HandledInv /\ UNCHANGED vars
  <2>1. UserPlaneTypeOK'
    BY <1>4 DEF vars, HandledInv, UserPlaneTypeOK
  <2>2. ClientSuspended' /\ LinksLeft' /\ OwnLinksLeft'
    BY <1>4 DEF vars, HandledInv, ClientSuspended, LinksLeft, OwnLinksLeft, Pending, Client,
                Handler, This
  <2> QED
    BY <2>1, <2>2 DEF HandledInv, SignalInv
<1> QED
  BY <1>1, <1>2, <1>3, <1>4 DEF SignalInv

(* The invariant holds when no signal arrives and when one interrupts the thread it
   finds in setup or tearDown. *)
LEMMA SignalInvariance ==
  ASSUME "other" \notin SignalThreads
  PROVE  Spec => []SignalInv
<1>1. SignalInv /\ [Next]_vars => SignalInv'
  BY NextSignalInv
<1>2. Init => SignalInv
  BY InitAloneInv DEF SignalInv, Init
<1> QED
  BY <1>1, <1>2, PTL DEF Spec

-----------------------------------------------------------------------------
(* The failures of load, attach and link, tearDown, and a signal wherever it
   interrupts them, never free the program of an interface but of one that the
   signal found linked and not recorded. *)
THEOREM LinkedStaysLive ==
  ASSUME "other" \notin SignalThreads
  PROVE  Spec => []LinkedIsLive
<1>1. SignalInv => LinkedIsLive
  <2>1. ASSUME AloneInv PROVE LinkedIsLive
    BY <2>1 DEF AloneInv, LinksKnown, LinkedIsLive
  <2>2. ASSUME HandledInv PROVE LinkedIsLive
    <3>1. Signalled
      BY <2>2 DEF HandledInv, ClientSuspended, Handler, Handlers, Handling, Signalled
    <3> QED
      BY <2>2, <3>1 DEF HandledInv, LinksLeft, LinkedIsLive, Pending, Unrecorded, Client
  <2> QED
    BY <2>1, <2>2 DEF SignalInv
<1> QED
  BY <1>1, SignalInvariance, PTL

(* However the calls before ended, ProgramLifeCycle knows every interface that runs
   its program when no call is under way, a signal or not. *)
THEOREM LinksStayAccounted ==
  ASSUME "other" \notin SignalThreads
  PROVE  Spec => []LinksAccounted
<1>1. SignalInv => LinksAccounted
  <2> SUFFICES ASSUME SignalInv, thread["client"].pc = "idle", NEW i \in Interfaces, xdp[i] # 0
               PROVE  /\ life[xdp[i]].state = "LINKED"
                      /\ \E n \in DOMAIN life[xdp[i]].links : life[xdp[i]].links[n] = i
    BY DEF LinksAccounted
  <2>1. /\ xdp[i] \in 1 .. nPrograms /\ life[xdp[i]].state = "LINKED"
        /\ Member(life[xdp[i]].links, i)
    BY DEF SignalInv, AloneInv, LinksKnown, HandledInv, LinksLeft, Pending, Client
  <2>2. UserPlaneTypeOK
    BY DEF SignalInv, AloneInv, HandledInv
  <2>3. xdp[i] \in 1 .. MaxSetups
    BY <2>1, <2>2, UserPlaneAssumption DEF UserPlaneTypeOK
  <2>4. life[xdp[i]] \in LifeType
    BY <2>2, <2>3 DEF UserPlaneTypeOK
  <2>5. life[xdp[i]].links \in Seq(Interfaces)
    BY <2>4, BoundedIs DEF LifeType
  <2>6. DOMAIN life[xdp[i]].links = 1 .. Len(life[xdp[i]].links)
    BY <2>5, LenProperties
  <2> QED
    BY <2>1, <2>6 DEF Member
<1> QED
  BY <1>1, SignalInvariance, PTL

(* tearDown, the client's and the handler's, unlinks no other program, though links
   that a failed tearDown has already undone stay recorded and may be another
   program's by then. *)
THEOREM UnlinksOnlyOwn ==
  ASSUME "other" \notin SignalThreads
  PROVE  Spec => []UnlinksOwn
<1>1. SignalInv => UnlinksOwn
  <2> SUFFICES ASSUME SignalInv, NEW a \in Actors, thread[a].pc = "unlink",
                      thread[a].todo # <<>>
               PROVE  xdp[Head(thread[a].todo)] \in {0, thread[a].prog}
    BY DEF UnlinksOwn
  <2>1. UserPlaneTypeOK
    BY DEF SignalInv, AloneInv, HandledInv
  <2>2. thread[a] \in ThreadType
    BY <2>1 DEF UserPlaneTypeOK
  <2>3. thread[a].todo \in Seq(Interfaces)
    BY <2>2, BoundedIs DEF ThreadType
  <2>4. Head(thread[a].todo) \in Interfaces /\ Member(thread[a].todo, Head(thread[a].todo))
    BY <2>3, MemberTail
  <2>5. CASE AloneInv
    <3>1. thread[a] = Client
      BY <2>5, IdleType DEF AloneInv, ClientAlone, Client, Actors, Handlers
    <3> QED
      BY <2>4, <2>5, <3>1 DEF AloneInv, OwnLinks, ClientAlone
  <2>6. CASE HandledInv
    <3>1. thread[a] \in {Client, Handler}
      BY <2>6, IdleType DEF HandledInv, ClientSuspended, Client, Handler, Actors, Handlers
    <3> QED
      BY <2>4, <2>6, <3>1 DEF HandledInv, OwnLinksLeft, ClientSuspended
  <2> QED
    BY <2>5, <2>6 DEF SignalInv
<1> QED
  BY <1>1, SignalInvariance, PTL

(* destroy finds the program on no interface, in tearDown and after a failed link;
   the handler's, on none but the one the signal found unrecorded. *)
THEOREM DestroyedStaysReleased ==
  ASSUME "other" \notin SignalThreads
  PROVE  Spec => DestroyedIsReleased
<1> DEFINE Released == \A a \in Actors :
       thread[a].pc = "unlink" /\ thread'[a].pc # "unlink" /\ life' # life =>
         /\ life'[thread[a].prog].state = "IDLE"
         /\ \A i \in Interfaces :
              xdp'[i] = thread[a].prog => a \in Handlers /\ Unrecorded(i)
<1>1. SignalInv /\ [Next]_vars => [Released]_vars
  <2> SUFFICES ASSUME SignalInv, Next, NEW a \in Actors, thread[a].pc = "unlink",
                      thread'[a].pc # "unlink", life' # life
               PROVE  /\ life'[thread[a].prog].state = "IDLE"
                      /\ \A i \in Interfaces :
                           xdp'[i] = thread[a].prog => a \in Handlers /\ Unrecorded(i)
    OBVIOUS
  <2>1. CASE AloneInv
    <3>1. a = "client" /\ thread["client"].pc = "unlink" /\ Client.prog = nPrograms
          /\ thread["handler"].pc = "idle" /\ thread["other"].pc = "idle"
      BY <2>1, IdleType DEF AloneInv, ClientAlone, Client, Actors, Handlers
    <3>2. Destroy("client")
      BY <3>1 DEF Next, BeginSetup, BeginTearDown, SetupStep, Open, OpenFails, Load, Attach,
         LoadOrAttachFails, Link, LinkUnknown, LinkBusy, Linking, RecordLink, Recorded,
         MakeManager, SetupUsesFreed, Signal, TearDownStep, Lock, LockIdle, Unlink,
         UnlinkFails, Destroy, DestroyAborts, TearDownFaults, At, Actors, Handlers
    <3> QED
      BY <2>1, <3>1, <3>2, DestroyKeeps DEF Client
  <2>2. CASE HandledInv
    <3>1. TearDownStep("handler")
      BY <2>2, OnlyHandlerSteps DEF Signal
    <3>2. Destroy("handler")
      BY <3>1 DEF TearDownStep, Lock, LockIdle, Unlink, UnlinkFails, Destroy,
                  DestroyAborts, TearDownFaults
    <3>3. /\ HandledInv' /\ Handler.prog = nPrograms /\ life'[nPrograms].state = "IDLE"
          /\ \A i \in Interfaces : xdp'[i] = nPrograms => Pending(i)
      BY <2>2, <3>2, HandlerDestroys
    <3>4. a = "handler"
      <4>1. thread'["client"] = thread["client"] /\ thread'["other"] = thread["other"]
        <5>1. Finished("handler") /\ Handler.pc # "idle" /\ process = "running"
          BY <3>2 DEF Destroy, At, Runs, Handler
        <5> QED
          BY <2>2, <5>1, HandlerFinishes DEF Kept, Actors, Handlers
      <4> QED
        BY <4>1 DEF Actors, Handlers
    <3> QED
      BY <3>3, <3>4 DEF Handler, Handlers, Pending, Unrecorded, Client
  <2> QED
    BY <2>1, <2>2 DEF SignalInv
<1>2. DestroyedIsReleased <=> [][Released]_vars
  BY DEF DestroyedIsReleased
<1> QED
  BY <1>1, <1>2, SignalInvariance, PTL DEF Spec

(* A signal, wherever it interrupts setup or tearDown, lets the process exit with
   its current program on no interface but the one not recorded yet. *)
THEOREM ExitReleases ==
  ASSUME "other" \notin SignalThreads
  PROVE  Spec => []ExitLeavesOnlyUnrecorded
<1>1. SignalInv => ExitLeavesOnlyUnrecorded
  <2> SUFFICES ASSUME HandledInv, process = "exited", NEW i \in Interfaces, xdp[i] = nPrograms
               PROVE  Unrecorded(i)
    BY DEF SignalInv, ExitLeavesOnlyUnrecorded
  <2> QED
    BY DEF HandledInv, ClientSuspended, LinksLeft, Pending, Unrecorded, Client
<1> QED
  BY <1>1, SignalInvariance, PTL

-----------------------------------------------------------------------------
(* What holds whichever thread handles the signal: the life cycle of a program
   records two links at most, and the calls are on programs that were made. *)
CallsInRange ==
  /\ Client.pc # "idle" => nPrograms # 0
  /\ \A a \in Actors : thread[a].pc \in {"lock", "unlink"} => thread[a].prog \in 1 .. nPrograms
  /\ Client.pc = "recordUdp" => Client.udp \in Interfaces
  /\ Client.pc = "recordGtp" => Client.gtp \in Interfaces

LinksBounded ==
  /\ \A p \in 1 .. MaxSetups : p > nPrograms => life[p].links = <<>>
  /\ Client.pc \in {"open", "load", "attach", "linkUdp", "recordUdp"} => This.links = <<>>
  /\ Client.pc \in {"linkGtp", "recordGtp"} => Len(This.links) < 2

TypedInv == UserPlaneTypeOK /\ CallsInRange /\ LinksBounded

SameLinks ==
  /\ life' \in [1 .. MaxSetups -> LifeType]
  /\ \A p \in 1 .. MaxSetups : life'[p].links = life[p].links

(* A thread ends its call, calls tearDown, enters a handler or goes on in a setup
   that has recorded nothing. *)
LEMMA UnlockedTyped ==
  ASSUME TypedInv, NEW a \in Actors, Kept(a), SameLinks, OthersTyped,
         UNCHANGED <<nPrograms, mutex, xdp>>,
         \/ thread'[a] = Idle
         \/ thread'[a].pc = "lock" /\ thread'[a].prog = nPrograms /\ nPrograms # 0
         \/ /\ a = "client" /\ Client.pc \in {"open", "load", "attach"}
            /\ Client'.pc \in {"load", "attach", "linkUdp"}
  PROVE  TypedInv'
<1>0. nPrograms \in Nat /\ (nPrograms # 0 => nPrograms \in 1 .. MaxSetups)
  BY UserPlaneAssumption DEF TypedInv, UserPlaneTypeOK
<1>1. thread'[a].pc \in {"idle", "lock", "load", "attach", "linkUdp"}
  BY IdleType DEF Client
<1>2. \/ a = "client" /\ Client'.pc \in {"idle", "lock"}
      \/ /\ a = "client" /\ Client.pc \in {"open", "load", "attach"}
         /\ Client'.pc \in {"load", "attach", "linkUdp"}
      \/ a # "client" /\ Client' = Client
  BY <1>1, IdleType DEF Kept, Client, Actors, Handlers
<1>3. UserPlaneTypeOK'
  BY DEF TypedInv, UserPlaneTypeOK, Kept, SameLinks, OthersTyped
<1>4. CallsInRange'
  <2>1. ASSUME NEW b \in Actors, thread'[b].pc \in {"lock", "unlink"}
        PROVE  thread'[b].prog \in 1 .. nPrograms
    <3>1. CASE b = a
      BY <1>0, <2>1, <3>1, IdleType DEF Client
    <3>2. CASE b # a
      BY <2>1, <3>2 DEF Kept, TypedInv, CallsInRange
    <3> QED
      BY <3>1, <3>2
  <2>2. Client'.pc # "idle" => nPrograms # 0
    BY <1>2, IdleType DEF TypedInv, CallsInRange, Client
  <2>3. Client'.pc \in {"recordUdp", "recordGtp"} => Client' = Client
    BY <1>2
  <2> QED
    BY <2>1, <2>2, <2>3 DEF TypedInv, CallsInRange
<1>5. LinksBounded'
  <2>1. \A p \in 1 .. MaxSetups : p > nPrograms => life'[p].links = <<>>
    BY DEF TypedInv, LinksBounded, SameLinks
  <2>2. nPrograms # 0 => life'[nPrograms].links = life[nPrograms].links
    BY <1>0 DEF SameLinks
  <2>3. Client'.pc \in {"open", "load", "attach", "linkUdp", "recordUdp", "linkGtp", "recordGtp"}
          => nPrograms # 0
    BY <1>4 DEF CallsInRange
  <2>4. Client'.pc \in {"open", "load", "attach", "linkUdp", "recordUdp"} =>
          life'[nPrograms].links = <<>>
    BY <1>2, <2>2, <2>3 DEF TypedInv, LinksBounded, This
  <2>5. Client'.pc \in {"linkGtp", "recordGtp"} => Len(life'[nPrograms].links) < 2
    BY <1>2, <2>2, <2>3 DEF TypedInv, LinksBounded, This
  <2> QED
    BY <2>1, <2>4, <2>5 DEF LinksBounded, This
<1> QED
  BY <1>3, <1>4, <1>5 DEF TypedInv

(* A thread enters the locked part of tearDown, goes on in it, or leaves it. *)
LEMMA LockedTyped ==
  ASSUME TypedInv, NEW a \in Actors, Kept(a), SameLinks, nPrograms' = nPrograms,
         xdp' \in [Interfaces -> 0 .. MaxSetups],
         sessionManager' \in {"null", "made"}, process' \in {"running", "exited", "crashed"},
         thread[a].pc \in {"lock", "unlink"},
         \/ /\ mutex[thread[a].prog] = "free"
            /\ mutex' = [mutex EXCEPT ![thread[a].prog] = a]
            /\ thread'[a].pc = "unlink" /\ thread'[a].prog = thread[a].prog
         \/ /\ mutex' = mutex
            /\ thread[a].pc = "unlink" /\ thread'[a].pc = "unlink"
            /\ thread'[a].prog = thread[a].prog
         \/ /\ thread[a].pc = "unlink" /\ mutex' = [mutex EXCEPT ![thread[a].prog] = "free"]
            /\ \/ thread'[a] = Idle
               \/ thread'[a].pc = "lock" /\ thread'[a].prog = nPrograms
  PROVE  TypedInv'
<1>0. /\ nPrograms \in Nat /\ nPrograms \in 0 .. MaxSetups
      /\ thread[a].prog \in 1 .. nPrograms
  BY UserPlaneAssumption DEF TypedInv, UserPlaneTypeOK, CallsInRange
<1>1. nPrograms \in 1 .. MaxSetups /\ thread[a].prog \in 1 .. MaxSetups /\ nPrograms # 0
      /\ nPrograms \in 1 .. nPrograms
  BY <1>0, UserPlaneAssumption
<1>2. thread'[a].pc \in {"idle", "lock", "unlink"}
  BY IdleType
<1>3. Client'.pc \in {"idle", "lock", "unlink"} \/ Client' = Client
  BY <1>2 DEF Kept, Client, Actors, Handlers
<1>4. mutex' \in [1 .. MaxSetups -> Actors \cup {"free"}]
  BY DEF TypedInv, UserPlaneTypeOK
<1>5. UserPlaneTypeOK'
  BY <1>4 DEF TypedInv, UserPlaneTypeOK, Kept, SameLinks
<1>6. CallsInRange'
  <2>1. ASSUME NEW b \in Actors, thread'[b].pc \in {"lock", "unlink"}
        PROVE  thread'[b].prog \in 1 .. nPrograms
    <3>1. CASE b = a
      BY <1>0, <1>1, <2>1, <3>1, IdleType
    <3>2. CASE b # a
      BY <2>1, <3>2 DEF Kept, TypedInv, CallsInRange
    <3> QED
      BY <3>1, <3>2
  <2> QED
    BY <1>1, <1>3, <2>1 DEF TypedInv, CallsInRange
<1>7. LinksBounded'
  <2>1. \A p \in 1 .. MaxSetups : p > nPrograms => life'[p].links = <<>>
    BY DEF TypedInv, LinksBounded, SameLinks
  <2>2. life'[nPrograms].links = life[nPrograms].links
    BY <1>1 DEF SameLinks
  <2> QED
    BY <1>3, <2>1, <2>2 DEF TypedInv, LinksBounded, This
<1> QED
  BY <1>5, <1>6, <1>7 DEF TypedInv

(* The step that only ends the process. *)
LEMMA CrashTyped ==
  ASSUME TypedInv, UNCHANGED <<nPrograms, life, mutex, xdp, sessionManager, thread>>,
         process' \in {process, "crashed"}
  PROVE  TypedInv'
<1>1. UserPlaneTypeOK'
  BY DEF TypedInv, UserPlaneTypeOK
<1> QED
  BY <1>1 DEF TypedInv, CallsInRange, LinksBounded, Client, This

(* A handler starts. *)
LEMMA HandleTyped ==
  ASSUME TypedInv, NEW a \in Actors, NEW signal \in Signals, Handle(a, signal), nPrograms # 0,
         UNCHANGED <<nPrograms, life, mutex, xdp, sessionManager, process>>
  PROVE  TypedInv'
<1>1. UserPlaneTypeOK
  BY DEF TypedInv
<1>2. Kept(a) /\ thread'[a].pc = "lock" /\ thread'[a].prog = nPrograms
  BY <1>1, HandleOf
<1>3. OthersTyped /\ SameLinks
  BY <1>1 DEF UserPlaneTypeOK, OthersTyped, SameLinks
<1> QED
  BY <1>2, <1>3, UnlockedTyped

(* A thread faults. *)
LEMMA FaultsTyped ==
  ASSUME TypedInv, NEW a \in Actors, Faults(a), nPrograms # 0,
         UNCHANGED <<nPrograms, life, mutex, xdp, sessionManager>>
  PROVE  TypedInv'
<1>1. HandlerOn(a) \in Actors /\ "SIGSEGV" \in Signals
  BY DEF HandlerOn, Actors, Handlers, Signals
<1>2. CASE Handle(HandlerOn(a), "SIGSEGV") /\ UNCHANGED process
  BY <1>1, <1>2, HandleTyped
<1>3. CASE process' = "crashed" /\ UNCHANGED thread
  BY <1>3, CrashTyped
<1> QED
  BY <1>2, <1>3 DEF Faults

(* A new program has recorded nothing. *)
LEMMA BeginSetupTyped ==
  ASSUME TypedInv, NEW gtp \in Names, NEW udp \in Names, BeginSetup(gtp, udp)
  PROVE  TypedInv'
<1>1. /\ Client.pc = "idle" /\ nPrograms' = nPrograms + 1 /\ xdp' = xdp /\ mutex' = mutex
      /\ nPrograms \in Nat /\ nPrograms + 1 \in 1 .. MaxSetups
  BY UserPlaneAssumption DEF BeginSetup, At, Client, TypedInv, UserPlaneTypeOK
<1> DEFINE m == [Idle EXCEPT !.pc = "open", !.gtp = gtp, !.udp = udp]
<1>2. m \in ThreadType /\ m.pc = "open"
  BY IdleType DEF Idle, ThreadType
<1>3. thread' = [thread EXCEPT !["client"] = m] /\ "client" \in Actors
  BY DEF BeginSetup, Actors, Handlers
<1> HIDE DEF m
<1>4. Kept("client") /\ thread'["client"].pc = "open"
  BY <1>2, <1>3, ThreadWritten DEF TypedInv
<1>5. PICK garbage \in ProgramState : Set(nPrograms + 1, garbage, "null")
  BY DEF BeginSetup
<1>6. /\ life' \in [1 .. MaxSetups -> LifeType]
      /\ \A q \in 1 .. MaxSetups : q # nPrograms + 1 => life'[q] = life[q]
      /\ life'[nPrograms + 1].links = life[nPrograms + 1].links
  BY <1>1, <1>5, LifeFields DEF TypedInv
<1>7. UserPlaneTypeOK'
  BY <1>1, <1>4, <1>6 DEF TypedInv, UserPlaneTypeOK, Kept, BeginSetup
<1>8. Client'.pc = "open" /\ Client.pc = "idle"
  BY <1>1, <1>4 DEF Client
<1>9. CallsInRange'
  <2>1. ASSUME NEW b \in Actors, thread'[b].pc \in {"lock", "unlink"}
        PROVE  thread'[b].prog \in 1 .. nPrograms + 1
    <3>1. thread'[b] = thread[b]
      BY <1>4, <2>1 DEF Kept
    <3>2. thread[b].prog \in 1 .. nPrograms
      BY <2>1, <3>1 DEF TypedInv, CallsInRange
    <3> QED
      BY <1>1, <3>1, <3>2
  <2> QED
    BY <1>1, <1>8, <2>1 DEF CallsInRange
<1>10. LinksBounded'
  <2>1. \A p \in 1 .. MaxSetups : p > nPrograms + 1 => p # nPrograms + 1 /\ p > nPrograms
    BY <1>1
  <2>2. \A p \in 1 .. MaxSetups : p > nPrograms' => life'[p].links = <<>>
    BY <1>1, <1>6, <2>1 DEF TypedInv, LinksBounded
  <2>3. life'[nPrograms + 1].links = <<>>
    BY <1>1, <1>6 DEF TypedInv, LinksBounded
  <2> QED
    BY <1>1, <1>8, <2>2, <2>3 DEF LinksBounded, This
<1> QED
  BY <1>7, <1>9, <1>10 DEF TypedInv

(* An interface is linked, and its link recorded: two per setup at most. *)
LEMMA LinkTyped ==
  ASSUME TypedInv, Link \/ RecordLink
  PROVE  TypedInv'
<1>1. "client" \in Actors /\ Client.pc \in {"linkUdp", "linkGtp", "recordUdp", "recordGtp"}
  BY DEF Link, Linking, RecordLink, Recorded, At, Client, Actors, Handlers
<1>2. nPrograms \in 1 .. MaxSetups /\ nPrograms \in Nat /\ nPrograms # 0
  BY <1>1, UserPlaneAssumption DEF TypedInv, UserPlaneTypeOK, CallsInRange
<1>3. PICK next \in {"recordUdp", "linkGtp", "recordGtp", "manager"} :
        /\ Goto("client", next) /\ UNCHANGED <<nPrograms, mutex, sessionManager, process>>
        /\ next = "recordUdp" => Client.pc = "linkUdp" /\ Client.udp \in Interfaces
        /\ next = "recordGtp" => Client.pc = "linkGtp" /\ Client.gtp \in Interfaces
        /\ next \in {"recordUdp", "recordGtp"} => life' = life
        /\ next = "linkGtp" => Client.pc = "recordUdp"
  BY DEF Link, Linking, RecordLink, Recorded, At, Client
<1>4. Kept("client") /\ SameCall /\ Client'.pc = next
  <2>1. next \in Pcs
    BY DEF Pcs
  <2> QED
    BY <1>1, <1>3, <2>1, GotoOf, ClientKept DEF TypedInv, Client
<1>5. xdp' \in [Interfaces -> 0 .. MaxSetups]
  BY <1>2, UserPlaneAssumption DEF TypedInv, UserPlaneTypeOK, Link, RecordLink, Recorded
<1>6. /\ life' \in [1 .. MaxSetups -> LifeType]
      /\ \A q \in 1 .. MaxSetups : q # nPrograms => life'[q] = life[q]
      /\ next = "linkGtp" => Len(life'[nPrograms].links) < 2
  <2>1. CASE Link
    BY <1>3, <2>1, MemberEmpty DEF TypedInv, UserPlaneTypeOK, Link, Linking, At, Client
  <2>2. CASE RecordLink
    <3> DEFINE j == IF Client.pc = "recordUdp" THEN Client.udp ELSE Client.gtp
    <3>1. /\ Client.pc \in {"recordUdp", "recordGtp"}
          /\ life' = [life EXCEPT ![nPrograms] =
               [life[nPrograms] EXCEPT !.state = "LINKED", !.links = Append(@, j)]]
      BY <2>2 DEF RecordLink, Recorded, At, Client, This
    <3>2. j \in Interfaces
      BY <3>1 DEF TypedInv, CallsInRange
    <3>3. Len(life[nPrograms].links) < 2
          /\ (Client.pc = "recordUdp" => Len(life[nPrograms].links) = 0)
      BY <3>1, MemberEmpty DEF TypedInv, LinksBounded, This
    <3> HIDE DEF j
    <3>4. /\ life' \in [1 .. MaxSetups -> LifeType]
          /\ \A q \in 1 .. MaxSetups : q # nPrograms => life'[q] = life[q]
          /\ Len(life'[nPrograms].links) = Len(life[nPrograms].links) + 1
      BY <1>2, <3>1, <3>2, <3>3, RecordFields, Zenon DEF TypedInv
    <3> QED
      BY <1>3, <3>3, <3>4
  <2> QED
    BY <2>1, <2>2
<1>7. UserPlaneTypeOK'
  BY <1>3, <1>4, <1>5, <1>6 DEF TypedInv, UserPlaneTypeOK, Kept
<1>8. CallsInRange'
  <2>1. ASSUME NEW b \in Actors, thread'[b].pc \in {"lock", "unlink"}
        PROVE  thread'[b].prog \in 1 .. nPrograms
    <3>1. b # "client"
      BY <1>4, <2>1 DEF Client
    <3>2. thread'[b] = thread[b]
      BY <1>4, <3>1 DEF Kept
    <3> QED
      BY <2>1, <3>2 DEF TypedInv, CallsInRange
  <2> QED
    BY <1>2, <1>3, <1>4, <2>1 DEF CallsInRange, SameCall
<1>9. LinksBounded'
  <2>1. \A p \in 1 .. MaxSetups : p > nPrograms => p # nPrograms
    BY <1>2
  <2>2. \A p \in 1 .. MaxSetups : p > nPrograms => life'[p].links = <<>>
    BY <1>6, <2>1 DEF TypedInv, LinksBounded
  <2>3. next = "recordUdp" => life'[nPrograms].links = <<>>
    BY <1>3 DEF TypedInv, LinksBounded, This
  <2>4. next = "recordGtp" => Len(life'[nPrograms].links) < 2
    BY <1>3 DEF TypedInv, LinksBounded, This
  <2> QED
    BY <1>3, <1>4, <1>6, <2>2, <2>3, <2>4 DEF LinksBounded, This
<1> QED
  BY <1>7, <1>8, <1>9 DEF TypedInv

(* The steps of setup keep the types. *)
LEMMA SetupTyped ==
  ASSUME TypedInv, SetupStep
  PROVE  TypedInv'
<1>0. UserPlaneTypeOK /\ "client" \in Actors
  BY DEF TypedInv, Actors, Handlers
<1>1. CASE Link \/ RecordLink
  BY <1>1, LinkTyped
<1>2. CASE SetupUsesFreed
  <2>1. /\ Faults("client") \/ (process' = "crashed" /\ UNCHANGED thread)
        /\ nPrograms # 0 /\ UNCHANGED <<nPrograms, life, mutex, xdp, sessionManager>>
    BY <1>2 DEF SetupUsesFreed, TypedInv, CallsInRange, Client
  <2> QED
    BY <1>0, <2>1, FaultsTyped, CrashTyped
<1>3. CASE OpenFails \/ LinkUnknown \/ MakeManager \/ LinkBusy
  <2>1. /\ Client.pc \in {"open", "linkUdp", "linkGtp", "manager"}
        /\ Return("client") \/ CallTearDown("client", "throw")
        /\ UNCHANGED <<nPrograms, mutex, xdp>> /\ UNCHANGED <<life, process>>
        /\ sessionManager' \in {sessionManager, "made"}
    BY <1>3 DEF OpenFails, LinkUnknown, MakeManager, LinkBusy, Linking, At, Client
  <2>2. OthersTyped /\ SameLinks
    BY <1>0, <2>1 DEF UserPlaneTypeOK, OthersTyped, SameLinks
  <2>3. nPrograms # 0
    BY <2>1 DEF TypedInv, CallsInRange
  <2> QED
    BY <1>0, <2>1, <2>2, <2>3, ReturnOf, CallOf, UnlockedTyped
<1>4. CASE Open \/ Load \/ Attach \/ LoadOrAttachFails
  <2>1. PICK state \in ProgramState, skeleton \in {"null", "live", "freed"} :
          /\ Client.pc \in {"open", "load", "attach"} /\ Set(nPrograms, state, skeleton)
          /\ \/ Return("client")
             \/ \E pc \in {"load", "attach", "linkUdp"} : Goto("client", pc)
          /\ UNCHANGED <<nPrograms, mutex, xdp>> /\ UNCHANGED <<sessionManager, process>>
    <3>1. Client.pc \in {"open", "load", "attach"}
      BY <1>4 DEF Open, Load, Attach, LoadOrAttachFails, At, Client
    <3>2. nPrograms \in 1 .. MaxSetups
      BY <3>1, UserPlaneAssumption DEF TypedInv, UserPlaneTypeOK, CallsInRange
    <3>3. This \in LifeType
      BY <1>0, <3>2 DEF UserPlaneTypeOK, This
    <3>4. This.state \in ProgramState /\ This.skeleton \in {"null", "live", "freed"}
      BY <3>3 DEF LifeType
    <3>5. {"OPENED", "LOADED", "ATTACHED"} \subseteq ProgramState
      BY DEF ProgramState
    <3>6. CASE Open
      BY <3>1, <3>5, <3>6 DEF Open
    <3>7. CASE Load
      BY <3>1, <3>4, <3>5, <3>7 DEF Load
    <3>8. CASE Attach
      BY <3>1, <3>4, <3>5, <3>8 DEF Attach
    <3>9. CASE LoadOrAttachFails
      BY <3>1, <3>4, <3>9 DEF LoadOrAttachFails
    <3> QED
      BY <1>4, <3>6, <3>7, <3>8, <3>9
  <2>2. nPrograms \in 1 .. MaxSetups
    BY <2>1, UserPlaneAssumption DEF TypedInv, UserPlaneTypeOK, CallsInRange
  <2>3. SameLinks
    <3>1. /\ life' \in [1 .. MaxSetups -> LifeType]
          /\ \A q \in 1 .. MaxSetups : q # nPrograms => life'[q] = life[q]
          /\ life'[nPrograms].links = life[nPrograms].links
      BY <1>0, <2>1, <2>2, LifeFields
    <3> QED
      BY <3>1 DEF SameLinks
  <2>4. OthersTyped
    BY <1>0, <2>1 DEF UserPlaneTypeOK, OthersTyped
  <2>6. CASE Return("client")
    BY <1>0, <2>1, <2>3, <2>4, <2>6, ReturnOf, UnlockedTyped
  <2>7. ASSUME NEW pc \in {"load", "attach", "linkUdp"}, Goto("client", pc) PROVE TypedInv'
    <3>1. Kept("client") /\ Client'.pc = pc
      BY <1>0, <2>7, GotoOf DEF Pcs, Client
    <3> QED
      BY <1>0, <2>1, <2>3, <2>4, <3>1, UnlockedTyped
  <2> QED
    BY <2>1, <2>6, <2>7
<1> QED
  BY <1>1, <1>2, <1>3, <1>4 DEF SetupStep

(* What follows the tearDown of a thread. *)
LEMMA FinishedTyped ==
  ASSUME TypedInv, NEW a \in Actors, Finished(a)
  PROVE  /\ Kept(a)
         /\ thread'[a] = Idle \/ (thread'[a].pc = "lock" /\ thread'[a].prog = nPrograms)
         /\ process' \in {"running", "exited", "crashed"}
<1>1. thread[a] \in ThreadType /\ UserPlaneTypeOK
  BY DEF TypedInv, UserPlaneTypeOK
<1>2. thread[a].then \in {"return", "throw", "exit", "end"}
  BY <1>1 DEF ThreadType
<1>3. Return(a) \/ CallTearDown(a, "end")
  BY <1>2 DEF Finished
<1>4. process' \in {"running", "exited", "crashed"}
  BY <1>1 DEF Finished, UserPlaneTypeOK
<1> QED
  BY <1>1, <1>3, <1>4, ReturnOf, CallOf

(* The steps of tearDown keep the types, in the client and in the handler. *)
LEMMA TearDownTyped ==
  ASSUME TypedInv, NEW a \in Actors, TearDownStep(a)
  PROVE  TypedInv'
<1>0. UserPlaneTypeOK /\ thread[a].pc \in {"lock", "unlink"}
  BY DEF TypedInv, TearDownStep, Lock, LockIdle, Unlink, UnlinkFails, Destroy,
         DestroyAborts, TearDownFaults, At
<1>1. thread[a].prog \in 1 .. nPrograms /\ nPrograms \in 0 .. MaxSetups
  BY <1>0 DEF TypedInv, UserPlaneTypeOK, CallsInRange
<1>2. thread[a].prog \in 1 .. MaxSetups /\ nPrograms # 0
  BY <1>1, UserPlaneAssumption
<1>3. Torn(a) \in LifeType
  BY <1>0, <1>2 DEF UserPlaneTypeOK, Torn
<1>4. CASE Lock(a)
  <2> DEFINE todo == IF Torn(a).state = "LINKED" THEN Torn(a).links ELSE <<>>
  <2>1. /\ mutex[thread[a].prog] = "free" /\ mutex' = [mutex EXCEPT ![thread[a].prog] = a]
        /\ thread' = [thread EXCEPT ![a] = [@ EXCEPT !.pc = "unlink", !.todo = todo]]
        /\ UNCHANGED <<nPrograms, life, xdp, sessionManager, process>>
    BY <1>4 DEF Lock
  <2>2. todo \in BoundedSeq(Interfaces, 2)
    <3>1. Torn(a).links \in BoundedSeq(Interfaces, 2)
      BY <1>3 DEF LifeType
    <3>2. <<>> \in BoundedSeq(Interfaces, 2)
      BY IdleType DEF Idle, ThreadType
    <3> QED
      BY <3>1, <3>2
  <2> HIDE DEF todo
  <2>3. Kept(a) /\ thread'[a].pc = "unlink" /\ thread'[a].prog = thread[a].prog
    BY <1>0, <2>1, <2>2, TodoOf DEF SameCallOf
  <2>4. /\ SameLinks /\ xdp' \in [Interfaces -> 0 .. MaxSetups]
        /\ sessionManager' \in {"null", "made"}
        /\ process' \in {"running", "exited", "crashed"}
    BY <1>0, <2>1 DEF UserPlaneTypeOK, SameLinks
  <2> QED
    BY <1>0, <2>1, <2>3, <2>4, LockedTyped
<1>5. CASE LockIdle(a)
  <2>1. /\ thread[a].pc = "lock" /\ Finished(a)
        /\ UNCHANGED <<nPrograms, mutex, xdp>> /\ UNCHANGED <<life, sessionManager>>
    BY <1>5 DEF LockIdle, At
  <2>2. OthersTyped /\ SameLinks
    BY <1>0, <2>1, FinishedTyped DEF UserPlaneTypeOK, OthersTyped, SameLinks
  <2> QED
    BY <1>2, <2>1, <2>2, FinishedTyped, UnlockedTyped
<1>6. CASE DestroyAborts(a) \/ TearDownFaults(a)
  BY <1>2, <1>6, CrashTyped, FaultsTyped DEF DestroyAborts, TearDownFaults
<1>7. CASE Unlink(a)
  <2>1. /\ thread[a].pc = "unlink" /\ thread[a].todo # <<>>
        /\ thread' = [thread EXCEPT ![a].todo = Tail(@)]
        /\ UNCHANGED <<nPrograms, life, mutex, sessionManager, process>>
    BY <1>7 DEF Unlink, At
  <2>2. Kept(a) /\ thread'[a].pc = "unlink" /\ thread'[a].prog = thread[a].prog
    BY <1>0, <2>1, UnlinkOf DEF SameCallOf
  <2>3. xdp' \in [Interfaces -> 0 .. MaxSetups]
    <3>1. 0 \in 0 .. MaxSetups
      BY UserPlaneAssumption
    <3> QED
      BY <1>0, <1>7, <3>1 DEF Unlink, UserPlaneTypeOK
  <2>4. /\ SameLinks /\ sessionManager' \in {"null", "made"}
        /\ process' \in {"running", "exited", "crashed"}
    BY <1>0, <2>1 DEF UserPlaneTypeOK, SameLinks
  <2> QED
    BY <1>0, <2>1, <2>2, <2>3, <2>4, LockedTyped
<1>8. CASE UnlinkFails(a)
  <2>1. /\ thread[a].pc = "unlink" /\ Return(a)
        /\ mutex' = [mutex EXCEPT ![thread[a].prog] = "free"]
        /\ process' \in {process, "crashed"}
        /\ UNCHANGED <<nPrograms, life, xdp, sessionManager>>
    BY <1>8 DEF UnlinkFails, At
  <2>2. Kept(a) /\ thread'[a] = Idle
    BY <1>0, <2>1, ReturnOf
  <2>3. /\ SameLinks /\ xdp' \in [Interfaces -> 0 .. MaxSetups]
        /\ sessionManager' \in {"null", "made"}
        /\ process' \in {"running", "exited", "crashed"}
    BY <1>0, <2>1 DEF UserPlaneTypeOK, SameLinks
  <2> QED
    BY <1>0, <2>1, <2>2, <2>3, LockedTyped
<1>9. CASE Destroy(a)
  <2> DEFINE skeleton == IF Torn(a).skeleton = "null" THEN "null" ELSE "freed"
  <2>1. /\ thread[a].pc = "unlink" /\ Finished(a) /\ Set(thread[a].prog, "IDLE", skeleton)
        /\ mutex' = [mutex EXCEPT ![thread[a].prog] = "free"]
        /\ UNCHANGED <<nPrograms, xdp, sessionManager>>
    BY <1>9 DEF Destroy, At
  <2>2. skeleton \in {"null", "live", "freed"} /\ "IDLE" \in ProgramState
    BY DEF ProgramState
  <2> HIDE DEF skeleton
  <2>3. SameLinks
    <3>1. /\ life' \in [1 .. MaxSetups -> LifeType]
          /\ \A q \in 1 .. MaxSetups : q # thread[a].prog => life'[q] = life[q]
          /\ life'[thread[a].prog].links = life[thread[a].prog].links
      BY <1>0, <1>2, <2>1, <2>2, LifeFields
    <3> QED
      BY <3>1 DEF SameLinks
  <2>4. xdp' \in [Interfaces -> 0 .. MaxSetups] /\ sessionManager' \in {"null", "made"}
    BY <1>0, <2>1 DEF UserPlaneTypeOK
  <2> QED
    BY <1>0, <2>1, <2>3, <2>4, FinishedTyped, LockedTyped
<1> QED
  BY <1>4, <1>5, <1>6, <1>7, <1>8, <1>9 DEF TearDownStep

(* Every step keeps the types. *)
LEMMA NextTyped ==
  ASSUME TypedInv, [Next]_vars
  PROVE  TypedInv'
<1>0. UserPlaneTypeOK /\ "client" \in Actors /\ SignalThreads \subseteq Actors
  BY UserPlaneAssumption DEF TypedInv, Actors, Handlers
<1>1. CASE \E gtp, udp \in Names : BeginSetup(gtp, udp)
  BY <1>1, BeginSetupTyped
<1>2. CASE SetupStep
  BY <1>2, SetupTyped
<1>3. CASE \E a \in Actors : TearDownStep(a)
  BY <1>3, TearDownTyped
<1>4. CASE BeginTearDown
  <2>1. /\ CallTearDown("client", "return") /\ nPrograms # 0
        /\ UNCHANGED <<nPrograms, life, mutex, xdp, sessionManager, process>>
    BY <1>0, <1>4, UserPlaneAssumption DEF BeginTearDown, UserPlaneTypeOK
  <2>2. Kept("client") /\ thread'["client"].pc = "lock" /\ thread'["client"].prog = nPrograms
    BY <1>0, <2>1, CallOf
  <2>3. OthersTyped /\ SameLinks
    BY <1>0, <2>1 DEF UserPlaneTypeOK, OthersTyped, SameLinks
  <2> QED
    BY <1>0, <2>1, <2>2, <2>3, UnlockedTyped
<1>5. ASSUME NEW a \in SignalThreads, NEW signal \in Signals, Signal(a, signal)
      PROVE  TypedInv'
  <2>1. /\ Handle(a, signal) /\ nPrograms # 0 /\ a \in Actors
        /\ UNCHANGED <<nPrograms, life, mutex, xdp, sessionManager, process>>
    BY <1>0, <1>5, UserPlaneAssumption DEF Signal, UserPlaneTypeOK
  <2> QED
    BY <2>1, HandleTyped
<1>7. CASE UNCHANGED vars
  BY <1>7, CrashTyped DEF vars
<1> QED
  BY <1>1, <1>2, <1>3, <1>4, <1>5, <1>7 DEF Next

(* The types, from the first state on. *)
LEMMA TypedInvariance == Spec => []TypedInv
<1>1. Init => TypedInv
  <2> SUFFICES ASSUME Init PROVE TypedInv
    OBVIOUS
  <2>1. UserPlaneTypeOK
    BY InitAloneInv DEF AloneInv
  <2>2. \A a \in Actors : thread[a] = Idle
    BY DEF Init
  <2>3. Client = Idle /\ Client.pc = "idle" /\ Idle.pc = "idle"
    BY <2>2, IdleType DEF Client, Actors, Handlers
  <2>4. CallsInRange /\ LinksBounded
    BY <2>2, <2>3 DEF Init, CallsInRange, LinksBounded
  <2> QED
    BY <2>1, <2>4 DEF TypedInv
<1>2. TypedInv /\ [Next]_vars => TypedInv'
  BY NextTyped
<1> QED
  BY <1>1, <1>2, PTL DEF Spec

(* setup, tearDown and the handler keep the types, whichever thread the signal is
   handled in; a life cycle records two links at most. *)
THEOREM UserPlaneTypeCorrect == Spec => []UserPlaneTypeOK
<1>1. TypedInv => UserPlaneTypeOK
  BY DEF TypedInv
<1> QED
  BY <1>1, TypedInvariance, PTL

-----------------------------------------------------------------------------
(* Who holds sTearDownMutex.  A thread in the locked part of tearDown does; a thread
   that holds one and is elsewhere was interrupted there by a signal or a fault, and
   if the program is still the current one it waits for the mutex itself. *)
CallsCurrent ==
  /\ thread["handler"].pc \in {"idle", "lock", "unlink"}
  /\ Client.pc \in {"lock", "unlink"} => Client.prog = nPrograms
  /\ process = "running" /\ thread["handler"].pc # "idle" =>
       thread["handler"].prog = nPrograms

LockedHolds ==
  \A a \in Actors : thread[a].pc = "unlink" => mutex[thread[a].prog] = a

InLocked(a, p) == thread[a].pc = "unlink" /\ thread[a].prog = p
AtLock(a, p) == thread[a].pc = "lock" /\ thread[a].prog = p

HolderKnown ==
  \A p \in 1 .. MaxSetups :
    /\ p > nPrograms => mutex[p] = "free"
    /\ process = "running" =>
         /\ mutex[p] = "client" => InLocked("client", p)
         /\ mutex[p] = "handler" => InLocked("handler", p) \/ AtLock("handler", p)
         /\ mutex[p] = "other" /\ p = nPrograms =>
              InLocked("other", p) \/ AtLock("other", p)

HolderInv == CallsCurrent /\ LockedHolds /\ HolderKnown

(* A thread leaves the mutexes as they are: it is not in the locked part and calls
   tearDown on the current program, or does something else. *)
LEMMA FreeStep ==
  ASSUME TypedInv, HolderInv, NEW a \in Actors, Kept(a), UNCHANGED <<nPrograms, mutex>>,
         process = "running", thread[a].pc # "unlink", thread'[a].pc # "unlink",
         thread[a].pc = "lock" => mutex[thread[a].prog] # a,
         thread'[a].pc = "lock" => thread'[a].prog = nPrograms,
         a = "handler" => thread'[a].pc \in {"idle", "lock"}
  PROVE  HolderInv'
<1>1. process' = "running" => process = "running"
  OBVIOUS
<1>2. CallsCurrent'
  BY DEF HolderInv, CallsCurrent, Kept, Client, Actors, Handlers
<1>3. LockedHolds'
  BY DEF HolderInv, LockedHolds, Kept
<1>4. \A p \in 1 .. MaxSetups : mutex[p] = a => a = "other" /\ p # nPrograms
  BY DEF HolderInv, HolderKnown, InLocked, AtLock, Actors, Handlers
<1>5. HolderKnown'
  BY <1>4 DEF HolderInv, HolderKnown, InLocked, AtLock, Kept, Actors, Handlers
<1> QED
  BY <1>2, <1>3, <1>5 DEF HolderInv

(* A handler starts on a thread; what it interrupts may hold the mutex. *)
LEMMA HandleStep ==
  ASSUME TypedInv, HolderInv, NEW a \in Handlers, NEW signal \in Signals, Handle(a, signal),
         process = "running", UNCHANGED <<nPrograms, mutex, process>>
  PROVE  HolderInv'
<1>1. a \in Actors /\ UserPlaneTypeOK
  BY DEF Actors, TypedInv
<1>2. Kept(a) /\ thread'[a].pc = "lock" /\ thread'[a].prog = nPrograms
  BY <1>1, HandleOf
<1>3. \A b \in Actors : b # a => thread'[b] = thread[b]
  BY <1>2 DEF Kept
<1>4. CallsCurrent'
  BY <1>2, <1>3 DEF HolderInv, CallsCurrent, Client, Actors, Handlers
<1>5. LockedHolds'
  BY <1>2, <1>3 DEF HolderInv, LockedHolds
<1>6. \A p \in 1 .. MaxSetups : mutex[p] = "handler" => p = nPrograms
  BY DEF HolderInv, HolderKnown, CallsCurrent, InLocked, AtLock
<1>7. HolderKnown'
  BY <1>2, <1>3, <1>6 DEF HolderInv, HolderKnown, InLocked, AtLock, Actors, Handlers
<1> QED
  BY <1>4, <1>5, <1>7 DEF HolderInv

(* The process only ends. *)
LEMMA CrashStep ==
  ASSUME HolderInv, UNCHANGED <<nPrograms, mutex, thread>>, process' \in {process, "crashed"}
  PROVE  HolderInv'
BY DEF HolderInv, CallsCurrent, LockedHolds, HolderKnown, InLocked, AtLock, Client

(* A thread faults. *)
LEMMA FaultStep ==
  ASSUME TypedInv, HolderInv, NEW a \in Actors, Faults(a), process = "running",
         UNCHANGED <<nPrograms, mutex>>
  PROVE  HolderInv'
<1>1. HandlerOn(a) \in Handlers /\ "SIGSEGV" \in Signals
  BY DEF HandlerOn, Actors, Handlers, Signals
<1>2. CASE Handle(HandlerOn(a), "SIGSEGV") /\ UNCHANGED process
  BY <1>1, <1>2, HandleStep
<1>3. CASE process' = "crashed" /\ UNCHANGED thread
  BY <1>3, CrashStep
<1> QED
  BY <1>2, <1>3 DEF Faults

(* A thread locks the mutex, goes on in the locked part, or unlocks it. *)
LEMMA LockStep ==
  ASSUME TypedInv, HolderInv, NEW a \in Actors, Kept(a), nPrograms' = nPrograms,
         process = "running", NEW q \in 1 .. nPrograms, thread[a].prog = q,
         \/ /\ thread[a].pc = "lock" /\ mutex[q] = "free"
            /\ mutex' = [mutex EXCEPT ![q] = a]
            /\ thread'[a].pc = "unlink" /\ thread'[a].prog = q
         \/ /\ thread[a].pc = "unlink" /\ UNCHANGED mutex
            /\ thread'[a].pc = "unlink" /\ thread'[a].prog = q
         \/ /\ thread[a].pc = "unlink" /\ mutex' = [mutex EXCEPT ![q] = "free"]
            /\ thread'[a] = Idle \/ (thread'[a].pc = "lock" /\ thread'[a].prog = nPrograms)
  PROVE  HolderInv'
<1>1. q \in 1 .. MaxSetups /\ ~(q > nPrograms)
  BY UserPlaneAssumption DEF TypedInv, UserPlaneTypeOK
<1>2. \A b \in Actors : b # a => thread'[b] = thread[b]
  BY DEF Kept
<1>3. /\ \A p \in 1 .. MaxSetups : p # q => mutex'[p] = mutex[p]
      /\ mutex' = [mutex EXCEPT ![q] = a] => mutex'[q] = a
      /\ mutex' = [mutex EXCEPT ![q] = "free"] => mutex'[q] = "free"
  BY <1>1 DEF TypedInv, UserPlaneTypeOK
<1>4. CallsCurrent'
  BY <1>2, IdleType DEF HolderInv, CallsCurrent, Client, Actors, Handlers
<1>5. \A b \in Actors : thread[b].pc = "unlink" =>
        mutex[thread[b].prog] = b /\ thread[b].prog \in 1 .. MaxSetups
  <2> SUFFICES ASSUME NEW b \in Actors, thread[b].pc = "unlink"
               PROVE  mutex[thread[b].prog] = b /\ thread[b].prog \in 1 .. MaxSetups
    OBVIOUS
  <2>1. thread[b].prog \in 1 .. nPrograms /\ mutex[thread[b].prog] = b
    BY DEF TypedInv, CallsInRange, HolderInv, LockedHolds
  <2> QED
    BY <2>1, UserPlaneAssumption DEF TypedInv, UserPlaneTypeOK
<1>6. a # "free" /\ \A b \in Actors : b # "free"
  BY DEF Actors, Handlers
<1>7. LockedHolds'
  <2> SUFFICES ASSUME NEW b \in Actors, thread'[b].pc = "unlink"
               PROVE  mutex'[thread'[b].prog] = b
    BY DEF LockedHolds
  <2>1. CASE b = a
    BY <1>3, <1>5, <2>1, IdleType
  <2>2. CASE b # a
    <3>1. /\ thread'[b] = thread[b] /\ mutex[thread[b].prog] = b
          /\ thread[b].prog \in 1 .. MaxSetups
      BY <1>2, <1>5, <2>2
    <3>2. thread[b].prog # q
      BY <1>5, <1>6, <2>2, <3>1
    <3> QED
      BY <1>3, <3>1, <3>2
  <2> QED
    BY <2>1, <2>2
<1>8. \A p \in 1 .. MaxSetups : p # q /\ mutex[p] = a => a = "other" /\ p # nPrograms
  BY DEF HolderInv, HolderKnown, InLocked, AtLock, Actors, Handlers
<1>9. HolderKnown'
  <2> SUFFICES ASSUME NEW p \in 1 .. MaxSetups
               PROVE  /\ p > nPrograms => mutex'[p] = "free"
                      /\ mutex'[p] = "client" => InLocked("client", p)'
                      /\ mutex'[p] = "handler" => InLocked("handler", p)' \/ AtLock("handler", p)'
                      /\ mutex'[p] = "other" /\ p = nPrograms =>
                           InLocked("other", p)' \/ AtLock("other", p)'
    BY DEF HolderKnown
  <2>1. CASE p = q
    BY <1>1, <1>3, <1>5, <2>1 DEF InLocked, Actors, Handlers
  <2>2. CASE p # q
    <3>1. mutex'[p] = mutex[p]
      BY <1>3, <2>2
    <3> QED
      BY <1>2, <1>8, <2>2, <3>1 DEF HolderInv, HolderKnown, InLocked, AtLock, Actors, Handlers
  <2> QED
    BY <2>1, <2>2
<1> QED
  BY <1>4, <1>7, <1>9 DEF HolderInv

(* The client's steps in setup hold no mutex. *)
LEMMA SetupHolder ==
  ASSUME TypedInv, HolderInv, SetupStep
  PROVE  HolderInv'
<1>0. UserPlaneTypeOK /\ "client" \in Actors
  BY DEF TypedInv, Actors
<1>1. CASE SetupUsesFreed
  <2>1. /\ Faults("client") \/ (process' = "crashed" /\ UNCHANGED thread)
        /\ process = "running" /\ UNCHANGED <<nPrograms, mutex>>
    BY <1>1 DEF SetupUsesFreed, Runs
  <2> QED
    BY <1>0, <2>1, FaultStep, CrashStep
<1>2. CASE ~SetupUsesFreed
  <2>1. /\ \/ Return("client") \/ CallTearDown("client", "throw")
           \/ \E pc \in Pcs \ {"lock", "unlink"} : Goto("client", pc)
        /\ process = "running" /\ UNCHANGED <<nPrograms, mutex>>
        /\ thread["client"].pc \notin {"lock", "unlink"}
    BY <1>2 DEF SetupStep, Open, OpenFails, Load, Attach, LoadOrAttachFails, Link, LinkUnknown,
                LinkBusy, Linking, RecordLink, Recorded, MakeManager, At, Runs, Pcs
  <2>2. /\ Kept("client") /\ thread'["client"].pc # "unlink"
        /\ thread'["client"].pc = "lock" => thread'["client"].prog = nPrograms
    BY <1>0, <2>1, ReturnOf, CallOf, GotoOf, IdleType
  <2> QED
    BY <1>0, <2>1, <2>2, FreeStep
<1> QED
  BY <1>1, <1>2

(* A new program's mutex is free. *)
LEMMA BeginSetupHolder ==
  ASSUME TypedInv, HolderInv, NEW gtp \in Names, NEW udp \in Names, BeginSetup(gtp, udp)
  PROVE  HolderInv'
<1>1. /\ Client.pc = "idle" /\ nPrograms' = nPrograms + 1 /\ mutex' = mutex
      /\ process' = process /\ thread["handler"].pc = "idle"
      /\ nPrograms \in Nat
  BY UserPlaneAssumption DEF BeginSetup, At, Runs, Client, TypedInv, UserPlaneTypeOK
<1>2. /\ \A b \in Actors : b # "client" => thread'[b] = thread[b]
      /\ thread'["client"].pc = "open"
  <2> DEFINE m == [Idle EXCEPT !.pc = "open", !.gtp = gtp, !.udp = udp]
  <2>1. m \in ThreadType /\ m.pc = "open"
    BY IdleType DEF Idle, ThreadType
  <2>2. thread' = [thread EXCEPT !["client"] = m] /\ "client" \in Actors
    BY DEF BeginSetup, Actors
  <2> HIDE DEF m
  <2> QED
    BY <2>1, <2>2, ThreadWritten DEF TypedInv, Kept
<1>3. CallsCurrent'
  BY <1>1, <1>2 DEF HolderInv, CallsCurrent, Client, Actors, Handlers
<1>4. LockedHolds'
  BY <1>1, <1>2 DEF HolderInv, LockedHolds
<1>5. \A p \in 1 .. MaxSetups : p > nPrograms + 1 \/ p = nPrograms + 1 => p > nPrograms
  BY <1>1
<1>6. HolderKnown'
  BY <1>1, <1>2, <1>5 DEF HolderInv, HolderKnown, InLocked, AtLock, Client, Actors, Handlers
<1> QED
  BY <1>3, <1>4, <1>6 DEF HolderInv

(* The steps of tearDown. *)
LEMMA TearDownHolder ==
  ASSUME TypedInv, HolderInv, NEW a \in Actors, TearDownStep(a)
  PROVE  HolderInv'
<1>0. /\ UserPlaneTypeOK /\ process = "running" /\ nPrograms' = nPrograms
      /\ thread[a].pc \in {"lock", "unlink"}
  BY DEF TypedInv, TearDownStep, Lock, LockIdle, Unlink, UnlinkFails, Destroy,
         DestroyAborts, TearDownFaults, At, Runs
<1>1. thread[a].prog \in 1 .. nPrograms
  BY <1>0 DEF TypedInv, CallsInRange
<1>2. CASE Lock(a)
  <2> DEFINE todo == IF Torn(a).state = "LINKED" THEN Torn(a).links ELSE <<>>
  <2>1. /\ thread[a].pc = "lock" /\ mutex[thread[a].prog] = "free"
        /\ mutex' = [mutex EXCEPT ![thread[a].prog] = a]
        /\ thread' = [thread EXCEPT ![a] = [@ EXCEPT !.pc = "unlink", !.todo = todo]]
    BY <1>2 DEF Lock, At
  <2>2. todo \in BoundedSeq(Interfaces, 2)
    <3>1. thread[a].prog \in 1 .. MaxSetups
      BY <1>0, <1>1, UserPlaneAssumption DEF UserPlaneTypeOK
    <3>2. Torn(a) \in LifeType
      BY <1>0, <3>1 DEF UserPlaneTypeOK, Torn
    <3>3. Torn(a).links \in BoundedSeq(Interfaces, 2)
      BY <3>2 DEF LifeType
    <3>4. <<>> \in BoundedSeq(Interfaces, 2)
      BY IdleType DEF Idle, ThreadType
    <3> QED
      BY <3>3, <3>4
  <2> HIDE DEF todo
  <2>3. Kept(a) /\ thread'[a].pc = "unlink" /\ thread'[a].prog = thread[a].prog
    BY <1>0, <2>1, <2>2, TodoOf DEF SameCallOf
  <2> QED
    BY <1>0, <1>1, <2>1, <2>3, LockStep
<1>3. CASE LockIdle(a)
  <2>1. /\ thread[a].pc = "lock" /\ mutex[thread[a].prog] = "free" /\ Finished(a)
        /\ mutex' = mutex /\ a # "free"
    BY <1>3 DEF LockIdle, At, Actors, Handlers
  <2>2. /\ Kept(a)
        /\ thread'[a] = Idle \/ (thread'[a].pc = "lock" /\ thread'[a].prog = nPrograms)
    BY <2>1, FinishedTyped
  <2> QED
    BY <1>0, <2>1, <2>2, IdleType, FreeStep
<1>4. CASE Unlink(a)
  <2>1. /\ thread[a].pc = "unlink" /\ thread[a].todo # <<>> /\ mutex' = mutex
        /\ thread' = [thread EXCEPT ![a].todo = Tail(@)]
    BY <1>4 DEF Unlink, At
  <2>2. Kept(a) /\ thread'[a].pc = "unlink" /\ thread'[a].prog = thread[a].prog
    BY <1>0, <2>1, UnlinkOf DEF SameCallOf
  <2> QED
    BY <1>0, <1>1, <2>1, <2>2, LockStep
<1>5. CASE UnlinkFails(a) \/ Destroy(a)
  <2>1. /\ thread[a].pc = "unlink" /\ (Return(a) \/ Finished(a))
        /\ mutex' = [mutex EXCEPT ![thread[a].prog] = "free"]
    BY <1>5 DEF UnlinkFails, Destroy, At
  <2>2. /\ Kept(a)
        /\ thread'[a] = Idle \/ (thread'[a].pc = "lock" /\ thread'[a].prog = nPrograms)
    BY <1>0, <2>1, ReturnOf, FinishedTyped
  <2> QED
    BY <1>0, <1>1, <2>1, <2>2, LockStep
<1>6. CASE DestroyAborts(a) \/ TearDownFaults(a)
  BY <1>0, <1>6, CrashStep, FaultStep DEF DestroyAborts, TearDownFaults
<1> QED
  BY <1>2, <1>3, <1>4, <1>5, <1>6 DEF TearDownStep

(* Every step keeps what is known of the holders. *)
LEMMA NextHolder ==
  ASSUME TypedInv, HolderInv, [Next]_vars
  PROVE  HolderInv'
<1>0. UserPlaneTypeOK /\ "client" \in Actors /\ SignalThreads \subseteq Handlers
  BY UserPlaneAssumption DEF TypedInv, Actors, Handlers
<1>1. CASE \E gtp, udp \in Names : BeginSetup(gtp, udp)
  BY <1>1, BeginSetupHolder
<1>2. CASE SetupStep
  BY <1>2, SetupHolder
<1>3. CASE \E a \in Actors : TearDownStep(a)
  BY <1>3, TearDownHolder
<1>4. CASE BeginTearDown
  <2>1. /\ thread["client"].pc = "idle" /\ CallTearDown("client", "return")
        /\ process = "running" /\ UNCHANGED <<nPrograms, mutex>>
    BY <1>4 DEF BeginTearDown, At, Runs
  <2>2. Kept("client") /\ thread'["client"].pc = "lock" /\ thread'["client"].prog = nPrograms
    BY <1>0, <2>1, CallOf
  <2> QED
    BY <1>0, <2>1, <2>2, FreeStep
<1>5. CASE \E a \in SignalThreads, signal \in Signals : Signal(a, signal)
  BY <1>0, <1>5, HandleStep DEF Signal
<1>6. CASE UNCHANGED vars
  BY <1>6, CrashStep DEF vars
<1> QED
  BY <1>1, <1>2, <1>3, <1>4, <1>5, <1>6 DEF Next

(* Whichever thread handles the signals, a thread that finds sTearDownMutex locked
   waits for itself, or for a thread that can go on, or for one that waits for
   itself. *)
THEOREM WaitsEnd == Spec => []WaitedForRuns
<1>1. Init => HolderInv
  <2> SUFFICES ASSUME Init PROVE HolderInv
    OBVIOUS
  <2>1. \A a \in Actors : thread[a].pc = "idle"
    BY IdleType DEF Init
  <2>2. Client.pc = "idle" /\ thread["handler"].pc = "idle"
    BY <2>1 DEF Client, Actors, Handlers
  <2> QED
    BY <2>1, <2>2 DEF Init, HolderInv, CallsCurrent, LockedHolds, HolderKnown
<1>2. TypedInv /\ HolderInv /\ [Next]_vars => HolderInv'
  BY NextHolder
<1>3. TypedInv /\ HolderInv => WaitedForRuns
  <2> SUFFICES ASSUME TypedInv, HolderInv, NEW a \in Actors, Waits(a)
               PROVE  LET b == mutex[thread[a].prog] IN
                        \/ WaitsForItself(a)
                        \/ Runs(b) /\ thread[b].pc = "unlink" /\ thread[b].prog = thread[a].prog
                        \/ \E c \in Actors : OsThread(c) = OsThread(b) /\ WaitsForItself(c)
    BY DEF WaitedForRuns
  <2> DEFINE p == thread[a].prog
  <2>1. /\ process = "running" /\ thread[a].pc = "lock" /\ p \in 1 .. nPrograms
        /\ mutex[p] # "free"
    BY DEF Waits, At, Runs, TypedInv, CallsInRange
  <2>2. p \in 1 .. MaxSetups
    BY <2>1, UserPlaneAssumption DEF TypedInv, UserPlaneTypeOK
  <2>3. mutex[p] \in Actors
    BY <2>1, <2>2 DEF TypedInv, UserPlaneTypeOK
  <2>4. ASSUME NEW c \in Handlers, AtLock(c, p), OsThread(mutex[p]) = OsThread(c)
        PROVE  WaitsForItself(c)
    BY <2>1, <2>4 DEF WaitsForItself, Waits, At, Runs, AtLock, Handlers
  <2>5. CASE mutex[p] = "client"
    <3>1. InLocked("client", p)
      BY <2>1, <2>2, <2>5 DEF HolderInv, HolderKnown
    <3>2. CASE thread["handler"].pc = "idle"
      BY <2>1, <2>5, <3>1, <3>2 DEF Runs, InLocked
    <3>3. CASE thread["handler"].pc # "idle"
      <4>1. p = nPrograms /\ thread["handler"].prog = p
        BY <2>1, <3>1, <3>3 DEF HolderInv, CallsCurrent, InLocked, Client
      <4>2. thread["handler"].pc # "unlink"
        BY <2>5, <4>1 DEF HolderInv, LockedHolds, Actors, Handlers
      <4>3. AtLock("handler", p)
        BY <3>3, <4>1, <4>2 DEF HolderInv, CallsCurrent, AtLock
      <4>4. OsThread("client") = OsThread("handler")
        BY DEF OsThread
      <4>5. WaitsForItself("handler")
        BY <2>4, <2>5, <4>3, <4>4 DEF Handlers
      <4> QED
        BY <2>5, <4>4, <4>5 DEF Actors, Handlers
    <3> QED
      BY <3>2, <3>3
  <2>6. CASE mutex[p] = "handler"
    <3>1. InLocked("handler", p) \/ AtLock("handler", p)
      BY <2>1, <2>2, <2>6 DEF HolderInv, HolderKnown
    <3>2. CASE InLocked("handler", p)
      BY <2>1, <2>6, <3>2 DEF Runs, InLocked
    <3>3. CASE AtLock("handler", p)
      BY <2>4, <2>6, <3>3 DEF Actors, Handlers
    <3> QED
      BY <3>1, <3>2, <3>3
  <2>7. CASE mutex[p] = "other"
    <3>1. CASE a = "other"
      BY <2>7, <3>1 DEF WaitsForItself
    <3>2. CASE a # "other"
      <4>1. p = nPrograms
        BY <2>1, <3>2 DEF HolderInv, CallsCurrent, Client, Actors, Handlers
      <4>2. InLocked("other", p) \/ AtLock("other", p)
        BY <2>1, <2>2, <2>7, <4>1 DEF HolderInv, HolderKnown
      <4>3. CASE InLocked("other", p)
        BY <2>1, <2>7, <4>3 DEF Runs, InLocked
      <4>4. CASE AtLock("other", p)
        BY <2>4, <2>7, <4>4 DEF Actors, Handlers
      <4> QED
        BY <4>2, <4>3, <4>4
    <3> QED
      BY <3>1, <3>2
  <2> QED
    BY <2>3, <2>5, <2>6, <2>7 DEF Actors, Handlers
<1> QED
  BY <1>1, <1>2, <1>3, TypedInvariance, PTL DEF Spec
=============================================================================
