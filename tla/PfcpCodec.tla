----------------------------- MODULE PfcpCodec -----------------------------
(***************************************************************************)
(* A PFCP message on its way from a container, through pfcp_msg and        *)
(* dump_to, over the wire, through load_from and to_core_type, into        *)
(* another container (src/src/oai/pfcp/3gpp_29.244.hpp and .cpp).          *)
(*                                                                         *)
(* The sender is "own" when the constructors of pfcp_msg and of the        *)
(* grouped elements build the message, or "peer" when the elements are     *)
(* put together with add_ie in any order, with repetitions and with        *)
(* elements the container does not know.                                   *)
(*                                                                         *)
(* Nested elements are a stack: enc for the constructors under way, dec    *)
(* for the load_from loops under way.  The wire is a sequence of fields    *)
(* (PfcpIes), with one item for every TLV.                                 *)
(***************************************************************************)
EXTENDS PfcpContainers, Integers, FiniteSets, TLC

CONSTANTS
    Kinds,       \* container classes of the messages sent
    Stray,       \* elements a peer may put where they do not belong
    MaxOwnIes,   \* bound: elements in a message of the own constructors
    MaxPeerIes,  \* bound: elements in a message of a peer,
    MaxPeerTop   \* bound: the ones of them that are not inside a group

ASSUME CodecAssumption ==
    /\ Kinds \subseteq DOMAIN Message
    /\ Stray \subseteq Leaves \cup DOMAIN Grouped
    /\ MaxOwnIes \in Nat /\ MaxPeerIes \in Nat /\ MaxPeerTop \in Nat

VARIABLES
    sender,    \* who builds the message
    enc,       \* groups under construction, the message first
    wire,      \* what has been written and not yet read
    header,    \* the header as sent: message_length and whether it has a SEID
    dec,       \* groups being loaded, the message first
    verdict,   \* what became of the message; "spins": load_from does not return
    got,       \* the container of the receiver
    made       \* history: the elements added

vars == <<sender, enc, wire, header, dec, verdict, got, made>>

tlv_ie_length == 4
Tlv(ie, l) == [f |-> "tlv", n |-> tlv_ie_length, ie |-> ie, length |-> l]

\* Lengths are kept in a uint16_t.
Uint16(n) == n % 65536

\* What a container holds: for every member present the values set, in order.
With(content, ie, v, many) ==
    IF ie \in DOMAIN content /\ many
    THEN [content EXCEPT ![ie] = Append(@, v)]
    ELSE (ie :> <<v>>) @@ content
-----------------------------------------------------------------------------
\* Sending.

Frame(ie) == [ie |-> ie, slot |-> 0, length |-> 0, items |-> <<>>,
              dumps |-> TRUE, content |-> <<>>]

\* Mutant: the TLV itself is not counted.
add_ieBare(frame, ie, length, items, dumps, v) ==
    [frame EXCEPT
        !.length  = Uint16(@ + length),
        !.items   = @ \o items,
        !.dumps   = @ /\ dumps,
        !.content = With(@, ie, v, TRUE)]

\* pfcp_grouped_ie::add_ie and pfcp_msg::add_ie, and the part of dump_to that
\* writes the element: its length counts by the length its constructor left,
\* a uint16_t.
add_ie(frame, ie, length, items, dumps, v) ==
    [frame EXCEPT
        !.length  = Uint16(@ + tlv_ie_length + length),
        !.items   = @ \o items,
        !.dumps   = @ /\ dumps,
        !.content = With(@, ie, v, TRUE)]

\* The positions in the constructor at which ie may come now.
Slots(frame, ie) ==
    {i \in DOMAIN Adds[frame.ie] :
        /\ Adds[frame.ie][i] = ie
        /\ IF ie \in ContainerOf(frame.ie).many THEN i >= frame.slot
                                                ELSE i > frame.slot}

Top == enc[Len(enc)]
Bound == IF sender = "own" THEN MaxOwnIes ELSE MaxPeerIes
Building == verdict = "none" /\ dec = <<>> /\ wire = <<>> /\ header = <<>>

\* Whether the sender goes on with ie, and the frame that has it as its last.
MayAdd(ie) ==
    /\ Building
    /\ Cardinality(made) + Len(enc) - 1 < Bound
    /\ IF sender = "own"
       THEN Slots(Top, ie) # {}
       ELSE /\ ie \in Members(ContainerOf(Top.ie)) \cup Stray
            /\ Len(enc) = 1 => Top.slot < MaxPeerTop
Moved(ie) ==
    [Top EXCEPT !.slot = IF sender = "own"
                         THEN CHOOSE i \in Slots(Top, ie) : TRUE ELSE @ + 1]

\* How the receiver's container will see the element.
Place(frame, ie) ==
    CASE ie \notin Members(ContainerOf(frame.ie)) -> "stray"
      [] ie \in DOMAIN frame.content /\ ie \in ContainerOf(frame.ie).one
                                                  -> "again"
      [] OTHER                                    -> "only"

Note(frame, ie, o, length) ==
    made \cup {[ie |-> ie, o |-> o, length |-> length,
                nth |-> Cardinality(made), place |-> Place(frame, ie)]}

Leaf(frame, ie, o) ==
    LET c == Codec(ie, o, 0)
    IN  add_ie(frame, ie, c.length, <<Tlv(ie, c.tlv)>> \o c.dumped, c.dumps,
               c.value)

AddLeaf(ie, o) ==
    /\ MayAdd(ie)
    /\ enc' = [enc EXCEPT ![Len(enc)] = Leaf(Moved(ie), ie, o)]
    /\ made' = Note(Top, ie, o, Codec(ie, o, 0).length)
    /\ UNCHANGED <<sender, wire, header, dec, verdict, got>>

\* The constructor of an update_far begins with its far_id.
OpenGroup(ie) ==
    /\ MayAdd(ie)
    /\ IF sender = "own" /\ ie = "update_far"
       THEN /\ enc' = Append([enc EXCEPT ![Len(enc)] = Moved(ie)],
                             [Leaf(Frame(ie), "far_id", {}) EXCEPT !.slot = 1])
            /\ made' = Note(Frame(ie), "far_id", {}, 4)
       ELSE /\ enc' = Append([enc EXCEPT ![Len(enc)] = Moved(ie)], Frame(ie))
            /\ UNCHANGED made
    /\ UNCHANGED <<sender, wire, header, dec, verdict, got>>

CloseGroup ==
    /\ Building /\ Len(enc) > 1
    /\ LET up == enc[Len(enc) - 1]
       IN  /\ enc' = Append(SubSeq(enc, 1, Len(enc) - 2),
                            add_ie(up, Top.ie, Top.length,
                                   <<Tlv(Top.ie, Top.length)>> \o Top.items,
                                   Top.dumps, Top.content))
           /\ made' = Note(up, Top.ie, {}, Top.length)
    /\ UNCHANGED <<sender, wire, header, dec, verdict, got>>

\* pfcp_msg::dump_to: the header (four octets behind its length, eight more
\* when the caller has set a SEID) and the elements.  Nothing is sent when the
\* constructor or the dump_to of an element throws or does not return.
Send(seid) ==
    /\ Building /\ Len(enc) = 1
    /\ header' = [length |-> Uint16(4 + (IF seid THEN 8 ELSE 0) + Top.length),
                  seid |-> seid]
    /\ IF Top.dumps
       THEN wire' = Top.items /\ UNCHANGED verdict
       ELSE verdict' = "unsent" /\ UNCHANGED wire
    /\ UNCHANGED <<sender, enc, dec, got, made>>
-----------------------------------------------------------------------------
\* Receiving.

\* left is what the loop of load_from still expects; first is set until the
\* first element of the loop has been read.
Loading(ie, l) == [ie |-> ie, length |-> l, left |-> l, first |-> TRUE,
                   content |-> <<>>, fault |-> "none"]

\* pfcp_msg_header::load_from and check_msg_length.
LoadHeader ==
    /\ verdict = "none" /\ header # <<>> /\ dec = <<>>
    /\ dec' = <<Loading(enc[1].ie,
                        Uint16(header.length - 4 - (IF header.seid THEN 8 ELSE 0)))>>
    /\ UNCHANGED <<sender, enc, wire, header, verdict, got, made>>

Cur == dec[Len(dec)]

\* The loop of a group tests before it reads, the loop of a message after.
Reads == /\ verdict = "none" /\ dec # <<>>
         /\ Cur.left > 0 \/ (Len(dec) = 1 /\ Cur.first)

AtTlv == wire # <<>> /\ Head(wire).f = "tlv"
\* Mutant: an element of length zero is loaded like any other.
NullUnknown == wire = <<>> \/ (AtTlv /\ Head(wire).ie \notin Decodable)

Null == wire = <<>> \/ (AtTlv /\ (Head(wire).length = 0
                                    \/ Head(wire).ie \notin Decodable))

Judge(v, content) == /\ verdict' = v
                     /\ got' = content
                     /\ UNCHANGED <<sender, enc, header, made>>

\* Mutant: the loop counts up.
LoadedUp(frame, ie, l, v, fault) ==
    [frame EXCEPT !.left = @ + l + tlv_ie_length, !.first = FALSE,
                  !.content = With(@, ie, v, TRUE)]

\* An element has been loaded into the frame: it counts by the length in its
\* TLV, and to_core_type sets it in the container.  A group counts down in an
\* int32_t, a message counts up in a uint16_t.
Loaded(frame, ie, l, v, fault) ==
    LET c == ContainerOf(frame.ie)
        read == frame.length - frame.left + l + tlv_ie_length
        f == CASE fault # "none"                             -> fault
               [] fault = "none" /\ ie \notin Members(c)     -> "illegal"
               [] OTHER                                      -> "none"
    IN  [frame EXCEPT !.left = frame.length - IF frame.ie \in DOMAIN Message
                                              THEN Uint16(read) ELSE read,
                      !.first = FALSE,
                      !.content = With(@, ie, v, ie \in c.many),
                      !.fault = IF @ = "none" THEN f ELSE @]

Widths(fields) == [i \in DOMAIN fields |-> fields[i].n]

\* What is left of w after n octets: in step with the items, at the end of
\* the stream, or somewhere inside an item.
Junk == Field("rest_of_a_field", 1)
After(w, n) ==
    LET cut == {k \in 0 .. Len(w) : Octets(SubSeq(w, 1, k)) = n}
    IN  CASE cut # {}      -> SubSeq(w, (CHOOSE k \in cut : TRUE) + 1, Len(w))
          [] n > Octets(w) -> <<>>
          [] OTHER         -> <<Junk>>

\* What load_from finds in w when it reads fields.
Found(w, fields) ==
    LET part == SubSeq(w, 1, Len(fields))
    IN  IF Len(fields) <= Len(w) /\ Widths(fields) = Widths(part)
        THEN part ELSE <<Junk>>

\* The options load_from goes by.
Announced(ie, w) ==
    IF ie \in {"volume_threshold", "subsequent_volume_threshold"}
    THEN Options(ie)
    ELSE {IF w # <<>> /\ Head(w).f = "flags" THEN Head(w).bits ELSE {}}

LoadLeaf ==
    /\ Reads /\ AtTlv /\ ~Null /\ Head(wire).ie \in Leaves
    /\ LET ie == Head(wire).ie
           l  == Head(wire).length
           w  == Tail(wire)
       IN  \E c \in {Codec(ie, o, l) : o \in Announced(ie, w)} :
             IF c.accepts
             THEN /\ wire' = After(w, Octets(c.loaded))
                  /\ dec' = [dec EXCEPT ![Len(dec)] =
                               Loaded(Cur, ie, l, Found(w, c.loaded), "none")]
                  /\ UNCHANGED <<sender, enc, header, verdict, got, made>>
             ELSE /\ Judge(IF c.spins THEN "spins" ELSE "thrown", got)
                  /\ UNCHANGED <<wire, dec>>

LoadGroup ==
    /\ Reads /\ AtTlv /\ ~Null /\ Head(wire).ie \in DOMAIN Grouped
    /\ dec' = Append(dec, Loading(Head(wire).ie, Head(wire).length))
    /\ wire' = Tail(wire)
    /\ UNCHANGED <<sender, enc, header, verdict, got, made>>

\* Mutant: the overload of create_qer is missing as well.
CloseLoadedNoQer ==
    /\ verdict = "none" /\ Len(dec) > 1 /\ ~Reads
    /\ dec' = Append(SubSeq(dec, 1, Len(dec) - 2),
                     Loaded(dec[Len(dec) - 1], Cur.ie, Cur.length, Cur.content,
                            IF Cur.ie \in {"create_urr", "create_qer"}
                            THEN "recursion" ELSE Cur.fault))
    /\ UNCHANGED <<sender, enc, wire, header, verdict, got, made>>

\* The loop of a group has read as much as its TLV says.  The to_core_type of
\* create_urr has no overload for its own container and calls itself.
CloseLoaded ==
    /\ verdict = "none" /\ Len(dec) > 1 /\ ~Reads
    /\ dec' = Append(SubSeq(dec, 1, Len(dec) - 2),
                     Loaded(dec[Len(dec) - 1], Cur.ie, Cur.length, Cur.content,
                            IF Cur.ie = "create_urr" THEN "recursion"
                                                     ELSE Cur.fault))
    /\ UNCHANGED <<sender, enc, wire, header, verdict, got, made>>

\* The end of the loop of a message.
Finish ==
    Judge(CASE Cur.left # 0 \/ Cur.fault = "illegal"   -> "thrown"
            [] Cur.left = 0 /\ Cur.fault = "recursion" -> "crashed"
            [] OTHER                                   -> "delivered",
          Cur.content)

\* Mutant: a null pointer in a group is passed over.
LoadNullAgain ==
    /\ Reads /\ Null
    /\ IF Len(dec) > 1
       THEN UNCHANGED <<sender, enc, header, verdict, got, made>> ELSE Finish
    /\ UNCHANGED <<wire, dec>>

\* A null pointer is an error in a group and the end of a message.
LoadNull ==
    /\ Reads /\ Null
    /\ IF Len(dec) > 1 THEN Judge("thrown", got) ELSE Finish
    /\ UNCHANGED <<wire, dec>>

EndMessage ==
    /\ verdict = "none" /\ Len(dec) = 1 /\ ~Reads
    /\ Finish
    /\ UNCHANGED <<wire, dec>>

\* Where a TLV should be there are octets of another field: their values
\* decide what they are taken for.
LoadJunk ==
    /\ Reads /\ wire # <<>> /\ ~AtTlv
    /\ \E v \in {"thrown", "crashed", "spins", "delivered"} :
          Judge(v, "cause" :> <<<<Junk>>>>)
    /\ UNCHANGED <<wire, dec>>
-----------------------------------------------------------------------------
Init ==
    /\ sender \in {"own", "peer"}
    /\ \E k \in Kinds : /\ sender = "own" => k \in DOMAIN Adds
                        /\ enc = <<Frame(k)>>
    /\ wire = <<>> /\ header = <<>> /\ dec = <<>>
    /\ verdict = "none" /\ got = <<>> /\ made = {}

Build ==
    /\ Building
    /\ \/ \E ie \in Leaves :
             MayAdd(ie) /\ \E o \in Options(ie) : AddLeaf(ie, o)
       \/ \E ie \in DOMAIN Grouped : OpenGroup(ie)
       \/ CloseGroup
       \/ \E seid \in BOOLEAN : Send(seid)

Load ==
    \/ LoadHeader
    \/ LoadLeaf
    \/ LoadGroup
    \/ CloseLoaded
    \/ LoadNull
    \/ EndMessage
    \/ LoadJunk

Next == Build \/ Load

(* Loading is straight-line code of one thread: it goes on until it returns
   or throws.  Nothing is assumed of the sender. *)
Spec == Init /\ [][Next]_vars /\ WF_vars(Load)
-----------------------------------------------------------------------------
\* The types of the variables.
CodecTypeOK ==
    /\ sender \in {"own", "peer"}
    /\ \A i \in DOMAIN enc : enc[i].length \in Nat /\ enc[i].length < 65536
    /\ \A i \in DOMAIN dec : dec[i].left <= dec[i].length
    /\ verdict \in {"none", "unsent", "thrown", "crashed", "spins", "delivered"}
    /\ Cardinality(made) + Len(enc) <= Bound + 2

\* Elements that are written with more octets than their length says.
Understated(m) ==
    \/ m.ie = "fteid" /\ "chid" \in m.o /\ "ch" \notin m.o
    \/ m.ie = "sdf_filter" /\ m.o \cap {"fl", "bid"} # {}
    \/ m.ie \in {"failed_rule_id", "user_plane_ip_resource_information"}

\* Elements that load_from does not read to their end, or reads beyond it.
OutOfStep(m) ==
    \/ m.ie = "fteid" /\ "chid" \in m.o /\ "ch" \notin m.o
    \/ m.ie = "sdf_filter" /\ m.o \cap {"bid", "fd_more", "fd_less"} # {}
    \/ m.ie \in {"user_plane_ip_resource_information", "volume_threshold",
                 "subsequent_volume_threshold"}

\* Elements that arrive as something else without an error.
Altered(m) ==
    \/ OutOfStep(m)
    \/ m.ie = "fteid" /\ "ch" \in m.o /\ m.o \cap {"v4", "v6"} # {}
    \/ m.ie = "ue_ip_address" /\ "ipv6d" \in m.o /\ "v6" \notin m.o
    \/ m.ie \in {"mbr", "gbr"} /\ m.o # {}
    \/ m.ie = "node_id" /\ "long_label" \in m.o
    \/ m.ie = "failed_rule_id" /\ "wide" \in m.o
    \/ m.ie = "urr_id"
    \/ m.place = "again"

\* Elements on which load_from does not return.
Endless(m) == m.ie = "node_id" /\ "label_255" \in m.o

\* Elements that no message can carry.
Unusable(m) ==
    \/ m.length = 0
    \/ m.ie \in {"create_urr", "create_traffic_endpoint", "node_report_type",
                 "qer_correlation_id"}
    \/ m.ie = "outer_header_creation" /\ m.o = {}
    \/ m.ie = "user_id" /\ m.o # {}
    \/ m.ie = "failed_rule_id" /\ "bar" \notin m.o
    \/ m.ie = "sdf_filter" /\ "missized" \in m.o
    \/ m.ie = "forwarding_policy" /\ "misstated" \in m.o
    \/ m.ie = "node_id" /\ "name_256" \in m.o
    \/ m.place = "stray"
    \/ Endless(m)

\* The elements of the message fit into the length of its header.
Fits == Octets(enc[1].items) < 65536

(* A message arrives as it was sent when it holds none of the elements above
   and fits: every length that add_ie, the constructors and dump_to compute
   separately agrees with the one load_from checks, through every level of
   nesting. *)
SoundMessageArrives ==
    verdict # "none" /\ Fits /\ (\A m \in made : ~Altered(m) /\ ~Unusable(m))
        => verdict = "delivered" /\ got = enc[1].content

(* A message that fits and has an element that no message can carry is not
   sent, thrown away as a whole or, with a label of 255 characters, never
   done with: it never arrives without that element. *)
UnusableIsRejected ==
    verdict = "delivered" /\ Fits /\ (\A m \in made : ~Altered(m))
        => \A m \in made : ~Unusable(m)

(* What is handed to the receiver differs from what was sent only when an
   element of the listed kinds is in it; everything else that goes wrong is
   an exception (pfcp_tlv_bad_length, pfcp_msg_bad_length, illegal_ie).  In a
   message that does not fit, the end may be cut off. *)
NothingSilentlyAltered ==
    verdict = "delivered" /\ Fits /\ (\A m \in made : ~Altered(m))
        => got = enc[1].content

(* The length of every group and of the message is the number of octets that
   dump_to writes for it, modulo 2^16, unless an element understates its own. *)
LengthsAreOctets ==
    (\A m \in made : ~Understated(m))
        => \A i \in DOMAIN enc :
              enc[i].dumps => enc[i].length = Uint16(Octets(enc[i].items))

(* The receiver is brought down only by a create_urr that is not empty (or by
   octets read out of step). *)
CrashNeedsUrr ==
    verdict = "crashed" => \E m \in made : Altered(m) \/ m.ie = "create_urr"

(* Every message sent is dealt with: no loop of load_from goes on for ever or
   comes to a halt inside a group, but for the loop of dotted_to_string on a
   name of 255 characters that ends in a label of 128 or more, which
   string_to_dotted does send, and on octets read out of step, which may look
   like one. *)
EveryMessageJudged ==
    header # <<>> /\ (\A m \in made : ~Endless(m) /\ ~OutOfStep(m))
        ~> verdict \notin {"none", "spins"}
=============================================================================
