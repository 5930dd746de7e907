------------------------------ MODULE PfcpIes ------------------------------
(***************************************************************************)
(* The information elements of src/src/oai/pfcp/3gpp_29.244.hpp that are   *)
(* not grouped: one operator per class, named after it.  An element is     *)
(* described by what its constructor, dump_to and load_from do with it:    *)
(*                                                                         *)
(*   length   the length its constructor leaves in the TLV, which is what  *)
(*            add_ie of the enclosing group or message counts;             *)
(*   tlv      the length dump_to writes in the TLV;                        *)
(*   dumps    FALSE when the constructor or dump_to throws, or dump_to     *)
(*            does not return: nothing is sent;                            *)
(*   value    the fields of the core type that the element stands for;     *)
(*   dumped   the fields dump_to writes behind the TLV;                    *)
(*   accepts  whether load_from takes an element whose TLV has length l;   *)
(*   spins    whether load_from, when it does not, fails to return rather  *)
(*            than throw;                                                  *)
(*   loaded   the fields load_from reads.                                  *)
(*                                                                         *)
(* The parameter o is the set of options of the value: the presence bits   *)
(* of the core type, "text" for a string that is not empty, and what else  *)
(* the code treats differently: a number that is wider than its field, a   *)
(* text whose size is not the one it should have or is said to have.  On   *)
(* the loading side l is the length of the TLV and o what the octets read  *)
(* say, the flags first and the sizes in front of texts.  A field is a     *)
(* name, a number of octets and, for the octet that tells which fields     *)
(* follow, the options in it; the contents of the other fields are         *)
(* abstracted.                                                             *)
(***************************************************************************)
EXTENDS Naturals, Sequences

CONSTANTS
    TextOctets,      \* size of the strings that are not empty
    LongOctets,      \* size of a label that is too long for its size octet
    SdfIdDigits      \* decimal digits of an SDF filter id

(* Code sizes every string by std::string::size; ids are printed in full. *)
ASSUME TextAssumption ==
    TextOctets \in 3 .. 63 /\ LongOctets \in 64 .. 254 /\ SdfIdDigits \in 1 .. 10

Field(f, n) == [f |-> f, n |-> n, bits |-> {}]
Bits(o, n)  == [f |-> "flags", n |-> n, bits |-> o]
Opt(o, b, f, n) == IF b \in o THEN <<Field(f, n)>> ELSE <<>>

\* A field named f, or g when b says that its value is not what is written.
Cut(o, b, f, g, n) == <<Field(IF b \in o THEN g ELSE f, n)>>

Octets(fields) ==
    LET upTo[i \in 0 .. Len(fields)] ==
            IF i = 0 THEN 0 ELSE upTo[i - 1] + fields[i].n
    IN  upTo[Len(fields)]

\* An element whose two sides agree: length checked against the fields.
Agreed(fields, l) ==
    [length |-> Octets(fields), tlv |-> Octets(fields), dumps |-> TRUE,
     value |-> fields, dumped |-> fields,
     accepts |-> l = Octets(fields), spins |-> FALSE, loaded |-> fields]

\* A string alone in its element: load_from reads as many octets as the TLV
\* says.
Text(o, f, l) ==
    [Agreed(Opt(o, "text", f, TextOctets), l)
        EXCEPT !.accepts = TRUE, !.loaded = <<Field(f, l)>>]
-----------------------------------------------------------------------------
\* Elements of one or two fields of a fixed width.

pfcp_cause_ie(o, l) == Agreed(<<Field("cause_value", 1)>>, l)
pfcp_source_interface_ie(o, l) == Agreed(<<Field("interface_value", 1)>>, l)
pfcp_gate_status_ie(o, l) == Agreed(<<Field("gates", 1)>>, l)
pfcp_precedence_ie(o, l) == Agreed(<<Field("precedence", 4)>>, l)
pfcp_time_threshold_ie(o, l) == Agreed(<<Field("time_threshold", 4)>>, l)
pfcp_monitoring_time_ie(o, l) == Agreed(<<Field("monitoring_time", 4)>>, l)
pfcp_subsequent_time_threshold_ie(o, l) ==
    Agreed(<<Field("subsequent_time_threshold", 4)>>, l)
pfcp_inactivity_detection_time_ie(o, l) ==
    Agreed(<<Field("inactivity_detection_time", 4)>>, l)
pfcp_reporting_triggers_ie(o, l) ==
    Agreed(<<Field("triggers1", 1), Field("triggers2", 1)>>, l)
pfcp_report_type_ie(o, l) == Agreed(<<Field("report_type", 1)>>, l)
pfcp_offending_ie_ie(o, l) == Agreed(<<Field("offending_ie", 2)>>, l)
pfcp_destination_interface_ie(o, l) ==
    Agreed(<<Field("interface_value", 1)>>, l)
pfcp_up_function_features_ie(o, l) ==
    Agreed(<<Field("features1", 1), Field("features2", 1)>>, l)
pfcp_apply_action_ie(o, l) == Agreed(<<Field("apply_action", 1)>>, l)
pfcp_pdr_id_ie(o, l) == Agreed(<<Field("rule_id", 2)>>, l)
pfcp_bar_id_ie(o, l) == Agreed(<<Field("bar_id", 1)>>, l)
pfcp_cp_function_features_ie(o, l) == Agreed(<<Field("features", 1)>>, l)
pfcp_outer_header_removal_ie(o, l) ==
    Agreed(<<Field("outer_header_removal_description", 1)>>, l)
pfcp_recovery_time_stamp_ie(o, l) ==
    Agreed(<<Field("recovery_time_stamp", 4)>>, l)
\* Mutant: load_from asks for the two octets of a PDR id.
pfcp_far_id_ieShort(o, l) ==
    [Agreed(<<Field("far_id", 4)>>, l) EXCEPT !.accepts = (l = 2)]
pfcp_far_id_ie(o, l) == Agreed(<<Field("far_id", 4)>>, l)
pfcp_qer_id_ie(o, l) == Agreed(<<Field("qer_id", 4)>>, l)
pfcp_user_plane_inactivity_timer_ie(o, l) ==
    Agreed(<<Field("user_plane_inactivity_timer", 4)>>, l)
pfcp_qfi_ie(o, l) == Agreed(<<Field("qfi", 1)>>, l)

\* load_from asks for a length of one of an element of four octets.
pfcp_qer_correlation_id_ie(o, l) ==
    [Agreed(<<Field("qer_correlation_id", 4)>>, l) EXCEPT !.accepts = (l = 1)]

\* dump_to converts the id and then writes the unconverted variable; the
\* reader converts what it gets.
pfcp_urr_id_ie(o, l) ==
    [Agreed(<<Field("urr_id", 4)>>, l)
        EXCEPT !.dumped = <<Field("urr_id_in_host_order", 4)>>]

\* The constructor keeps the low 40 bits of each uint64_t.
pfcp_mbr_ie(o, l) ==
    [Agreed(<<Field("ul_mbr", 5), Field("dl_mbr", 5)>>, l)
        EXCEPT !.dumped = Cut(o, "ul_wide", "ul_mbr", "ul_mbr_low_40_bits", 5)
                       \o Cut(o, "dl_wide", "dl_mbr", "dl_mbr_low_40_bits", 5)]

\* Mutant: dump_to takes them in the other order.
pfcp_gbr_ieSwapped(o, l) ==
    [Agreed(<<Field("ul_gbr", 5), Field("dl_gbr", 5)>>, l)
        EXCEPT !.dumped = <<Field("dl_gbr", 5), Field("ul_gbr", 5)>>]

pfcp_gbr_ie(o, l) ==
    [Agreed(<<Field("ul_gbr", 5), Field("dl_gbr", 5)>>, l)
        EXCEPT !.dumped = Cut(o, "ul_wide", "ul_gbr", "ul_gbr_low_40_bits", 5)
                       \o Cut(o, "dl_wide", "dl_gbr", "dl_gbr_low_40_bits", 5)]

\* The constructor leaves upfr behind.
pfcp_node_report_type_ie(o, l) ==
    [Agreed(<<Bits(o, 1)>>, l) EXCEPT !.dumped = <<Bits({}, 1)>>]
-----------------------------------------------------------------------------
\* Strings.

pfcp_network_instance_ie(o, l) == Text(o, "network_instance", l)
pfcp_application_id_ie(o, l) == Text(o, "application_id", l)
pfcp_activate_predefined_rules_ie(o, l) ==
    [Text(o, "predefined_rules_name", l) EXCEPT !.accepts = (l # 0)]
pfcp_deactivate_predefined_rules_ie(o, l) ==
    [Text(o, "predefined_rules_name", l) EXCEPT !.accepts = (l # 0)]

\* dump_to refuses a marking that is not two octets long.
pfcp_transport_level_marking_ie(o, l) ==
    [Agreed(Opt(o, "text", "transport_level_marking", 2), l)
        EXCEPT !.dumps = ("text" \in o),
               !.accepts = (l = 2),
               !.loaded = <<Field("transport_level_marking", 2)>>]

\* The first octet is the size of the identifier behind it as the caller
\* states it; the length in the TLV goes by the identifier, and load_from
\* compares the two.
pfcp_forwarding_policy_ie(o, l) ==
    LET all == <<Bits(o, 1)>>
                  \o Opt(o, "text", "forwarding_policy_identifier", TextOctets)
    IN  [Agreed(all, l)
            EXCEPT !.accepts = (l = Octets(all) /\ "misstated" \notin o)]
-----------------------------------------------------------------------------
\* Elements whose first octet tells which fields follow.

\* With CHOOSE set the constructor clears the address bits and there is
\* neither a TEID nor an address.  dump_to writes the choose id whenever chid
\* is set, length and load_from know of it only under ch.
pfcp_fteid_ie(o, l) ==
    LET kept   == IF "ch" \in o THEN o \ {"v4", "v6"} ELSE o
        where  == IF "ch" \in o THEN <<>>
                  ELSE <<Field("teid", 4)>> \o Opt(o, "v4", "ipv4_address", 4)
                          \o Opt(o, "v6", "ipv6_address", 16)
        chosen == IF "ch" \in o THEN Opt(o, "chid", "choose_id", 1) ELSE <<>>
        all    == <<Bits(kept, 1)>> \o where
    IN  [Agreed(all \o chosen, l)
            EXCEPT !.value[1] = Bits(o, 1),
                   !.dumped = all \o Opt(o, "chid", "choose_id", 1)]

\* Flow label and filter id are written and not counted; the id is written
\* as decimal text and read as four octets; there is no check of the length.
\* The constructor throws at a text of fixed size that has another; the size
\* of the description is the one the caller states, and load_from goes by it.
pfcp_sdf_filter_ie(o, l) ==
    LET stated == CASE "fd_more" \in o -> TextOctets + 1
                    [] "fd_less" \in o -> TextOctets - 1
                    [] OTHER           -> TextOctets
        Fixed(n) == <<Bits(o, 1), Field("spare", 1)>>
                       \o Opt(o, "fd", "length_of_flow_description", 2)
                       \o Opt(o, "fd", "flow_description", n)
                       \o Opt(o, "ttc", "tos_traffic_class", 2)
                       \o Opt(o, "spi", "security_parameter_index", 4)
        label == Opt(o, "fl", "flow_label", 3)
        id    == Opt(o, "bid", "sdf_filter_id", 4)
    IN  [Agreed(Fixed(TextOctets), l)
            EXCEPT !.dumps = ("missized" \notin o),
                   !.value = Fixed(TextOctets) \o label \o id,
                   !.dumped = Fixed(TextOctets) \o label
                      \o Opt(o, "bid", "sdf_filter_id_as_text", SdfIdDigits),
                   !.accepts = TRUE,
                   !.loaded = Fixed(stated) \o label \o id]

\* load_from does not read the flags octet: it consults the flags of the
\* freshly constructed object, which the constructor from a TLV does not
\* initialise, so that on the loading side o is arbitrary.
pfcp_volume_threshold_ie(o, l) ==
    LET volumes == Opt(o, "tovol", "total_volume", 8)
                      \o Opt(o, "ulvol", "uplink_volume", 8)
                      \o Opt(o, "dlvol", "downlink_volume", 8)
    IN  [Agreed(<<Bits(o, 1)>> \o volumes, l)
            EXCEPT !.accepts = (l >= 1), !.loaded = volumes]

pfcp_subsequent_volume_threshold_ie(o, l) ==
    LET volumes == Opt(o, "tovol", "total_volume", 8)
                      \o Opt(o, "ulvol", "uplink_volume", 8)
                      \o Opt(o, "dlvol", "downlink_volume", 8)
    IN  [Agreed(<<Bits(o, 1)>> \o volumes, l)
            EXCEPT !.accepts = (l >= 1), !.loaded = volumes]

pfcp_f_seid_ie(o, l) ==
    Agreed(<<Bits(o, 1), Field("seid", 8)>>
              \o Opt(o, "v4", "ipv4_address", 4)
              \o Opt(o, "v6", "ipv6_address", 16), l)

\* A name travels as labels behind their sizes, one octet longer than its
\* text.  string_to_dotted counts in a uint8_t and does not return for a name
\* of 256 characters or more ("name_256"): how many characters it takes.
string_to_dotted(o) ==
    CASE "name_256" \in o   -> 256
      [] "label_255" \in o  -> 255
      [] "long_label" \in o -> LongOctets
      [] OTHER              -> TextOctets

\* dotted_to_string takes a size octet of 64 to 127 for a character and, char
\* being signed, one of 128 or more for a jump backwards, in front of the name
\* and so to its end: another name comes out ("long_label").  From the last
\* label of a name of 255 characters ("label_255": a label of 255, say) the
\* jump leads to the beginning again, without end.  Characters are ASCII.
dotted_to_string(o) ==
    IF "long_label" \in o THEN "name_of_other_labels" ELSE "fqdn"

\* The type is one of three, or one the code does not know and passes over.
pfcp_node_id_ie(o, l) ==
    LET n == string_to_dotted(o)
        known == <<Bits(o, 1)>> \o Opt(o, "ipv4", "ipv4_address", 4)
                    \o Opt(o, "ipv6", "ipv6_address", 16)
    IN  [Agreed(known \o Opt(o, "fqdn", "fqdn", n + 1), l)
            EXCEPT !.dumps = ("name_256" \notin o),
                   !.dumped = known \o Opt(o, "fqdn", dotted_to_string(o), n + 1),
                   !.accepts = CASE "ipv4" \in o -> l = 5
                                 [] "ipv6" \in o -> l = 17
                                 [] "fqdn" \in o -> l > 1 /\ "label_255" \notin o
                                 [] OTHER        -> TRUE,
                   !.spins = (l > 1 /\ "label_255" \in o),
                   !.loaded = known \o Opt(o, "fqdn", "fqdn", l - 1)]

\* The four description bits; a description without any is too short for
\* load_from.
pfcp_outer_header_creation_ie(o, l) ==
    LET With(S, f, n) == IF o \cap S # {} THEN <<Field(f, n)>> ELSE <<>>
    IN  [Agreed(<<Bits(o, 2)>>
                  \o With({"gtpu4", "gtpu6"}, "teid", 4)
                  \o With({"gtpu4", "udp4"}, "ipv4_address", 4)
                  \o With({"gtpu6", "udp6"}, "ipv6_address", 16)
                  \o With({"udp4"}, "port_number", 2), l)
            EXCEPT !.accepts = (l >= 4)]

\* The delegation bits are kept with an IPv6 address only.
pfcp_ue_ip_address_ie(o, l) ==
    LET kept == IF "v6" \in o THEN o ELSE o \ {"ipv6d"}
    IN  [Agreed(<<Bits(kept, 1)>> \o Opt(kept, "v4", "ipv4_address", 4)
                  \o Opt(kept, "v6", "ipv6_address", 16)
                  \o Opt(kept, "ipv6d", "ipv6_prefix_delegation_bits", 1), l)
            EXCEPT !.value[1] = Bits(o, 1)]

\* The length leaves out the type octet, and the check of load_from lets only
\* the type with a one-octet id through, of which dump_to keeps the low octet.
\* An unknown type has length zero, which dump_to refuses.
pfcp_failed_rule_id_ie(o, l) ==
    LET n   == CASE "bar" \in o -> 1 [] "pdr" \in o -> 2
                 [] o \cap {"far", "qer", "urr"} # {} -> 4 [] OTHER -> 0
        all == <<Bits(o, 1), Field("rule_id_value", n)>>
    IN  [Agreed(all, l)
            EXCEPT !.length = n, !.tlv = n, !.dumps = (n # 0),
                   !.dumped = <<Bits(o, 1)>>
                      \o Cut(o, "wide", "rule_id_value", "rule_id_low_octet", n),
                   !.accepts = (l = 1 /\ l = n)]

\* The one-octet TEID range is written as four octets, the two-octet network
\* instance too; the length counts neither the range nor the wider instance.
pfcp_user_plane_ip_resource_information_ie(o, l) ==
    LET head == Bits(o, 1)
        addr == Opt(o, "v4", "ipv4_address", 4)
                   \o Opt(o, "v6", "ipv6_address", 16)
        tail == Opt(o, "assosi", "source_interface", 1)
        kept == <<head, Field("teid_range", 1)>> \o addr
                   \o Opt(o, "assoni", "network_instance", 2) \o tail
    IN  [Agreed(kept, l)
            EXCEPT !.length = @ - 1, !.tlv = @ - 1, !.accepts = (l >= 1),
                   !.dumped = <<head, Field("teid_range", 4)>> \o addr
                      \o Opt(o, "assoni", "network_instance", 4) \o tail]

\* dump_to adds the lengths that the constructor has added already, and
\* load_from asks for a length of one.
pfcp_user_id_ie(o, l) ==
    LET Part(b, size, f) == Opt(o, b, size, 1) \o Opt(o, b, f, TextOctets)
        all == <<Bits(o, 1)>> \o Part("imsif", "length_of_imsi", "imsi")
                  \o Part("imeif", "length_of_imei", "imei")
                  \o Part("msisdnf", "length_of_msisdn", "msisdn")
                  \o Part("naif", "length_of_nai", "nai")
    IN  [Agreed(all, l) EXCEPT !.tlv = 2 * @ - 1, !.accepts = (l = 1)]
=============================================================================
