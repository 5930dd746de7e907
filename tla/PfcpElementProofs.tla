------------------------- MODULE PfcpElementProofs --------------------------
(***************************************************************************)
(* Lemmas about the information elements of PfcpIes and PfcpContainers:    *)
(* how octets add up, what the constructor, dump_to and load_from of every *)
(* element make of its length, and which elements are read back as they    *)
(* were written.  Induction over sequences rests on the least element that *)
(* every nonempty set of natural numbers has.                              *)
(***************************************************************************)
EXTENDS PfcpCodec, SequenceTheorems, WellFoundedInduction, TLAPS

(* Every nonempty set of natural numbers has a least element. *)
LEMMA LeastNatural ==
  ASSUME NEW T, T \subseteq Nat, T # {}
  PROVE  \E x \in T : \A y \in T : x <= y
<1> DEFINE R == OpToRel(<, Nat)
<1>1. IsWellFoundedOn(R, Nat)
  BY NatLessThanWellFounded
<1>2. \A x, y \in Nat : x < y => <<x, y>> \in R
  BY Zenon DEF OpToRel
<1> HIDE DEF R
<1>3. PICK x \in T : \A y \in T : ~(<<y, x>> \in R)
  BY <1>1, WFMin
<1>4. \A y \in T : ~(y < x)
  BY <1>2, <1>3
<1> QED
  BY <1>4

(* Induction over the naturals, with a set in place of a predicate. *)
LEMMA SetInduction ==
  ASSUME NEW S, 0 \in S, \A n \in Nat : n \in S => n + 1 \in S
  PROVE  Nat \subseteq S
<1> SUFFICES ASSUME Nat \ S # {} PROVE FALSE
  OBVIOUS
<1>1. PICK x \in Nat \ S : \A y \in Nat \ S : x <= y
  BY LeastNatural
<1>2. x - 1 \in Nat /\ x - 1 \in S
  BY <1>1
<1> QED
  BY <1>2

-----------------------------------------------------------------------------
(* Fields, TLVs and how their octets add up. *)

(* The names of the fields that are not a flags octet. *)
DataNames ==
  {"application_id", "apply_action", "bar_id", "cause_value", "choose_id", "dl_gbr",
   "dl_mbr", "downlink_volume", "far_id", "features", "features1", "features2",
   "flow_description", "flow_label", "forwarding_policy_identifier", "fqdn", "gates",
   "imei", "imsi", "inactivity_detection_time", "interface_value", "ipv4_address",
   "ipv6_address", "ipv6_prefix_delegation_bits", "length_of_flow_description",
   "length_of_imei", "length_of_imsi", "length_of_msisdn", "length_of_nai",
   "monitoring_time", "msisdn", "nai", "network_instance", "offending_ie",
   "outer_header_removal_description", "port_number", "precedence",
   "predefined_rules_name", "qer_correlation_id", "qer_id", "qfi",
   "recovery_time_stamp", "report_type", "rule_id", "rule_id_value", "sdf_filter_id",
   "sdf_filter_id_as_text", "security_parameter_index", "seid", "source_interface",
   "spare", "subsequent_time_threshold", "teid", "teid_range", "rest_of_a_field",
   "time_threshold", "tos_traffic_class", "total_volume", "transport_level_marking",
   "triggers1", "triggers2", "ul_gbr", "ul_mbr", "uplink_volume", "urr_id",
   "urr_id_in_host_order", "user_plane_inactivity_timer", "ul_mbr_low_40_bits",
   "dl_mbr_low_40_bits", "ul_gbr_low_40_bits", "dl_gbr_low_40_bits",
   "name_of_other_labels", "rule_id_low_octet"}

OptionNames == UNION UNION {Options(ie) : ie \in Leaves}

FieldType == [f : DataNames \cup {"flags"}, n : Nat, bits : SUBSET OptionNames]
TlvType == [f : {"tlv"}, n : {4}, ie : Leaves \cup DOMAIN Grouped, length : Nat]
ItemType == FieldType \cup TlvType

Positive(s) == \A i \in DOMAIN s : s[i].n > 0

(* f[i] is the number of octets of the first i items of s. *)
Counts(s, f, k) ==
  /\ f \in [0 .. k -> Nat]
  /\ f[0] = 0
  /\ \A i \in 1 .. k : f[i] = f[i - 1] + s[i].n

(* Such a function exists for every sequence. *)
LEMMA CountExists ==
  ASSUME NEW s, NEW n \in Nat, \A i \in 1 .. n : s[i].n \in Nat
  PROVE  \E f : Counts(s, f, n)
<1> DEFINE S == {k \in Nat : k <= n => \E f : Counts(s, f, k)}
<1>1. 0 \in S
  <2>1. Counts(s, [i \in 0 .. 0 |-> 0], 0)
    BY DEF Counts
  <2> QED
    BY <2>1
<1>2. ASSUME NEW k \in Nat, k \in S PROVE k + 1 \in S
  <2> SUFFICES ASSUME k + 1 <= n PROVE \E f : Counts(s, f, k + 1)
    OBVIOUS
  <2>1. PICK f : Counts(s, f, k)
    BY <1>2
  <2> DEFINE g == [i \in 0 .. k + 1 |-> IF i <= k THEN f[i] ELSE f[k] + s[k + 1].n]
  <2>2. Counts(s, g, k + 1)
    BY <2>1 DEF Counts
  <2> QED
    BY <2>2
<1> HIDE DEF S
<1>3. n \in S
  BY <1>1, <1>2, SetInduction
<1> QED
  BY <1>3 DEF S

(* The equations of Counts determine it. *)
LEMMA CountUnique ==
  ASSUME NEW s, NEW n \in Nat, NEW f, NEW g, Counts(s, f, n),
         g[0] = 0, \A i \in 1 .. n : g[i] = g[i - 1] + s[i].n
  PROVE  \A k \in 0 .. n : f[k] = g[k]
<1> DEFINE S == {k \in Nat : k <= n => f[k] = g[k]}
<1>1. 0 \in S
  BY DEF Counts
<1>2. ASSUME NEW k \in Nat, k \in S PROVE k + 1 \in S
  BY <1>2 DEF Counts
<1> HIDE DEF S
<1>3. \A k \in 0 .. n : k \in S
  BY <1>1, <1>2, SetInduction
<1> QED
  BY <1>3 DEF S

(* Octets is the last value of it. *)
LEMMA OctetsCount ==
  ASSUME NEW s, Len(s) \in Nat, NEW f, Counts(s, f, Len(s))
  PROVE  Octets(s) = f[Len(s)]
<1> DEFINE Def(g) == [i \in 0 .. Len(s) |-> IF i = 0 THEN 0 ELSE g[i - 1] + s[i].n]
           u == CHOOSE g : g = Def(g)
<1>1. f = Def(f)
  BY DEF Counts
<1>2. u = Def(u)
  BY <1>1, Zenon
<1>3. Octets(s) = u[Len(s)]
  BY Zenon DEF Octets
<1> HIDE DEF u
<1>4. u[0] = 0 /\ \A i \in 1 .. Len(s) : u[i] = u[i - 1] + s[i].n
  BY <1>2
<1>5. \A k \in 0 .. Len(s) : f[k] = u[k]
  BY <1>4, CountUnique
<1> QED
  BY <1>3, <1>5

(* Items have a size. *)
LEMMA ItemsSized ==
  ASSUME NEW s \in Seq(ItemType)
  PROVE  /\ Len(s) \in Nat /\ DOMAIN s = 1 .. Len(s)
         /\ \A i \in 1 .. Len(s) : s[i] \in ItemType /\ s[i].n \in Nat
BY DEF ItemType, FieldType, TlvType

(* The number of octets is a number. *)
LEMMA OctetsNat ==
  ASSUME NEW s \in Seq(ItemType)
  PROVE  Octets(s) \in Nat
<1>1. PICK f : Counts(s, f, Len(s))
  BY ItemsSized, CountExists
<1> QED
  BY SMTT(60), <1>1, ItemsSized, OctetsCount DEF Counts

(* Octets of nothing and of one item. *)
LEMMA OctetsFew ==
  /\ Octets(<<>>) = 0
  /\ \A x \in ItemType : Octets(<<x>>) = x.n
<1>1. Octets(<<>>) = 0
  <2>1. Counts(<<>>, [i \in 0 .. 0 |-> 0], 0) /\ Len(<<>>) = 0
    BY DEF Counts
  <2> QED
    BY <2>1, OctetsCount
<1>2. ASSUME NEW x \in ItemType PROVE Octets(<<x>>) = x.n
  <2> DEFINE f == [i \in 0 .. 1 |-> IF i = 0 THEN 0 ELSE x.n]
  <2>1. Len(<<x>>) = 1 /\ <<x>>[1] = x /\ x.n \in Nat
    BY DEF ItemType, FieldType, TlvType
  <2>2. Counts(<<x>>, f, 1)
    BY <2>1 DEF Counts
  <2>3. Octets(<<x>>) = f[1]
    BY <2>1, <2>2, OctetsCount
  <2> QED
    BY <2>3
<1> QED
  BY <1>1, <1>2

(* Octets of a concatenation. *)
LEMMA OctetsConcat ==
  ASSUME NEW s \in Seq(ItemType), NEW t \in Seq(ItemType)
  PROVE  Octets(s \o t) = Octets(s) + Octets(t)
<1>1. PICK f : Counts(s, f, Len(s))
  BY ItemsSized, CountExists
<1>2. PICK g : Counts(t, g, Len(t))
  BY ItemsSized, CountExists
<1> DEFINE m == Len(s)
           n == Len(t)
           h == [i \in 0 .. m + n |-> IF i <= m THEN f[i] ELSE f[m] + g[i - m]]
<1>3. m \in Nat /\ n \in Nat /\ Len(s \o t) = m + n
  OBVIOUS
<1>4. \A i \in 1 .. m + n : (s \o t)[i] = IF i <= m THEN s[i] ELSE t[i - m]
  BY ConcatProperties
<1>5. Counts(s \o t, h, m + n)
  <2>1. h \in [0 .. m + n -> Nat] /\ h[0] = 0
    <3>1. f \in [0 .. m -> Nat] /\ g \in [0 .. n -> Nat] /\ f[0] = 0
      BY <1>1, <1>2 DEF Counts
    <3> HIDE DEF m, n
    <3>2. ASSUME NEW i \in 0 .. m + n
          PROVE  (IF i <= m THEN f[i] ELSE f[m] + g[i - m]) \in Nat
      <4>1. CASE i <= m
        BY <1>3, <3>1, <4>1
      <4>2. CASE i > m
        <5>1. i - m \in 0 .. n /\ m \in 0 .. m
          BY <1>3, <4>2
        <5>2. g[i - m] \in Nat /\ f[m] \in Nat
          BY <3>1, <5>1
        <5> QED
          BY <1>3, <4>2, <5>2
      <4> QED
        BY <1>3, <4>1, <4>2
    <3> QED
      BY <1>3, <3>1, <3>2
  <2>2. ASSUME NEW i \in 1 .. m + n PROVE h[i] = h[i - 1] + (s \o t)[i].n
    <3>1. CASE i <= m
      BY <1>1, <1>3, <1>4, <3>1 DEF Counts
    <3>2. CASE i > m
      <4>1. i - m \in 1 .. n /\ (s \o t)[i] = t[i - m]
        BY <1>3, <1>4, <3>2
      <4>2. g[i - m] = g[(i - m) - 1] + t[i - m].n
        BY <1>2, <4>1 DEF Counts
      <4>3. h[i] = f[m] + g[i - m]
        BY <1>3, <3>2
      <4>4. h[i - 1] = f[m] + g[(i - m) - 1]
        <5>1. CASE i - 1 = m
          BY SMTT(60), <1>1, <1>2, <1>3, <5>1 DEF Counts
        <5>2. CASE i - 1 > m
          BY <1>3, <5>2
        <5> QED
          BY <1>3, <3>2, <5>1, <5>2
      <4>5. f[m] \in Nat /\ g[(i - m) - 1] \in Nat /\ t[i - m].n \in Nat
        BY SMTT(60), <1>1, <1>2, <1>3, <4>1, ItemsSized DEF Counts
      <4> HIDE DEF h, m, n
      <4> QED
        BY <4>1, <4>2, <4>3, <4>4, <4>5
    <3> QED
      BY <1>3, <3>1, <3>2
  <2> QED
    BY <2>1, <2>2 DEF Counts
<1>6. Octets(s \o t) = h[m + n] /\ Octets(s) = f[m] /\ Octets(t) = g[n]
  BY <1>1, <1>2, <1>3, <1>5, OctetsCount
<1>7. h[m + n] = f[m] + g[n]
  <2>1. CASE n = 0
    BY <1>1, <1>2, <1>3, <2>1 DEF Counts
  <2>2. CASE n > 0
    BY <1>3, <2>2
  <2> QED
    BY <1>3, <2>1, <2>2
<1> QED
  BY <1>6, <1>7

(* Items that are all there have octets. *)
LEMMA OctetsPositive ==
  ASSUME NEW s \in Seq(ItemType), Positive(s)
  PROVE  Octets(s) >= Len(s)
<1>1. PICK f : Counts(s, f, Len(s))
  BY ItemsSized, CountExists
<1> DEFINE S == {k \in Nat : k <= Len(s) => f[k] >= k}
<1>2. 0 \in S
  BY <1>1 DEF Counts
<1>3. ASSUME NEW k \in Nat, k \in S PROVE k + 1 \in S
  <2> SUFFICES ASSUME k + 1 <= Len(s) PROVE f[k + 1] >= k + 1
    OBVIOUS
  <2>1. f[k + 1] = f[k] + s[k + 1].n /\ f[k] \in Nat
    BY <1>1 DEF Counts
  <2>2. s[k + 1].n > 0 /\ s[k + 1].n \in Nat
    BY ItemsSized DEF Positive
  <2> QED
    BY <1>3, <2>1, <2>2
<1> HIDE DEF S
<1>4. Len(s) \in S
  BY <1>2, <1>3, SetInduction
<1> QED
  BY <1>1, <1>4, OctetsCount DEF S

-----------------------------------------------------------------------------
(* The fields of an element. *)

(* s holds fields of n octets together. *)
Block(s, n) == s \in Seq(FieldType) /\ Positive(s) /\ n \in Nat /\ Octets(s) = n

(* Fields are items. *)
LEMMA FieldsAreItems ==
  ASSUME NEW s \in Seq(FieldType)
  PROVE  s \in Seq(ItemType)
BY DEF ItemType

(* One field. *)
LEMMA BlockOne ==
  ASSUME NEW x \in FieldType, x.n > 0
  PROVE  Block(<<x>>, x.n)
<1>1. x \in ItemType /\ x.n \in Nat
  BY DEF ItemType, FieldType
<1> QED
  BY <1>1, OctetsFew DEF Block, Positive

(* A single field. *)
LEMMA BlockField ==
  ASSUME NEW f \in DataNames, NEW n \in Nat \ {0}
  PROVE  Block(<<Field(f, n)>>, n)
<1>1. Field(f, n) \in FieldType /\ Field(f, n).n = n
  BY DEF Field, FieldType
<1> QED
  BY <1>1, BlockOne

(* A single field of flags. *)
LEMMA BlockBits ==
  ASSUME NEW o \in SUBSET OptionNames, NEW n \in Nat \ {0}
  PROVE  Block(<<Bits(o, n)>>, n)
<1>1. Bits(o, n) \in FieldType /\ Bits(o, n).n = n
  BY DEF Bits, FieldType
<1> QED
  BY <1>1, BlockOne

(* No field at all. *)
LEMMA BlockNone == Block(<<>>, 0)
BY OctetsFew DEF Block, Positive

(* A field that an option brings along. *)
LEMMA BlockOpt ==
  ASSUME NEW o, NEW b, NEW f \in DataNames, NEW n \in Nat \ {0}
  PROVE  Block(Opt(o, b, f, n), IF b \in o THEN n ELSE 0)
BY BlockField, BlockNone DEF Opt

(* One block behind another. *)
LEMMA BlockConcat ==
  ASSUME NEW s, NEW m, Block(s, m), NEW t, NEW n, Block(t, n)
  PROVE  Block(s \o t, m + n)
<1>1. s \in Seq(FieldType) /\ t \in Seq(FieldType) /\ m \in Nat /\ n \in Nat
  BY DEF Block
<1>2. Octets(s \o t) = m + n
  BY <1>1, FieldsAreItems, OctetsConcat DEF Block
<1>3. s \o t \in Seq(FieldType) /\ Positive(s \o t)
  <2>1. /\ s \o t \in Seq(FieldType) /\ Len(s \o t) = Len(s) + Len(t)
        /\ \A i \in 1 .. Len(s) + Len(t) :
             (s \o t)[i] = IF i <= Len(s) THEN s[i] ELSE t[i - Len(s)]
    BY <1>1, ConcatProperties
  <2>2. \A i \in 1 .. Len(s) : s[i].n > 0
    BY <1>1 DEF Block, Positive
  <2>3. \A i \in 1 .. Len(t) : t[i].n > 0
    BY <1>1 DEF Block, Positive
  <2>4. ASSUME NEW i \in 1 .. Len(s) + Len(t) PROVE (s \o t)[i].n > 0
    <3>1. Len(s) \in Nat /\ Len(t) \in Nat
      BY <1>1
    <3>2. CASE i <= Len(s)
      BY <2>1, <2>2, <3>1, <3>2
    <3>3. CASE i > Len(s)
      BY <2>1, <2>3, <3>1, <3>3
    <3> QED
      BY <3>1, <3>2, <3>3
  <2> QED
    BY <1>1, <2>1, <2>4 DEF Positive
<1> QED
  BY <1>1, <1>2, <1>3 DEF Block

(* A concatenation begins with its first part. *)
LEMMA FirstOfConcat ==
  ASSUME NEW s \in Seq(ItemType), s # <<>>, NEW t \in Seq(ItemType)
  PROVE  /\ s \o t # <<>> /\ Head(s \o t) = Head(s) /\ Head(s) = s[1]
         /\ \A ie : Announced(ie, s \o t) = Announced(ie, s)
<1>1. /\ s \o t \in Seq(ItemType) /\ Len(s \o t) = Len(s) + Len(t)
      /\ Len(s) \in Nat \ {0} /\ Len(t) \in Nat
      /\ (s \o t)[1] = s[1]
  BY ConcatProperties, EmptySeq
<1>2. s \o t # <<>> /\ Head(s \o t) = (s \o t)[1] /\ Head(s) = s[1]
  BY <1>1
<1> QED
  BY <1>1, <1>2 DEF Announced
-----------------------------------------------------------------------------
(* What every element does with its length. *)

(* The elements of one or two fields of a fixed width. *)
FixedNames ==
  {"cause", "source_interface", "gate_status", "precedence", "time_threshold",
   "monitoring_time", "subsequent_time_threshold",
   "inactivity_detection_time", "reporting_triggers", "report_type",
   "offending_ie", "destination_interface", "up_function_features",
   "apply_action", "pdr_id", "bar_id", "cp_function_features",
   "outer_header_removal", "recovery_time_stamp", "far_id", "qer_id",
   "user_plane_inactivity_timer", "qfi"}

(* The other elements that new_pfcp_ie_from_stream makes. *)
OptionalNames ==
  {"fteid", "sdf_filter", "volume_threshold", "subsequent_volume_threshold",
   "f_seid", "node_id", "outer_header_creation", "ue_ip_address",
   "failed_rule_id", "user_plane_ip_resource_information", "user_id",
   "network_instance", "application_id", "forwarding_policy",
   "activate_predefined_rules", "deactivate_predefined_rules",
   "transport_level_marking", "urr_id", "qer_correlation_id", "mbr", "gbr"}

GroupNames ==
  {"pdi", "create_pdr", "update_forwarding_parameters", "forwarding_parameters",
   "duplicating_parameters", "create_far", "create_urr", "create_qer",
   "create_traffic_endpoint", "created_pdr", "update_pdr", "update_far",
   "update_urr", "update_qer", "remove_pdr", "remove_far", "remove_urr",
   "remove_qer", "downlink_data_report",
   "update_bar_within_pfcp_session_report_response"}

(* The tables by name. *)
LEMMA Names ==
  /\ DOMAIN Grouped = GroupNames
  /\ Decodable = FixedNames \cup OptionalNames
                    \cup (GroupNames \ {"create_traffic_endpoint"})
  /\ Leaves = FixedNames \cup OptionalNames \cup {"node_report_type"}
<1>1. DOMAIN Grouped = GroupNames
  BY DEF Grouped, GroupNames
<1>2. Decodable = FixedNames \cup OptionalNames
                    \cup (GroupNames \ {"create_traffic_endpoint"})
  BY DEF Decodable, GroupedCases, EarlyCases, MiddleCases, LateCases, FixedNames,
         OptionalNames, GroupNames
<1>3. /\ FixedNames \cap GroupNames = {} /\ OptionalNames \cap GroupNames = {}
      /\ "node_report_type" \notin GroupNames
  BY DEF FixedNames, OptionalNames, GroupNames
<1> QED
  BY <1>1, <1>2, <1>3 DEF Leaves

(* The length that the constructor leaves is a number, and no more than what
   dump_to writes. *)
Formed(ie, o) ==
  LET c == Codec(ie, o, 0)
  IN  /\ c.length \in Nat /\ c.tlv \in Nat /\ c.dumps \in BOOLEAN
      /\ c.dumped \in Seq(FieldType)
      /\ c.dumps => Positive(c.dumped) /\ c.length <= Octets(c.dumped)

(* It is what dump_to writes, for the elements that do not understate. *)
Counted(ie, o) ==
  LET c == Codec(ie, o, 0)
  IN  \A m : /\ m.ie = ie /\ m.o = o /\ ~Understated(m)
             /\ c.dumps
             => c.length = Octets(c.dumped)

(* An element that load_from accepts is read as it was written, it was written
   as it was meant, and the length in its TLV is the one that was counted. *)
ReadBack(ie, o) ==
  LET c == Codec(ie, o, 0)
  IN  \A m : /\ m.ie = ie /\ m.o = o /\ ~Altered(m)
             /\ c.dumps /\ c.tlv # 0 /\ ie \in Decodable
             => /\ c.dumped # <<>>
                /\ \A o2 \in Announced(ie, c.dumped) :
                      Codec(ie, o2, c.tlv).accepts
                        => /\ Codec(ie, o2, c.tlv).loaded = c.dumped
                           /\ c.value = c.dumped
                           /\ c.tlv = c.length
                           /\ m.length = c.length /\ m.place # "stray"
                                => ~Unusable(m)

(* An element that a message can carry is written and accepted. *)
Taken(ie, o) ==
  LET c == Codec(ie, o, 0)
  IN  \A m : /\ m.ie = ie /\ m.o = o /\ m.length = c.length
             /\ ~Altered(m) /\ ~Unusable(m)
             => /\ c.dumps /\ c.tlv # 0 /\ ie \in Decodable
                /\ \A o2 \in Announced(ie, c.dumped) :
                      Codec(ie, o2, c.tlv).accepts

Sorted(ie, o) == Formed(ie, o) /\ Counted(ie, o) /\ ReadBack(ie, o) /\ Taken(ie, o)

(* The elements that Understated, Altered and Unusable know by name. *)
SpecialNames ==
  {"fteid", "sdf_filter", "failed_rule_id", "user_plane_ip_resource_information",
   "ue_ip_address", "urr_id", "volume_threshold", "subsequent_volume_threshold",
   "create_urr", "create_traffic_endpoint", "node_report_type",
   "qer_correlation_id", "outer_header_creation", "user_id", "mbr", "gbr",
   "node_id", "forwarding_policy"}

(* The record that Agreed makes. *)
LEMMA AgreedParts ==
  \A s, l : /\ Agreed(s, l).length = Octets(s) /\ Agreed(s, l).tlv = Octets(s)
            /\ Agreed(s, l).dumps = TRUE /\ Agreed(s, l).value = s
            /\ Agreed(s, l).dumped = s /\ Agreed(s, l).loaded = s
            /\ Agreed(s, l).accepts = (l = Octets(s))
BY DEF Agreed

(* The others, when both sides agree on their fields. *)
LEMMA AgreedElement ==
  ASSUME NEW ie \in Decodable \ SpecialNames, NEW o, NEW s, NEW n \in Nat \ {0},
         Block(s, n),
         \A l : Codec(ie, o, l) = Agreed(s, l),
         \A o2 \in Announced(ie, s) : \A l : Codec(ie, o2, l) = Agreed(s, l)
  PROVE  Sorted(ie, o)
<1> DEFINE c == Codec(ie, o, 0)
<1>1. /\ c.length = n /\ c.tlv = n /\ c.dumps = TRUE
      /\ c.value = s /\ c.dumped = s
  BY AgreedParts DEF Block
<1>2. s \in Seq(FieldType) /\ Positive(s) /\ Octets(s) = n /\ s # <<>>
  BY OctetsFew DEF Block
<1>3. \A o2 \in Announced(ie, s) :
        Codec(ie, o2, n).accepts /\ Codec(ie, o2, n).loaded = s
  <2> SUFFICES ASSUME NEW o2 \in Announced(ie, s)
               PROVE  Codec(ie, o2, n).accepts /\ Codec(ie, o2, n).loaded = s
    OBVIOUS
  <2>1. Codec(ie, o2, n) = Agreed(s, n)
    OBVIOUS
  <2>2. Agreed(s, n).loaded = s /\ Agreed(s, n).accepts = (n = Octets(s))
    BY AgreedParts
  <2>3. n = Octets(s)
    BY <1>2
  <2> QED
    BY <2>1, <2>2, <2>3
<1>4. \A m : m.ie = ie /\ m.length = n /\ m.place # "stray" => ~Unusable(m)
  BY DEF SpecialNames, Unusable, Endless
<1> HIDE DEF c
<1>5. c.length <= Octets(c.dumped) /\ c.tlv # 0
  BY <1>1, <1>2
<1>6. Formed(ie, o)
  BY <1>1, <1>2, <1>5 DEF Formed, c
<1>7. Counted(ie, o)
  BY <1>1, <1>2 DEF Counted, c
<1>8. ReadBack(ie, o)
  BY <1>1, <1>2, <1>3, <1>4, Zenon DEF ReadBack, c
<1>9. Taken(ie, o)
  BY <1>1, <1>3, <1>5, Zenon DEF Taken, c
<1> QED
  BY <1>6, <1>7, <1>8, <1>9 DEF Sorted

(* One field of a fixed width. *)
LEMMA OneField ==
  ASSUME NEW ie \in FixedNames, NEW f \in DataNames, NEW n \in Nat \ {0},
         \A o, l : Codec(ie, o, l) = Agreed(<<Field(f, n)>>, l)
  PROVE  \A o : Sorted(ie, o)
<1>1. ie \in Decodable \ SpecialNames
  BY Names DEF FixedNames, SpecialNames
<1>2. Block(<<Field(f, n)>>, n)
  BY BlockField
<1> QED
  BY <1>1, <1>2, AgreedElement

(* Two fields of a fixed width. *)
LEMMA TwoFields ==
  ASSUME NEW ie \in FixedNames, NEW f \in DataNames, NEW g \in DataNames,
         NEW n \in Nat \ {0},
         \A o, l : Codec(ie, o, l) = Agreed(<<Field(f, n), Field(g, n)>>, l)
  PROVE  \A o : Sorted(ie, o)
<1>1. ie \in Decodable \ SpecialNames
  BY Names DEF FixedNames, SpecialNames
<1>2. <<Field(f, n), Field(g, n)>> = <<Field(f, n)>> \o <<Field(g, n)>>
  OBVIOUS
<1>3. Block(<<Field(f, n), Field(g, n)>>, n + n)
  BY <1>2, BlockField, BlockConcat
<1>4. n + n \in Nat \ {0}
  OBVIOUS
<1> QED
  BY <1>1, <1>3, <1>4, AgreedElement

(* The elements of a fixed width. *)
LEMMA FixedElement ==
  ASSUME NEW ie \in FixedNames, NEW o
  PROVE  Sorted(ie, o)
<1>1. CASE ie = "cause"
  <2>1. \A p, l : Codec(ie, p, l) = Agreed(<<Field("cause_value", 1)>>, l)
    BY <1>1 DEF Codec, pfcp_cause_ie
  <2>2. "cause_value" \in DataNames /\ 1 \in Nat \ {0}
    BY DEF DataNames
  <2> QED
    BY <2>1, <2>2, OneField
<1>2. CASE ie = "source_interface"
  <2>1. \A p, l : Codec(ie, p, l) = Agreed(<<Field("interface_value", 1)>>, l)
    BY <1>2 DEF Codec, pfcp_source_interface_ie
  <2>2. "interface_value" \in DataNames /\ 1 \in Nat \ {0}
    BY DEF DataNames
  <2> QED
    BY <2>1, <2>2, OneField
<1>3. CASE ie = "gate_status"
  <2>1. \A p, l : Codec(ie, p, l) = Agreed(<<Field("gates", 1)>>, l)
    BY <1>3 DEF Codec, pfcp_gate_status_ie
  <2>2. "gates" \in DataNames /\ 1 \in Nat \ {0}
    BY DEF DataNames
  <2> QED
    BY <2>1, <2>2, OneField
<1>6. CASE ie = "precedence"
  <2>1. \A p, l : Codec(ie, p, l) = Agreed(<<Field("precedence", 4)>>, l)
    BY <1>6 DEF Codec, pfcp_precedence_ie
  <2>2. "precedence" \in DataNames /\ 4 \in Nat \ {0}
    BY DEF DataNames
  <2> QED
    BY <2>1, <2>2, OneField
<1>7. CASE ie = "time_threshold"
  <2>1. \A p, l : Codec(ie, p, l) = Agreed(<<Field("time_threshold", 4)>>, l)
    BY <1>7 DEF Codec, pfcp_time_threshold_ie
  <2>2. "time_threshold" \in DataNames /\ 4 \in Nat \ {0}
    BY DEF DataNames
  <2> QED
    BY <2>1, <2>2, OneField
<1>8. CASE ie = "monitoring_time"
  <2>1. \A p, l : Codec(ie, p, l) = Agreed(<<Field("monitoring_time", 4)>>, l)
    BY <1>8 DEF Codec, pfcp_monitoring_time_ie
  <2>2. "monitoring_time" \in DataNames /\ 4 \in Nat \ {0}
    BY DEF DataNames
  <2> QED
    BY <2>1, <2>2, OneField
<1>9. CASE ie = "subsequent_time_threshold"
  <2>1. \A p, l : Codec(ie, p, l) = Agreed(<<Field("subsequent_time_threshold", 4)>>, l)
    BY <1>9 DEF Codec, pfcp_subsequent_time_threshold_ie
  <2>2. "subsequent_time_threshold" \in DataNames /\ 4 \in Nat \ {0}
    BY DEF DataNames
  <2> QED
    BY <2>1, <2>2, OneField
<1>10. CASE ie = "inactivity_detection_time"
  <2>1. \A p, l : Codec(ie, p, l) = Agreed(<<Field("inactivity_detection_time", 4)>>, l)
    BY <1>10 DEF Codec, pfcp_inactivity_detection_time_ie
  <2>2. "inactivity_detection_time" \in DataNames /\ 4 \in Nat \ {0}
    BY DEF DataNames
  <2> QED
    BY <2>1, <2>2, OneField
<1>11. CASE ie = "reporting_triggers"
  <2>1. \A p, l : Codec(ie, p, l) = Agreed(<<Field("triggers1", 1), Field("triggers2", 1)>>, l)
    BY <1>11 DEF Codec, pfcp_reporting_triggers_ie
  <2>2. "triggers1" \in DataNames /\ "triggers2" \in DataNames /\ 1 \in Nat \ {0}
    BY DEF DataNames
  <2> QED
    BY <2>1, <2>2, TwoFields
<1>12. CASE ie = "report_type"
  <2>1. \A p, l : Codec(ie, p, l) = Agreed(<<Field("report_type", 1)>>, l)
    BY <1>12 DEF Codec, pfcp_report_type_ie
  <2>2. "report_type" \in DataNames /\ 1 \in Nat \ {0}
    BY DEF DataNames
  <2> QED
    BY <2>1, <2>2, OneField
<1>13. CASE ie = "offending_ie"
  <2>1. \A p, l : Codec(ie, p, l) = Agreed(<<Field("offending_ie", 2)>>, l)
    BY <1>13 DEF Codec, pfcp_offending_ie_ie
  <2>2. "offending_ie" \in DataNames /\ 2 \in Nat \ {0}
    BY DEF DataNames
  <2> QED
    BY <2>1, <2>2, OneField
<1>14. CASE ie = "destination_interface"
  <2>1. \A p, l : Codec(ie, p, l) = Agreed(<<Field("interface_value", 1)>>, l)
    BY <1>14 DEF Codec, pfcp_destination_interface_ie
  <2>2. "interface_value" \in DataNames /\ 1 \in Nat \ {0}
    BY DEF DataNames
  <2> QED
    BY <2>1, <2>2, OneField
<1>15. CASE ie = "up_function_features"
  <2>1. \A p, l : Codec(ie, p, l) = Agreed(<<Field("features1", 1), Field("features2", 1)>>, l)
    BY <1>15 DEF Codec, pfcp_up_function_features_ie
  <2>2. "features1" \in DataNames /\ "features2" \in DataNames /\ 1 \in Nat \ {0}
    BY DEF DataNames
  <2> QED
    BY <2>1, <2>2, TwoFields
<1>16. CASE ie = "apply_action"
  <2>1. \A p, l : Codec(ie, p, l) = Agreed(<<Field("apply_action", 1)>>, l)
    BY <1>16 DEF Codec, pfcp_apply_action_ie
  <2>2. "apply_action" \in DataNames /\ 1 \in Nat \ {0}
    BY DEF DataNames
  <2> QED
    BY <2>1, <2>2, OneField
<1>17. CASE ie = "pdr_id"
  <2>1. \A p, l : Codec(ie, p, l) = Agreed(<<Field("rule_id", 2)>>, l)
    BY <1>17 DEF Codec, pfcp_pdr_id_ie
  <2>2. "rule_id" \in DataNames /\ 2 \in Nat \ {0}
    BY DEF DataNames
  <2> QED
    BY <2>1, <2>2, OneField
<1>18. CASE ie = "bar_id"
  <2>1. \A p, l : Codec(ie, p, l) = Agreed(<<Field("bar_id", 1)>>, l)
    BY <1>18 DEF Codec, pfcp_bar_id_ie
  <2>2. "bar_id" \in DataNames /\ 1 \in Nat \ {0}
    BY DEF DataNames
  <2> QED
    BY <2>1, <2>2, OneField
<1>19. CASE ie = "cp_function_features"
  <2>1. \A p, l : Codec(ie, p, l) = Agreed(<<Field("features", 1)>>, l)
    BY <1>19 DEF Codec, pfcp_cp_function_features_ie
  <2>2. "features" \in DataNames /\ 1 \in Nat \ {0}
    BY DEF DataNames
  <2> QED
    BY <2>1, <2>2, OneField
<1>20. CASE ie = "outer_header_removal"
  <2>1. \A p, l : Codec(ie, p, l) = Agreed(<<Field("outer_header_removal_description", 1)>>, l)
    BY <1>20 DEF Codec, pfcp_outer_header_removal_ie
  <2>2. "outer_header_removal_description" \in DataNames /\ 1 \in Nat \ {0}
    BY DEF DataNames
  <2> QED
    BY <2>1, <2>2, OneField
<1>21. CASE ie = "recovery_time_stamp"
  <2>1. \A p, l : Codec(ie, p, l) = Agreed(<<Field("recovery_time_stamp", 4)>>, l)
    BY <1>21 DEF Codec, pfcp_recovery_time_stamp_ie
  <2>2. "recovery_time_stamp" \in DataNames /\ 4 \in Nat \ {0}
    BY DEF DataNames
  <2> QED
    BY <2>1, <2>2, OneField
<1>22. CASE ie = "far_id"
  <2>1. \A p, l : Codec(ie, p, l) = Agreed(<<Field("far_id", 4)>>, l)
    BY <1>22 DEF Codec, pfcp_far_id_ie
  <2>2. "far_id" \in DataNames /\ 4 \in Nat \ {0}
    BY DEF DataNames
  <2> QED
    BY <2>1, <2>2, OneField
<1>23. CASE ie = "qer_id"
  <2>1. \A p, l : Codec(ie, p, l) = Agreed(<<Field("qer_id", 4)>>, l)
    BY <1>23 DEF Codec, pfcp_qer_id_ie
  <2>2. "qer_id" \in DataNames /\ 4 \in Nat \ {0}
    BY DEF DataNames
  <2> QED
    BY <2>1, <2>2, OneField
<1>24. CASE ie = "user_plane_inactivity_timer"
  <2>1. \A p, l : Codec(ie, p, l) = Agreed(<<Field("user_plane_inactivity_timer", 4)>>, l)
    BY <1>24 DEF Codec, pfcp_user_plane_inactivity_timer_ie
  <2>2. "user_plane_inactivity_timer" \in DataNames /\ 4 \in Nat \ {0}
    BY DEF DataNames
  <2> QED
    BY <2>1, <2>2, OneField
<1>25. CASE ie = "qfi"
  <2>1. \A p, l : Codec(ie, p, l) = Agreed(<<Field("qfi", 1)>>, l)
    BY <1>25 DEF Codec, pfcp_qfi_ie
  <2>2. "qfi" \in DataNames /\ 1 \in Nat \ {0}
    BY DEF DataNames
  <2> QED
    BY <2>1, <2>2, OneField
<1> QED
  BY <1>1, <1>2, <1>3, <1>6, <1>7, <1>8, <1>9, <1>10, <1>11, <1>12, <1>13, <1>14, <1>15,
     <1>16, <1>17, <1>18, <1>19, <1>20, <1>21, <1>22, <1>23, <1>24, <1>25 DEF FixedNames

(* Elements that count what they write. *)
LEMMA ExactElement ==
  ASSUME NEW ie, NEW o, NEW s, NEW n, Block(s, n),
         Codec(ie, o, 0).length = n, Codec(ie, o, 0).tlv \in Nat,
         Codec(ie, o, 0).dumps \in BOOLEAN, Codec(ie, o, 0).dumped = s
  PROVE  Formed(ie, o) /\ Counted(ie, o)
<1> DEFINE c == Codec(ie, o, 0)
<1>1. /\ c.length = n /\ c.tlv \in Nat /\ c.dumps \in BOOLEAN /\ c.dumped = s
      /\ n \in Nat /\ s \in Seq(FieldType) /\ Positive(s) /\ Octets(s) = n /\ n <= n
  BY DEF Block
<1> HIDE DEF c
<1>2. Formed(ie, o)
  BY <1>1 DEF Formed, c
<1>3. Counted(ie, o)
  BY <1>1 DEF Counted, c
<1> QED
  BY <1>2, <1>3

(* The same, when the constructor counts the fields t and dump_to writes s. *)
LEMMA ExactFields ==
  ASSUME NEW ie, NEW o, NEW s, NEW t, NEW n, Block(s, n), Block(t, n),
         Codec(ie, o, 0).length = Octets(t), Codec(ie, o, 0).tlv = Octets(t),
         Codec(ie, o, 0).dumps = TRUE, Codec(ie, o, 0).dumped = s
  PROVE  Formed(ie, o) /\ Counted(ie, o)
<1>1. n \in Nat /\ Octets(t) = n
  BY DEF Block
<1>2. Codec(ie, o, 0).length = n
  BY <1>1
<1>3. Codec(ie, o, 0).tlv \in Nat
  BY <1>1
<1>4. Codec(ie, o, 0).dumps \in BOOLEAN
  OBVIOUS
<1> QED
  BY <1>2, <1>3, <1>4, ExactElement

(* Elements that arrive altered, or are not accepted, whatever their options. *)
LEMMA AlwaysAltered ==
  ASSUME NEW ie, NEW o,
         \A m : m.ie = ie /\ m.o = o => Altered(m)
  PROVE  ReadBack(ie, o) /\ Taken(ie, o)
BY Zenon DEF ReadBack, Taken

(* A urr_id is written in the byte order of the host (Altered). *)
LEMMA UrrIdElement ==
  ASSUME NEW o
  PROVE  Sorted("urr_id", o)
<1>1. /\ Codec("urr_id", o, 0).length = Octets(<<Field("urr_id", 4)>>)
      /\ Codec("urr_id", o, 0).tlv = Octets(<<Field("urr_id", 4)>>)
      /\ Codec("urr_id", o, 0).dumps = TRUE
      /\ Codec("urr_id", o, 0).dumped = <<Field("urr_id_in_host_order", 4)>>
  BY DEF Codec, pfcp_urr_id_ie, Agreed
<1>2. "urr_id" \in DataNames /\ "urr_id_in_host_order" \in DataNames
  BY DEF DataNames
<1>3. Block(<<Field("urr_id_in_host_order", 4)>>, 4) /\ Block(<<Field("urr_id", 4)>>, 4)
  BY <1>2, BlockField
<1>4. Formed("urr_id", o) /\ Counted("urr_id", o)
  BY <1>1, <1>3, ExactFields
<1>5. \A m : m.ie = "urr_id" => Altered(m)
  BY DEF Altered, OutOfStep
<1> QED
  BY <1>4, <1>5, AlwaysAltered DEF Sorted

(* A qer_correlation_id has four octets and load_from asks for one (Unusable). *)
LEMMA QerCorrelationIdElement ==
  ASSUME NEW ie, ie = "qer_correlation_id", NEW o
  PROVE  Sorted(ie, o)
<1> DEFINE s == <<Field("qer_correlation_id", 4)>>
<1>1. /\ Codec(ie, o, 0).length = Octets(s) /\ Codec(ie, o, 0).tlv = Octets(s)
      /\ Codec(ie, o, 0).dumps = TRUE /\ Codec(ie, o, 0).dumped = s
  BY DEF Codec, pfcp_qer_correlation_id_ie, Agreed
<1>2. \A p : ~Codec(ie, p, 4).accepts
  <2>1. \A p : Codec(ie, p, 4).accepts = (4 = 1)
    BY DEF Codec, pfcp_qer_correlation_id_ie, Agreed
  <2>2. (4 = 1) = FALSE
    OBVIOUS
  <2> QED
    BY <2>1, <2>2, Zenon
<1>3. "qer_correlation_id" \in DataNames
  BY DEF DataNames
<1>4. Block(s, 4) /\ Octets(s) = 4 /\ s # <<>>
  BY <1>3, BlockField DEF Block
<1>5. \A m : m.ie = ie => Unusable(m)
  BY DEF Unusable, Endless
<1> HIDE DEF s
<1>6. Formed(ie, o) /\ Counted(ie, o)
  BY <1>1, <1>4, ExactFields
<1>7. ReadBack(ie, o)
  BY <1>1, <1>2, <1>4, Zenon DEF ReadBack
<1>8. Taken(ie, o)
  BY <1>5, Zenon DEF Taken
<1> QED
  BY <1>6, <1>7, <1>8 DEF Sorted

(* load_from has no case for a node_report_type. *)
LEMMA NodeReportTypeElement ==
  ASSUME NEW ie, ie = "node_report_type", NEW o \in Options(ie)
  PROVE  Sorted(ie, o)
<1> DEFINE s == <<Bits({}, 1)>>
<1>1. /\ Codec(ie, o, 0).length = Octets(<<Bits(o, 1)>>)
      /\ Codec(ie, o, 0).tlv = Octets(<<Bits(o, 1)>>)
      /\ Codec(ie, o, 0).dumps = TRUE /\ Codec(ie, o, 0).dumped = s
  BY DEF Codec, pfcp_node_report_type_ie, Agreed
<1>2. ie \in Leaves /\ ie \notin Decodable
  BY Names DEF FixedNames, OptionalNames, GroupNames
<1>3. {} \in SUBSET OptionNames /\ o \in SUBSET OptionNames
  BY <1>2 DEF OptionNames
<1>4. Block(s, 1) /\ Block(<<Bits(o, 1)>>, 1)
  BY <1>3, BlockBits
<1>5. \A m : m.ie = ie => Unusable(m)
  BY DEF Unusable, Endless
<1> HIDE DEF s
<1>6. Formed(ie, o) /\ Counted(ie, o)
  BY <1>1, <1>4, ExactFields
<1>7. ReadBack(ie, o) /\ Taken(ie, o)
  BY <1>2, <1>5, Zenon DEF ReadBack, Taken
<1> QED
  BY <1>6, <1>7 DEF Sorted

(* The bits of an element are options. *)
LEMMA BitsOf ==
  ASSUME NEW ie \in Leaves, NEW o \in Options(ie), NEW n \in Nat \ {0}
  PROVE  Block(<<Bits(o, n)>>, n) /\ o \in SUBSET OptionNames
<1>1. o \in SUBSET OptionNames
  BY DEF OptionNames
<1> QED
  BY <1>1, BlockBits

(* Behind a flags octet the options are announced. *)
LEMMA BitsAnnounced ==
  ASSUME NEW ie, ie \notin {"volume_threshold", "subsequent_volume_threshold"},
         NEW o \in SUBSET OptionNames, NEW n \in Nat, NEW t \in Seq(FieldType)
  PROVE  Announced(ie, <<Bits(o, n)>> \o t) = {o}
<1>1. Bits(o, n) \in FieldType /\ Bits(o, n).f = "flags" /\ Bits(o, n).bits = o
  BY DEF Bits, FieldType
<1>2. <<Bits(o, n)>> \in Seq(FieldType) /\ <<Bits(o, n)>> # <<>>
  BY <1>1
<1>3. Announced(ie, <<Bits(o, n)>>) = {o}
  BY <1>1 DEF Announced
<1> QED
  BY <1>2, <1>3, FieldsAreItems, FirstOfConcat

(* The optional names are leaves. *)
LEMMA OptionalLeaf ==
  ASSUME NEW ie \in OptionalNames
  PROVE  ie \in Leaves /\ ie \in Decodable
BY Names

(* The volumes are read by flags that have not been read (Altered). *)
LEMMA VolumeElement ==
  ASSUME NEW ie \in {"volume_threshold", "subsequent_volume_threshold"},
         NEW o \in Options(ie)
  PROVE  Sorted(ie, o)
<1> DEFINE vols == Opt(o, "tovol", "total_volume", 8)
                     \o Opt(o, "ulvol", "uplink_volume", 8)
                     \o Opt(o, "dlvol", "downlink_volume", 8)
           s == <<Bits(o, 1)>> \o vols
<1>1. /\ Codec(ie, o, 0).length = Octets(s) /\ Codec(ie, o, 0).tlv = Octets(s)
      /\ Codec(ie, o, 0).dumps = TRUE /\ Codec(ie, o, 0).dumped = s
  BY DEF Codec, pfcp_volume_threshold_ie, pfcp_subsequent_volume_threshold_ie, Agreed
<1>2. ie \in OptionalNames
  BY DEF OptionalNames
<1>3. Block(<<Bits(o, 1)>>, 1)
  BY <1>2, OptionalLeaf, BitsOf
<1>4. \E n : Block(s, n)
  <2>1. /\ "total_volume" \in DataNames /\ "uplink_volume" \in DataNames
        /\ "downlink_volume" \in DataNames
    BY DEF DataNames
  <2>2. ASSUME NEW b, NEW f \in DataNames PROVE \E n : Block(Opt(o, b, f, 8), n)
    <3>1. Block(Opt(o, b, f, 8), IF b \in o THEN 8 ELSE 0)
      BY BlockOpt
    <3> QED
      BY <3>1
  <2>3. \E n : Block(vols, n)
    BY <2>1, <2>2, BlockConcat
  <2> QED
    BY <1>3, <2>3, BlockConcat
<1> HIDE DEF s
<1>5. PICK n : Block(s, n)
  BY <1>4
<1>6. Formed(ie, o) /\ Counted(ie, o)
  BY <1>1, <1>5, ExactFields
<1>7. \A m : m.ie = ie => Altered(m)
  BY DEF Altered, OutOfStep
<1> QED
  BY SMTT(60), <1>6, <1>7, AlwaysAltered DEF Sorted

(* The record that Text makes. *)
TextMade(r, o, f, l) ==
  /\ r.length = Octets(Opt(o, "text", f, TextOctets))
  /\ r.tlv = Octets(Opt(o, "text", f, TextOctets))
  /\ r.dumps = TRUE
  /\ r.value = Opt(o, "text", f, TextOctets)
  /\ r.dumped = Opt(o, "text", f, TextOctets)
  /\ r.loaded = <<Field(f, l)>>

(* The fields of a string. *)
LEMMA TextParts ==
  ASSUME NEW r, NEW o, NEW f, NEW l, r = Text(o, f, l)
  PROVE  TextMade(r, o, f, l) /\ r.accepts
BY DEF TextMade, Text, Agreed

(* The fields of a string whose length load_from checks. *)
LEMMA TextPartsChecked ==
  ASSUME NEW r, NEW o, NEW f, NEW l, NEW a,
         r = [Text(o, f, l) EXCEPT !.accepts = a]
  PROVE  TextMade(r, o, f, l) /\ r.accepts = a
BY DEF TextMade, Text, Agreed

(* A string that is not empty. *)
LEMMA TextElement ==
  ASSUME NEW ie \in {"network_instance", "application_id",
                     "activate_predefined_rules", "deactivate_predefined_rules"},
         NEW o \in Options(ie)
  PROVE  Sorted(ie, o)
<1> DEFINE f == IF ie \in {"network_instance", "application_id"} THEN ie
                ELSE "predefined_rules_name"
           s == Opt(o, "text", f, TextOctets)
<1>1. \A p, l : /\ TextMade(Codec(ie, p, l), p, f, l)
                /\ l \in Nat \ {0} => Codec(ie, p, l).accepts
  <2> SUFFICES ASSUME NEW p, NEW l
               PROVE  /\ TextMade(Codec(ie, p, l), p, f, l)
                      /\ l \in Nat \ {0} => Codec(ie, p, l).accepts
    OBVIOUS
  <2>1. CASE ie = "network_instance"
    <3>1. Codec(ie, p, l) = Text(p, f, l)
      BY <2>1 DEF Codec, pfcp_network_instance_ie
    <3> QED
      BY <3>1, TextParts
  <2>2. CASE ie = "application_id"
    <3>1. Codec(ie, p, l) = Text(p, f, l)
      BY <2>2 DEF Codec, pfcp_application_id_ie
    <3> QED
      BY <3>1, TextParts
  <2>3. CASE ie = "activate_predefined_rules"
    <3> DEFINE a == (l # 0)
    <3>1. Codec(ie, p, l) = [Text(p, f, l) EXCEPT !.accepts = a]
      BY <2>3 DEF Codec, pfcp_activate_predefined_rules_ie
    <3>3. l \in Nat \ {0} => a = TRUE
      OBVIOUS
    <3> HIDE DEF a
    <3>2. TextMade(Codec(ie, p, l), p, f, l) /\ Codec(ie, p, l).accepts = a
      BY SMTT(60), <3>1, TextPartsChecked
    <3> QED
      BY <3>2, <3>3, Zenon
  <2>4. CASE ie = "deactivate_predefined_rules"
    <3> DEFINE a == (l # 0)
    <3>1. Codec(ie, p, l) = [Text(p, f, l) EXCEPT !.accepts = a]
      BY <2>4 DEF Codec, pfcp_deactivate_predefined_rules_ie
    <3>3. l \in Nat \ {0} => a = TRUE
      OBVIOUS
    <3> HIDE DEF a
    <3>2. TextMade(Codec(ie, p, l), p, f, l) /\ Codec(ie, p, l).accepts = a
      BY SMTT(60), <3>1, TextPartsChecked
    <3> QED
      BY <3>2, <3>3, Zenon
  <2> QED
    BY <2>1, <2>2, <2>3, <2>4
<1>3. TextOctets \in Nat \ {0}
  BY TextAssumption
<1>4. f \in DataNames
  BY DEF DataNames
<1>5. ie \in Decodable /\ ie \notin SpecialNames
  BY Names DEF OptionalNames, SpecialNames
<1> HIDE DEF f
<1>6. CASE "text" \in o
  <2>1. s = <<Field(f, TextOctets)>>
    BY <1>6 DEF Opt
  <2>2. Block(s, TextOctets)
    BY <1>3, <1>4, <2>1, BlockField
  <2> HIDE DEF s
  <2>3. /\ Codec(ie, o, 0).length = Octets(s) /\ Codec(ie, o, 0).tlv = Octets(s)
        /\ Codec(ie, o, 0).dumps = TRUE /\ Codec(ie, o, 0).value = s
        /\ Codec(ie, o, 0).dumped = s
    BY <1>1, Zenon DEF s, TextMade
  <2>4. \A p : Codec(ie, p, TextOctets).accepts /\ Codec(ie, p, TextOctets).loaded = s
    BY <1>1, <1>3, <2>1, Zenon DEF TextMade
  <2>5. Formed(ie, o) /\ Counted(ie, o)
    BY <2>2, <2>3, ExactFields
  <2>6. Octets(s) = TextOctets
    BY <2>2 DEF Block
  <2>7. TextOctets # 0 /\ s # <<>>
    BY <1>3, <2>1
  <2>8. \A m : m.ie = ie /\ m.length = TextOctets /\ m.place # "stray" => ~Unusable(m)
    BY <1>5, <2>7 DEF SpecialNames, Unusable, Endless
  <2>9. ReadBack(ie, o)
    BY <2>3, <2>4, <2>6, <2>7, <2>8, Zenon DEF ReadBack
  <2>10. Taken(ie, o)
    BY <1>5, <2>3, <2>4, <2>6, <2>7, Zenon DEF Taken
  <2> QED
    BY <2>5, <2>9, <2>10 DEF Sorted
<1>7. CASE "text" \notin o
  <2>1. s = <<>>
    BY <1>7 DEF Opt
  <2>2. Block(s, 0) /\ Octets(s) = 0
    BY <2>1, BlockNone, OctetsFew
  <2>3. /\ Codec(ie, o, 0).length = Octets(s) /\ Codec(ie, o, 0).tlv = Octets(s)
        /\ Codec(ie, o, 0).dumps = TRUE /\ Codec(ie, o, 0).dumped = s
    BY <1>1, Zenon DEF TextMade
  <2> HIDE DEF s
  <2>4. Formed(ie, o) /\ Counted(ie, o)
    BY <2>2, <2>3, ExactFields
  <2>5. \A m : m.length = 0 => Unusable(m)
    BY DEF Unusable, Endless
  <2>6. ReadBack(ie, o)
    BY <2>2, <2>3, Zenon DEF ReadBack
  <2>7. Taken(ie, o)
    BY <2>2, <2>3, <2>5, Zenon DEF Taken
  <2> QED
    BY <2>4, <2>6, <2>7 DEF Sorted
<1> QED
  BY <1>6, <1>7

(* An element that is written, accepted and read back with the fields s. *)
LEMMA SameElement ==
  ASSUME NEW ie \in Decodable, NEW o, NEW s, NEW n \in Nat \ {0}, Block(s, n),
         Codec(ie, o, 0).length = Octets(s), Codec(ie, o, 0).tlv = Octets(s),
         Codec(ie, o, 0).dumps = TRUE, Codec(ie, o, 0).value = s,
         Codec(ie, o, 0).dumped = s,
         \A o2 \in Announced(ie, s) :
            Codec(ie, o2, n).accepts /\ Codec(ie, o2, n).loaded = s,
         \A m : m.ie = ie /\ m.o = o /\ m.length = n /\ m.place # "stray"
                   => ~Unusable(m)
  PROVE  Sorted(ie, o)
<1>1. Formed(ie, o) /\ Counted(ie, o)
  BY ExactFields
<1>2. Octets(s) = n /\ n # 0 /\ s # <<>>
  BY OctetsFew DEF Block
<1>3. ReadBack(ie, o)
  BY <1>2, Zenon DEF ReadBack
<1>4. Taken(ie, o)
  BY <1>2, Zenon DEF Taken
<1> QED
  BY <1>1, <1>3, <1>4 DEF Sorted

(* An element that is written and not accepted. *)
LEMMA LostElement ==
  ASSUME NEW ie \in Decodable, NEW o, NEW s, NEW n \in Nat \ {0}, Block(s, n),
         Codec(ie, o, 0).length = Octets(s), Codec(ie, o, 0).tlv = Octets(s),
         Codec(ie, o, 0).dumps = TRUE, Codec(ie, o, 0).dumped = s,
         \A o2 \in Announced(ie, s) : ~Codec(ie, o2, n).accepts,
         \A m : m.ie = ie /\ m.o = o => Unusable(m)
  PROVE  Sorted(ie, o)
<1>1. Formed(ie, o) /\ Counted(ie, o)
  BY ExactFields
<1>2. Octets(s) = n /\ n # 0 /\ s # <<>>
  BY OctetsFew DEF Block
<1>3. ReadBack(ie, o)
  BY <1>2, Zenon DEF ReadBack
<1>4. Taken(ie, o)
  BY Zenon DEF Taken
<1> QED
  BY <1>1, <1>3, <1>4 DEF Sorted

(* The transport_level_marking is read as it is written. *)
LEMMA TransportLevelMarkingElement ==
  ASSUME NEW ie, ie = "transport_level_marking", NEW o \in Options(ie)
  PROVE  Sorted(ie, o)
<1> DEFINE s == Opt(o, "text", "transport_level_marking", 2)
<1>1. /\ Codec(ie, o, 0).length = Octets(s) /\ Codec(ie, o, 0).tlv = Octets(s)
      /\ Codec(ie, o, 0).value = s /\ Codec(ie, o, 0).dumped = s
  BY DEF Codec, pfcp_transport_level_marking_ie, Agreed
<1>2. Codec(ie, o, 0).dumps = ("text" \in o)
  BY DEF Codec, pfcp_transport_level_marking_ie, Agreed
<1>3. \A p : /\ Codec(ie, p, 2).accepts = (2 = 2)
             /\ Codec(ie, p, 2).loaded = <<Field("transport_level_marking", 2)>>
  BY ZenonT(60) DEF Codec, pfcp_transport_level_marking_ie, Agreed
<1>4. "transport_level_marking" \in DataNames
  BY DEF DataNames
<1>5. ie \in Decodable /\ ie \notin SpecialNames
  BY Names DEF OptionalNames, SpecialNames
<1>6. CASE "text" \in o
  <2>1. s = <<Field("transport_level_marking", 2)>>
    BY <1>6 DEF Opt
  <2>2. Block(s, 2)
    BY <1>4, <2>1, BlockField
  <2> HIDE DEF s
  <2>3. \A p : Codec(ie, p, 2).accepts /\ Codec(ie, p, 2).loaded = s
    BY <1>3, <2>1, Zenon
  <2>4. Codec(ie, o, 0).dumps = TRUE
    BY <1>2, <1>6, Zenon
  <2>5. \A m : m.ie = ie /\ m.length = 2 /\ m.place # "stray" => ~Unusable(m)
    BY <1>5 DEF SpecialNames, Unusable, Endless
  <2>6. 2 \in Nat \ {0}
    OBVIOUS
  <2> QED
    BY <1>1, <1>5, <2>2, <2>3, <2>4, <2>5, <2>6, SameElement, Zenon
<1>7. CASE "text" \notin o
  <2>1. s = <<>>
    BY <1>7 DEF Opt
  <2>2. Block(s, 0) /\ Octets(s) = 0
    BY <2>1, BlockNone, OctetsFew
  <2> HIDE DEF s
  <2>3. Codec(ie, o, 0).dumps = FALSE
    <3>1. ("text" \in o) = FALSE
      BY <1>7
    <3> QED
      BY <1>2, <3>1, Zenon
  <2>6. Codec(ie, o, 0).dumps \in BOOLEAN
    BY <2>3
  <2>7. Codec(ie, o, 0).tlv \in Nat
    BY <1>1, <2>2
  <2>4. Formed(ie, o) /\ Counted(ie, o)
    BY <1>1, <2>2, <2>6, <2>7, ExactElement
  <2>5. \A m : m.length = 0 => Unusable(m)
    BY DEF Unusable, Endless
  <2>8. ReadBack(ie, o)
    BY <2>3, Zenon DEF ReadBack
  <2>9. Taken(ie, o)
    BY <1>1, <2>2, <2>5, Zenon DEF Taken
  <2> QED
    BY <2>4, <2>8, <2>9 DEF Sorted
<1> QED
  BY <1>6, <1>7

(* The F-SEID is read as it is written, with either address and with both. *)
LEMMA FSeidElement ==
  ASSUME NEW ie, ie = "f_seid", NEW o \in Options(ie)
  PROVE  Sorted(ie, o)
<1> DEFINE t4 == Opt(o, "v4", "ipv4_address", 4)
           t6 == Opt(o, "v6", "ipv6_address", 16)
           s == <<Bits(o, 1), Field("seid", 8)>> \o t4 \o t6
           r == <<Field("seid", 8)>> \o t4 \o t6
           k4 == IF "v4" \in o THEN 4 ELSE 0
           k6 == IF "v6" \in o THEN 16 ELSE 0
<1>1. \A l : Codec(ie, o, l) = Agreed(s, l)
  BY DEF Codec, pfcp_f_seid_ie
<1>2. ie \in Decodable /\ ie \notin SpecialNames /\ ie \in Leaves
  BY Names DEF OptionalNames, SpecialNames
<1>3. "seid" \in DataNames /\ "ipv4_address" \in DataNames /\ "ipv6_address" \in DataNames
  BY DEF DataNames
<1>4. Block(t4, k4) /\ k4 \in Nat
  BY <1>3, BlockOpt
<1>5. Block(t6, k6) /\ k6 \in Nat
  BY <1>3, BlockOpt
<1>6. Block(<<Bits(o, 1)>>, 1) /\ o \in SUBSET OptionNames
  BY <1>2, BitsOf
<1>7. Block(<<Field("seid", 8)>>, 8)
  BY <1>3, BlockField
<1> HIDE DEF t4, t6, k4, k6
<1>8. Block(r, 8 + k4 + k6)
  BY <1>4, <1>5, <1>7, BlockConcat
<1>9. s = <<Bits(o, 1)>> \o r
  <2>1. /\ t4 \in Seq(FieldType) /\ t6 \in Seq(FieldType)
        /\ Bits(o, 1) \in FieldType /\ Field("seid", 8) \in FieldType
    BY <1>3, <1>4, <1>5, <1>6 DEF Block, Bits, Field, FieldType
  <2> QED
    BY <2>1
<1> HIDE DEF s, r
<1>10. Block(s, 1 + (8 + k4 + k6)) /\ 1 + (8 + k4 + k6) \in Nat \ {0}
  <2>1. Block(s, 1 + (8 + k4 + k6))
    BY <1>6, <1>8, <1>9, BlockConcat, Zenon
  <2> QED
    BY <1>4, <1>5, <2>1
<1>11. r \in Seq(FieldType)
  BY <1>8 DEF Block
<1>12. Announced(ie, s) = {o}
  BY <1>6, <1>9, <1>11, BitsAnnounced
<1> QED
  BY <1>1, <1>2, <1>10, <1>12, AgreedElement

(* The options of an element are options. *)
LEMMA OptionsNamed ==
  ASSUME NEW ie \in Leaves, NEW o \in Options(ie)
  PROVE  o \in SUBSET OptionNames
BY DEF OptionNames

(* The options of the core types. *)
LEMMA OptionsOf ==
  /\ Options("fteid") = fteid_t
  /\ Options("sdf_filter") = sdf_filter_t
  /\ Options("node_id") = node_id_t
  /\ Options("outer_header_creation") = outer_header_creation_t
  /\ Options("ue_ip_address") = ue_ip_address_t
  /\ Options("failed_rule_id") = failed_rule_id_t
  /\ Options("user_id") = user_id_t
<1>1. Options("fteid") = fteid_t
  BY DEF Options, fteid_t, WithText
<1>2. Options("sdf_filter") = sdf_filter_t
  BY DEF Options, sdf_filter_t, WithText
<1>3. Options("node_id") = node_id_t
  BY DEF Options, node_id_t, WithText
<1>4. Options("outer_header_creation") = outer_header_creation_t
  BY DEF Options, outer_header_creation_t, WithText
<1>5. Options("ue_ip_address") = ue_ip_address_t
  BY DEF Options, ue_ip_address_t, WithText
<1>6. Options("failed_rule_id") = failed_rule_id_t
  BY DEF Options, failed_rule_id_t, WithText
<1>7. Options("user_id") = user_id_t
  BY DEF Options, user_id_t, WithText
<1> QED
  BY <1>1, <1>2, <1>3, <1>4, <1>5, <1>6, <1>7

(* Records that differ from an agreed one. *)
Amended(r, s, a, t) ==
  /\ r.length = Octets(s) /\ r.tlv = Octets(s) /\ r.dumps = TRUE
  /\ r.value = s /\ r.dumped = s /\ r.accepts = a /\ r.loaded = t

(* The fields of an element whose load_from has a check of its own. *)
LEMMA AcceptsParts ==
  ASSUME NEW r, NEW s, NEW l, NEW a, r = [Agreed(s, l) EXCEPT !.accepts = a]
  PROVE  Amended(r, s, a, s)
BY DEF Amended, Agreed

(* Flags, then the fields of t. *)
LEMMA FlagsThen ==
  ASSUME NEW ie \in Leaves \ {"volume_threshold", "subsequent_volume_threshold"},
         NEW o \in SUBSET OptionNames, NEW t, NEW n, Block(t, n), NEW k \in Nat \ {0}
  PROVE  /\ Block(<<Bits(o, k)>> \o t, k + n) /\ k + n \in Nat \ {0}
         /\ Announced(ie, <<Bits(o, k)>> \o t) = {o}
<1>1. Block(<<Bits(o, k)>>, k)
  BY BlockBits
<1>2. Block(<<Bits(o, k)>> \o t, k + n)
  BY <1>1, BlockConcat
<1>3. t \in Seq(FieldType) /\ n \in Nat
  BY DEF Block
<1>4. Announced(ie, <<Bits(o, k)>> \o t) = {o}
  BY <1>3, BitsAnnounced
<1> QED
  BY <1>2, <1>3, <1>4

(* The outer_header_creation is read as it is written, unless no option is
   set (Unusable). *)
LEMMA OuterHeaderCreationElement ==
  ASSUME NEW ie, ie = "outer_header_creation", NEW o \in Options(ie)
  PROVE  Sorted(ie, o)
<1> DEFINE far(l) == l >= 4
           With_(S, f, n) == IF o \cap S # {} THEN <<Field(f, n)>> ELSE <<>>
           size(S, n) == IF o \cap S # {} THEN n ELSE 0
           p1 == With_({"gtpu4", "gtpu6"}, "teid", 4)
           p2 == With_({"gtpu4", "udp4"}, "ipv4_address", 4)
           p3 == With_({"gtpu6", "udp6"}, "ipv6_address", 16)
           p4 == With_({"udp4"}, "port_number", 2)
           k == size({"gtpu4", "gtpu6"}, 4) + size({"gtpu4", "udp4"}, 4)
                  + size({"gtpu6", "udp6"}, 16) + size({"udp4"}, 2)
           s == <<Bits(o, 2)>> \o p1 \o p2 \o p3 \o p4
           r == p1 \o p2 \o p3 \o p4
<1>1. \A l : Codec(ie, o, l) = [Agreed(s, l) EXCEPT !.accepts = far(l)]
  BY DEF Codec, pfcp_outer_header_creation_ie
<1>2. ie \in Decodable /\ ie \in Leaves
  BY Names DEF OptionalNames
<1>3. /\ "ipv4_address" \in DataNames /\ "ipv6_address" \in DataNames
      /\ "teid" \in DataNames /\ "port_number" \in DataNames
  BY DEF DataNames
<1>4. o \subseteq {"gtpu4", "gtpu6", "udp4", "udp6"}
  BY OptionsOf DEF outer_header_creation_t
<1>5. \A S : \A f \in DataNames : \A n \in Nat \ {0} : Block(With_(S, f, n), size(S, n))
  BY BlockField, BlockNone
<1>6. /\ Block(p1, size({"gtpu4", "gtpu6"}, 4)) /\ Block(p2, size({"gtpu4", "udp4"}, 4))
      /\ Block(p3, size({"gtpu6", "udp6"}, 16)) /\ Block(p4, size({"udp4"}, 2))
  <2>1. 4 \in Nat \ {0} /\ 16 \in Nat \ {0} /\ 2 \in Nat \ {0}
    OBVIOUS
  <2> HIDE DEF With_, size
  <2> QED
    BY <1>3, <1>5, <2>1, Zenon
<1>7. Block(r, k)
  <2> HIDE DEF p1, p2, p3, p4, size
  <2> QED
    BY <1>6, BlockConcat, Zenon
<1>8. /\ p1 \in Seq(FieldType) /\ p2 \in Seq(FieldType)
      /\ p3 \in Seq(FieldType) /\ p4 \in Seq(FieldType)
  <2> HIDE DEF p1, p2, p3, p4, size
  <2> QED
    BY <1>6, Zenon DEF Block
<1>9. s = <<Bits(o, 2)>> \o r
  <2>1. <<Bits(o, 2)>> \in Seq(FieldType)
    BY <1>2, OptionsNamed DEF Bits, FieldType
  <2> HIDE DEF p1, p2, p3, p4
  <2> DEFINE b == <<Bits(o, 2)>>
  <2>3. b \in Seq(FieldType)
    BY <2>1
  <2> HIDE DEF b
  <2>4. ((b \o p1) \o p2) = b \o (p1 \o p2) /\ p1 \o p2 \in Seq(FieldType)
    BY <1>8, <2>3
  <2>5. ((b \o (p1 \o p2)) \o p3) = b \o ((p1 \o p2) \o p3)
        /\ (p1 \o p2) \o p3 \in Seq(FieldType)
    BY SMTT(60), <1>8, <2>3, <2>4
  <2>6. (b \o ((p1 \o p2) \o p3)) \o p4 = b \o (((p1 \o p2) \o p3) \o p4)
    BY SMTT(60), <1>8, <2>3, <2>5
  <2> QED
    BY <2>4, <2>5, <2>6 DEF b
<1>10. /\ Block(s, 2 + k) /\ 2 + k \in Nat \ {0} /\ Announced(ie, s) = {o}
  <2>1. o \in SUBSET OptionNames
    BY <1>2, OptionsNamed
  <2>2. ie \in Leaves \ {"volume_threshold", "subsequent_volume_threshold"}
    BY <1>2
  <2> HIDE DEF s, r, k
  <2>4. 2 \in Nat \ {0}
    OBVIOUS
  <2>3. /\ Block(<<Bits(o, 2)>> \o r, 2 + k) /\ 2 + k \in Nat \ {0}
        /\ Announced(ie, <<Bits(o, 2)>> \o r) = {o}
    BY ZenonT(60), <1>7, <2>1, <2>2, <2>4, FlagsThen
  <2> QED
    BY <1>9, <2>3
<1>11. /\ Codec(ie, o, 0).length = Octets(s) /\ Codec(ie, o, 0).tlv = Octets(s)
       /\ Codec(ie, o, 0).dumps = TRUE /\ Codec(ie, o, 0).value = s
       /\ Codec(ie, o, 0).dumped = s
  <2> DEFINE b == far(0)
  <2> HIDE DEF s, far
  <2>1. Codec(ie, o, 0) = [Agreed(s, 0) EXCEPT !.accepts = b]
    BY <1>1
  <2> HIDE DEF b
  <2>2. Amended(Codec(ie, o, 0), s, b, s)
    BY <2>1, AcceptsParts
  <2> QED
    BY <2>2, Zenon DEF Amended
<1>12. /\ Codec(ie, o, 2 + k).accepts = far(2 + k)
       /\ Codec(ie, o, 2 + k).loaded = s
  <2> DEFINE b == far(2 + k)
  <2> HIDE DEF s, k, far
  <2>1. Codec(ie, o, 2 + k) = [Agreed(s, 2 + k) EXCEPT !.accepts = b]
    BY <1>1
  <2> HIDE DEF b
  <2>2. Amended(Codec(ie, o, 2 + k), s, b, s)
    BY <2>1, AcceptsParts
  <2> QED
    BY <2>2, Zenon DEF b, Amended
<1>13. CASE o = {}
  <2>1. k = 0
    BY <1>13
  <2>2. far(2 + k) = FALSE
    BY <2>1
  <2>3. \A m : m.ie = ie /\ m.o = o => Unusable(m)
    BY <1>13 DEF Unusable, Endless
  <2> HIDE DEF s, k, far
  <2>4. \A o2 \in Announced(ie, s) : ~Codec(ie, o2, 2 + k).accepts
    BY <1>10, <1>12, <2>2, Zenon
  <2> QED
    BY <1>2, <1>10, <1>11, <2>3, <2>4, LostElement, Zenon
<1>14. CASE o # {}
  <2>1. k >= 2 /\ k \in Nat
    <3>1. \/ o \cap {"gtpu4", "gtpu6"} # {} \/ o \cap {"gtpu6", "udp6"} # {}
          \/ o \cap {"udp4"} # {}
      BY <1>4, <1>14
    <3> QED
      BY <3>1
  <2>2. far(2 + k) = TRUE
    <3> HIDE DEF k
    <3> QED
      BY <2>1
  <2> HIDE DEF s, k, far
  <2>3. \A m : m.ie = ie /\ m.o = o /\ m.length = 2 + k /\ m.place # "stray"
                  => ~Unusable(m)
    BY <1>14, <2>1 DEF Unusable, Endless
  <2>4. \A o2 \in Announced(ie, s) :
         Codec(ie, o2, 2 + k).accepts /\ Codec(ie, o2, 2 + k).loaded = s
    BY <1>10, <1>12, <2>2, Zenon
  <2> QED
    BY <1>2, <1>10, <1>11, <2>3, <2>4, SameElement, Zenon
<1> QED
  BY <1>13, <1>14

(* What the constructor, dump_to and load_from of an element do, part by part. *)
Parts(r, length, tlv, dumps, value, dumped, accepts, loaded) ==
  /\ r.length = length /\ r.tlv = tlv /\ r.dumps = dumps /\ r.value = value
  /\ r.dumped = dumped /\ r.accepts = accepts /\ r.loaded = loaded

(* The fields s begin with a flags octet that announces o. *)
Flagged(ie, s, o, n) ==
  /\ Block(s, n) /\ s # <<>> /\ s[1] = Bits(o, 1) /\ Announced(ie, s) = {o}

(* The flags alone. *)
LEMMA FlaggedOne ==
  ASSUME NEW ie \in Leaves \ {"volume_threshold", "subsequent_volume_threshold"},
         NEW o \in SUBSET OptionNames
  PROVE  Flagged(ie, <<Bits(o, 1)>>, o, 1)
<1>1. Block(<<Bits(o, 1)>>, 1)
  BY BlockBits
<1>2. Bits(o, 1).f = "flags" /\ Bits(o, 1).bits = o
  BY DEF Bits
<1>3. <<Bits(o, 1)>> # <<>> /\ <<Bits(o, 1)>>[1] = Bits(o, 1)
      /\ Head(<<Bits(o, 1)>>) = Bits(o, 1)
  OBVIOUS
<1>4. Announced(ie, <<Bits(o, 1)>>) = {o}
  BY <1>2, <1>3 DEF Announced
<1> QED
  BY <1>1, <1>3, <1>4 DEF Flagged

(* The flags, and more fields behind. *)
LEMMA FlaggedConcat ==
  ASSUME NEW ie, NEW o, NEW s, NEW n, Flagged(ie, s, o, n), NEW t, NEW k, Block(t, k)
  PROVE  Flagged(ie, s \o t, o, n + k)
<1>1. /\ Block(s, n) /\ s # <<>> /\ s[1] = Bits(o, 1) /\ Announced(ie, s) = {o}
  BY DEF Flagged
<1>2. Block(s \o t, n + k)
  BY <1>1, BlockConcat
<1>3. s \in Seq(ItemType) /\ t \in Seq(ItemType)
  BY <1>1, FieldsAreItems DEF Block
<1>4. s \o t # <<>> /\ Announced(ie, s \o t) = {o}
  BY <1>1, <1>3, FirstOfConcat
<1>5. (s \o t)[1] = s[1]
  <2>1. Len(s) \in Nat \ {0}
    BY <1>1, <1>3, EmptySeq
  <2> QED
    BY <1>3, <2>1, ConcatProperties
<1> QED
  BY <1>1, <1>2, <1>4, <1>5 DEF Flagged

(* Optional fields. *)
LEMMA OptBlock ==
  ASSUME NEW o, NEW b, NEW f \in DataNames, NEW n \in Nat \ {0}
  PROVE  \E k : Block(Opt(o, b, f, n), k)
<1>1. Block(Opt(o, b, f, n), IF b \in o THEN n ELSE 0)
  BY BlockOpt
<1> QED
  BY <1>1

(* Elements that do not count all they write. *)
LEMMA UnderstatedElement ==
  ASSUME NEW ie, NEW o, NEW s, NEW n, Block(s, n), NEW k \in Nat, k <= n,
         Codec(ie, o, 0).length = k, Codec(ie, o, 0).tlv \in Nat,
         Codec(ie, o, 0).dumps \in BOOLEAN, Codec(ie, o, 0).dumped = s
  PROVE  Formed(ie, o)
<1> DEFINE c == Codec(ie, o, 0)
<1>1. /\ c.length = k /\ c.tlv \in Nat /\ c.dumps \in BOOLEAN /\ c.dumped = s
      /\ s \in Seq(FieldType) /\ Positive(s) /\ Octets(s) = n
  BY DEF Block
<1> HIDE DEF c
<1>2. c.length \in Nat /\ c.length <= Octets(c.dumped)
  BY <1>1
<1> QED
  BY <1>1, <1>2 DEF Formed, c

(* The ue_ip_address is read as it is written, unless it has a prefix
   without an IPv6 address (Altered). *)
LEMMA UeIpAddressElement ==
  ASSUME NEW ie, ie = "ue_ip_address", NEW o \in Options(ie)
  PROVE  Sorted(ie, o)
<1> DEFINE kept == IF "v6" \in o THEN o ELSE o \ {"ipv6d"}
           p1 == Opt(kept, "v4", "ipv4_address", 4)
           p2 == Opt(kept, "v6", "ipv6_address", 16)
           p3 == Opt(kept, "ipv6d", "ipv6_prefix_delegation_bits", 1)
           s == <<Bits(kept, 1)>> \o p1 \o p2 \o p3
           v == [s EXCEPT ![1] = Bits(o, 1)]
           a(l) == l = Octets(s)
<1>1. ie \in Decodable /\ ie \in Leaves \ {"volume_threshold", "subsequent_volume_threshold"}
  BY Names DEF OptionalNames
<1>2. /\ "ipv4_address" \in DataNames /\ "ipv6_address" \in DataNames
      /\ "ipv6_prefix_delegation_bits" \in DataNames
  BY DEF DataNames
<1>3. o \in SUBSET OptionNames /\ kept \in SUBSET OptionNames
  BY <1>1, OptionsNamed
<1>4. \A l : Parts(Codec(ie, o, l), Octets(s), Octets(s), TRUE, v, s, a(l), s)
  <2> SUFFICES ASSUME NEW l
               PROVE  Parts(Codec(ie, o, l), Octets(s), Octets(s), TRUE, v, s, a(l), s)
    OBVIOUS
  <2>1. Codec(ie, o, l) = [Agreed(s, l) EXCEPT !.value[1] = Bits(o, 1)]
    BY DEF Codec, pfcp_ue_ip_address_ie
  <2> HIDE DEF s
  <2> QED
    BY <2>1 DEF Parts, Agreed
<1>5. PICK n : Flagged(ie, s, kept, n)
  <2>1. PICK k1, k2, k3 : Block(p1, k1) /\ Block(p2, k2) /\ Block(p3, k3)
    <3>1. 4 \in Nat \ {0} /\ 16 \in Nat \ {0} /\ 1 \in Nat \ {0}
      OBVIOUS
    <3> HIDE DEF kept
    <3> QED
      BY <1>2, <3>1, OptBlock, Zenon
  <2> HIDE DEF p1, p2, p3, kept
  <2>2. Flagged(ie, <<Bits(kept, 1)>>, kept, 1)
    BY <1>1, <1>3, FlaggedOne
  <2>3. Flagged(ie, s, kept, 1 + k1 + k2 + k3)
    BY <2>1, <2>2, FlaggedConcat, Zenon
  <2> QED
    BY <2>3
<1>6. Block(s, n) /\ s # <<>> /\ s[1] = Bits(kept, 1) /\ Announced(ie, s) = {kept}
  <2> HIDE DEF s, kept
  <2> QED
    BY <1>5 DEF Flagged
<1>7. Formed(ie, o) /\ Counted(ie, o)
  <2> HIDE DEF s, v, a
  <2> QED
    BY <1>4, <1>6, ExactFields, Zenon DEF Parts
<1>8. CASE "ipv6d" \in o /\ "v6" \notin o
  <2>1. \A m : m.ie = ie /\ m.o = o => Altered(m)
    BY <1>8 DEF Altered, OutOfStep
  <2> QED
    BY <1>7, <2>1, AlwaysAltered DEF Sorted
<1>9. CASE ~("ipv6d" \in o /\ "v6" \notin o)
  <2>1. kept = o
    BY <1>9
  <2>2. s \in Seq(FieldType) /\ n \in Nat /\ Octets(s) = n /\ n # 0
    <3> HIDE DEF s
    <3> QED
      BY <1>6, OctetsFew, FieldsAreItems, OctetsPositive, EmptySeq DEF Block
  <2>3. v = s
    <3> HIDE DEF s, kept
    <3> QED
      BY <1>6, <2>1, <2>2
  <2>4. \A m : m.ie = ie /\ m.length = n /\ m.place # "stray" => ~Unusable(m)
    BY <2>2 DEF Unusable, Endless
  <2> HIDE DEF kept, s, v
  <2>5. a(n) = TRUE
    BY <2>2
  <2> HIDE DEF a
  <2>6. \A o2 \in Announced(ie, s) :
          Codec(ie, o2, n).accepts /\ Codec(ie, o2, n).loaded = s
    BY <1>4, <1>6, <2>1, <2>5, Zenon DEF Parts
  <2>7. /\ Codec(ie, o, 0).length = Octets(s) /\ Codec(ie, o, 0).tlv = Octets(s)
        /\ Codec(ie, o, 0).dumps = TRUE /\ Codec(ie, o, 0).value = s
        /\ Codec(ie, o, 0).dumped = s
    BY <1>4, <2>3, Zenon DEF Parts
  <2>8. n \in Nat \ {0}
    BY <2>2
  <2> QED
    BY <1>1, <1>6, <2>4, <2>6, <2>7, <2>8, SameElement, Zenon
<1> QED
  BY <1>8, <1>9

(* The length of a user_plane_ip_resource_information says less than dump_to
   writes (Altered). *)
LEMMA ResourceInformationElement ==
  ASSUME NEW ie, ie = "user_plane_ip_resource_information", NEW o \in Options(ie)
  PROVE  Sorted(ie, o)
<1> DEFINE head == <<Bits(o, 1)>>
           p1 == Opt(o, "v4", "ipv4_address", 4)
           p2 == Opt(o, "v6", "ipv6_address", 16)
           addr == p1 \o p2
           p3 == Opt(o, "assosi", "source_interface", 1)
           r(n) == <<Field("teid_range", n)>>
           i(n) == Opt(o, "assoni", "network_instance", n)
           kept == <<Bits(o, 1), Field("teid_range", 1)>> \o addr \o i(2) \o p3
           s == <<Bits(o, 1), Field("teid_range", 4)>> \o addr \o i(4) \o p3
           k == Octets(kept) - 1
           a(l) == l >= 1
<1>1. ie \in Leaves
  BY Names DEF OptionalNames
<1>2. /\ "ipv4_address" \in DataNames /\ "ipv6_address" \in DataNames
      /\ "source_interface" \in DataNames /\ "teid_range" \in DataNames
      /\ "network_instance" \in DataNames
  BY DEF DataNames
<1>3. Parts(Codec(ie, o, 0), k, k, TRUE, kept, s, a(0), kept)
  <2> DEFINE b == a(0)
  <2>1. Codec(ie, o, 0) = [Agreed(kept, 0) EXCEPT !.length = @ - 1, !.tlv = @ - 1,
                                                  !.accepts = b, !.dumped = s]
    BY DEF Codec, pfcp_user_plane_ip_resource_information_ie
  <2> HIDE DEF s, kept, b
  <2>2. Parts(Codec(ie, o, 0), k, k, TRUE, kept, s, b, kept)
    BY <2>1 DEF Parts, Agreed
  <2> QED
    BY <2>2 DEF b
<1>4. PICK n1, n2, n3 : Block(p1, n1) /\ Block(p2, n2) /\ Block(p3, n3)
  <2>1. 4 \in Nat \ {0} /\ 16 \in Nat \ {0} /\ 1 \in Nat \ {0}
    OBVIOUS
  <2> QED
    BY <1>2, <2>1, OptBlock, Zenon
<1> DEFINE j(n) == IF "assoni" \in o THEN n ELSE 0
<1>5. Block(i(2), j(2)) /\ Block(i(4), j(4))
  BY <1>2, BlockOpt
<1>6. Block(head, 1) /\ Block(r(1), 1) /\ Block(r(4), 4)
  BY <1>1, <1>2, BitsOf, BlockField
<1>7. kept = ((head \o r(1)) \o addr) \o i(2) \o p3 /\ s = ((head \o r(4)) \o addr) \o i(4) \o p3
  <2>1. <<Bits(o, 1), Field("teid_range", 1)>> = <<Bits(o, 1)>> \o <<Field("teid_range", 1)>>
    OBVIOUS
  <2>2. <<Bits(o, 1), Field("teid_range", 4)>> = <<Bits(o, 1)>> \o <<Field("teid_range", 4)>>
    OBVIOUS
  <2> QED
    BY <2>1, <2>2, Zenon
<1> HIDE DEF head, p1, p2, p3, r, i, kept, s
<1>8. Block(kept, 1 + 1 + (n1 + n2) + j(2) + n3) /\ Block(s, 1 + 4 + (n1 + n2) + j(4) + n3)
  <2> HIDE DEF j
  <2>1. Block(addr, n1 + n2)
    BY <1>4, BlockConcat, Zenon
  <2> HIDE DEF addr
  <2> QED
    BY <1>4, <1>5, <1>6, <1>7, <2>1, BlockConcat, Zenon
<1>9. /\ n1 \in Nat /\ n2 \in Nat /\ n3 \in Nat
      /\ Octets(kept) = 1 + 1 + (n1 + n2) + j(2) + n3
      /\ 1 + 4 + (n1 + n2) + j(4) + n3 \in Nat
  <2> HIDE DEF j
  <2> QED
    BY <1>4, <1>8 DEF Block
<1>10. k \in Nat /\ k <= 1 + 4 + (n1 + n2) + j(4) + n3
  BY <1>9
<1> HIDE DEF k, a, j
<1>11. Codec(ie, o, 0).dumps \in BOOLEAN
  BY <1>3, Zenon DEF Parts
<1>12. Formed(ie, o)
  BY <1>3, <1>8, <1>10, <1>11, UnderstatedElement, Zenon DEF Parts
<1>13. \A m : m.ie = ie => Understated(m) /\ Altered(m)
  BY DEF Understated, Altered, OutOfStep
<1>14. Counted(ie, o)
  BY <1>13, Zenon DEF Counted
<1> QED
  BY <1>12, <1>13, <1>14, AlwaysAltered DEF Sorted

(* A user_id with any option set does not pass the check of its length
   (Unusable). *)
LEMMA UserIdElement ==
  ASSUME NEW ie, ie = "user_id", NEW o \in Options(ie)
  PROVE  Sorted(ie, o)
<1> DEFINE part(b, size, f) == Opt(o, b, size, 1) \o Opt(o, b, f, TextOctets)
           p1 == part("imsif", "length_of_imsi", "imsi")
           p2 == part("imeif", "length_of_imei", "imei")
           p3 == part("msisdnf", "length_of_msisdn", "msisdn")
           p4 == part("naif", "length_of_nai", "nai")
           s == <<Bits(o, 1)>> \o p1 \o p2 \o p3 \o p4
           k == 2 * Octets(s) - 1
           a(l) == l = 1
<1>1. ie \in Decodable /\ ie \in Leaves \ {"volume_threshold", "subsequent_volume_threshold"}
  BY Names DEF OptionalNames
<1>2. /\ "length_of_imsi" \in DataNames /\ "imsi" \in DataNames
      /\ "length_of_imei" \in DataNames /\ "imei" \in DataNames
      /\ "length_of_msisdn" \in DataNames /\ "msisdn" \in DataNames
      /\ "length_of_nai" \in DataNames /\ "nai" \in DataNames
  BY DEF DataNames
<1>3. o \in SUBSET OptionNames
  BY <1>1, OptionsNamed
<1>4. \A l : Parts(Codec(ie, o, l), Octets(s), k, TRUE, s, s, a(l), s)
  <2> SUFFICES ASSUME NEW l
               PROVE  Parts(Codec(ie, o, l), Octets(s), k, TRUE, s, s, a(l), s)
    OBVIOUS
  <2> DEFINE b == a(l)
  <2>1. Codec(ie, o, l) = [Agreed(s, l) EXCEPT !.tlv = 2 * @ - 1, !.accepts = b]
    BY DEF Codec, pfcp_user_id_ie
  <2> HIDE DEF s, b
  <2>2. Parts(Codec(ie, o, l), Octets(s), k, TRUE, s, s, b, s)
    BY <2>1 DEF Parts, Agreed
  <2> QED
    BY <2>2 DEF b
<1>5. o \subseteq {"imsif", "imeif", "msisdnf", "naif"}
  BY OptionsOf DEF user_id_t
<1>6. TextOctets \in Nat \ {0}
  BY TextAssumption
<1> DEFINE z(b) == IF b \in o THEN 1 + TextOctets ELSE 0
<1>7. ASSUME NEW b, NEW size \in DataNames, NEW f \in DataNames
      PROVE  Block(part(b, size, f), z(b))
  <2>1. Block(Opt(o, b, size, 1), IF b \in o THEN 1 ELSE 0)
    BY BlockOpt
  <2>2. Block(Opt(o, b, f, TextOctets), IF b \in o THEN TextOctets ELSE 0)
    BY <1>6, BlockOpt
  <2>3. Block(part(b, size, f), (IF b \in o THEN 1 ELSE 0) + (IF b \in o THEN TextOctets ELSE 0))
    BY <2>1, <2>2, BlockConcat, Zenon
  <2>4. (IF b \in o THEN 1 ELSE 0) + (IF b \in o THEN TextOctets ELSE 0) = z(b)
    BY <1>6
  <2> QED
    BY <2>3, <2>4, Zenon
<1> HIDE DEF part
<1>8. /\ Block(p1, z("imsif")) /\ Block(p2, z("imeif"))
      /\ Block(p3, z("msisdnf")) /\ Block(p4, z("naif"))
  <2> HIDE DEF z
  <2> QED
    BY <1>2, <1>7, Zenon
<1> HIDE DEF p1, p2, p3, p4
<1> DEFINE n == 1 + z("imsif") + z("imeif") + z("msisdnf") + z("naif")
<1>9. Flagged(ie, s, o, n)
  <2>1. Flagged(ie, <<Bits(o, 1)>>, o, 1)
    BY <1>1, <1>3, FlaggedOne
  <2> HIDE DEF z
  <2> QED
    BY <1>8, <2>1, FlaggedConcat, Zenon
<1>10. n \in Nat \ {0} /\ (n = 1 <=> o = {})
  BY <1>5, <1>6
<1> HIDE DEF s, n
<1>11. Block(s, n) /\ s # <<>> /\ Announced(ie, s) = {o} /\ Octets(s) = n
  BY <1>9 DEF Flagged, Block
<1>12. k = 2 * n - 1 /\ k \in Nat /\ k # 0 /\ (k = 1 <=> n = 1)
  BY <1>10, <1>11
<1>13. a(k) => o = {}
  BY <1>10, <1>12
<1>14. o = {} => a(k) /\ k = n
  BY <1>10, <1>12
<1>18. n # 0
  BY <1>10
<1> HIDE DEF k, a
<1>15. Codec(ie, o, 0).dumps \in BOOLEAN
  BY <1>4, Zenon DEF Parts
<1>16. Formed(ie, o) /\ Counted(ie, o)
  BY <1>4, <1>11, <1>12, <1>15, ExactElement, Zenon DEF Parts
<1>17. \A m : m.ie = ie /\ m.o = o /\ m.length = n /\ m.place # "stray" /\ o = {}
                 => ~Unusable(m)
  BY <1>18 DEF Unusable, Endless
<1>19. ReadBack(ie, o)
  BY ZenonT(60), <1>4, <1>11, <1>13, <1>14, <1>17 DEF ReadBack, Parts
<1>20. \A m : m.ie = ie /\ m.o = o /\ ~Unusable(m) => o = {}
  BY DEF Unusable, Endless
<1>21. Taken(ie, o)
  BY <1>1, <1>4, <1>11, <1>12, <1>14, <1>20, Zenon DEF Taken, Parts
<1> QED
  BY <1>16, <1>19, <1>21 DEF Sorted

(* The F-TEID is read as it is written, unless its CHOOSE flags are set
   (Altered). *)
LEMMA FteidElement ==
  ASSUME NEW ie, ie = "fteid", NEW o \in Options(ie)
  PROVE  Sorted(ie, o)
<1> DEFINE kept == IF "ch" \in o THEN o \ {"v4", "v6"} ELSE o
           addr == <<Field("teid", 4)>> \o Opt(o, "v4", "ipv4_address", 4)
                     \o Opt(o, "v6", "ipv6_address", 16)
           where == IF "ch" \in o THEN <<>> ELSE addr
           id == Opt(o, "chid", "choose_id", 1)
           chosen == IF "ch" \in o THEN id ELSE <<>>
           all == <<Bits(kept, 1)>> \o where
           t == all \o chosen
           s == all \o id
           v == [t EXCEPT ![1] = Bits(o, 1)]
           a(l) == l = Octets(t)
<1>1. ie \in Decodable /\ ie \in Leaves \ {"volume_threshold", "subsequent_volume_threshold"}
  BY Names DEF OptionalNames
<1>2. /\ "ipv4_address" \in DataNames /\ "ipv6_address" \in DataNames
      /\ "teid" \in DataNames /\ "choose_id" \in DataNames
  BY DEF DataNames
<1>3. o \in SUBSET OptionNames /\ kept \in SUBSET OptionNames
  BY <1>1, OptionsNamed
<1>4. \A l : Parts(Codec(ie, o, l), Octets(t), Octets(t), TRUE, v, s, a(l), t)
  <2> SUFFICES ASSUME NEW l
               PROVE  Parts(Codec(ie, o, l), Octets(t), Octets(t), TRUE, v, s, a(l), t)
    OBVIOUS
  <2>1. Codec(ie, o, l) = [Agreed(t, l) EXCEPT !.value[1] = Bits(o, 1), !.dumped = s]
    BY DEF Codec, pfcp_fteid_ie
  <2> HIDE DEF s, t
  <2> QED
    BY <2>1 DEF Parts, Agreed
<1>5. \E n : Block(where, n)
  <2>1. Block(<<Field("teid", 4)>>, 4)
    BY <1>2, BlockField
  <2>2. 4 \in Nat \ {0} /\ 16 \in Nat \ {0}
    OBVIOUS
  <2>3. \E n : Block(addr, n)
    <3>1. PICK n4, n6 : /\ Block(Opt(o, "v4", "ipv4_address", 4), n4)
                        /\ Block(Opt(o, "v6", "ipv6_address", 16), n6)
      BY <1>2, <2>2, OptBlock, Zenon
    <3>2. Block(addr, 4 + n4 + n6)
      BY <2>1, <3>1, BlockConcat, Zenon
    <3> QED
      BY <3>2
  <2> HIDE DEF addr
  <2> QED
    BY <2>3, BlockNone
<1> DEFINE c == IF "chid" \in o THEN 1 ELSE 0
           d == IF "ch" \in o THEN c ELSE 0
<1>6. Block(id, c) /\ c \in Nat
  BY <1>2, BlockOpt
<1>7. Block(chosen, d) /\ d \in Nat /\ d <= c
  <2> HIDE DEF id
  <2> QED
    BY <1>6, BlockNone
<1>8. PICK w : Block(where, w)
  BY <1>5
<1>9. Flagged(ie, all, kept, 1 + w) /\ w \in Nat
  <2>1. Flagged(ie, <<Bits(kept, 1)>>, kept, 1)
    <3> HIDE DEF kept
    <3> QED
      BY <1>1, <1>3, FlaggedOne
  <2> HIDE DEF where, kept
  <2>2. Flagged(ie, all, kept, 1 + w)
    BY <1>8, <2>1, FlaggedConcat, Zenon
  <2>3. w \in Nat
    BY <1>8 DEF Block
  <2> QED
    BY <2>2, <2>3
<1>10. Flagged(ie, t, kept, 1 + w + d) /\ Flagged(ie, s, kept, 1 + w + c)
  <2> HIDE DEF all, id, chosen, c, d, kept
  <2> QED
    BY <1>6, <1>7, <1>9, FlaggedConcat, Zenon
<1>11. /\ Block(t, 1 + w + d) /\ t # <<>> /\ t[1] = Bits(kept, 1)
       /\ Block(s, 1 + w + c) /\ Announced(ie, s) = {kept}
  <2> HIDE DEF t, s, c, d, kept
  <2> QED
    BY <1>10 DEF Flagged
<1>12. Octets(t) = 1 + w + d /\ t \in Seq(FieldType)
  <2> HIDE DEF t, s, c, d, kept
  <2> QED
    BY <1>11 DEF Block
<1>13. /\ 1 + w + d \in Nat \ {0} /\ 1 + w + d <= 1 + w + c
       /\ 1 + w + d \in Nat /\ 1 + w + d # 0
  <2> HIDE DEF c, d
  <2> QED
    BY <1>6, <1>7, <1>9
<1>14. Formed(ie, o)
  <2> DEFINE n == 1 + w + d
             k == 1 + w + c
  <2> HIDE DEF s, t, v, a, n, k
  <2>1. Codec(ie, o, 0).dumps \in BOOLEAN
    BY <1>4, Zenon DEF Parts
  <2>2. Octets(t) = n /\ n \in Nat /\ n <= k /\ Block(s, k)
    BY <1>11, <1>12, <1>13 DEF n, k
  <2> QED
    BY <1>4, <2>1, <2>2, UnderstatedElement, Zenon DEF Parts
<1>15. CASE chosen # id
  <2>1. "chid" \in o /\ "ch" \notin o
    BY <1>15 DEF Opt
  <2>2. \A m : m.ie = ie /\ m.o = o => Understated(m) /\ Altered(m)
    BY <2>1 DEF Understated, Altered, OutOfStep
  <2>3. Counted(ie, o)
    BY <2>2, Zenon DEF Counted
  <2> QED
    BY <1>14, <2>2, <2>3, AlwaysAltered DEF Sorted
<1>16. CASE chosen = id
  <2>1. t = s
    BY <1>16
  <2> DEFINE n == 1 + w + d
  <2>2. Block(t, n) /\ n \in Nat \ {0} /\ Octets(t) = n
    <3> HIDE DEF t, d
    <3> QED
      BY <1>11, <1>12, <1>13
  <2>3. Formed(ie, o) /\ Counted(ie, o)
    <3> HIDE DEF s, t, v, a, n
    <3> QED
      BY <1>4, <2>1, <2>2, ExactFields, Zenon DEF Parts
  <2>4. CASE kept # o
    <3>1. "ch" \in o /\ o \cap {"v4", "v6"} # {} /\ o \cap {"ch", "chid"} # {}
      BY <2>4
    <3>2. \A m : m.ie = ie /\ m.o = o => Altered(m)
      BY <3>1 DEF Altered, OutOfStep
    <3> QED
      BY <2>3, <3>2, AlwaysAltered DEF Sorted
  <2>5. CASE kept = o
    <3>1. v = t
      <4> HIDE DEF t, kept
      <4> QED
        BY <1>11, <1>12, <2>5
    <3>2. \A m : m.ie = ie /\ m.length = n /\ m.place # "stray" => ~Unusable(m)
      <4> HIDE DEF n
      <4> QED
        BY <2>2 DEF Unusable, Endless
    <3> HIDE DEF kept, s, t, v, n
    <3>3. a(n) = TRUE
      BY <2>2
    <3> HIDE DEF a
    <3>4. \A o2 \in Announced(ie, s) :
            Codec(ie, o2, n).accepts /\ Codec(ie, o2, n).loaded = s
      BY <1>4, <1>11, <2>1, <2>5, <3>3, Zenon DEF Parts
    <3>5. /\ Codec(ie, o, 0).length = Octets(s) /\ Codec(ie, o, 0).tlv = Octets(s)
          /\ Codec(ie, o, 0).dumps = TRUE /\ Codec(ie, o, 0).value = s
          /\ Codec(ie, o, 0).dumped = s
      BY <1>4, <2>1, <3>1, Zenon DEF Parts
    <3> QED
      BY <1>1, <2>1, <2>2, <3>2, <3>4, <3>5, SameElement, Zenon
  <2> QED
    BY <2>4, <2>5
<1> QED
  BY <1>15, <1>16

(* The rates are read as they are written, and they are written as they were
   meant unless one of them has more than 40 bits (Altered). *)
LEMMA RateElement ==
  ASSUME NEW ie \in {"mbr", "gbr"}, NEW o
  PROVE  Sorted(ie, o)
<1> DEFINE f == IF ie = "mbr" THEN "ul_mbr" ELSE "ul_gbr"
           g == IF ie = "mbr" THEN "dl_mbr" ELSE "dl_gbr"
           fc == IF ie = "mbr" THEN "ul_mbr_low_40_bits" ELSE "ul_gbr_low_40_bits"
           gc == IF ie = "mbr" THEN "dl_mbr_low_40_bits" ELSE "dl_gbr_low_40_bits"
           s == <<Field(f, 5), Field(g, 5)>>
           t(p) == Cut(p, "ul_wide", f, fc, 5) \o Cut(p, "dl_wide", g, gc, 5)
<1>1. ie \in Decodable
  BY Names DEF OptionalNames
<1>2. f \in DataNames /\ g \in DataNames /\ fc \in DataNames /\ gc \in DataNames
  BY DEF DataNames
<1>3. \A p, l : Codec(ie, p, l) = [Agreed(s, l) EXCEPT !.dumped = t(p)]
  <2>1. CASE ie = "mbr"
    BY <2>1 DEF Codec, pfcp_mbr_ie
  <2>2. CASE ie = "gbr"
    BY <2>2 DEF Codec, pfcp_gbr_ie
  <2> QED
    BY <2>1, <2>2
<1> HIDE DEF f, g, fc, gc
<1>4. \A p, l : Parts(Codec(ie, p, l), Octets(s), Octets(s), TRUE, s, t(p), l = Octets(s), s)
  <2> SUFFICES ASSUME NEW p, NEW l
               PROVE  Parts(Codec(ie, p, l), Octets(s), Octets(s), TRUE, s, t(p),
                            l = Octets(s), s)
    OBVIOUS
  <2> DEFINE u == t(p)
  <2>1. Codec(ie, p, l) = [Agreed(s, l) EXCEPT !.dumped = u]
    BY <1>3
  <2> HIDE DEF s, u
  <2>2. Parts(Codec(ie, p, l), Octets(s), Octets(s), TRUE, s, u, l = Octets(s), s)
    BY <2>1 DEF Parts, Agreed
  <2> QED
    BY <2>2 DEF u
<1>5. 5 \in Nat \ {0}
  OBVIOUS
<1>10. s = <<Field(f, 5)>> \o <<Field(g, 5)>>
  OBVIOUS
<1>6. Block(s, 5 + 5) /\ Octets(s) = 10 /\ 10 \in Nat \ {0}
  <2>2. Block(<<Field(f, 5)>>, 5) /\ Block(<<Field(g, 5)>>, 5)
    BY <1>2, <1>5, BlockField
  <2>3. Block(s, 5 + 5)
    BY <1>10, <2>2, BlockConcat
  <2> QED
    BY <2>3 DEF Block
<1>7. Block(t(o), 5 + 5)
  <2>1. \A b : \A x, y \in DataNames : Block(Cut(o, b, x, y, 5), 5)
    BY <1>5, BlockField DEF Cut
  <2> QED
    BY <1>2, <2>1, BlockConcat
<1>8. CASE o # {}
  <2>1. \A m : m.ie = ie /\ m.o = o => Altered(m)
    BY <1>8 DEF Altered
  <2> DEFINE u == t(o)
  <2>2. Codec(ie, o, 0).length = Octets(s) /\ Codec(ie, o, 0).tlv = Octets(s)
        /\ Codec(ie, o, 0).dumps = TRUE /\ Codec(ie, o, 0).dumped = u
    BY <1>4, Zenon DEF Parts
  <2> HIDE DEF s, t
  <2>3. Formed(ie, o) /\ Counted(ie, o)
    BY <1>6, <1>7, <2>2, ExactFields
  <2> QED
    BY <2>1, <2>3, AlwaysAltered DEF Sorted
<1>9. CASE o = {}
  <2>1. t(o) = s
    <3>1. /\ Cut(o, "ul_wide", f, fc, 5) = <<Field(f, 5)>>
          /\ Cut(o, "dl_wide", g, gc, 5) = <<Field(g, 5)>>
      BY <1>9 DEF Cut
    <3> QED
      BY <1>10, <3>1
  <2>2. \A m : m.ie = ie /\ m.o = o /\ m.length = 10 /\ m.place # "stray" => ~Unusable(m)
    BY DEF Unusable, Endless
  <2>3. /\ Codec(ie, o, 0).length = Octets(s) /\ Codec(ie, o, 0).tlv = Octets(s)
        /\ Codec(ie, o, 0).dumps = TRUE /\ Codec(ie, o, 0).value = s
        /\ Codec(ie, o, 0).dumped = t(o)
    BY <1>4, Zenon DEF Parts
  <2>6. Codec(ie, o, 0).dumped = s
    <3> HIDE DEF s, t
    <3> QED
      BY <2>1, <2>3
  <2>4. \A p : Codec(ie, p, 10).accepts /\ Codec(ie, p, 10).loaded = s
    <3> SUFFICES ASSUME NEW p
                 PROVE  Codec(ie, p, 10).accepts /\ Codec(ie, p, 10).loaded = s
      OBVIOUS
    <3> DEFINE b == 10 = Octets(s)
               u == t(p)
    <3>1. b = TRUE
      BY <1>6
    <3>2. Parts(Codec(ie, p, 10), Octets(s), Octets(s), TRUE, s, u, b, s)
      BY <1>4
    <3> HIDE DEF s, u, b
    <3> QED
      BY <3>1, <3>2, Zenon DEF Parts
  <2> HIDE DEF s
  <2>5. Block(s, 10)
    BY <1>6
  <2> QED
    BY <1>1, <1>6, <2>2, <2>3, <2>4, <2>5, <2>6, SameElement, Zenon
<1> QED
  BY <1>8, <1>9

(* The forwarding_policy, a string behind its length, is read as it is written
   when the length is the one of the string, and refused otherwise. *)
LEMMA ForwardingPolicyElement ==
  ASSUME NEW ie, ie = "forwarding_policy", NEW o \in Options(ie)
  PROVE  Sorted(ie, o)
<1> DEFINE t == Opt(o, "text", "forwarding_policy_identifier", TextOctets)
           s == <<Bits(o, 1)>> \o t
           k == IF "text" \in o THEN TextOctets ELSE 0
           a(l) == l = Octets(s) /\ "misstated" \notin o
<1>1. \A l : Amended(Codec(ie, o, l), s, a(l), s)
  <2> SUFFICES ASSUME NEW l PROVE Amended(Codec(ie, o, l), s, a(l), s)
    OBVIOUS
  <2> DEFINE b == a(l)
  <2>1. Codec(ie, o, l) = [Agreed(s, l) EXCEPT !.accepts = b]
    BY DEF Codec, pfcp_forwarding_policy_ie
  <2> HIDE DEF s, b
  <2>2. Amended(Codec(ie, o, l), s, b, s)
    BY <2>1, AcceptsParts
  <2> QED
    BY <2>2 DEF b
<1>2. ie \in Decodable /\ ie \in Leaves \ {"volume_threshold", "subsequent_volume_threshold"}
  BY Names DEF OptionalNames
<1>3. "forwarding_policy_identifier" \in DataNames
  BY DEF DataNames
<1>4. TextOctets \in Nat \ {0}
  BY TextAssumption
<1>5. Block(t, k)
  BY <1>3, <1>4, BlockOpt
<1>6. o \in SUBSET OptionNames
  BY <1>2, OptionsNamed
<1>7. Block(s, 1 + k) /\ 1 + k \in Nat \ {0} /\ Announced(ie, s) = {o}
  <2> HIDE DEF t, k
  <2>1. 1 \in Nat \ {0}
    OBVIOUS
  <2> QED
    BY ZenonT(60), <1>2, <1>5, <1>6, <2>1, FlagsThen
<1>8. Octets(s) = 1 + k
  BY <1>7 DEF Block
<1>9. /\ Codec(ie, o, 0).length = Octets(s) /\ Codec(ie, o, 0).tlv = Octets(s)
      /\ Codec(ie, o, 0).dumps = TRUE /\ Codec(ie, o, 0).value = s
      /\ Codec(ie, o, 0).dumped = s /\ Codec(ie, o, 1 + k).accepts = a(1 + k)
      /\ Codec(ie, o, 1 + k).loaded = s
  BY <1>1, Zenon DEF Amended
<1>10. CASE "misstated" \in o
  <2>1. a(1 + k) = FALSE
    BY <1>10
  <2>2. \A m : m.ie = ie /\ m.o = o => Unusable(m)
    BY <1>10 DEF Unusable
  <2> HIDE DEF s, k, a
  <2>3. \A o2 \in Announced(ie, s) : ~Codec(ie, o2, 1 + k).accepts
    BY <1>7, <1>9, <2>1, Zenon
  <2> QED
    BY <1>2, <1>7, <1>9, <2>2, <2>3, LostElement, Zenon
<1>11. CASE "misstated" \notin o
  <2>1. a(1 + k) = TRUE
    BY <1>8, <1>11
  <2> HIDE DEF s, k, a
  <2>2. \A m : m.ie = ie /\ m.o = o /\ m.length = 1 + k /\ m.place # "stray"
                  => ~Unusable(m)
    BY <1>7, <1>11 DEF Unusable, Endless
  <2>3. \A o2 \in Announced(ie, s) :
          Codec(ie, o2, 1 + k).accepts /\ Codec(ie, o2, 1 + k).loaded = s
    BY <1>7, <1>9, <2>1, Zenon
  <2> QED
    BY <1>2, <1>7, <1>9, <2>2, <2>3, SameElement, Zenon
<1> QED
  BY <1>10, <1>11

(* The node_id is read as it is written, unless its name has a label of 64
   characters or more (Altered, Endless) or does not end (Unusable). *)
LEMMA NodeIdElement ==
  ASSUME NEW ie, ie = "node_id", NEW o \in Options(ie)
  PROVE  Sorted(ie, o)
<1> DEFINE n == CASE "name_256" \in o   -> 256
                  [] "label_255" \in o  -> 255
                  [] "long_label" \in o -> LongOctets
                  [] OTHER              -> TextOctets
           name == IF "long_label" \in o THEN "name_of_other_labels" ELSE "fqdn"
           known == <<Bits(o, 1)>> \o Opt(o, "ipv4", "ipv4_address", 4)
                       \o Opt(o, "ipv6", "ipv6_address", 16)
           s == known \o Opt(o, "fqdn", "fqdn", n + 1)
           t == known \o Opt(o, "fqdn", name, n + 1)
           u(l) == known \o Opt(o, "fqdn", "fqdn", l - 1)
           d == "name_256" \notin o
           a(l) == CASE "ipv4" \in o -> l = 5
                     [] "ipv6" \in o -> l = 17
                     [] "fqdn" \in o -> l > 1 /\ "label_255" \notin o
                     [] OTHER        -> TRUE
           k == (1 + (IF "ipv4" \in o THEN 4 ELSE 0) + (IF "ipv6" \in o THEN 16 ELSE 0))
                   + (IF "fqdn" \in o THEN n + 1 ELSE 0)
<1>1. ie \in Decodable /\ ie \in Leaves \ {"volume_threshold", "subsequent_volume_threshold"}
  BY Names DEF OptionalNames
<1>2. /\ "ipv4_address" \in DataNames /\ "ipv6_address" \in DataNames
      /\ "fqdn" \in DataNames /\ name \in DataNames
  BY DEF DataNames
<1>3. o \in SUBSET OptionNames
  BY <1>1, OptionsNamed
<1>4. \A l : Parts(Codec(ie, o, l), Octets(s), Octets(s), d, s, t, a(l), u(l))
  <2> SUFFICES ASSUME NEW l
               PROVE  Parts(Codec(ie, o, l), Octets(s), Octets(s), d, s, t, a(l), u(l))
    OBVIOUS
  <2> DEFINE b == a(l)
             v == u(l)
             e == (l > 1 /\ "label_255" \in o)
  <2>1. Codec(ie, o, l) = [Agreed(s, l) EXCEPT !.dumps = d, !.dumped = t, !.accepts = b,
                                               !.spins = e, !.loaded = v]
    BY DEF Codec, pfcp_node_id_ie, string_to_dotted, dotted_to_string
  <2> HIDE DEF s, t, d, b, v, e
  <2>2. Parts(Codec(ie, o, l), Octets(s), Octets(s), d, s, t, b, v)
    BY <2>1 DEF Parts, Agreed
  <2> QED
    BY <2>2 DEF b, v
<1>5. o \in {{}, {"ipv4"}, {"ipv6"}, {"fqdn"}, {"fqdn", "long_label"},
             {"fqdn", "label_255"}, {"fqdn", "name_256"}}
  BY OptionsOf DEF node_id_t
<1>6. n \in Nat \ {0} /\ n + 1 \in Nat \ {0}
  BY TextAssumption
<1>7. k \in Nat \ {0} /\ a(k) = ("label_255" \notin o)
  <2> HIDE DEF n
  <2>1. CASE o = {}
    <3>1. k = 1
      BY <2>1
    <3>2. a(1) = TRUE
      BY <2>1
    <3>3. ("label_255" \notin o) = TRUE /\ 1 \in Nat \ {0}
      BY <2>1
    <3> HIDE DEF k, a
    <3> QED
      BY <3>1, <3>2, <3>3, Zenon
  <2>2. CASE o = {"ipv4"}
    BY <1>6, <2>2
  <2>3. CASE o = {"ipv6"}
    BY <1>6, <2>3
  <2>4. CASE "fqdn" \in o /\ "ipv4" \notin o /\ "ipv6" \notin o
    <3>1. k = 2 + n /\ k > 1
      BY <1>6, <2>4
    <3> HIDE DEF k
    <3> QED
      BY <1>6, <2>4, <3>1
  <2> QED
    BY <1>5, <2>1, <2>2, <2>3, <2>4
<1>8. u(k) = s
  <2> HIDE DEF n, known
  <2>1. CASE "fqdn" \in o
    <3>1. "ipv4" \notin o /\ "ipv6" \notin o
      BY <1>5, <2>1
    <3>2. k - 1 = n + 1
      BY <1>6, <2>1, <3>1
    <3> QED
      BY <3>2
  <2>2. CASE "fqdn" \notin o
    BY <2>2 DEF Opt
  <2> QED
    BY <2>1, <2>2
<1>9. /\ Flagged(ie, s, o, k) /\ Flagged(ie, t, o, k)
  <2> DEFINE k4 == IF "ipv4" \in o THEN 4 ELSE 0
             k6 == IF "ipv6" \in o THEN 16 ELSE 0
             kn == IF "fqdn" \in o THEN n + 1 ELSE 0
             p4 == Opt(o, "ipv4", "ipv4_address", 4)
             p6 == Opt(o, "ipv6", "ipv6_address", 16)
             pn == Opt(o, "fqdn", "fqdn", n + 1)
             po == Opt(o, "fqdn", name, n + 1)
  <2> HIDE DEF n, name
  <2>1. 4 \in Nat \ {0} /\ 16 \in Nat \ {0}
    OBVIOUS
  <2>2. Block(p4, k4) /\ Block(p6, k6) /\ Block(pn, kn) /\ Block(po, kn)
    BY <1>2, <1>6, <2>1, BlockOpt
  <2>3. Flagged(ie, <<Bits(o, 1)>>, o, 1)
    BY <1>1, <1>3, FlaggedOne
  <2> HIDE DEF p4, p6, pn, po, k4, k6, kn
  <2>4. Flagged(ie, (<<Bits(o, 1)>> \o p4) \o p6, o, (1 + k4) + k6)
    BY <2>2, <2>3, FlaggedConcat, Zenon
  <2>5. /\ Flagged(ie, ((<<Bits(o, 1)>> \o p4) \o p6) \o pn, o, ((1 + k4) + k6) + kn)
        /\ Flagged(ie, ((<<Bits(o, 1)>> \o p4) \o p6) \o po, o, ((1 + k4) + k6) + kn)
    BY <2>2, <2>4, FlaggedConcat, Zenon
  <2> QED
    BY <2>5, Zenon DEF p4, p6, pn, po, k4, k6, kn
<1> HIDE DEF s, t, u, d, a, k
<1>10. /\ Block(s, k) /\ Block(t, k) /\ Octets(s) = k /\ Announced(ie, s) = {o}
       /\ k \in Nat
  BY <1>9 DEF Flagged, Block
<1>11. /\ Codec(ie, o, 0).length = Octets(s) /\ Codec(ie, o, 0).tlv = Octets(s)
       /\ Codec(ie, o, 0).dumps = d /\ Codec(ie, o, 0).value = s
       /\ Codec(ie, o, 0).dumped = t /\ Codec(ie, o, k).accepts = a(k)
       /\ Codec(ie, o, k).loaded = s
  BY <1>4, <1>8, Zenon DEF Parts
<1>12. CASE "name_256" \in o
  <2>1. d = FALSE
    BY <1>12 DEF d
  <2>2. Codec(ie, o, 0).dumps \in BOOLEAN
    BY <1>11, <2>1
  <2>3. Codec(ie, o, 0).length = k /\ Codec(ie, o, 0).tlv \in Nat
    BY <1>10, <1>11
  <2>4. Formed(ie, o) /\ Counted(ie, o)
    BY <1>10, <1>11, <2>2, <2>3, ExactElement, Zenon
  <2>5. \A m : m.ie = ie /\ m.o = o => Unusable(m)
    BY <1>12 DEF Unusable
  <2>6. ReadBack(ie, o)
    BY <1>11, <2>1, Zenon DEF ReadBack
  <2>7. Taken(ie, o)
    BY <2>5, Zenon DEF Taken
  <2> QED
    BY <2>4, <2>6, <2>7 DEF Sorted
<1>13. CASE "name_256" \notin o
  <2>1. d = TRUE
    BY <1>13 DEF d
  <2>2. CASE "long_label" \in o
    <3>1. Formed(ie, o) /\ Counted(ie, o)
      BY <1>10, <1>11, <2>1, ExactFields, Zenon
    <3>2. \A m : m.ie = ie /\ m.o = o => Altered(m)
      BY <2>2 DEF Altered
    <3> QED
      BY <3>1, <3>2, AlwaysAltered DEF Sorted
  <2>3. CASE "long_label" \notin o
    <3>1. t = s
      BY <2>3 DEF s, t
    <3>2. CASE "label_255" \in o
      <4>1. \A m : m.ie = ie /\ m.o = o => Unusable(m)
        BY <3>2 DEF Unusable, Endless
      <4>2. a(k) = FALSE
        BY <1>7, <3>2
      <4>3. \A o2 \in Announced(ie, s) : ~Codec(ie, o2, k).accepts
        BY <1>10, <1>11, <4>2, Zenon
      <4> QED
        BY <1>1, <1>7, <1>10, <1>11, <2>1, <3>1, <4>1, <4>3, LostElement, Zenon
    <3>3. CASE "label_255" \notin o
      <4>1. \A m : m.ie = ie /\ m.o = o /\ m.length = k /\ m.place # "stray"
                      => ~Unusable(m)
        BY <1>7, <1>13, <3>3 DEF Unusable, Endless
      <4>2. a(k) = TRUE
        BY <1>7, <3>3
      <4>3. \A o2 \in Announced(ie, s) :
              Codec(ie, o2, k).accepts /\ Codec(ie, o2, k).loaded = s
        BY <1>10, <1>11, <4>2, Zenon
      <4>4. Codec(ie, o, 0).dumps = TRUE /\ Codec(ie, o, 0).dumped = s
        BY <1>11, <2>1, <3>1, Zenon
      <4>5. k \in Nat \ {0}
        BY <1>7
      <4> QED
        BY ZenonT(60), <1>1, <1>10, <1>11, <4>1, <4>3, <4>4, <4>5, SameElement
    <3> QED
      BY <3>2, <3>3
  <2> QED
    BY <2>2, <2>3
<1> QED
  BY <1>12, <1>13

(* The failed_rule_id is read as it is written for a BAR only (Unusable), whose
   id is one octet (Altered). *)
LEMMA FailedRuleIdElement ==
  ASSUME NEW ie, ie = "failed_rule_id", NEW o \in Options(ie)
  PROVE  Sorted(ie, o)
<1> DEFINE n == CASE "bar" \in o -> 1 [] "pdr" \in o -> 2
                  [] o \cap {"far", "qer", "urr"} # {} -> 4 [] OTHER -> 0
           x == Cut(o, "wide", "rule_id_value", "rule_id_low_octet", n)
           s == <<Bits(o, 1), Field("rule_id_value", n)>>
           t == <<Bits(o, 1)>> \o x
           d == n # 0
           a(l) == l = 1 /\ l = n
<1>1. ie \in Decodable /\ ie \in Leaves \ {"volume_threshold", "subsequent_volume_threshold"}
  BY Names DEF OptionalNames
<1>2. "rule_id_value" \in DataNames /\ "rule_id_low_octet" \in DataNames
  BY DEF DataNames
<1>3. o \in SUBSET OptionNames
  BY <1>1, OptionsNamed
<1>4. \A l : Parts(Codec(ie, o, l), n, n, d, s, t, a(l), s)
  <2> SUFFICES ASSUME NEW l
               PROVE  Parts(Codec(ie, o, l), n, n, d, s, t, a(l), s)
    OBVIOUS
  <2> DEFINE b == a(l)
  <2>1. Codec(ie, o, l) = [Agreed(s, l) EXCEPT !.length = n, !.tlv = n, !.dumps = d,
                                               !.dumped = t, !.accepts = b]
    BY DEF Codec, pfcp_failed_rule_id_ie
  <2> HIDE DEF s, n, t, d, b
  <2>2. Parts(Codec(ie, o, l), n, n, d, s, t, b, s)
    BY <2>1 DEF Parts, Agreed
  <2> QED
    BY <2>2 DEF b
<1>5. o \in {{}, {"pdr"}, {"far"}, {"qer"}, {"urr"}, {"bar"}, {"bar", "wide"}}
  BY OptionsOf DEF failed_rule_id_t
<1>6. n \in {0, 1, 2, 4} /\ (n = 0 <=> o = {}) /\ (n = 1 <=> "bar" \in o)
  BY <1>5
<1>7. s = <<Bits(o, 1)>> \o <<Field("rule_id_value", n)>>
  <2> HIDE DEF n
  <2> QED
    OBVIOUS
<1>8. CASE n = 0
  <2>1. d = FALSE
    BY <1>8
  <2>2. t \in Seq(FieldType)
    <3> HIDE DEF n
    <3>1. x \in Seq(FieldType) /\ <<Bits(o, 1)>> \in Seq(FieldType)
      BY <1>2, <1>3, <1>6 DEF Cut, Bits, Field, FieldType
    <3> HIDE DEF x
    <3> QED
      BY <3>1
  <2>3. \A m : m.length = n => Unusable(m)
    BY <1>8 DEF Unusable
  <2> HIDE DEF s, n, t, d, a
  <2>4. 0 \in Nat
    OBVIOUS
  <2>5. Formed(ie, o)
    BY <1>4, <1>8, <2>1, <2>2, <2>4, Zenon DEF Formed, Parts
  <2>6. Counted(ie, o) /\ ReadBack(ie, o)
    BY <1>4, <2>1, Zenon DEF Counted, ReadBack, Parts
  <2>7. Taken(ie, o)
    BY <1>4, <2>3, Zenon DEF Taken, Parts
  <2> QED
    BY <2>5, <2>6, <2>7 DEF Sorted
<1>9. CASE n # 0
  <2>1. d = TRUE
    BY <1>9
  <2>2. a(n) = ("bar" \in o)
    BY <1>6
  <2> HIDE DEF n
  <2>4. n \in Nat \ {0} /\ n \in Nat /\ n <= 1 + n
    BY <1>6, <1>9
  <2>5. Flagged(ie, <<Bits(o, 1)>>, o, 1) /\ Block(x, n)
    BY <1>1, <1>2, <1>3, <2>4, FlaggedOne, BlockField DEF Cut
  <2>16. "wide" \notin o => t = s
    <3>1. "wide" \notin o => x = <<Field("rule_id_value", n)>>
      BY DEF Cut
    <3> HIDE DEF x, s
    <3> QED
      BY <1>7, <3>1
  <2> HIDE DEF s, d, a, x
  <2>6. Flagged(ie, t, o, 1 + n)
    BY <2>5, FlaggedConcat, Zenon
  <2> HIDE DEF t
  <2>7. Block(t, 1 + n) /\ t # <<>> /\ Announced(ie, t) = {o}
    BY <2>6 DEF Flagged
  <2>8. Codec(ie, o, 0).dumps \in BOOLEAN
    BY <1>4, <2>1, Zenon DEF Parts
  <2>9. Formed(ie, o)
    BY <1>4, <2>4, <2>7, <2>8, UnderstatedElement, Zenon DEF Parts
  <2>10. \A m : m.ie = ie => Understated(m)
    BY DEF Understated
  <2>11. Counted(ie, o)
    BY <2>10, Zenon DEF Counted
  <2>17. CASE "wide" \in o
    <3>1. \A m : m.ie = ie /\ m.o = o => Altered(m)
      BY <2>17 DEF Altered
    <3> QED
      BY <2>9, <2>11, <3>1, AlwaysAltered DEF Sorted
  <2>18. CASE "wide" \notin o
    <3>1. t = s
      BY <2>16, <2>18
    <3>2. \A m : m.ie = ie /\ m.o = o /\ m.length = n /\ m.place # "stray" /\ "bar" \in o
                     => ~Unusable(m)
      BY <1>9 DEF Unusable, Endless
    <3>3. \A m : m.ie = ie /\ m.o = o /\ ~Unusable(m) => "bar" \in o
      BY DEF Unusable
    <3>6. (a(n) => "bar" \in o) /\ ("bar" \in o => a(n))
      BY <2>2, Zenon
    <3>4. ReadBack(ie, o)
      BY ZenonT(60), <1>4, <2>7, <3>1, <3>2, <3>6 DEF ReadBack, Parts
    <3>5. Taken(ie, o)
      BY <1>1, <1>4, <1>9, <2>1, <2>7, <3>3, <3>6, Zenon DEF Taken, Parts
    <3> QED
      BY <2>9, <2>11, <3>4, <3>5 DEF Sorted
  <2> QED
    BY <2>17, <2>18
<1> QED
  BY <1>8, <1>9

(* The sdf_filter is read as it is written, its flow label too, which its length
   does not count, unless it has a filter id or a description of another length
   than it says (Altered).  With a text of the wrong size there is none
   (Unusable). *)
LEMMA SdfFilterElement ==
  ASSUME NEW ie, ie = "sdf_filter", NEW o \in Options(ie)
  PROVE  Sorted(ie, o)
<1> DEFINE stated == CASE "fd_more" \in o -> TextOctets + 1
                       [] "fd_less" \in o -> TextOctets - 1
                       [] OTHER           -> TextOctets
           Fixed(n) == <<Bits(o, 1), Field("spare", 1)>>
                          \o Opt(o, "fd", "length_of_flow_description", 2)
                          \o Opt(o, "fd", "flow_description", n)
                          \o Opt(o, "ttc", "tos_traffic_class", 2)
                          \o Opt(o, "spi", "security_parameter_index", 4)
           p1 == Opt(o, "fd", "length_of_flow_description", 2)
           p2 == Opt(o, "fd", "flow_description", TextOctets)
           p3 == Opt(o, "ttc", "tos_traffic_class", 2)
           p4 == Opt(o, "spi", "security_parameter_index", 4)
           fixed == Fixed(TextOctets)
           label == Opt(o, "fl", "flow_label", 3)
           id == Opt(o, "bid", "sdf_filter_id", 4)
           text == Opt(o, "bid", "sdf_filter_id_as_text", SdfIdDigits)
           full == fixed \o label \o id
           s == fixed \o label \o text
           read == Fixed(stated) \o label \o id
           d == "missized" \notin o
<1>1. ie \in Decodable /\ ie \in Leaves \ {"volume_threshold", "subsequent_volume_threshold"}
  BY Names DEF OptionalNames
<1>2. /\ "spare" \in DataNames /\ "length_of_flow_description" \in DataNames
      /\ "flow_description" \in DataNames /\ "tos_traffic_class" \in DataNames
      /\ "security_parameter_index" \in DataNames /\ "flow_label" \in DataNames
      /\ "sdf_filter_id" \in DataNames /\ "sdf_filter_id_as_text" \in DataNames
  BY DEF DataNames
<1>3. o \in SUBSET OptionNames
  BY <1>1, OptionsNamed
<1>4. \A l : Parts(Codec(ie, o, l), Octets(fixed), Octets(fixed), d, full, s, TRUE, read)
  <2> SUFFICES ASSUME NEW l
               PROVE  Parts(Codec(ie, o, l), Octets(fixed), Octets(fixed), d, full, s,
                            TRUE, read)
    OBVIOUS
  <2>1. Codec(ie, o, l) = [Agreed(fixed, l) EXCEPT !.dumps = d, !.value = full,
                              !.dumped = s, !.accepts = TRUE, !.loaded = read]
    BY DEF Codec, pfcp_sdf_filter_ie
  <2> HIDE DEF s, full, fixed, read, d
  <2> QED
    BY <2>1 DEF Parts, Agreed
<1>5. TextOctets \in Nat \ {0} /\ SdfIdDigits \in Nat \ {0}
  BY TextAssumption
<1>18. o \cap {"fd_more", "fd_less"} = {} => read = full
  BY DEF stated
<1> HIDE DEF read
<1>6. \E k : Flagged(ie, fixed, o, k)
  <2>1. Flagged(ie, <<Bits(o, 1)>>, o, 1) /\ Block(<<Field("spare", 1)>>, 1)
    BY <1>1, <1>2, <1>3, FlaggedOne, BlockField
  <2>2. <<Bits(o, 1), Field("spare", 1)>> = <<Bits(o, 1)>> \o <<Field("spare", 1)>>
    OBVIOUS
  <2> DEFINE e == <<Bits(o, 1), Field("spare", 1)>>
  <2>3. Flagged(ie, e, o, 1 + 1)
    BY <2>1, <2>2, FlaggedConcat, Zenon
  <2> HIDE DEF e
  <2>4. 2 \in Nat \ {0} /\ 4 \in Nat \ {0}
    OBVIOUS
  <2>5. PICK k1, k2, k3, k4 : /\ Block(p1, k1) /\ Block(p2, k2)
                              /\ Block(p3, k3) /\ Block(p4, k4)
    BY <1>2, <1>5, <2>4, OptBlock, Zenon
  <2>6. fixed = (((e \o p1) \o p2) \o p3) \o p4
    BY DEF e
  <2> HIDE DEF p1, p2, p3, p4, fixed
  <2>7. Flagged(ie, (((e \o p1) \o p2) \o p3) \o p4, o, 1 + 1 + k1 + k2 + k3 + k4)
    BY <2>3, <2>5, FlaggedConcat, Zenon
  <2> QED
    BY <2>6, <2>7, Zenon
<1>7. PICK k : Flagged(ie, fixed, o, k)
  BY <1>6
<1>8. PICK l1, l2, l3 : Block(label, l1) /\ Block(id, l2) /\ Block(text, l3)
  <2>1. 3 \in Nat \ {0} /\ 4 \in Nat \ {0}
    OBVIOUS
  <2> QED
    BY <1>2, <1>5, <2>1, OptBlock, Zenon
<1>9. Flagged(ie, s, o, k + l1 + l3)
  <2> HIDE DEF fixed, label, text
  <2> QED
    BY <1>7, <1>8, FlaggedConcat, Zenon
<1>10. /\ Block(fixed, k) /\ k \in Nat /\ Octets(fixed) = k /\ fixed \in Seq(FieldType)
       /\ fixed # <<>>
  <2> HIDE DEF fixed
  <2> QED
    BY <1>7 DEF Flagged, Block
<1>11. l1 \in Nat /\ l3 \in Nat
  <2> HIDE DEF label, id, text
  <2> QED
    BY <1>8 DEF Block
<1>12. k # 0
  <2> HIDE DEF fixed
  <2>1. fixed \in Seq(ItemType) /\ Positive(fixed) /\ Len(fixed) > 0
    BY <1>10, FieldsAreItems DEF Block
  <2> QED
    BY <1>10, <2>1, OctetsPositive
<1>13. Block(s, k + l1 + l3) /\ s # <<>> /\ Announced(ie, s) = {o}
  <2> HIDE DEF s
  <2> QED
    BY <1>9 DEF Flagged
<1>19. d \in BOOLEAN
  OBVIOUS
<1>14. Formed(ie, o)
  <2> DEFINE n == k + l1 + l3
  <2>1. k <= n
    BY <1>10, <1>11
  <2> HIDE DEF n, s, fixed, full, d
  <2>2. Codec(ie, o, 0).dumps \in BOOLEAN
    BY <1>4, <1>19, Zenon DEF Parts
  <2>3. Block(s, n)
    BY <1>13 DEF n
  <2> QED
    BY <1>4, <1>10, <2>1, <2>2, <2>3, UnderstatedElement, Zenon DEF Parts
<1>15. Counted(ie, o)
  <2>1. CASE o \cap {"fl", "bid"} # {}
    <3>1. \A m : m.ie = ie /\ m.o = o => Understated(m)
      BY <2>1 DEF Understated
    <3> QED
      BY <3>1, Zenon DEF Counted
  <2>2. CASE o \cap {"fl", "bid"} = {}
    <3>1. label = <<>> /\ text = <<>>
      BY <2>2 DEF Opt
    <3>2. s = fixed
      <4> HIDE DEF fixed, label, text
      <4> QED
        BY <1>10, <3>1
    <3> HIDE DEF s, fixed, full, d
    <3> QED
      BY <1>4, <3>2, Zenon DEF Counted, Parts
  <2> QED
    BY <2>1, <2>2
<1>16. CASE o \cap {"bid", "fd_more", "fd_less"} # {}
  <2>1. \A m : m.ie = ie /\ m.o = o => Altered(m)
    BY <1>16 DEF Altered, OutOfStep
  <2> QED
    BY <1>14, <1>15, <2>1, AlwaysAltered DEF Sorted
<1>20. CASE "missized" \in o
  <2>1. d = FALSE
    BY <1>20
  <2>2. \A m : m.ie = ie /\ m.o = o => Unusable(m)
    BY <1>20 DEF Unusable
  <2> HIDE DEF full, s, fixed, d
  <2>3. ReadBack(ie, o)
    BY <1>4, <2>1, Zenon DEF ReadBack, Parts
  <2>4. Taken(ie, o)
    BY <2>2, Zenon DEF Taken
  <2> QED
    BY <1>14, <1>15, <2>3, <2>4 DEF Sorted
<1>17. CASE o \cap {"bid", "fd_more", "fd_less", "missized"} = {}
  <2>1. id = text
    BY <1>17 DEF Opt
  <2>2. full = s
    <3> HIDE DEF fixed, label, id, text
    <3> QED
      BY <2>1
  <2>3. \A m : m.ie = ie /\ m.o = o /\ m.length = k /\ m.place # "stray" => ~Unusable(m)
    BY <1>12, <1>17 DEF Unusable, Endless
  <2>6. d = TRUE
    BY <1>17
  <2>7. read = s
    <3> HIDE DEF full, s
    <3> QED
      BY <1>17, <1>18, <2>2
  <2> HIDE DEF full, s, fixed, d
  <2>4. ReadBack(ie, o)
    <3>1. /\ Codec(ie, o, 0).dumped = s /\ Codec(ie, o, 0).value = s
          /\ Codec(ie, o, 0).length = k /\ Codec(ie, o, 0).tlv = k
      BY <1>4, <1>10, <2>2, Zenon DEF Parts
    <3>2. Codec(ie, o, k).loaded = s
      BY <1>4, <2>7, Zenon DEF Parts
    <3> QED
      BY <1>13, <2>3, <3>1, <3>2, Zenon DEF ReadBack
  <2>5. Taken(ie, o)
    BY <1>1, <1>4, <1>10, <1>12, <1>13, <2>6, Zenon DEF Taken, Parts
  <2> QED
    BY <1>14, <1>15, <2>4, <2>5 DEF Sorted
<1> QED
  BY <1>16, <1>17, <1>20

(* Every element, whatever its options. *)
LEMMA EveryElement ==
  ASSUME NEW ie \in Leaves, NEW o \in Options(ie)
  PROVE  Sorted(ie, o)
<1>1. CASE ie \in FixedNames
  BY <1>1, FixedElement
<1>2. CASE ie \in {"volume_threshold", "subsequent_volume_threshold"}
  BY <1>2, VolumeElement
<1>3. CASE ie \in {"network_instance", "application_id",
                   "activate_predefined_rules", "deactivate_predefined_rules"}
  BY <1>3, TextElement
<1>4. CASE ie = "urr_id"
  BY <1>4, UrrIdElement
<1>5. CASE ie = "qer_correlation_id"
  BY <1>5, QerCorrelationIdElement
<1>6. CASE ie = "node_report_type"
  BY <1>6, NodeReportTypeElement
<1>7. CASE ie = "transport_level_marking"
  BY <1>7, TransportLevelMarkingElement
<1>8. CASE ie = "forwarding_policy"
  BY <1>8, ForwardingPolicyElement
<1>9. CASE ie = "f_seid"
  BY <1>9, FSeidElement
<1>10. CASE ie = "node_id"
  BY <1>10, NodeIdElement
<1>11. CASE ie = "outer_header_creation"
  BY <1>11, OuterHeaderCreationElement
<1>12. CASE ie = "ue_ip_address"
  BY <1>12, UeIpAddressElement
<1>13. CASE ie = "failed_rule_id"
  BY <1>13, FailedRuleIdElement
<1>14. CASE ie = "user_plane_ip_resource_information"
  BY <1>14, ResourceInformationElement
<1>15. CASE ie = "user_id"
  BY <1>15, UserIdElement
<1>16. CASE ie = "fteid"
  BY <1>16, FteidElement
<1>17. CASE ie = "sdf_filter"
  BY <1>17, SdfFilterElement
<1>19. CASE ie \in {"mbr", "gbr"}
  BY <1>19, RateElement
<1>18. ie \in FixedNames \cup OptionalNames \cup {"node_report_type"}
  BY Names
<1> QED
  BY <1>1, <1>2, <1>3, <1>4, <1>5, <1>6, <1>7, <1>8, <1>9, <1>10, <1>11, <1>12, <1>13,
     <1>14, <1>15, <1>16, <1>17, <1>18, <1>19 DEF OptionalNames

-----------------------------------------------------------------------------
(* Reading from the wire. *)

(* Positive items in a concatenation. *)
LEMMA PositiveConcat ==
  ASSUME NEW s \in Seq(ItemType), NEW t \in Seq(ItemType)
  PROVE  Positive(s \o t) <=> Positive(s) /\ Positive(t)
<1>1. /\ s \o t \in Seq(ItemType) /\ Len(s \o t) = Len(s) + Len(t)
      /\ Len(s) \in Nat /\ Len(t) \in Nat
      /\ DOMAIN s = 1 .. Len(s) /\ DOMAIN t = 1 .. Len(t)
      /\ DOMAIN (s \o t) = 1 .. Len(s) + Len(t)
  BY ConcatProperties
<1>2. \A i \in 1 .. Len(s) + Len(t) :
        (s \o t)[i] = IF i <= Len(s) THEN s[i] ELSE t[i - Len(s)]
  BY ConcatProperties
<1>3. ASSUME Positive(s \o t) PROVE Positive(s) /\ Positive(t)
  <2>1. ASSUME NEW i \in 1 .. Len(s) PROVE s[i].n > 0
    <3>1. i \in 1 .. Len(s) + Len(t) /\ (s \o t)[i] = s[i]
      BY <1>1, <1>2
    <3> QED
      BY <1>1, <1>3, <3>1 DEF Positive
  <2>2. ASSUME NEW i \in 1 .. Len(t) PROVE t[i].n > 0
    <3>1. Len(s) + i \in 1 .. Len(s) + Len(t) /\ (s \o t)[Len(s) + i] = t[i]
      BY <1>1, <1>2
    <3> QED
      BY <1>1, <1>3, <3>1 DEF Positive
  <2> QED
    BY <1>1, <2>1, <2>2 DEF Positive
<1>4. ASSUME Positive(s), Positive(t) PROVE Positive(s \o t)
  <2>1. ASSUME NEW i \in 1 .. Len(s) + Len(t) PROVE (s \o t)[i].n > 0
    <3>1. CASE i <= Len(s)
      BY <1>1, <1>2, <1>4, <3>1 DEF Positive
    <3>2. CASE i > Len(s)
      BY <1>1, <1>2, <1>4, <3>2 DEF Positive
    <3> QED
      BY <1>1, <3>1, <3>2
  <2> QED
    BY <1>1, <2>1 DEF Positive
<1> QED
  BY <1>3, <1>4

(* A longer beginning has more octets. *)
LEMMA PrefixGrows ==
  ASSUME NEW w \in Seq(ItemType), Positive(w),
         NEW j \in 0 .. Len(w), NEW k \in 0 .. Len(w), j < k
  PROVE  Octets(SubSeq(w, 1, j)) < Octets(SubSeq(w, 1, k))
<1> DEFINE a == SubSeq(w, 1, j)
           b == SubSeq(w, j + 1, k)
<1>1. Len(w) \in Nat /\ \A i \in 1 .. Len(w) : w[i] \in ItemType
  BY ElementOfSeq
<1>2. a \in Seq(ItemType)
  BY <1>1, SubSeqProperties
<1>3. b \in Seq(ItemType) /\ Len(b) = k - j /\ \A i \in 1 .. k - j : b[i] = w[j + i]
  BY <1>1, SubSeqProperties
<1>4. Positive(b)
  <2>1. \A i \in 1 .. k - j : j + i \in DOMAIN w
    BY <1>1
  <2>2. DOMAIN b = 1 .. k - j
    BY <1>3
  <2> HIDE DEF b
  <2> QED
    BY <1>3, <2>1, <2>2 DEF Positive
<1>5. a \o b = SubSeq(w, 1, k)
  BY <1>1, ConcatAdjacentSubSeq
<1> HIDE DEF a, b
<1>6. Octets(a \o b) = Octets(a) + Octets(b) /\ Octets(b) >= k - j
  BY <1>2, <1>3, <1>4, OctetsConcat, OctetsPositive
<1>7. Octets(a) \in Nat /\ Octets(b) \in Nat
  BY <1>2, <1>3, OctetsNat
<1>8. Octets(a) < Octets(a \o b)
  BY <1>6, <1>7
<1> QED
  BY <1>5, <1>8 DEF a

(* The two parts of a concatenation. *)
LEMMA ConcatParts ==
  ASSUME NEW s \in Seq(ItemType), NEW t \in Seq(ItemType)
  PROVE  /\ SubSeq(s \o t, 1, Len(s)) = s
         /\ SubSeq(s \o t, Len(s) + 1, Len(s \o t)) = t
<1>1. /\ s \o t \in Seq(ItemType) /\ Len(s \o t) = Len(s) + Len(t)
      /\ Len(s) \in Nat /\ Len(t) \in Nat
      /\ \A i \in 1 .. Len(s) + Len(t) :
           (s \o t)[i] = IF i <= Len(s) THEN s[i] ELSE t[i - Len(s)]
  BY ConcatProperties
<1>2. \A i \in 1 .. Len(s) + Len(t) : (s \o t)[i] \in ItemType
  BY <1>1, ElementOfSeq
<1>3. SubSeq(s \o t, 1, Len(s)) = s
  <2> DEFINE a == SubSeq(s \o t, 1, Len(s))
  <2>1. /\ a \in Seq(ItemType)
        /\ Len(a) = IF 1 <= Len(s) THEN Len(s) - 1 + 1 ELSE 0
        /\ \A i \in 1 .. Len(s) - 1 + 1 : a[i] = (s \o t)[1 + i - 1]
    BY <1>1, <1>2, SubSeqProperties
  <2>2. Len(a) = Len(s) /\ \A i \in 1 .. Len(s) : a[i] = s[i]
    BY <1>1, <2>1
  <2> HIDE DEF a
  <2> QED
    BY <2>1, <2>2, SeqEqual DEF a
<1>4. SubSeq(s \o t, Len(s) + 1, Len(s \o t)) = t
  <2> DEFINE m == Len(s) + 1
             n == Len(s) + Len(t)
             w == s \o t
             a == SubSeq(w, m, n)
  <2>1. m \in Int /\ n \in Int /\ \A i \in m .. n : w[i] \in ItemType
    BY <1>1, <1>2
  <2>2. /\ a \in Seq(ItemType)
        /\ Len(a) = IF m <= n THEN n - m + 1 ELSE 0
        /\ \A i \in 1 .. n - m + 1 : a[i] = w[m + i - 1]
    <3> HIDE DEF m, n, w
    <3> QED
      BY <2>1, SubSeqProperties
  <2> HIDE DEF a
  <2>3. Len(a) = Len(t)
    BY <1>1, <2>2
  <2>4. ASSUME NEW i \in 1 .. Len(t) PROVE a[i] = t[i]
    <3>1. i \in 1 .. n - m + 1 /\ m + i - 1 \in 1 .. Len(s) + Len(t)
          /\ ~(m + i - 1 <= Len(s)) /\ (m + i - 1) - Len(s) = i
      BY <1>1
    <3> HIDE DEF m, n
    <3> QED
      BY <1>1, <2>2, <3>1
  <2>5. a = t
    BY <2>2, <2>3, <2>4, SeqEqual
  <2> QED
    BY <1>1, <2>5 DEF a
<1> QED
  BY <1>3, <1>4

(* Reading the octets of s leaves what comes behind s. *)
LEMMA AfterConcat ==
  ASSUME NEW s \in Seq(ItemType), NEW t \in Seq(ItemType), Positive(s \o t)
  PROVE  After(s \o t, Octets(s)) = t
<1> DEFINE w == s \o t
           cut == {k \in 0 .. Len(w) : Octets(SubSeq(w, 1, k)) = Octets(s)}
<1>1. w \in Seq(ItemType) /\ Len(w) = Len(s) + Len(t) /\ Len(s) \in Nat /\ Len(t) \in Nat
  BY ConcatProperties
<1>2. SubSeq(w, 1, Len(s)) = s /\ SubSeq(w, Len(s) + 1, Len(w)) = t
  BY ConcatParts
<1>3. Positive(w)
  OBVIOUS
<1>8. ~(Octets(s) > Octets(w))
  BY OctetsConcat, OctetsNat
<1> HIDE DEF w
<1>4. Len(s) \in cut
  <2>1. Len(s) \in 0 .. Len(w)
    BY <1>1
  <2> QED
    BY <1>2, <2>1, Zenon
<1>5. ASSUME NEW k \in cut PROVE k = Len(s)
  <2>1. k \in 0 .. Len(w) /\ Len(s) \in 0 .. Len(w)
    BY <1>1
  <2>2. /\ Octets(SubSeq(w, 1, k)) = Octets(s)
        /\ Octets(SubSeq(w, 1, Len(s))) = Octets(s) /\ Octets(s) \in Nat
    BY <1>2, OctetsNat
  <2>3. CASE k < Len(s)
    BY SMTT(60), <1>1, <1>3, <2>1, <2>2, <2>3, PrefixGrows
  <2>4. CASE k > Len(s)
    BY <1>1, <1>3, <2>1, <2>2, <2>4, PrefixGrows
  <2> QED
    BY <1>1, <2>1, <2>3, <2>4
<1>6. (CHOOSE k \in cut : TRUE) = Len(s)
  BY <1>4, <1>5
<1> HIDE DEF cut
<1>7. After(w, Octets(s)) = SubSeq(w, (CHOOSE k \in cut : TRUE) + 1, Len(w))
  <2>1. cut # {}
    BY <1>4
  <2> DEFINE n == Octets(s)
             rest == SubSeq(w, (CHOOSE k \in cut : TRUE) + 1, Len(w))
  <2>2. After(w, n) = CASE cut # {}      -> rest
                        [] n > Octets(w) -> <<>>
                        [] OTHER         -> <<Junk>>
    BY Zenon DEF After, cut
  <2> HIDE DEF rest
  <2> QED
    BY <1>8, <2>1, <2>2 DEF rest
<1> QED
  BY <1>2, <1>6, <1>7 DEF w

(* Where the fields s are written, load_from finds them. *)
LEMMA FoundConcat ==
  ASSUME NEW s \in Seq(ItemType), NEW t \in Seq(ItemType)
  PROVE  Found(s \o t, s) = s
<1>1. SubSeq(s \o t, 1, Len(s)) = s /\ Len(s) <= Len(s \o t)
  BY ConcatParts, ConcatProperties
<1> QED
  BY <1>1, Zenon DEF Found
=============================================================================
