--------------------------- MODULE PfcpContainers ---------------------------
(***************************************************************************)
(* Which information elements go into which group or message, on both      *)
(* sides.                                                                  *)
(*                                                                         *)
(* Receiving (src/src/oai/pfcp/msg_pfcp.hpp): a container class takes an   *)
(* element by its overload of set.  A std::pair member is overwritten by   *)
(* the next element of its type, a std::vector member grows, and an        *)
(* element without an overload is refused with pfcp_msg_illegal_ie.        *)
(* Members whose type has no information element class in                  *)
(* 3gpp_29.244.hpp can never be set from a stream and are left out.        *)
(*                                                                         *)
(* Sending (3gpp_29.244.hpp and .cpp): the constructor of a grouped        *)
(* element or of pfcp_msg adds the members that are present, in the order  *)
(* given here, whatever else its container holds.                          *)
(***************************************************************************)
EXTENDS PfcpIes

Container(one, many) == [one |-> one, many |-> many]
Members(c) == c.one \cup c.many
-----------------------------------------------------------------------------
\* Containers of the grouped elements.

pdi ==
    Container({"source_interface", "fteid", "network_instance",
               "ue_ip_address", "sdf_filter", "application_id", "qfi"}, {})
create_pdr ==
    Container({"pdr_id", "precedence", "pdi", "outer_header_removal",
               "far_id", "urr_id", "qer_id", "activate_predefined_rules"}, {})
update_forwarding_parameters ==
    Container({"destination_interface", "network_instance",
               "outer_header_creation", "transport_level_marking",
               "forwarding_policy"}, {})
forwarding_parameters ==
    Container({"destination_interface", "network_instance",
               "outer_header_creation", "transport_level_marking",
               "forwarding_policy"}, {})
duplicating_parameters ==
    Container({"destination_interface", "outer_header_creation",
               "transport_level_marking", "forwarding_policy"}, {})
create_far ==
    Container({"far_id", "apply_action", "forwarding_parameters",
               "duplicating_parameters", "bar_id"}, {})
create_urr ==
    Container({"urr_id", "reporting_triggers", "volume_threshold",
               "time_threshold", "monitoring_time",
               "subsequent_volume_threshold", "subsequent_time_threshold",
               "inactivity_detection_time", "far_id"}, {})
create_qer ==
    Container({"qer_id", "qer_correlation_id", "gate_status", "mbr", "gbr",
               "qfi"}, {})
create_traffic_endpoint ==
    Container({"fteid", "network_instance", "ue_ip_address"}, {})
created_pdr == Container({"pdr_id", "fteid"}, {})
update_pdr ==
    Container({"pdr_id", "outer_header_removal", "precedence", "pdi",
               "far_id", "urr_id", "qer_id"},
              {"activate_predefined_rules", "deactivate_predefined_rules"})
update_far ==
    Container({"far_id", "apply_action", "update_forwarding_parameters",
               "bar_id"}, {})
update_urr ==
    Container({"urr_id", "reporting_triggers", "volume_threshold",
               "time_threshold", "monitoring_time",
               "subsequent_volume_threshold", "subsequent_time_threshold",
               "inactivity_detection_time", "far_id"}, {})
update_qer ==
    Container({"qer_id", "qer_correlation_id", "gate_status", "mbr", "gbr",
               "qfi"}, {})
remove_pdr == Container({"pdr_id"}, {})
remove_far == Container({"far_id"}, {})
remove_urr == Container({"urr_id"}, {})
remove_qer == Container({"qer_id"}, {})
downlink_data_report == Container({"pdr_id"}, {})
update_bar_within_pfcp_session_report_response == Container({"bar_id"}, {})
-----------------------------------------------------------------------------
\* Containers of the messages.

pfcp_heartbeat_request == Container({"recovery_time_stamp"}, {})
pfcp_heartbeat_response == Container({"recovery_time_stamp"}, {})
pfcp_pfd_management_request == Container({}, {})
pfcp_pfd_management_response == Container({"cause", "offending_ie"}, {})
pfcp_association_setup_request ==
    Container({"node_id", "recovery_time_stamp", "up_function_features",
               "cp_function_features", "user_plane_ip_resource_information"},
              {})
pfcp_association_setup_response ==
    Container({"node_id", "cause", "recovery_time_stamp",
               "up_function_features", "cp_function_features",
               "user_plane_ip_resource_information"}, {})
pfcp_association_update_request ==
    Container({"node_id", "up_function_features", "cp_function_features",
               "user_plane_ip_resource_information"}, {})
pfcp_association_update_response ==
    Container({"node_id", "cause", "up_function_features",
               "cp_function_features"}, {})
pfcp_association_release_request == Container({"node_id"}, {})
pfcp_association_release_response == Container({"node_id", "cause"}, {})
pfcp_version_not_supported_response == Container({}, {})
pfcp_node_report_request == Container({"node_id", "node_report_type"}, {})
pfcp_node_report_response ==
    Container({"node_id", "cause", "offending_ie"}, {})
pfcp_session_set_deletion_request == Container({"node_id"}, {})
pfcp_session_set_deletion_response ==
    Container({"node_id", "cause", "offending_ie"}, {})
pfcp_session_establishment_request ==
    Container({"node_id", "f_seid", "user_plane_inactivity_timer", "user_id"},
              {"create_pdr", "create_far", "create_urr", "create_qer"})
pfcp_session_establishment_response ==
    Container({"node_id", "cause", "offending_ie", "f_seid",
               "failed_rule_id"},
              {"created_pdr"})
pfcp_session_modification_request ==
    Container({"f_seid", "create_traffic_endpoint",
               "user_plane_inactivity_timer"},
              {"remove_pdr", "remove_far", "remove_urr", "remove_qer",
               "create_pdr", "create_far", "create_urr", "create_qer",
               "update_pdr", "update_far", "update_urr", "update_qer"})
pfcp_session_modification_response ==
    Container({"cause", "offending_ie", "failed_rule_id"},
              {"created_pdr"})
pfcp_session_deletion_request == Container({}, {})
pfcp_session_deletion_response == Container({"cause", "offending_ie"}, {})
pfcp_session_report_request ==
    Container({"report_type", "downlink_data_report"}, {})
pfcp_session_report_response ==
    Container({"cause", "offending_ie",
               "update_bar_within_pfcp_session_report_response"}, {})
-----------------------------------------------------------------------------
\* What the constructors of the grouped elements add.

pfcp_pdi_ie ==
    <<"source_interface", "fteid", "network_instance", "ue_ip_address",
      "sdf_filter", "application_id", "qfi">>
pfcp_create_pdr_ie ==
    <<"pdr_id", "precedence", "pdi", "outer_header_removal", "far_id",
      "urr_id", "qer_id", "activate_predefined_rules">>
pfcp_update_forwarding_parameters_ie ==
    <<"destination_interface", "network_instance", "outer_header_creation",
      "transport_level_marking", "forwarding_policy">>
pfcp_forwarding_parameters_ie ==
    <<"destination_interface", "network_instance", "outer_header_creation",
      "transport_level_marking", "forwarding_policy">>
pfcp_duplicating_parameters_ie == <<>>
pfcp_create_far_ie ==
    <<"far_id", "apply_action", "forwarding_parameters",
      "duplicating_parameters", "bar_id">>
pfcp_create_urr_ie == <<>>
pfcp_create_qer_ie == <<>>
pfcp_create_traffic_endpoint_ie == <<>>
pfcp_created_pdr_ie == <<"pdr_id", "fteid">>
pfcp_update_pdr_ie == <<>>
\* The far_id of an update_far is not optional: it is always added.
pfcp_update_far_ie ==
    <<"far_id", "apply_action", "update_forwarding_parameters", "bar_id">>
pfcp_update_urr_ie == <<>>
pfcp_update_qer_ie == <<>>
pfcp_remove_pdr_ie == <<"pdr_id">>
pfcp_remove_far_ie == <<"far_id">>
pfcp_remove_urr_ie == <<>>
pfcp_remove_qer_ie == <<>>
pfcp_downlink_data_report_ie == <<"pdr_id">>
pfcp_update_bar_within_pfcp_session_report_response_ie == <<>>
-----------------------------------------------------------------------------
\* What the constructors of pfcp_msg add.

pfcp_msg_heartbeat_request == <<"recovery_time_stamp">>
pfcp_msg_heartbeat_response == <<"recovery_time_stamp">>
pfcp_msg_association_setup_request ==
    <<"node_id", "recovery_time_stamp", "up_function_features",
      "cp_function_features", "user_plane_ip_resource_information">>
pfcp_msg_association_setup_response ==
    <<"node_id", "cause", "recovery_time_stamp", "up_function_features",
      "cp_function_features", "user_plane_ip_resource_information">>
pfcp_msg_association_release_request == <<"node_id">>
pfcp_msg_association_release_response == <<"node_id", "cause">>
pfcp_msg_node_report_request == <<"node_id", "node_report_type">>
pfcp_msg_session_establishment_request ==
    <<"node_id", "f_seid", "create_pdr", "create_far", "create_urr",
      "create_qer", "create_traffic_endpoint", "user_plane_inactivity_timer",
      "user_id">>
pfcp_msg_session_establishment_response ==
    <<"node_id", "cause", "offending_ie", "f_seid", "created_pdr",
      "failed_rule_id">>
pfcp_msg_session_modification_request ==
    <<"f_seid", "remove_pdr", "remove_far", "remove_urr", "remove_qer",
      "create_pdr", "create_far", "create_urr", "create_qer",
      "create_traffic_endpoint", "update_pdr", "update_far", "update_urr",
      "update_qer", "user_plane_inactivity_timer">>
pfcp_msg_session_modification_response ==
    <<"cause", "offending_ie", "created_pdr", "failed_rule_id">>
pfcp_msg_session_deletion_request == <<>>
pfcp_msg_session_deletion_response == <<"cause", "offending_ie">>
pfcp_msg_session_report_request == <<"report_type", "downlink_data_report">>
pfcp_msg_session_report_response == <<"cause", "offending_ie">>
-----------------------------------------------------------------------------
\* Tables by name: a message is named after its container class.

Grouped ==
    [pdi |-> pdi, create_pdr |-> create_pdr,
     update_forwarding_parameters |-> update_forwarding_parameters,
     forwarding_parameters |-> forwarding_parameters,
     duplicating_parameters |-> duplicating_parameters,
     create_far |-> create_far, create_urr |-> create_urr,
     create_qer |-> create_qer,
     create_traffic_endpoint |-> create_traffic_endpoint,
     created_pdr |-> created_pdr, update_pdr |-> update_pdr,
     update_far |-> update_far, update_urr |-> update_urr,
     update_qer |-> update_qer, remove_pdr |-> remove_pdr,
     remove_far |-> remove_far, remove_urr |-> remove_urr,
     remove_qer |-> remove_qer, downlink_data_report |-> downlink_data_report,
     update_bar_within_pfcp_session_report_response |->
        update_bar_within_pfcp_session_report_response]
Message ==
    [pfcp_heartbeat_request |-> pfcp_heartbeat_request,
     pfcp_heartbeat_response |-> pfcp_heartbeat_response,
     pfcp_pfd_management_request |-> pfcp_pfd_management_request,
     pfcp_pfd_management_response |-> pfcp_pfd_management_response,
     pfcp_association_setup_request |-> pfcp_association_setup_request,
     pfcp_association_setup_response |-> pfcp_association_setup_response,
     pfcp_association_update_request |-> pfcp_association_update_request,
     pfcp_association_update_response |-> pfcp_association_update_response,
     pfcp_association_release_request |-> pfcp_association_release_request,
     pfcp_association_release_response |-> pfcp_association_release_response,
     pfcp_version_not_supported_response |->
        pfcp_version_not_supported_response,
     pfcp_node_report_request |-> pfcp_node_report_request,
     pfcp_node_report_response |-> pfcp_node_report_response,
     pfcp_session_set_deletion_request |-> pfcp_session_set_deletion_request,
     pfcp_session_set_deletion_response |->
        pfcp_session_set_deletion_response,
     pfcp_session_establishment_request |->
        pfcp_session_establishment_request,
     pfcp_session_establishment_response |->
        pfcp_session_establishment_response,
     pfcp_session_modification_request |-> pfcp_session_modification_request,
     pfcp_session_modification_response |->
        pfcp_session_modification_response,
     pfcp_session_deletion_request |-> pfcp_session_deletion_request,
     pfcp_session_deletion_response |-> pfcp_session_deletion_response,
     pfcp_session_report_request |-> pfcp_session_report_request,
     pfcp_session_report_response |-> pfcp_session_report_response]
Adds ==
    [pdi |-> pfcp_pdi_ie, create_pdr |-> pfcp_create_pdr_ie,
     update_forwarding_parameters |-> pfcp_update_forwarding_parameters_ie,
     forwarding_parameters |-> pfcp_forwarding_parameters_ie,
     duplicating_parameters |-> pfcp_duplicating_parameters_ie,
     create_far |-> pfcp_create_far_ie, create_urr |-> pfcp_create_urr_ie,
     create_qer |-> pfcp_create_qer_ie,
     create_traffic_endpoint |-> pfcp_create_traffic_endpoint_ie,
     created_pdr |-> pfcp_created_pdr_ie, update_pdr |-> pfcp_update_pdr_ie,
     update_far |-> pfcp_update_far_ie, update_urr |-> pfcp_update_urr_ie,
     update_qer |-> pfcp_update_qer_ie, remove_pdr |-> pfcp_remove_pdr_ie,
     remove_far |-> pfcp_remove_far_ie, remove_urr |-> pfcp_remove_urr_ie,
     remove_qer |-> pfcp_remove_qer_ie,
     downlink_data_report |-> pfcp_downlink_data_report_ie,
     update_bar_within_pfcp_session_report_response |->
        pfcp_update_bar_within_pfcp_session_report_response_ie,
     pfcp_heartbeat_request |-> pfcp_msg_heartbeat_request,
     pfcp_heartbeat_response |-> pfcp_msg_heartbeat_response,
     pfcp_association_setup_request |-> pfcp_msg_association_setup_request,
     pfcp_association_setup_response |-> pfcp_msg_association_setup_response,
     pfcp_association_release_request |->
        pfcp_msg_association_release_request,
     pfcp_association_release_response |->
        pfcp_msg_association_release_response,
     pfcp_node_report_request |-> pfcp_msg_node_report_request,
     pfcp_session_establishment_request |->
        pfcp_msg_session_establishment_request,
     pfcp_session_establishment_response |->
        pfcp_msg_session_establishment_response,
     pfcp_session_modification_request |->
        pfcp_msg_session_modification_request,
     pfcp_session_modification_response |->
        pfcp_msg_session_modification_response,
     pfcp_session_deletion_request |-> pfcp_msg_session_deletion_request,
     pfcp_session_deletion_response |-> pfcp_msg_session_deletion_response,
     pfcp_session_report_request |-> pfcp_msg_session_report_request,
     pfcp_session_report_response |-> pfcp_msg_session_report_response]

ContainerOf(name) ==
    IF name \in DOMAIN Grouped THEN Grouped[name] ELSE Message[name]
-----------------------------------------------------------------------------
\* The cases of new_pfcp_ie_from_stream.  Every other type, and every element
\* of length zero, yields a null pointer.

GroupedCases ==
    {"create_pdr", "pdi", "create_far", "forwarding_parameters",
     "duplicating_parameters", "create_urr", "create_qer", "created_pdr",
     "update_pdr", "update_far", "update_forwarding_parameters",
     "update_bar_within_pfcp_session_report_response", "update_urr",
     "update_qer", "remove_pdr", "remove_far", "remove_urr", "remove_qer"}
EarlyCases ==
    {"cause", "source_interface", "fteid", "network_instance", "sdf_filter",
     "application_id", "gate_status", "mbr", "gbr", "qer_correlation_id",
     "precedence", "transport_level_marking", "volume_threshold",
     "time_threshold", "monitoring_time", "subsequent_volume_threshold",
     "subsequent_time_threshold", "inactivity_detection_time",
     "reporting_triggers", "report_type", "offending_ie",
     "forwarding_policy", "destination_interface", "up_function_features",
     "apply_action"}
MiddleCases ==
    {"pdr_id", "f_seid", "node_id", "urr_id", "downlink_data_report",
     "outer_header_creation", "bar_id", "cp_function_features",
     "ue_ip_address", "outer_header_removal", "recovery_time_stamp"}
LateCases ==
    {"activate_predefined_rules", "deactivate_predefined_rules", "far_id",
     "qer_id", "failed_rule_id", "user_plane_ip_resource_information",
     "user_plane_inactivity_timer", "qfi", "user_id"}

Decodable == GroupedCases \cup EarlyCases \cup MiddleCases \cup LateCases
Leaves == (Decodable \cup {"node_report_type"}) \ DOMAIN Grouped
-----------------------------------------------------------------------------
\* The options of the core types of src/src/oai/common/3gpp_29.244.h, the values
\* among them that their element cannot write: "wide" for a number beyond its
\* field, "missized", "misstated", "fd_more" and "fd_less" for a text that does
\* not have the size it must have or is stated to have.

fteid_t == SUBSET {"v4", "v6", "ch", "chid"}
sdf_filter_t ==
    {o \in SUBSET {"fd", "ttc", "spi", "fl", "bid", "fd_more", "fd_less", "missized"} :
        /\ o \cap {"fd_more", "fd_less"} # {} => "fd" \in o
        /\ {"fd_more", "fd_less"} \cap o # {"fd_more", "fd_less"}
        /\ "missized" \in o => o \cap {"ttc", "spi", "fl"} # {}}
mbr_t == SUBSET {"ul_wide", "dl_wide"}
gbr_t == SUBSET {"ul_wide", "dl_wide"}
forwarding_policy_t == SUBSET {"text", "misstated"}
volume_threshold_t == SUBSET {"tovol", "ulvol", "dlvol"}
subsequent_volume_threshold_t == SUBSET {"tovol", "ulvol", "dlvol"}
fseid_t == SUBSET {"v4", "v6"}
node_id_t ==
    {{}, {"ipv4"}, {"ipv6"}, {"fqdn"}, {"fqdn", "long_label"},
     {"fqdn", "label_255"}, {"fqdn", "name_256"}}
outer_header_creation_t == SUBSET {"gtpu4", "gtpu6", "udp4", "udp6"}
ue_ip_address_t == SUBSET {"v4", "v6", "sd", "ipv6d"}
node_report_type_t == {{}, {"upfr"}}
failed_rule_id_t == {{}, {"pdr"}, {"far"}, {"qer"}, {"urr"}, {"bar"},
                     {"bar", "wide"}}
user_plane_ip_resource_information_t ==
    SUBSET {"v4", "v6", "assoni", "assosi"}
user_id_t == SUBSET {"imsif", "imeif", "msisdnf", "naif"}

WithText == {"network_instance", "application_id",
             "activate_predefined_rules", "deactivate_predefined_rules",
             "transport_level_marking"}

Options(ie) ==
    CASE ie = "fteid" -> fteid_t
      [] ie = "sdf_filter" -> sdf_filter_t
      [] ie = "mbr" -> mbr_t
      [] ie = "gbr" -> gbr_t
      [] ie = "forwarding_policy" -> forwarding_policy_t
      [] ie = "volume_threshold" -> volume_threshold_t
      [] ie = "subsequent_volume_threshold" -> subsequent_volume_threshold_t
      [] ie = "f_seid" -> fseid_t
      [] ie = "node_id" -> node_id_t
      [] ie = "outer_header_creation" -> outer_header_creation_t
      [] ie = "ue_ip_address" -> ue_ip_address_t
      [] ie = "node_report_type" -> node_report_type_t
      [] ie = "failed_rule_id" -> failed_rule_id_t
      [] ie = "user_plane_ip_resource_information" ->
             user_plane_ip_resource_information_t
      [] ie = "user_id" -> user_id_t
      [] ie \in WithText -> {{}, {"text"}}
      [] OTHER -> {{}}

\* The element class by name.
Codec(ie, o, l) ==
    CASE ie = "cause" -> pfcp_cause_ie(o, l)
      [] ie = "source_interface" -> pfcp_source_interface_ie(o, l)
      [] ie = "gate_status" -> pfcp_gate_status_ie(o, l)
      [] ie = "mbr" -> pfcp_mbr_ie(o, l)
      [] ie = "gbr" -> pfcp_gbr_ie(o, l)
      [] ie = "precedence" -> pfcp_precedence_ie(o, l)
      [] ie = "time_threshold" -> pfcp_time_threshold_ie(o, l)
      [] ie = "monitoring_time" -> pfcp_monitoring_time_ie(o, l)
      [] ie = "subsequent_time_threshold" ->
             pfcp_subsequent_time_threshold_ie(o, l)
      [] ie = "inactivity_detection_time" ->
             pfcp_inactivity_detection_time_ie(o, l)
      [] ie = "reporting_triggers" -> pfcp_reporting_triggers_ie(o, l)
      [] ie = "report_type" -> pfcp_report_type_ie(o, l)
      [] ie = "offending_ie" -> pfcp_offending_ie_ie(o, l)
      [] ie = "destination_interface" -> pfcp_destination_interface_ie(o, l)
      [] ie = "up_function_features" -> pfcp_up_function_features_ie(o, l)
      [] ie = "apply_action" -> pfcp_apply_action_ie(o, l)
      [] ie = "pdr_id" -> pfcp_pdr_id_ie(o, l)
      [] ie = "bar_id" -> pfcp_bar_id_ie(o, l)
      [] ie = "cp_function_features" -> pfcp_cp_function_features_ie(o, l)
      [] ie = "outer_header_removal" -> pfcp_outer_header_removal_ie(o, l)
      [] ie = "recovery_time_stamp" -> pfcp_recovery_time_stamp_ie(o, l)
      [] ie = "far_id" -> pfcp_far_id_ie(o, l)
      [] ie = "qer_id" -> pfcp_qer_id_ie(o, l)
      [] ie = "user_plane_inactivity_timer" ->
             pfcp_user_plane_inactivity_timer_ie(o, l)
      [] ie = "qfi" -> pfcp_qfi_ie(o, l)
      [] ie = "qer_correlation_id" -> pfcp_qer_correlation_id_ie(o, l)
      [] ie = "urr_id" -> pfcp_urr_id_ie(o, l)
      [] ie = "node_report_type" -> pfcp_node_report_type_ie(o, l)
      [] ie = "network_instance" -> pfcp_network_instance_ie(o, l)
      [] ie = "application_id" -> pfcp_application_id_ie(o, l)
      [] ie = "activate_predefined_rules" ->
             pfcp_activate_predefined_rules_ie(o, l)
      [] ie = "deactivate_predefined_rules" ->
             pfcp_deactivate_predefined_rules_ie(o, l)
      [] ie = "transport_level_marking" ->
             pfcp_transport_level_marking_ie(o, l)
      [] ie = "forwarding_policy" -> pfcp_forwarding_policy_ie(o, l)
      [] ie = "fteid" -> pfcp_fteid_ie(o, l)
      [] ie = "sdf_filter" -> pfcp_sdf_filter_ie(o, l)
      [] ie = "volume_threshold" -> pfcp_volume_threshold_ie(o, l)
      [] ie = "subsequent_volume_threshold" ->
             pfcp_subsequent_volume_threshold_ie(o, l)
      [] ie = "f_seid" -> pfcp_f_seid_ie(o, l)
      [] ie = "node_id" -> pfcp_node_id_ie(o, l)
      [] ie = "outer_header_creation" -> pfcp_outer_header_creation_ie(o, l)
      [] ie = "ue_ip_address" -> pfcp_ue_ip_address_ie(o, l)
      [] ie = "failed_rule_id" -> pfcp_failed_rule_id_ie(o, l)
      [] ie = "user_plane_ip_resource_information" ->
             pfcp_user_plane_ip_resource_information_ie(o, l)
      [] ie = "user_id" -> pfcp_user_id_ie(o, l)
=============================================================================
