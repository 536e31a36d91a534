--------------------------- MODULE DiscoveryData ---------------------------
(***************************************************************************)
(* What participants announce about themselves, their endpoints and their  *)
(* topics (discovery/spdp_participant_data.rs, discovery/sedp_messages.rs),*)
(* its way through a parameter list, and what the other side makes of it:  *)
(* the proxies and the decision whether two endpoints match.               *)
(*                                                                         *)
(* Members that are an Option or a list are sequences; a Result is the     *)
(* empty set (an error) or the set of the value.  Times of arrival, which  *)
(* are never sent, are left out.                                           *)
(***************************************************************************)
EXTENDS QosPolicies

\* A value of an Option.
IsOption(v) == v = <<>> \/ v = <<v[1]>>

\* Parameters without which an announcement cannot be read.
Read(pl, mandatory, data) == IF mandatory \subseteq DOMAIN pl THEN {data} ELSE {}

ReadOptions(pl, members) == [m \in members |-> get_option_from_pl_map(pl, m)]
ReadAll(pl, members) == [m \in members |-> get_all_from_pl_map(pl, m)]
ReadFirst(pl, members) == [m \in members |-> Head(pl[m])]

---------------------------------------------------------------------------
(* Participants *)

ParticipantMandatory ==
    {"protocol_version", "vendor_id", "participant_guid", "available_builtin_endpoints"}
ParticipantDefaulted == {"expects_inline_qos", "manual_liveliness_count"}
ParticipantLocators ==
    {"metatraffic_unicast_locators", "metatraffic_multicast_locators",
     "default_unicast_locators", "default_multicast_locators"}
SecurityMembers == {"identity_token", "permissions_token", "property", "security_info"}
ParticipantOptions ==
    {"lease_duration", "builtin_endpoint_qos", "entity_name"} \cup SecurityMembers

BuiltinEndpoints ==
    {"PARTICIPANT", "PUBLICATIONS", "SUBSCRIPTIONS", "PARTICIPANT_MESSAGE_DATA", "TOPICS"}
SecureBuiltinEndpoints ==
    {"PUBLICATIONS_SECURE", "SUBSCRIPTIONS_SECURE", "PARTICIPANT_MESSAGE_SECURE",
     "PARTICIPANT_STATELESS_MESSAGE", "PARTICIPANT_VOLATILE_MESSAGE_SECURE",
     "PARTICIPANT_SECURE"}

\* locators is what the listeners of the participant are bound to, security
\* the tokens and attributes of its SecureDiscovery (<<>> without security).
\* A builtin endpoint stands for its writer and its reader.
from_local_participant(guid, locators, security, lease) ==
    [protocol_version |-> "2.3",
     vendor_id |-> "this",
     participant_guid |-> guid,
     available_builtin_endpoints |->
        BuiltinEndpoints \cup IF security = <<>> THEN {} ELSE SecureBuiltinEndpoints,
     expects_inline_qos |-> FALSE,
     manual_liveliness_count |-> 0,
     lease_duration |-> <<lease>>,
     builtin_endpoint_qos |-> <<>>,
     entity_name |-> <<>>]
    ++ locators
    ++ [m \in SecurityMembers |-> [i \in DOMAIN security |-> security[i][m]]]

\* Fault: the property list is not sent.
participant_to_parameter_list_short(p) ==
    Emit(p, ParticipantMandatory \cup ParticipantDefaulted)
      ++ EmitOptions(p, (ParticipantLocators \cup ParticipantOptions) \ {"property"})
participant_to_parameter_list(p) ==
    Emit(p, ParticipantMandatory \cup ParticipantDefaulted)
      ++ EmitOptions(p, ParticipantLocators \cup ParticipantOptions)

participant_from_parameter_list(pl) ==
    Read(pl, ParticipantMandatory,
         ReadFirst(pl, ParticipantMandatory)
           ++ ReadFirst(pl, ParticipantDefaulted \cap DOMAIN pl)
           ++ [expects_inline_qos |-> FALSE, manual_liveliness_count |-> 0]
           ++ ReadAll(pl, ParticipantLocators)
           ++ ReadOptions(pl, ParticipantOptions))

\* The key alone, as it is sent when a participant is disposed.
Participant_GUID_to_parameter_list(guid) == [participant_guid |-> <<guid>>]
Participant_GUID_from_parameter_list(pl) ==
    Read(pl, {"participant_guid"}, Head(pl["participant_guid"]))

supports_security(p) == \A m \in SecurityMembers : p[m] # <<>>

\* The proxies of a participant's builtin endpoints.  A Writer proxy takes no
\* multicast locators.
as_reader_proxy(p, is_metatraffic, entity) ==
    [remote_guid |-> <<p.participant_guid, entity>>,
     expects_inline_qos |-> p.expects_inline_qos,
     qos |-> qos_none,
     unicast |-> IF is_metatraffic THEN p.metatraffic_unicast_locators
                                   ELSE p.default_unicast_locators,
     multicast |-> IF is_metatraffic THEN p.metatraffic_multicast_locators
                                     ELSE p.default_multicast_locators]
as_writer_proxy(p, is_metatraffic, entity) ==
    [remote_guid |-> <<p.participant_guid, entity>>,
     unicast |-> IF is_metatraffic THEN p.metatraffic_unicast_locators
                                   ELSE p.default_unicast_locators,
     multicast |-> <<>>]

---------------------------------------------------------------------------
(* Endpoints *)

\* Subscription- and PublicationBuiltinTopicData keep these policies only.
EndpointPolicies == Policies \ {"history", "resource_limits", "property"}
set_qos(qos) == [p \in DOMAIN qos \cap EndpointPolicies |-> qos[p]]

EndpointMandatory == {"endpoint_guid", "topic_name", "type_name"}
EndpointLocators == {"unicast_locators", "multicast_locators"}
EndpointOptions == {"participant_guid", "security_info"}

\* Members that are sent but never read.
RpcOptions == {"service_instance_name", "related_entity_guid", "topic_aliases"}

BuiltinTopicData(guid, participant, topic, type, qos, security_info) ==
    [endpoint_guid |-> guid, participant_guid |-> <<participant>>,
     topic_name |-> topic, type_name |-> type, qos |-> set_qos(qos),
     security_info |-> security_info]
    ++ [m \in RpcOptions |-> <<>>]

\* What DiscoveryDB::update_local_topic_reader announces of a new DataReader:
\* the locators of its participant and the QoS of its topic.
local_reader_data(guid, dp, topic, type, topic_qos, security_info) ==
    BuiltinTopicData(guid, dp.participant_guid, topic, type, topic_qos, security_info)
      ++ [unicast_locators |-> dp.default_unicast_locators,
          multicast_locators |-> dp.default_multicast_locators,
          expects_inline_qos |-> FALSE,
          content_filter |-> <<>>]

\* What DiscoveredWriterData::new announces of a DataWriter: the addresses of
\* this host and the QoS of the DataWriter.
local_writer_data(guid, dp, topic, type, writer_qos, security_info) ==
    BuiltinTopicData(guid, dp.participant_guid, topic, type, writer_qos, security_info)
      ++ [unicast_locators |-> dp.default_unicast_locators,
          multicast_locators |-> <<>>,
          data_max_size_serialized |-> <<>>]

endpoint_to_parameter_list(e) ==
    Emit(e, EndpointMandatory)
      ++ EmitOptions(e, EndpointLocators \cup EndpointOptions \cup RpcOptions)
      ++ to_parameter_list(e.qos)

reader_to_parameter_list(r) ==
    endpoint_to_parameter_list(r)
      ++ Emit(r, {"expects_inline_qos"}) ++ EmitOptions(r, {"content_filter"})
writer_to_parameter_list(w) ==
    endpoint_to_parameter_list(w) ++ EmitOptions(w, {"data_max_size_serialized"})

endpoint_from_parameter_list(pl) ==
    ReadFirst(pl, EndpointMandatory)
      ++ ReadAll(pl, EndpointLocators)
      ++ ReadOptions(pl, EndpointOptions)
      ++ [m \in RpcOptions |-> <<>>]
      ++ [qos |-> set_qos(from_parameter_list(pl))]

reader_from_parameter_list(pl) ==
    Read(pl, EndpointMandatory,
         endpoint_from_parameter_list(pl)
           ++ ReadFirst(pl, {"expects_inline_qos"} \cap DOMAIN pl)
           ++ [expects_inline_qos |-> FALSE]
           ++ ReadOptions(pl, {"content_filter"}))
writer_from_parameter_list(pl) ==
    Read(pl, EndpointMandatory,
         endpoint_from_parameter_list(pl)
           ++ ReadOptions(pl, {"data_max_size_serialized"}))

\* The key alone, as it is sent when an endpoint is disposed.
Endpoint_GUID_to_parameter_list(guid) == [endpoint_guid |-> <<guid>>]
Endpoint_GUID_from_parameter_list(pl) ==
    Read(pl, {"endpoint_guid"}, Head(pl["endpoint_guid"]))

---------------------------------------------------------------------------
(* Proxies and matching *)

CONSTANT is_loopback(_)

discovered_or_default(drd, default) == IF drd = <<>> THEN default ELSE drd
not_loopback(l) == ~is_loopback(l)

from_discovered_reader_data(r, default_unicast, default_multicast) ==
    [remote_guid |-> r.endpoint_guid,
     expects_inline_qos |-> r.expects_inline_qos,
     qos |-> r.qos,
     unicast |-> SelectSeq(discovered_or_default(r.unicast_locators, default_unicast),
                           not_loopback),
     multicast |-> discovered_or_default(r.multicast_locators, default_multicast)]
from_discovered_writer_data(w, default_unicast, default_multicast) ==
    [remote_guid |-> w.endpoint_guid,
     unicast |-> discovered_or_default(w.unicast_locators, default_unicast),
     multicast |-> discovered_or_default(w.multicast_locators, default_multicast)]

\* DiscoveryDB::update_subscription and update_publication fill in the
\* locators of the participant, <<>> when it is not known, before the event
\* loop builds its proxy from the result.
reader_proxy(r, participant) ==
    LET default == [m \in ParticipantLocators |->
                       IF participant = <<>> THEN <<>> ELSE Head(participant)[m]]
        first == from_discovered_reader_data(
                     r, default.default_unicast_locators, default.default_multicast_locators)
    IN  from_discovered_reader_data(
            [r EXCEPT !.unicast_locators = first.unicast,
                      !.multicast_locators = first.multicast], <<>>, <<>>)
writer_proxy(w, participant) ==
    LET default == [m \in ParticipantLocators |->
                       IF participant = <<>> THEN <<>> ELSE Head(participant)[m]]
    IN  from_discovered_writer_data(
            w, default.default_unicast_locators, default.default_multicast_locators)

\* Writer::update_reader_proxy and Reader::update_writer_proxy accept the
\* other endpoint, with its QoS as announced, or name the policy in the way.
update_reader_proxy(writer_qos, r) == compliance_failure_wrt(writer_qos, r.qos)
update_writer_proxy(reader_qos, w) == compliance_failure_wrt(w.qos, reader_qos)

---------------------------------------------------------------------------
(* Topics *)

TopicPolicies == Policies \ {"time_based_filter", "property"}

TopicBuiltinTopicData(key, name, type, qos) ==
    [endpoint_guid |-> key, topic_name |-> name, type_name |-> type,
     qos |-> [p \in DOMAIN qos \cap TopicPolicies |-> qos[p]]]

\* An endpoint's announcement also makes its topic known, without a key.
to_topic_data(e) == TopicBuiltinTopicData(<<>>, e.topic_name, e.type_name, e.qos)

topics_inconsistent(t1, t2) == t1.type_name # t2.type_name

topic_to_parameter_list(t) ==
    Emit(t, {"topic_name", "type_name"}) ++ EmitOptions(t, {"endpoint_guid"})
      ++ to_parameter_list(t.qos)
topic_from_parameter_list(pl) ==
    Read(pl, {"topic_name", "type_name"},
         TopicBuiltinTopicData(get_option_from_pl_map(pl, "endpoint_guid"),
                               Head(pl["topic_name"]), Head(pl["type_name"]),
                               from_parameter_list(pl)))
=============================================================================
