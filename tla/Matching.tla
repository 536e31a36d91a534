----------------------------- MODULE Matching -----------------------------
(***************************************************************************)
(* A DataReader and a DataWriter of two participants, from their creation  *)
(* over the announcements to the two decisions whether they match.         *)
(*                                                                         *)
(* A situation is what the applications ask for: the QoS of the publisher  *)
(* and the subscriber, of the topic at the Writer's side (topicW) and at   *)
(* the Reader's (topicR), and the QoS given with the endpoints (writer,    *)
(* reader).                                                                *)
(***************************************************************************)
EXTENDS DiscoveryData

CONSTANTS
    Situations,      \* see above
    Bindings,        \* the locators that a participant's listeners are bound to
    Credentials,     \* Option: the tokens and attributes of its SecureDiscovery
    Settings,        \* QoS that endpoints have
    SecurityInfos    \* Option: EndpointSecurityInfo of an endpoint

ASSUME SituationsAssumption ==
    \A s \in Situations, m \in {"publisher", "subscriber", "topicW", "topicR", "writer", "reader"} :
        IsQos(s[m])

ASSUME AnnouncedAssumption ==
    /\ \A l \in Bindings : l = [m \in ParticipantLocators |-> l[m]]
    /\ \A security \in Credentials : IsOption(security)
    /\ \A info \in SecurityInfos : IsOption(info)
    /\ \A q \in Settings : IsQos(q)

\* The participant of an endpoint, bound to one locator of each kind.
EndpointParticipant ==
    from_local_participant(
        "participant", [m \in ParticipantLocators |-> <<m>>], <<>>, 10)

reader_qos(s) == datareader_qos(s.subscriber, s.topicR, s.reader)
writer_qos(s) == datawriter_qos(s.publisher, s.topicW, s.writer)

\* What the Writer makes of the Reader's announcement, and the Reader of the
\* Writer's.  An announcement that cannot be read leads to no decision: {}.
WriterDecision(s) ==
    LET sent == reader_to_parameter_list(
                    local_reader_data("r", EndpointParticipant, "t", "type", s.topicR, <<>>))
    IN  {update_reader_proxy(writer_qos(s), r) : r \in reader_from_parameter_list(sent)}
ReaderDecision(s) ==
    LET sent == writer_to_parameter_list(
                    local_writer_data("w", EndpointParticipant, "t", "type", writer_qos(s), <<>>))
    IN  {update_writer_proxy(reader_qos(s), w) : w \in writer_from_parameter_list(sent)}

\* Participants of this implementation, and their Readers and Writers.
LocalParticipants ==
    {from_local_participant("participant", locators, security, 10) :
        locators \in Bindings, security \in Credentials}
LocalReaders ==
    {local_reader_data("r", p, "t", "type", q, s) :
        p \in LocalParticipants, q \in Settings, s \in SecurityInfos}
LocalWriters ==
    {local_writer_data("w", p, "t", "type", q, s) :
        p \in LocalParticipants, q \in Settings, s \in SecurityInfos}

---------------------------------------------------------------------------
(* The builtin endpoints *)

Infinite == 2147483647

subscriber_qos ==
    [durability        |-> "TransientLocal",
     presentation      |-> [access_scope |-> "Topic", coherent_access |-> FALSE,
                            ordered_access |-> FALSE],
     deadline          |-> Infinite,
     ownership         |-> [kind |-> "Shared"],
     liveliness        |-> [kind |-> "Automatic", lease_duration |-> Infinite],
     time_based_filter |-> 0,
     reliability       |-> [kind |-> "Reliable", max_blocking_time |-> 100],
     destination_order |-> "ByReceptionTimestamp",
     history           |-> [kind |-> "KeepLast", depth |-> 1]]
publisher_qos == subscriber_qos
create_spdp_participant_qos ==
    [reliability |-> [kind |-> "BestEffort"], history |-> [kind |-> "KeepLast", depth |-> 1]]
create_participant_stateless_message_qos == create_spdp_participant_qos
create_participant_volatile_message_secure_qos ==
    [reliability |-> [kind |-> "Reliable", max_blocking_time |-> 100],
     history |-> [kind |-> "KeepAll"], durability |-> "Volatile"]

PARTICIPANT_MESSAGE_QOS ==
    [durability |-> "TransientLocal",
     reliability |-> [kind |-> "Reliable", max_blocking_time |-> 0],
     history |-> [kind |-> "KeepLast", depth |-> 1]]

\* The QoS of each builtin topic, if it has one of its own, goes to the topic
\* and to both endpoints.
BuiltinQosOptions ==
    {<<>>, <<create_spdp_participant_qos>>, <<PARTICIPANT_MESSAGE_QOS>>,
     <<create_participant_stateless_message_qos>>,
     <<create_participant_volatile_message_secure_qos>>}
builtin_reader_qos(opt) ==
    IF opt = <<>> THEN datareader_qos(subscriber_qos, subscriber_qos, qos_none)
    ELSE datareader_qos(subscriber_qos, opt[1], opt[1])
builtin_writer_qos(opt) ==
    IF opt = <<>> THEN datawriter_qos(publisher_qos, subscriber_qos, qos_none)
    ELSE datawriter_qos(publisher_qos, opt[1], opt[1])

\* What a builtin Writer and a builtin Reader take the other's QoS to be: their
\* own, but for the Reader of participant messages of a participant that
\* announces it as best effort.
assumed_reader_qos(opt, best_effort) ==
    LET qos == builtin_writer_qos(opt)
    IN  IF best_effort /\ opt = <<PARTICIPANT_MESSAGE_QOS>>
        THEN [qos EXCEPT !.reliability = [kind |-> "BestEffort"]]
        ELSE qos
assumed_writer_qos(opt) == builtin_reader_qos(opt)

---------------------------------------------------------------------------
(* Compliance as the comments in compliance_failure_wrt_impl state it: for  *)
(* each policy that both sides set, the offered one must be at least as     *)
(* good.  Of a liveliness both the kind and the lease count.                *)

AtLeast(order, off, req) == ~Less(order, off, req)
PolicyComplies(policy, off, req) ==
    CASE policy = "durability" -> AtLeast(Durability, off, req)
      [] policy = "presentation" ->
            /\ req.coherent_access => off.coherent_access
            /\ req.ordered_access => off.ordered_access
            /\ AtLeast(PresentationAccessScope, off.access_scope, req.access_scope)
      [] policy \in {"deadline", "latency_budget"} -> off <= req
      [] policy = "ownership" -> off.kind = req.kind
      [] policy = "liveliness" ->
            /\ AtLeast(LivelinessKind, off.kind, req.kind)
            /\ off.lease_duration <= req.lease_duration
      [] policy = "reliability" -> AtLeast(ReliabilityKind, off.kind, req.kind)
      [] policy = "destination_order" -> AtLeast(DestinationOrder, off, req)
      [] OTHER -> TRUE
Complies(off, req) ==
    \A p \in DOMAIN off \cap DOMAIN req : PolicyComplies(p, off[p], req[p])
=============================================================================
