---------------------------- MODULE MCMatching ----------------------------
(***************************************************************************)
(* Small QoS and announcements for TLC.                                    *)
(***************************************************************************)
EXTENDS Matching

Loopback(l) == l = "loopback"

\* One policy at a time, in all its variants that comparisons tell apart.
Value ==
    [durability |-> {"Volatile", "TransientLocal"},
     presentation |-> [access_scope : {"Instance", "Group"},
                       coherent_access : BOOLEAN, ordered_access : BOOLEAN],
     deadline |-> {1, 2},
     latency_budget |-> {1, 2},
     ownership |-> {[kind |-> "Shared"]} \cup [kind : {"Exclusive"}, strength : {1, 2}],
     liveliness |-> [kind : {"Automatic", "ManualByTopic"}, lease_duration : {1, 2}],
     time_based_filter |-> {1},
     reliability |-> {[kind |-> "BestEffort"]}
                        \cup [kind : {"Reliable"}, max_blocking_time : {1, 2}],
     destination_order |-> {"ByReceptionTimestamp", "BySourceTimeStamp"},
     history |-> {[kind |-> "KeepAll"], [kind |-> "KeepLast", depth |-> 1]},
     resource_limits |-> {1},
     lifespan |-> {1},
     property |-> {"property"}]
SingleQos == UNION {[{p} -> Value[p]] : p \in DOMAIN Value}

\* All policies at once, twice.
LowQos == [p \in DOMAIN Value |->
    CASE p = "durability" -> "Volatile"
      [] p = "presentation" -> [access_scope |-> "Instance",
                                coherent_access |-> FALSE, ordered_access |-> FALSE]
      [] p \in {"deadline", "latency_budget"} -> 2
      [] p = "ownership" -> [kind |-> "Shared"]
      [] p = "liveliness" -> [kind |-> "Automatic", lease_duration |-> 2]
      [] p = "reliability" -> [kind |-> "BestEffort"]
      [] p = "destination_order" -> "ByReceptionTimestamp"
      [] p = "history" -> [kind |-> "KeepAll"]
      [] p = "property" -> "property"
      [] OTHER -> 1]
SomeQos == {qos_none, LowQos} \cup SingleQos \cup {modify_by(LowQos, q) : q \in SingleQos}

Asked(topicR, topicW, reader, writer) ==
    [publisher |-> qos_none, subscriber |-> qos_none,
     topicR |-> topicR, topicW |-> topicW, reader |-> reader, writer |-> writer]

\* Readers that have no QoS but their topic's; Writers may have.
TopicReaders ==
    {Asked(q, w, qos_none, own) :
        q \in SomeQos, w \in {qos_none, LowQos}, own \in {qos_none} \cup SingleQos}
\* Endpoints with a QoS of their own, on a topic without.
OwnQos == {Asked(qos_none, qos_none, r, w) : r, w \in SingleQos}

\* Participants with and without security, with and without locators.
Tokens == <<[m \in SecurityMembers |-> m]>>
SomeCredentials == {<<>>, Tokens}
SomeInfos == {<<>>, <<"info">>}
SomeBindings ==
    {[m \in ParticipantLocators |->
        IF m \in {"metatraffic_unicast_locators", "metatraffic_multicast_locators"}
        THEN meta ELSE user] :
        meta \in {<<>>, <<"m1">>},
        user \in {<<>>, <<"loopback">>, <<"l1", "l2">>, <<"loopback", "l1">>}}
=============================================================================
