------------------------- MODULE MCSecureDiscovery -------------------------
(***************************************************************************)
(* Small instances of SecureDiscovery, and the decisions of access control *)
(* over small documents.                                                   *)
(***************************************************************************)
EXTENDS SecureDiscovery

All == [is |-> "Min", min |-> 0]

\* Governance: every aspect protected; with a topic rule for an open topic.
TopicRule == [topic_expression |-> {Topic}, enable_discovery_protection |-> TRUE,
              enable_liveliness_protection |-> TRUE,
              enable_read_access_control |-> TRUE, enable_write_access_control |-> TRUE,
              metadata_protection_kind |-> "Encrypt", data_protection_kind |-> "None"]
OpenTopicRule == [TopicRule EXCEPT !.enable_discovery_protection = FALSE,
                                   !.enable_read_access_control = FALSE,
                                   !.enable_write_access_control = FALSE,
                                   !.metadata_protection_kind = "None"]
DomainRule == [domains |-> {All}, allow_unauthenticated_participants |-> FALSE,
               enable_join_access_control |-> TRUE, rtps_protection_kind |-> "None", discovery_protection_kind |-> "Encrypt",
               liveliness_protection_kind |-> "Encrypt", topic_access_rules |-> <<TopicRule>>]

\* A grant of both rights on the topic, and one of none.
Criterion(action) == [action |-> action, topics |-> {Topic}]
Grant(m, default, rules) ==
    [subject |-> m, not_before |-> 0, not_after |-> 2, default |-> default, rules |-> rules]
Both == rule_from_xml("Allow", {All}, <<Criterion("Publish"), Criterion("Subscribe")>>)
Rights == [m \in Nodes |-> <<Grant(m, "Deny", <<Both>>)>>]

\* All in order; as many messages are lost as the resends make up for.
Lossy == [timely |-> TRUE, resends |-> 4, losses |-> 2, outages |-> 0,
          trusted |-> Nodes, rules |-> [n \in Nodes |-> DomainRule], grants |-> Rights]

\* An open topic: announced in the clear, without keys.
OpenRule == [DomainRule EXCEPT !.topic_access_rules = <<OpenTopicRule>>]
Open == [Lossy EXCEPT !.rules = [n \in Nodes |-> OpenRule]]

\* Messages lost, repeated and late at will.
Untimely == [Lossy EXCEPT !.timely = FALSE, !.resends = 1, !.losses = 0]

\* Leases expire, on one side or on both; or one does, and writes of keys fail.
Outages == [Untimely EXCEPT !.outages = 2]
Failing == [Untimely EXCEPT !.outages = 1, !.losses = 2]

\* q refuses p's certificate, or p that of q.  The domain or the topic is closed to p, whose
\* own governance does not say so.  p's grant has run out since it started, or
\* only one that does not let it publish is still good.
Untrusted   == [Untimely EXCEPT !.trusted = {p}]
Distrustful == [Untimely EXCEPT !.trusted = {q}]
LaxRule     == [DomainRule EXCEPT !.enable_join_access_control = FALSE,
                   !.topic_access_rules = <<[TopicRule EXCEPT !.enable_write_access_control = FALSE]>>]
NotAdmitted == [Untimely EXCEPT !.rules[p] = LaxRule, !.grants[p] = <<Grant(p, "Deny", <<>>)>>]
Expired     == [Untimely EXCEPT !.grants[p] = <<[@[1] EXCEPT !.not_after = 1]>>]
NoPublish   == rule_from_xml("Allow", {All}, <<Criterion("Subscribe")>>)
NotGranted  == [Expired EXCEPT !.grants[p] = Append(@, Grant(p, "Deny", <<NoPublish>>))]

\* The two protect the topic differently: signed or encrypted, its discovery
\* secret or open.
Signed  == [TopicRule EXCEPT !.metadata_protection_kind = "Sign"]
Differ  == [Untimely EXCEPT !.rules[q].topic_access_rules = <<Signed>>]
HalfOpen == [Untimely EXCEPT !.rules[q] = OpenRule]

\* No authentication between the two.
Incompatible    == [Untimely EXCEPT !.rules[q].rtps_protection_kind = "Sign"]
Unauthenticated ==
    [Untimely EXCEPT
       !.rules = [n \in Nodes |->
                    [OpenRule EXCEPT !.allow_unauthenticated_participants = TRUE,
                                     !.rtps_protection_kind = IF n = p THEN "None" ELSE "Sign"]],
       !.outages = 1]

SomeSituations == {Lossy, Open, Untimely, Outages, Failing, Untrusted, Distrustful, NotAdmitted, NotGranted, Expired,
                   Differ, HalfOpen, Incompatible, Unauthenticated}

-----------------------------------------------------------------------------
(* Small documents: one grant of up to two rules, one topic rule or none. *)

InOrderElements == {<<>>, <<Criterion("Publish")>>, <<Criterion("Subscribe")>>, <<Criterion("Relay")>>,
                    <<Criterion("Publish"), Criterion("Subscribe")>>,
                    <<Criterion("Subscribe"), Criterion("Relay")>>,
                    <<Criterion("Publish"), Criterion("Subscribe"), Criterion("Relay")>>}
SomeRules == {rule_from_xml(v, {d}, e) : v \in {"Allow", "Deny"},
                d \in {[is |-> "Max", max |-> 0], [is |-> "Value", value |-> 1]}, e \in InOrderElements}
SomeGrants == {Grant(p, d, r) : d \in {"Allow", "Deny"}, r \in BoundedSeq(SomeRules, 2)}
SomeTopicRules == {<<>>} \cup {<<[TopicRule EXCEPT !.enable_read_access_control = r,
                                                 !.enable_write_access_control = w]>> :
                              r \in BOOLEAN, w \in BOOLEAN}
SomePermissions ==
    {[subject |-> p, grants |-> <<g>>,
      rule |-> [DomainRule EXCEPT !.enable_join_access_control = j, !.topic_access_rules = t]] :
        g \in SomeGrants, j \in BOOLEAN, t \in SomeTopicRules}
=============================================================================
