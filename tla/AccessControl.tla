--------------------------- MODULE AccessControl ---------------------------
(***************************************************************************)
(* The built-in access control plugin (security/access_control/            *)
(* access_control_builtin/): the governance document says what is          *)
(* protected in a domain, the permissions documents say who may do what.   *)
(* A topic expression is the set of topic names it matches.  Partitions    *)
(* and data tags are always empty in the calls the plugin makes and are    *)
(* left out.  The signatures of the documents are external.  Every caller  *)
(* treats an error like a refusal, and so does this module.                *)
(***************************************************************************)
EXTENDS Naturals, Sequences, SequencesExt

CONSTANTS
    RuleTexts,    \* rules as they are written: sequences of elements
    Handles       \* what permissions handles stand for, see The decisions

\* DomainIds: a single domain or a range open at either end.
matches(ids, i) ==
    CASE ids.is = "Value" -> i = ids.value
      [] ids.is = "Range" -> ids.min <= i /\ i <= ids.max
      [] ids.is = "Min"   -> ids.min <= i
      [] ids.is = "Max"   -> i <= ids.max

applies_to(domains, i) == \E ids \in domains : matches(ids, i)

-----------------------------------------------------------------------------
(* The permissions document *)

Actions == {"Publish", "Subscribe", "Relay"}

\* Rule::from_xml takes the publish, the subscribe and the relay elements in
\* that order, and ignores what is left over.
Leading(elems, action) ==
    LET other == SelectInSeq(elems, LAMBDA e : e.action # action)
    IN  IF other = 0 THEN Len(elems) ELSE other - 1

rule_from_xml(verdict, domains, elems) ==
    LET u == Leading(elems, "Publish")
        s == u + Leading(SubSeq(elems, u + 1, Len(elems)), "Subscribe")
        r == s + Leading(SubSeq(elems, s + 1, Len(elems)), "Relay")
    IN  [verdict |-> verdict, domains |-> domains,
         criteria |-> [Publish   |-> ToSet(SubSeq(elems, 1, u)),
                       Subscribe |-> ToSet(SubSeq(elems, u + 1, s)),
                       Relay     |-> ToSet(SubSeq(elems, s + 1, r))]]

\* The order of the elements in the schema of permissions documents.
InSchemaOrder(elems) ==
    \A i, j \in DOMAIN elems : i < j =>
        /\ elems[j].action = "Publish" => elems[i].action = "Publish"
        /\ elems[i].action = "Relay" => elems[j].action = "Relay"

ASSUME RuleTextsAssumption ==
    \A elems \in RuleTexts :
        /\ elems \in Seq(ToSet(elems)) /\ InSchemaOrder(elems)
        /\ \A e \in ToSet(elems) : e.action \in Actions

is_applicable(rule, action, domain_id, topic) ==
    /\ applies_to(rule.domains, domain_id)
    /\ \E c \in rule.criteria[action] : topic \in c.topics

\* The verdict of the first rule that applies, or the default.
check_action(grant, action, domain_id, topic) ==
    LET i == SelectInSeq(grant.rules, LAMBDA rule : is_applicable(rule, action, domain_id, topic))
    IN  IF i = 0 THEN grant.default = "Allow" ELSE grant.rules[i].verdict = "Allow"

\* Whether any rule could allow anything in this domain.
check_participant_join(grant, domain_id) ==
    \/ grant.default = "Allow"
    \/ \E rule \in ToSet(grant.rules) :
          /\ rule.verdict = "Allow"
          /\ \E a \in Actions : rule.criteria[a] # {}
          /\ applies_to(rule.domains, domain_id)

\* The first grant for the subject that is valid now.
find_grant(grants, subject, now) ==
    SelectInSeq(grants, LAMBDA g : g.subject = subject /\ g.not_before <= now /\ now < g.not_after)

-----------------------------------------------------------------------------
(* The governance document *)

ProtectionKinds == {"EncryptWithOriginAuthentication", "SignWithOriginAuthentication", "Encrypt",
                    "Sign", "None"}

find_rule(governance, domain_id) == SelectInSeq(governance, LAMBDA r : applies_to(r.domains, domain_id))

find_topic_rule(rule, topic) ==
    SelectInSeq(rule.topic_access_rules, LAMBDA t : topic \in t.topic_expression)

\* ProtectionKind and BasicProtectionKind as security attributes.
to_security_attributes_format(kind) ==
    [is_protected |-> kind # "None",
     is_encrypted |-> kind \in {"Encrypt", "EncryptWithOriginAuthentication"},
     is_origin_authenticated |->
         kind \in {"EncryptWithOriginAuthentication", "SignWithOriginAuthentication"}]

EndpointAttributes(read, write, discovery, liveliness, submessage, payload) ==
    [is_read_protected |-> read, is_write_protected |-> write,
     is_discovery_protected |-> discovery, is_liveliness_protected |-> liveliness,
     submessage |-> to_security_attributes_format(submessage),
     payload |-> to_security_attributes_format(payload)]

SecureDiscoveryTopics == {"DCPSParticipantSecure", "DCPSPublicationsSecure", "DCPSSubscriptionsSecure"}
OpenBuiltinTopics == {"DCPSParticipantStatelessMessage", "DCPSParticipant", "DCPSParticipantMessage",
                      "DCPSPublication", "DCPSSubscription", "DCPSTopic"}
BuiltinTopics == SecureDiscoveryTopics \cup OpenBuiltinTopics
                 \cup {"DCPSParticipantMessageSecure", "DCPSParticipantVolatileMessageSecure"}

\* Fails for a topic no rule is about.
has_endpoint_security_attributes(rule, topic) ==
    topic \in BuiltinTopics \/ find_topic_rule(rule, topic) # 0

get_endpoint_security_attributes(rule, topic) ==
    LET t == rule.topic_access_rules[find_topic_rule(rule, topic)]
        Builtin(kind) == EndpointAttributes(FALSE, FALSE, FALSE, FALSE, kind, "None")
    IN
    CASE topic \in SecureDiscoveryTopics -> Builtin(rule.discovery_protection_kind)
      [] topic = "DCPSParticipantMessageSecure" -> Builtin(rule.liveliness_protection_kind)
      [] topic = "DCPSParticipantVolatileMessageSecure" -> Builtin("Encrypt")
      [] topic \in OpenBuiltinTopics -> Builtin("None")
      [] OTHER -> EndpointAttributes(t.enable_read_access_control, t.enable_write_access_control,
                                     t.enable_discovery_protection, t.enable_liveliness_protection,
                                     t.metadata_protection_kind, t.data_protection_kind)

\* What a participant announces of its governance, by get_participant_sec_
\* attributes; the flag that a mask is valid is always set.
ParticipantSecurityInfo(rule) ==
    LET rtps       == to_security_attributes_format(rule.rtps_protection_kind)
        discovered == to_security_attributes_format(rule.discovery_protection_kind)
        liveliness == to_security_attributes_format(rule.liveliness_protection_kind)
    IN  [mask |-> [is_valid |-> TRUE,
                   protected |-> <<rtps.is_protected, discovered.is_protected,
                                   liveliness.is_protected>>],
         plugin_mask |-> [is_valid |-> TRUE,
                          encrypted |-> <<rtps.is_encrypted, discovered.is_encrypted,
                                          liveliness.is_encrypted>>,
                          origin_authenticated |->
                              <<rtps.is_origin_authenticated, discovered.is_origin_authenticated,
                                liveliness.is_origin_authenticated>>]]

\* EndpointSecurityInfo; none for a topic no rule is about.
EndpointSecurityInfo(rule, topic) ==
    IF has_endpoint_security_attributes(rule, topic)
    THEN {[is_valid |-> TRUE, attributes |-> get_endpoint_security_attributes(rule, topic)]}
    ELSE {}

-----------------------------------------------------------------------------
(***************************************************************************)
(* The decisions.  perm is what a permissions handle stands for: the rule  *)
(* of the local participant's governance for the domain, the subject name  *)
(* and the permissions document of the participant in question.            *)
(***************************************************************************)
ASSUME HandlesAssumption ==
    \A perm \in Handles :
        /\ perm.grants \in Seq(ToSet(perm.grants))
        /\ \A grant \in ToSet(perm.grants) : grant.rules \in Seq(ToSet(grant.rules))
        /\ perm.rule.topic_access_rules \in Seq(ToSet(perm.rule.topic_access_rules))

\* A valid grant for the subject of the certificate.
validate_local_permissions(perm, now) == find_grant(perm.grants, perm.subject, now) # 0

\* PluginClassId of the permissions token of this plugin.
PermissionsClassId ==
    [plugin_class_name |-> "DDS:Access:Permissions", major_version |-> 1, minor_version |-> 0]

matches_up_to_major_version(mine, other) ==
    /\ mine.plugin_class_name = other.plugin_class_name
    /\ mine.major_version = other.major_version

\* A participant that authenticated itself: its token is of the same plugin, and
\* it has a valid grant too.
validate_remote_permissions(token, perm, now) ==
    /\ matches_up_to_major_version(PermissionsClassId, token)
    /\ find_grant(perm.grants, perm.subject, now) # 0

check_participant(perm, domain_id, now) ==
    LET g == find_grant(perm.grants, perm.subject, now) IN
    /\ g # 0
    /\ \/ ~perm.rule.enable_join_access_control
       \/ \E t \in ToSet(perm.rule.topic_access_rules) :
             ~(t.enable_read_access_control /\ t.enable_write_access_control)
       \/ check_participant_join(perm.grants[g], domain_id)

\* check_create_datawriter, _datareader, _topic and check_remote_datawriter,
\* _topic.  A topic no rule is about counts as protected.
check_entity(perm, domain_id, topic, kind, now) ==
    LET g == find_grant(perm.grants, perm.subject, now)
        may(action) == check_action(perm.grants[g], action, domain_id, topic)
        t == find_topic_rule(perm.rule, topic)
        read == perm.rule.topic_access_rules[t].enable_read_access_control
        write == perm.rule.topic_access_rules[t].enable_write_access_control
    IN
    \/ topic \in BuiltinTopics
    \/ /\ g # 0
       /\ CASE kind = "writer" -> (t # 0 /\ ~write) \/ may("Publish")
            [] kind = "reader" -> (t # 0 /\ ~read) \/ may("Subscribe")
            [] kind = "topic"  -> (t # 0 /\ ~(read /\ write)) \/ may("Publish") \/ may("Subscribe")

\* Fault: the right to relay counts although the Reader may read.
check_remote_datareader_relay(perm, domain_id, topic, now) ==
    LET g == find_grant(perm.grants, perm.subject, now) IN
    [check_passed |-> check_entity(perm, domain_id, topic, "reader", now),
     relay_only   |-> g # 0 /\ check_action(perm.grants[g], "Relay", domain_id, topic)]

\* A Reader that may not read the topic may still be allowed to relay it.
check_remote_datareader(perm, domain_id, topic, now) ==
    LET g == find_grant(perm.grants, perm.subject, now)
        may(action) == check_action(perm.grants[g], action, domain_id, topic)
        t == find_topic_rule(perm.rule, topic)
        read == (t # 0 /\ ~perm.rule.topic_access_rules[t].enable_read_access_control)
                \/ may("Subscribe")
    IN
    [check_passed |-> g # 0 /\ (read \/ may("Relay")),
     relay_only   |-> g # 0 /\ ~read /\ may("Relay")]

\* Decisions that are written independently of each other and have to agree: a
\* topic may be created by exactly those who may create an endpoint on it; a
\* Reader its participant may create is one that others accept, and not as a
\* mere relay; and who is kept from joining the domain could not have used a
\* topic in it.
DecisionsAgreeOn(perm, domain_id, topic, now) ==
    LET may(kind) == check_entity(perm, domain_id, topic, kind, now)
        remote == check_remote_datareader(perm, domain_id, topic, now)
    IN  /\ may("topic") <=> may("writer") \/ may("reader")
        /\ may("reader") <=> remote.check_passed /\ ~remote.relay_only
        /\ may("topic") \/ remote.check_passed => check_participant(perm, domain_id, now)
=============================================================================
