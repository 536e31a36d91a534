---------------------------- MODULE QosPolicies ----------------------------
(***************************************************************************)
(* QoS policies (dds/qos.rs): how the settings of an endpoint come about,  *)
(* when an offered QoS complies with a requested one, and what of a QoS    *)
(* goes into the parameter list of an announcement.                        *)
(*                                                                         *)
(* A QoS is a function on the policies that are set: a policy that is not  *)
(* in its domain is None.  A parameter list is kept the way readers look   *)
(* at it (ParameterList::to_map): a function from the parameter ids that   *)
(* occur to the sequence of their values.  A parameter id has the name of  *)
(* its policy; durations are numbers.                                      *)
(***************************************************************************)
EXTENDS Integers, Sequences, SequencesExt, FiniteSetsExt

\* The policies that need no work to become one parameter, and the others.
PlainPolicies ==
    {"durability", "presentation", "deadline", "latency_budget", "liveliness",
     "time_based_filter", "destination_order", "resource_limits", "lifespan"}
Policies ==
    PlainPolicies \cup {"ownership", "reliability", "history", "property"}

qos_none == [p \in {} |-> p]

\* QosPolicies: which values the policies have where it matters here.
IsQos(q) ==
    /\ q = [p \in DOMAIN q |-> q[p]]
    /\ DOMAIN q \subseteq Policies
    /\ "ownership" \in DOMAIN q =>
          \/ q.ownership = [kind |-> "Shared"]
          \/ q.ownership = [kind |-> "Exclusive", strength |-> q.ownership.strength]
    /\ "reliability" \in DOMAIN q =>
          \/ q.reliability = [kind |-> "BestEffort"]
          \/ q.reliability = [kind |-> "Reliable",
                              max_blocking_time |-> q.reliability.max_blocking_time]
    /\ "history" \in DOMAIN q =>
          \/ q.history = [kind |-> "KeepAll"]
          \/ q.history = [kind |-> "KeepLast", depth |-> q.history.depth]

\* f, and where f is not defined, g; TLC's f @@ g, which no proof can expand.
f ++ g == [x \in DOMAIN f \cup DOMAIN g |-> IF x \in DOMAIN f THEN f[x] ELSE g[x]]

modify_by(q, other) == other ++ q

\* The QoS of a new DataWriter and of a new DataReader: what the publisher or
\* subscriber sets, what the topic sets, and what the caller asks for (own).
datawriter_qos(publisher, topic, own) == modify_by(modify_by(publisher, topic), own)
datareader_qos(subscriber, topic, own) == modify_by(modify_by(subscriber, topic), own)

---------------------------------------------------------------------------
(* Compliance *)

Durability == <<"Volatile", "TransientLocal", "Transient", "Persistent">>
PresentationAccessScope == <<"Instance", "Topic", "Group">>
LivelinessKind == <<"Automatic", "ManualByParticipant", "ManualByTopic">>
ReliabilityKind == <<"BestEffort", "Reliable">>
DestinationOrder == <<"ByReceptionTimestamp", "BySourceTimeStamp">>

Less(order, a, b) ==
    \E i, j \in DOMAIN order : order[i] = a /\ order[j] = b /\ i < j

\* Liveliness::cmp: the kind of other is compared with itself, so that the
\* lease alone decides, a longer one being less.
LivelinessLess(l, other) ==
    LET kind_num(x) == CHOOSE i \in DOMAIN LivelinessKind : LivelinessKind[i] = x.kind
    IN  \/ kind_num(other) < kind_num(other)
        \/ kind_num(other) = kind_num(other) /\ l.lease_duration > other.lease_duration

\* The policies in the order in which compliance_failure_wrt looks at them.
ComplianceOrder ==
    <<"durability", "presentation", "deadline", "latency_budget", "ownership",
      "liveliness", "reliability", "destination_order">>

Fails(policy, off, req) ==
    CASE policy = "durability" -> Less(Durability, off, req)
      [] policy = "presentation" ->
            \/ req.coherent_access /\ ~off.coherent_access
            \/ req.ordered_access /\ ~off.ordered_access
            \/ Less(PresentationAccessScope, off.access_scope, req.access_scope)
      [] policy \in {"deadline", "latency_budget"} -> off > req
      [] policy = "ownership" -> off # req
      [] policy = "liveliness" -> LivelinessLess(off, req)
      [] policy = "reliability" -> Less(ReliabilityKind, off.kind, req.kind)
      [] policy = "destination_order" -> Less(DestinationOrder, off, req)

\* The first policy that fails, of those set on both sides; <<>> is None.
compliance_failure_wrt(off, req) ==
    LET Failure(p) == /\ p \in DOMAIN off \cap DOMAIN req
                      /\ Fails(p, off[p], req[p])
        first == SelectInSeq(ComplianceOrder, Failure)
    IN  IF first = 0 THEN <<>> ELSE <<ComplianceOrder[first]>>

---------------------------------------------------------------------------
(* Parameter lists *)

get_option_from_pl_map(pl, pid) == IF pid \in DOMAIN pl THEN <<Head(pl[pid])>> ELSE <<>>
get_all_from_pl_map(pl, pid) == IF pid \in DOMAIN pl THEN pl[pid] ELSE <<>>

\* The members of data that have a value, each under its own id.  A member
\* that may be absent or repeated is a sequence.
EmitOptions(data, members) ==
    [m \in {x \in members : data[x] # <<>>} |-> data[m]]
Emit(data, members) == [m \in members |-> <<data[m]>>]

\* Fault: the strength of an exclusive ownership is not sent.
to_parameter_list_weak(q) ==
    [p \in DOMAIN q \ {"property"} |->
        <<CASE p = "ownership" -> q[p].kind
            [] p = "reliability" /\ q[p].kind = "BestEffort" ->
                  [kind |-> "BestEffort", max_blocking_time |-> 0]
            [] p = "history" /\ q[p].kind = "KeepAll" ->
                  [kind |-> "KeepAll", depth |-> 0]
            [] OTHER -> q[p]>>]

\* Strength and kind of the ownership are two parameters, an unreliable Reader
\* or Writer sends a blocking time of 0, KeepAll a depth of 0, and the property
\* policy is not sent.
to_parameter_list(q) ==
    LET Value(p) ==
            CASE p = "ownership" -> q[p].kind
              [] p = "reliability" /\ q[p].kind = "BestEffort" ->
                    [kind |-> "BestEffort", max_blocking_time |-> 0]
              [] p = "history" /\ q[p].kind = "KeepAll" ->
                    [kind |-> "KeepAll", depth |-> 0]
              [] OTHER -> q[p]
    IN  [p \in DOMAIN q \ {"property"} |-> <<Value(p)>>]
          ++ [p \in {x \in {"ownership_strength"} :
                        "ownership" \in DOMAIN q /\ q.ownership.kind = "Exclusive"}
                 |-> <<q.ownership.strength>>]

\* A kind of ownership without the strength it needs, or with one it does not,
\* is no ownership policy at all.
from_parameter_list(pl) ==
    LET kind == get_option_from_pl_map(pl, "ownership")
        strength == get_option_from_pl_map(pl, "ownership_strength")
        read == {p \in Policies \ {"ownership", "property"} : p \in DOMAIN pl}
                  \cup {p \in {"ownership"} :
                          \/ kind = <<"Shared">> /\ strength = <<>>
                          \/ kind = <<"Exclusive">> /\ strength # <<>>}
        Value(p) ==
            LET v == Head(pl[p])
            IN  CASE p = "ownership" /\ v = "Exclusive" ->
                        [kind |-> v, strength |-> Head(strength)]
                  [] p = "ownership" /\ v = "Shared" -> [kind |-> v]
                  [] p = "reliability" /\ v.kind = "BestEffort" -> [kind |-> v.kind]
                  [] p = "history" /\ v.kind = "KeepAll" -> [kind |-> v.kind]
                  [] OTHER -> v
    IN  [p \in read |-> Value(p)]
=============================================================================
