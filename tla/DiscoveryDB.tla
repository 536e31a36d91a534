---------------------------- MODULE DiscoveryDB ----------------------------
(***************************************************************************)
(* DiscoveryDB: what this participant knows of the domain.  Discovery      *)
(* writes it, the event loop reads it, both under one lock, so each method *)
(* is an operator from a database to a database.                           *)
(*                                                                         *)
(* An endpoint is named by its GUID; its participant, kind, topic and type *)
(* never change.  participant_last_life_signs is kept as the number of     *)
(* clock ticks since the last life sign.                                   *)
(***************************************************************************)
EXTENDS Naturals, FiniteSets

CONSTANTS
    Me,              \* the local participant
    Remote,          \* the other participants of the domain
    LocalEndpoint,   \* Readers and Writers of this participant
    RemoteEndpoint,  \* Readers and Writers of the others
    Topic,
    Owner,           \* [RemoteEndpoint -> Remote]
    Kind,            \* [Endpoint -> {"reader", "writer"}]
    TopicOf,         \* [Endpoint -> Topic]
    LeaseTicks       \* lease_duration every participant announces

Endpoint == LocalEndpoint \cup RemoteEndpoint
Participant == {Me} \cup Remote

ASSUME DomainAssumption ==
    /\ Me \notin Remote
    /\ LocalEndpoint \cap RemoteEndpoint = {}
    /\ Owner \in [RemoteEndpoint -> Remote]
    /\ Kind \in [Endpoint -> {"reader", "writer"}]
    /\ TopicOf \in [Endpoint -> Topic]
    /\ LeaseTicks \in Nat \ {0}
    /\ IsFiniteSet(Endpoint) /\ IsFiniteSet(Remote)

\* guid.prefix
PrefixOf(e) == IF e \in LocalEndpoint THEN Me ELSE Owner[e]

\* What one endpoint or participant is the source of, by GUID prefix.
OfPrefix(S, p) == {e \in S : PrefixOf(e) = p}

\* Ages above the lease are told apart from the lease only by being above.
Age == 0 .. LeaseTicks + 1

DB == [proxies : SUBSET Participant,           \* participant_proxies
       forever : SUBSET Participant,           \* their data has an infinite lease
       age     : [Participant -> Age],         \* participant_last_life_signs
       local   : SUBSET LocalEndpoint,         \* local_topic_readers, _writers
       ext     : SUBSET Endpoint,              \* external_topic_readers, _writers
       attic   : SUBSET Endpoint,              \* external_topic_*_attic
       topics  : [Topic -> SUBSET (Endpoint \cup Participant)]]  \* who told us

EmptyDB ==
    [proxies |-> {}, forever |-> {}, age |-> [p \in Participant |-> 0],
     local |-> {}, ext |-> {}, attic |-> {}, topics |-> [t \in Topic |-> {}]]

----------------------------------------------------------------------------
(* Participants *)

\* True for a participant that update_participant will report as new.
is_new_participant(db, p) == p \notin db.proxies /\ p # Me

\* A participant not in the table gets back what the attic holds of it.  The
\* data replaces older data, its lease_duration included: our own announcement,
\* heard by multicast, ends the infinite lease we started with.
update_participant(db, p, infinite) ==
    LET back == IF p \in db.proxies THEN {} ELSE OfPrefix(db.attic, p)
    IN  [db EXCEPT !.proxies = @ \cup {p},
                   !.forever = IF infinite THEN @ \cup {p} ELSE @ \ {p},
                   !.age[p] = 0,
                   !.ext = @ \cup back,
                   !.attic = @ \ back]

participant_is_alive(db, p) ==
    IF p \in db.proxies THEN [db EXCEPT !.age[p] = 0] ELSE db

\* active_disposal: the participant said so itself; otherwise it timed out
\* and its endpoints go to the attic.
remove_participant(db, p, active_disposal) ==
    LET its == OfPrefix(db.ext, p)
    IN  [db EXCEPT !.proxies = @ \ {p},
                   !.age[p] = 0,
                   !.ext = @ \ its,
                   !.attic = IF active_disposal THEN @ ELSE @ \cup its]

\* Fault: cleans up after half of the lease.
expired_participants_early(db) ==
    {p \in db.proxies \ db.forever : 2 * db.age[p] > LeaseTicks}

expired_participants(db) ==
    {p \in db.proxies \ db.forever : db.age[p] > LeaseTicks}

\* participant_cleanup removes every expired participant under one lock.
participant_cleanup(db) ==
    LET gone == expired_participants(db)
        its == {e \in db.ext : PrefixOf(e) \in gone}
    IN  [db EXCEPT !.proxies = @ \ gone,
                   !.age = [p \in Participant |-> IF p \in gone THEN 0 ELSE @[p]],
                   !.ext = @ \ its,
                   !.attic = @ \cup its]

----------------------------------------------------------------------------
(* Topics.  A source is the GUID that the topic data came from: an endpoint  *)
(* for data deduced from its announcement, a participant for DCPSTopic and   *)
(* for topics defined here.  The signal to find_topic and the status reports *)
(* that go with an update are left out: nothing here waits for them.         *)

\* Insert, or leave the older entry of the same source.
update_topic_data(db, t, source) == [db EXCEPT !.topics[t] = @ \cup {source}]

topic_has_writers_or_readers(db, t) ==
    \E e \in db.local \cup db.ext : TopicOf[e] = t

topic_cleanup(db) ==
    [db EXCEPT !.topics = [t \in Topic |->
        IF topic_has_writers_or_readers(db, t) THEN @[t] ELSE {}]]

----------------------------------------------------------------------------
(* Endpoints *)

update_local_endpoint(db, l) == [db EXCEPT !.local = @ \cup {l}]

remove_local_endpoint(db, l) == [db EXCEPT !.local = @ \ {l}]

\* update_subscription for a Reader, update_publication for a Writer.
update_endpoint(db, e) ==
    update_topic_data([db EXCEPT !.ext = @ \cup {e}], TopicOf[e], e)

\* remove_topic_reader, remove_topic_writer: the attic is not looked at.
remove_endpoint(db, e) == [db EXCEPT !.ext = @ \ {e}]

\* writers_on_topic_and_participant, readers_on_topic_and_participant
on_topic_and_participant(db, kind, t, p) ==
    {e \in OfPrefix(db.ext, p) : Kind[e] = kind /\ TopicOf[e] = t}
=============================================================================
