-------------------------- MODULE DiscoveryProofs --------------------------
(***************************************************************************)
(* The safety of Discovery for any participants, endpoints, topics, QoS,   *)
(* channel capacities and leases: the invariant IInv is inductive and      *)
(* implies what the run checks.  At the end: announcements are read as     *)
(* they were written, and both sides decide alike, for any QoS.            *)
(***************************************************************************)
EXTENDS Discovery, SequenceTheorems, FiniteSetTheorems, TLAPS

----------------------------------------------------------------------------
(***************************************************************************)
(* The inductive invariant behind the properties of Discovery.             *)
(*                                                                         *)
(* The properties speak of what the event loop holds and of what is on its *)
(* way to it.  They are kept by the order of the notifications: whatever   *)
(* Discovery does to its database it tells the event loop after all that   *)
(* it told before.  So the notifications in the channel, followed by those *)
(* the Discovery thread has yet to send, are one queue, and the invariant  *)
(* says how that queue ends for each endpoint.  The commands of the        *)
(* application are a second queue, to which the same idea applies.         *)
(***************************************************************************)

WorkSamples == Endpoint \X {"data", "dispose"}
Work ==
    {Notify(n) : n \in Notification} \cup
    {Samples(S) : S \in SUBSET WorkSamples} \cup
    {TopicSamples(S) : S \in SUBSET (Topic \X Participant)} \cup
    {TakeTopics} \cup
    {TakeEndpoints(kind, p) : kind \in {"reader", "writer"}, p \in Participant}

Command ==
    {AddTopic(t) : t \in Topic} \cup {AddLocal(l) : l \in LocalEndpoint} \cup
    {RemoveLocal(l) : l \in LocalEndpoint} \cup {StopDiscovery}

\* What may have become of the announcement of an endpoint, and that it was tried.
Told == Sample \cup {"failed"}
Tried == {"data", "failed"}

DomainInv ==
    /\ up \in [Remote -> {"absent", "up", "gone"}]
    /\ theirs \in [RemoteEndpoint -> {"none", "live", "gone"}]
    /\ missed \in [Participant -> Nat]
    /\ wire \in [Endpoint -> Sample]
    /\ spdp \in [Participant -> Sample]
    /\ sedp \in [Endpoint -> Sample]
    /\ topicIn \subseteq Topic \X Participant

ThreadInv ==
    /\ db \in DB
    /\ todo \in Seq(Work)
    /\ notif \in Seq(Notification)
    /\ cmds \in Seq(Command)
    /\ loop \in Loop
    /\ addCh \in [{"reader", "writer"} -> SUBSET LocalEndpoint]
    /\ removeCh \in [{"reader", "writer"} -> SUBSET LocalEndpoint]
    /\ app \in [LocalEndpoint -> AppState]
    /\ told \in [LocalEndpoint -> Told]
    /\ stop \in {"no", "asked", "done"}
    /\ late \in [LocalEndpoint -> SUBSET Endpoint]

\* The types.  The order in which tokens become ready matters to none of the
\* properties.
TypeInv == DomainInv /\ ThreadInv

----------------------------------------------------------------------------
(* The queue of notifications *)

\* A handler sends all its notifications before it goes on with other work.
NotifyFirst ==
    \A i, j \in DOMAIN todo : i < j /\ todo[j].do = "notify" => todo[i].do = "notify"

\* A notification on which the event loop lets go of e.
Drops(n, e) == n = Lost(e) \/ n = ParticipantLost(PrefixOf(e))

DropSent(e, i) == \E j \in DOMAIN notif : j > i /\ Drops(notif[j], e)
DropDue(e, i) ==
    \E j \in DOMAIN todo : j > i /\ todo[j].do = "notify" /\ Drops(todo[j].arg, e)

\* What the database does not know is not matched, or will not be when the
\* queue is empty.
ForgottenInv ==
    \A e \in Endpoint \ db.ext :
        /\ \A l \in LocalEndpoint : e \in loop.matched[l] => DropSent(e, 0) \/ DropDue(e, 0)
        /\ \A i \in DOMAIN notif : notif[i] = Updated(e) => DropSent(e, i) \/ DropDue(e, 0)
        /\ \A i \in DOMAIN todo : todo[i] = Notify(Updated(e)) => DropDue(e, i)

\* The queue leaves e matched: the last word about e is that it is there.
UpdateSent(e) ==
    \E i \in DOMAIN notif : notif[i] = Updated(e) /\ ~DropSent(e, i) /\ ~DropDue(e, 0)
UpdateDue(e) == \E i \in DOMAIN todo : todo[i] = Notify(Updated(e)) /\ ~DropDue(e, i)
WillMatch(l, e) ==
    \/ e \in loop.matched[l] /\ ~DropSent(e, 0) /\ ~DropDue(e, 0)
    \/ UpdateSent(e)
    \/ UpdateDue(e)

Fits(l, e) == Candidate(l, e) /\ Compatible(l, e)

AnnouncedInv ==
    \A l \in loop.endpoints :
        /\ db.attic \subseteq late[l]
        /\ \A e \in db.ext \ late[l] : Fits(l, e) => WillMatch(l, e)

----------------------------------------------------------------------------
(* The queue of commands *)

Commanded(q, c) == \E i \in DOMAIN q : q[i] = c

\* Whatever announces l is followed by its disposal.
Withdrawn(q, l) ==
    \A i \in DOMAIN q : q[i] = AddLocal(l) =>
        \E j \in DOMAIN q : j > i /\ q[j] = RemoveLocal(l)

\* What has been announced is in the database, where shutdown finds it; and the
\* announcement and the disposal of an endpoint follow its creation and drop.
LocalInv(l) ==
    /\ told[l] = "data" => l \in db.local /\ stop # "done"
    /\ stop # "done" =>
        /\ Commanded(cmds, RemoveLocal(l)) => app[l] = "gone"
        /\ app[l] \in {"none", "half", "drop"} =>
              told[l] \notin Tried /\ ~Commanded(cmds, AddLocal(l))
        /\ app[l] = "half" /\ Kind[l] = "reader" => l \in db.local
        /\ app[l] = "live" =>
              l \in db.local /\ (told[l] \in Tried \/ Commanded(cmds, AddLocal(l)))
        /\ app[l] = "gone" =>
              /\ told[l] \in Tried => Commanded(cmds, RemoveLocal(l))
              /\ Withdrawn(cmds, l)

ToldInv == \A l \in LocalEndpoint : LocalInv(l)

----------------------------------------------------------------------------
(* Leases *)

\* A participant says that it leaves when it does; and the age of its last life
\* sign is not above the number of announcements that got lost since.
LeaseInv ==
    \A p \in Participant :
        /\ p \notin db.proxies => db.age[p] = 0
        /\ p \in db.proxies \/ spdp[p] # "none" => p = Me \/ up[p] # "absent"
        /\ p \in Announcing => spdp[p] # "dispose" /\ db.age[p] <= missed[p]

IInv == TypeInv /\ NotifyFirst /\ ForgottenInv /\ AnnouncedInv /\ ToldInv /\ LeaseInv

----------------------------------------------------------------------------
(* Sequences *)

\* What send does to a channel.
LEMMA AppendFacts ==
    ASSUME NEW S, NEW q \in Seq(S), NEW e \in S
    PROVE  /\ Append(q, e) \in Seq(S)
           /\ Len(q) \in Nat /\ DOMAIN q = 1 .. Len(q)
           /\ DOMAIN Append(q, e) = 1 .. Len(q) + 1
           /\ \A i \in DOMAIN q : Append(q, e)[i] = q[i]
           /\ Append(q, e)[Len(q) + 1] = e
BY AppendProperties, LenProperties

\* What try_recv does to a channel.
LEMMA TailFacts ==
    ASSUME NEW S, NEW q \in Seq(S), q # <<>>
    PROVE  /\ Tail(q) \in Seq(S)
           /\ Len(q) \in Nat \ {0} /\ DOMAIN q = 1 .. Len(q)
           /\ DOMAIN Tail(q) = 1 .. Len(q) - 1
           /\ \A i \in DOMAIN Tail(q) : Tail(q)[i] = q[i + 1]
           /\ Head(q) = q[1] /\ q[1] \in S
BY HeadTailProperties, LenProperties, EmptySeq, ElementOfSeq

\* The elements of a sequence, by position.
LEMMA Elements ==
    ASSUME NEW S, NEW q \in Seq(S)
    PROVE  /\ Len(q) \in Nat /\ DOMAIN q = 1 .. Len(q)
           /\ \A i \in DOMAIN q : q[i] \in S
           /\ q = <<>> <=> DOMAIN q = {}
BY LenProperties, ElementOfSeq, EmptySeq

\* Work put in front of other work.
LEMMA ConcatFacts ==
    ASSUME NEW S, NEW s \in Seq(S), NEW t \in Seq(S)
    PROVE  /\ s \o t \in Seq(S)
           /\ \A i \in DOMAIN (s \o t) :
                 \/ i \in DOMAIN s /\ (s \o t)[i] = s[i]
                 \/ i > Len(s) /\ i - Len(s) \in DOMAIN t /\ (s \o t)[i] = t[i - Len(s)]
           /\ \A i \in DOMAIN s : i \in DOMAIN (s \o t) /\ (s \o t)[i] = s[i]
<1>1. /\ s \o t \in Seq(S)
      /\ Len(s \o t) = Len(s) + Len(t)
      /\ \A i \in 1 .. Len(s) + Len(t) :
            (s \o t)[i] = IF i <= Len(s) THEN s[i] ELSE t[i - Len(s)]
      BY ConcatProperties
<1>2. Len(s) \in Nat /\ Len(t) \in Nat /\ DOMAIN s = 1 .. Len(s) /\ DOMAIN t = 1 .. Len(t)
      BY LenProperties
<1>3. DOMAIN (s \o t) = 1 .. Len(s) + Len(t)  BY <1>1, LenProperties
<1> QED  BY <1>1, <1>2, <1>3

\* SetToSeq has each element of a finite set.
LEMMA SetToSeqFacts ==
    ASSUME NEW S, IsFiniteSet(S)
    PROVE  /\ SetToSeq(S) \in Seq(S)
           /\ \A x \in S : \E i \in DOMAIN SetToSeq(S) : SetToSeq(S)[i] = x
<1> DEFINE n == Cardinality(S)
<1>1. n \in Nat /\ ExistsBijection(1 .. n, S)  BY FS_CardinalityType
<1>2. \E f \in [1 .. n -> S] : IsInjective(f)
      BY <1>1 DEF ExistsBijection, Bijection, Injection, IsInjective
<1>3. SetToSeq(S) \in [1 .. n -> S] /\ IsInjective(SetToSeq(S))
      BY <1>2 DEF SetToSeq
<1>4. SetToSeq(S) \in Injection(1 .. n, S)  BY <1>3 DEF Injection, IsInjective
<1>5. Cardinality(1 .. n) = n  BY <1>1, FS_Interval
<1>6. SetToSeq(S) \in Surjection(1 .. n, S)  BY <1>4, <1>5, FS_Injection
<1>7. SetToSeq(S) \in Seq(S)  BY <1>1, <1>3
<1> QED  BY <1>3, <1>6, <1>7 DEF Surjection

----------------------------------------------------------------------------
(* Notifications, commands and work are told apart *)

\* What a notification says determines its kind and its subject.
LEMMA Notifications ==
    /\ \A e \in Endpoint : Updated(e) \in Notification /\ Lost(e) \in Notification
    /\ \A p \in Participant :
          ParticipantUpdated(p) \in Notification /\ ParticipantLost(p) \in Notification
    /\ \A n \in Notification :
          \/ n.is = "EndpointUpdated" /\ n.of \in Endpoint /\ n = Updated(n.of)
          \/ n.is = "EndpointLost" /\ n.of \in Endpoint /\ n = Lost(n.of)
          \/ n.is = "ParticipantUpdated" /\ n.of \in Participant /\ n = ParticipantUpdated(n.of)
          \/ n.is = "ParticipantLost" /\ n.of \in Participant /\ n = ParticipantLost(n.of)
<1>1. \A e \in Endpoint : Updated(e) \in Notification /\ Lost(e) \in Notification
      BY DEF Notification
<1>2. \A p \in Participant :
         ParticipantUpdated(p) \in Notification /\ ParticipantLost(p) \in Notification
      BY DEF Notification
<1>3. ASSUME NEW n \in Notification
      PROVE  \/ n.is = "EndpointUpdated" /\ n.of \in Endpoint /\ n = Updated(n.of)
             \/ n.is = "EndpointLost" /\ n.of \in Endpoint /\ n = Lost(n.of)
             \/ n.is = "ParticipantUpdated" /\ n.of \in Participant /\ n = ParticipantUpdated(n.of)
             \/ n.is = "ParticipantLost" /\ n.of \in Participant /\ n = ParticipantLost(n.of)
      <2>1. \A x : /\ Updated(x).is = "EndpointUpdated" /\ Updated(x).of = x
                   /\ Lost(x).is = "EndpointLost" /\ Lost(x).of = x
                   /\ ParticipantUpdated(x).is = "ParticipantUpdated"
                   /\ ParticipantUpdated(x).of = x
                   /\ ParticipantLost(x).is = "ParticipantLost" /\ ParticipantLost(x).of = x
            BY DEF Updated, Lost, ParticipantUpdated, ParticipantLost
      <2>2. \/ \E e \in Endpoint : n = Updated(e) \/ n = Lost(e)
            \/ \E p \in Participant : n = ParticipantUpdated(p) \/ n = ParticipantLost(p)
            BY DEF Notification
      <2> QED  BY <2>1, <2>2
<1> QED  BY <1>1, <1>2, <1>3

\* Of an endpoint's notifications, Updated is no reason to let go.
LEMMA DropFacts ==
    ASSUME NEW e \in Endpoint, NEW n
    PROVE  /\ ~Drops(Updated(n), e)
           /\ ~Drops(ParticipantUpdated(n), e)
           /\ Drops(Lost(n), e) <=> n = e
           /\ Drops(ParticipantLost(n), e) <=> n = PrefixOf(e)
BY DEF Drops, Updated, Lost, ParticipantUpdated, ParticipantLost

\* The kinds of work.
LEMMA WorkFacts ==
    /\ \A n \in Notification :
          Notify(n) \in Work /\ Notify(n).do = "notify" /\ Notify(n).arg = n
    /\ \A S \in SUBSET WorkSamples : Samples(S) \in Work /\ Samples(S).do # "notify"
    /\ \A S \in SUBSET (Topic \X Participant) :
          TopicSamples(S) \in Work /\ TopicSamples(S).do # "notify"
    /\ TakeTopics \in Work /\ TakeTopics.do # "notify"
    /\ \A kind \in {"reader", "writer"}, p \in Participant :
          TakeEndpoints(kind, p) \in Work /\ TakeEndpoints(kind, p).do # "notify"
<1>1. /\ \A x : /\ Notify(x).do = "notify" /\ Notify(x).arg = x
                /\ Samples(x).do # "notify" /\ TopicSamples(x).do # "notify"
      /\ \A k, p : TakeEndpoints(k, p).do # "notify"
      /\ TakeTopics.do # "notify"
      BY DEF Notify, Samples, TopicSamples, TakeTopics, TakeEndpoints
<1>2. /\ \A n \in Notification : Notify(n) \in Work
      /\ \A S \in SUBSET WorkSamples : Samples(S) \in Work
      /\ \A S \in SUBSET (Topic \X Participant) : TopicSamples(S) \in Work
      /\ TakeTopics \in Work
      /\ \A kind \in {"reader", "writer"}, p \in Participant : TakeEndpoints(kind, p) \in Work
      BY DEF Work
<1> QED  BY <1>1, <1>2

\* What the kinds of work carry.
LEMMA WorkArgs ==
    ASSUME NEW w \in Work
    PROVE  /\ w.do = "notify" => w.arg \in Notification /\ w = Notify(w.arg)
           /\ w.do = "samples" => w.arg \in SUBSET WorkSamples
           /\ w.do = "topics" => w.arg \in SUBSET (Topic \X Participant)
           /\ w.do = "take" => /\ w.arg[1] \in {"reader", "writer"}
                               /\ w.arg[2] \in Participant
<1>1. \/ \E n \in Notification : w = Notify(n)
      \/ \E S \in SUBSET WorkSamples : w = Samples(S)
      \/ \E S \in SUBSET (Topic \X Participant) : w = TopicSamples(S)
      \/ w = TakeTopics
      \/ \E kind \in {"reader", "writer"}, p \in Participant : w = TakeEndpoints(kind, p)
      BY DEF Work
<1>2. CASE \E n \in Notification : w = Notify(n)  BY <1>2 DEF Notify
<1>3. CASE \E S \in SUBSET WorkSamples : w = Samples(S)  BY <1>3 DEF Samples
<1>4. CASE \E S \in SUBSET (Topic \X Participant) : w = TopicSamples(S)  BY <1>4 DEF TopicSamples
<1>5. CASE w = TakeTopics  BY <1>5 DEF TakeTopics
<1>6. CASE \E kind \in {"reader", "writer"}, p \in Participant : w = TakeEndpoints(kind, p)
      BY <1>6 DEF TakeEndpoints
<1> QED  BY <1>1, <1>2, <1>3, <1>4, <1>5, <1>6

\* The kinds of commands.
LEMMA Commands ==
    /\ \A t \in Topic : AddTopic(t) \in Command
    /\ \A l \in LocalEndpoint : AddLocal(l) \in Command /\ RemoveLocal(l) \in Command
    /\ StopDiscovery \in Command
    /\ \A c \in Command :
          \/ c.is = "AddTopic" /\ c.of \in Topic /\ c = AddTopic(c.of)
          \/ c.is = "AddLocal" /\ c.of \in LocalEndpoint /\ c = AddLocal(c.of)
          \/ c.is = "RemoveLocal" /\ c.of \in LocalEndpoint /\ c = RemoveLocal(c.of)
          \/ c.is = "StopDiscovery" /\ c = StopDiscovery
    /\ \A x, y : /\ AddTopic(x) # AddLocal(y) /\ AddTopic(x) # RemoveLocal(y)
                 /\ AddLocal(x) # RemoveLocal(y)
                 /\ AddLocal(x) = AddLocal(y) <=> x = y
                 /\ RemoveLocal(x) = RemoveLocal(y) <=> x = y
                 /\ StopDiscovery # AddLocal(x) /\ StopDiscovery # RemoveLocal(x)
<1>1. /\ \A t \in Topic : AddTopic(t) \in Command
      /\ \A l \in LocalEndpoint : AddLocal(l) \in Command /\ RemoveLocal(l) \in Command
      /\ StopDiscovery \in Command
      BY DEF Command
<1>2. \A x : /\ AddTopic(x).is = "AddTopic" /\ AddTopic(x).of = x
             /\ AddLocal(x).is = "AddLocal" /\ AddLocal(x).of = x
             /\ RemoveLocal(x).is = "RemoveLocal" /\ RemoveLocal(x).of = x
      BY DEF AddTopic, AddLocal, RemoveLocal
<1>3. StopDiscovery.is = "StopDiscovery"  BY DEF StopDiscovery
<1>4. ASSUME NEW c \in Command
      PROVE  \/ c.is = "AddTopic" /\ c.of \in Topic /\ c = AddTopic(c.of)
             \/ c.is = "AddLocal" /\ c.of \in LocalEndpoint /\ c = AddLocal(c.of)
             \/ c.is = "RemoveLocal" /\ c.of \in LocalEndpoint /\ c = RemoveLocal(c.of)
             \/ c.is = "StopDiscovery" /\ c = StopDiscovery
      <2>1. \/ \E t \in Topic : c = AddTopic(t)
            \/ \E l \in LocalEndpoint : c = AddLocal(l) \/ c = RemoveLocal(l)
            \/ c = StopDiscovery
            BY DEF Command
      <2> QED  BY <1>2, <1>3, <2>1
<1>5. \A x, y : /\ AddTopic(x) # AddLocal(y) /\ AddTopic(x) # RemoveLocal(y)
                /\ AddLocal(x) # RemoveLocal(y)
                /\ AddLocal(x) = AddLocal(y) <=> x = y
                /\ RemoveLocal(x) = RemoveLocal(y) <=> x = y
                /\ StopDiscovery # AddLocal(x) /\ StopDiscovery # RemoveLocal(x)
      BY <1>2, <1>3
<1> QED  BY <1>1, <1>4, <1>5

----------------------------------------------------------------------------
(* The database *)

\* Every endpoint has a participant.
LEMMA PrefixFacts == \A e \in Endpoint : PrefixOf(e) \in Participant
BY DomainAssumption DEF PrefixOf, Endpoint, Participant

\* The fields of a database.
LEMMA DBFields ==
    ASSUME NEW d \in DB
    PROVE  /\ d.proxies \subseteq Participant /\ d.forever \subseteq Participant
           /\ d.age \in [Participant -> Age]
           /\ d.local \subseteq LocalEndpoint
           /\ d.ext \subseteq Endpoint /\ d.attic \subseteq Endpoint
           /\ d.topics \in [Topic -> SUBSET (Endpoint \cup Participant)]
BY DEF DB

\* What SPDP data and its disposal do to the database.
Discovered(d, p) == update_participant(d, p, FALSE)
Disposed(d, p) == remove_participant(d, p, TRUE)

\* update_participant touches the participant's own data only.
LEMMA UpdateParticipant ==
    ASSUME NEW d \in DB, NEW p \in Participant, NEW u, u = Discovered(d, p)
    PROVE  /\ u \in DB /\ u.local = d.local
           /\ u.proxies = d.proxies \cup {p}
           /\ u.age = [d.age EXCEPT ![p] = 0]
           /\ u.attic \subseteq d.attic
           /\ d.ext \subseteq u.ext /\ u.ext \subseteq d.ext \cup d.attic
<1>1. 0 \in Age  BY DomainAssumption DEF Age
<1>2. PICK back : back = IF p \in d.proxies THEN {} ELSE OfPrefix(d.attic, p)  OBVIOUS
<1>3. back \subseteq d.attic  BY <1>2 DEF OfPrefix
<1>4. PICK forever : forever = d.forever \ {p}  OBVIOUS
<1>5. forever \subseteq Participant  BY <1>4, DBFields
<1>6. u = [d EXCEPT !.proxies = @ \cup {p}, !.forever = forever, !.age[p] = 0,
                    !.ext = @ \cup back, !.attic = @ \ back]
      BY <1>2, <1>4 DEF Discovered, update_participant
<1>7. PICK age : age = [d.age EXCEPT ![p] = 0]  OBVIOUS
<1>8. age \in [Participant -> Age]  BY <1>1, <1>7, DBFields
<1>9. u = [d EXCEPT !.proxies = @ \cup {p}, !.forever = forever, !.age = age,
                    !.ext = @ \cup back, !.attic = @ \ back]
      BY <1>6, <1>7 DEF DB
<1>10. /\ u.proxies = d.proxies \cup {p} /\ u.age = age /\ u.local = d.local
       /\ u.ext = d.ext \cup back /\ u.attic = d.attic \ back
       BY <1>9 DEF DB
<1>11. u \in DB
       <2>1. d.proxies \cup {p} \in SUBSET Participant /\ forever \in SUBSET Participant
             BY <1>5, DBFields
       <2>2. d.ext \cup back \in SUBSET Endpoint /\ d.attic \ back \in SUBSET Endpoint
             BY <1>3, DBFields
       <2> QED  BY <1>8, <1>9, <2>1, <2>2 DEF DB
<1> QED  BY <1>3, <1>7, <1>10, <1>11

\* remove_participant and an endpoint's disposal forget, the attic apart.
LEMMA RemoveParticipant ==
    ASSUME NEW d \in DB, NEW p \in Participant, NEW u, u = Disposed(d, p)
    PROVE  /\ u \in DB /\ u.local = d.local
           /\ u.proxies = d.proxies \ {p}
           /\ u.age = [d.age EXCEPT ![p] = 0]
           /\ u.attic = d.attic
           /\ u.ext = {e \in d.ext : PrefixOf(e) # p}
<1>1. 0 \in Age  BY DomainAssumption DEF Age
<1>2. PICK its : its = {e \in d.ext : PrefixOf(e) = p}  OBVIOUS
<1>3. u = [d EXCEPT !.proxies = @ \ {p}, !.age[p] = 0, !.ext = @ \ its, !.attic = @]
      BY <1>2 DEF Disposed, remove_participant, OfPrefix
<1>4. PICK age : age = [d.age EXCEPT ![p] = 0]  OBVIOUS
<1>5. age \in [Participant -> Age]  BY <1>1, <1>4, DBFields
<1>6. u = [d EXCEPT !.proxies = @ \ {p}, !.age = age, !.ext = @ \ its]
      BY <1>3, <1>4 DEF DB
<1> QED  BY <1>2, <1>4, <1>5, <1>6, DBFields DEF DB

\* participant_cleanup moves the endpoints of the expired to the attic.
LEMMA ParticipantCleanupFacts ==
    ASSUME NEW d \in DB, NEW u, u = participant_cleanup(d),
           NEW gone, gone = expired_participants(d)
    PROVE  /\ u \in DB /\ u.local = d.local
           /\ gone \subseteq d.proxies
           /\ u.proxies = d.proxies \ gone
           /\ u.age = [p \in Participant |-> IF p \in gone THEN 0 ELSE d.age[p]]
           /\ \A e : e \in u.ext <=> e \in d.ext /\ PrefixOf(e) \notin gone
           /\ u.attic = d.attic \cup (d.ext \ u.ext)
<1>1. 0 \in Age  BY DomainAssumption DEF Age
<1>2. PICK its : its = {e \in d.ext : PrefixOf(e) \in gone}  OBVIOUS
<1>3. PICK age : age = [p \in Participant |-> IF p \in gone THEN 0 ELSE d.age[p]]  OBVIOUS
<1>4. age \in [Participant -> Age]  BY <1>1, <1>3, DBFields
<1>5. u = [d EXCEPT !.proxies = @ \ gone, !.age = age, !.ext = @ \ its, !.attic = @ \cup its]
      BY <1>2, <1>3 DEF participant_cleanup
<1>6. gone \subseteq d.proxies  BY DEF expired_participants
<1>7. /\ u.proxies = d.proxies \ gone /\ u.age = age /\ u.local = d.local
      /\ u.ext = d.ext \ its /\ u.attic = d.attic \cup its
      BY <1>5 DEF DB
<1>8. u \in DB
      <2>1. d.proxies \ gone \in SUBSET Participant /\ d.ext \ its \in SUBSET Endpoint
            BY DBFields
      <2>2. d.attic \cup its \in SUBSET Endpoint  BY <1>2, DBFields
      <2> QED  BY <1>4, <1>5, <2>1, <2>2 DEF DB
<1>9. \A e : e \in u.ext <=> e \in d.ext /\ PrefixOf(e) \notin gone  BY <1>2, <1>7
<1>10. d.ext \ u.ext = its  BY <1>2, <1>7
<1> QED  BY <1>3, <1>6, <1>7, <1>8, <1>9, <1>10

\* Topics come and go without the endpoints.
LEMMA TopicFacts ==
    ASSUME NEW d \in DB, NEW t \in Topic, NEW source \in Endpoint \cup Participant,
           NEW u, u = update_topic_data(d, t, source)
    PROVE  /\ u \in DB /\ u.local = d.local /\ u.proxies = d.proxies /\ u.age = d.age
           /\ u.ext = d.ext /\ u.attic = d.attic
<1>1. u = [d EXCEPT !.topics[t] = @ \cup {source}]  BY DEF update_topic_data
<1>2. d.topics[t] \cup {source} \in SUBSET (Endpoint \cup Participant)  BY DBFields
<1> QED  BY <1>1, <1>2, DBFields DEF DB

\* A topic that nobody uses is forgotten.
LEMMA TopicCleanupFacts ==
    ASSUME NEW d \in DB, NEW u, u = topic_cleanup(d)
    PROVE  /\ u \in DB /\ u.local = d.local /\ u.proxies = d.proxies /\ u.age = d.age
           /\ u.ext = d.ext /\ u.attic = d.attic
<1>1. PICK topics : topics = [t \in Topic |->
         IF topic_has_writers_or_readers(d, t) THEN d.topics[t] ELSE {}]
      OBVIOUS
<1>2. topics \in [Topic -> SUBSET (Endpoint \cup Participant)]  BY <1>1, DBFields
<1>3. u = [d EXCEPT !.topics = topics]  BY <1>1 DEF topic_cleanup
<1> QED  BY <1>2, <1>3, DBFields DEF DB

\* update_subscription, update_publication
LEMMA UpdateEndpoint ==
    ASSUME NEW d \in DB, NEW e \in Endpoint, NEW u, u = update_endpoint(d, e)
    PROVE  /\ u \in DB /\ u.local = d.local /\ u.proxies = d.proxies /\ u.age = d.age
           /\ u.ext = d.ext \cup {e} /\ u.attic = d.attic
<1>1. PICK m : m = [d EXCEPT !.ext = @ \cup {e}]  OBVIOUS
<1>2. /\ m \in DB /\ m.local = d.local /\ m.proxies = d.proxies /\ m.age = d.age
      /\ m.ext = d.ext \cup {e} /\ m.attic = d.attic
      BY <1>1, DBFields DEF DB
<1>3. TopicOf[e] \in Topic  BY DomainAssumption
<1>4. u = update_topic_data(m, TopicOf[e], e)  BY <1>1 DEF update_endpoint
<1> QED  BY <1>2, <1>3, <1>4, TopicFacts

\* remove_topic_reader, remove_topic_writer
LEMMA RemoveEndpoint ==
    ASSUME NEW d \in DB, NEW e, NEW u, u = remove_endpoint(d, e)
    PROVE  /\ u \in DB /\ u.local = d.local /\ u.proxies = d.proxies /\ u.age = d.age
           /\ u.ext = d.ext \ {e} /\ u.attic = d.attic
<1>1. u = [d EXCEPT !.ext = @ \ {e}]  BY DEF remove_endpoint
<1> QED  BY <1>1, DBFields DEF DB

\* The participant enters an endpoint of its own.
LEMMA EnterFacts ==
    ASSUME NEW d \in DB, NEW l \in LocalEndpoint,
           NEW u, u = update_topic_data(update_local_endpoint(d, l), TopicOf[l], Me)
    PROVE  /\ u \in DB /\ u.local = d.local \cup {l} /\ u.proxies = d.proxies /\ u.age = d.age
           /\ u.ext = d.ext /\ u.attic = d.attic
<1>1. PICK m : m = [d EXCEPT !.local = @ \cup {l}]  OBVIOUS
<1>2. /\ m \in DB /\ m.local = d.local \cup {l} /\ m.proxies = d.proxies /\ m.age = d.age
      /\ m.ext = d.ext /\ m.attic = d.attic
      BY <1>1, DBFields DEF DB
<1>3. TopicOf[l] \in Topic /\ Me \in Participant
      BY DomainAssumption DEF Endpoint, Participant
<1>4. u = update_topic_data(m, TopicOf[l], Me)  BY <1>1 DEF update_local_endpoint
<1> QED  BY <1>2, <1>3, <1>4, TopicFacts

\* The command of a drop takes it out.
LEMMA RemoveLocalFacts ==
    ASSUME NEW d \in DB, NEW l, NEW u, u = remove_local_endpoint(d, l)
    PROVE  /\ u \in DB /\ u.local = d.local \ {l} /\ u.proxies = d.proxies /\ u.age = d.age
           /\ u.ext = d.ext /\ u.attic = d.attic
<1>1. u = [d EXCEPT !.local = @ \ {l}]  BY DEF remove_local_endpoint
<1> QED  BY <1>1, DBFields DEF DB

----------------------------------------------------------------------------
(* The event loop *)

\* The fields of the event loop.
LEMMA LoopFields ==
    ASSUME NEW lp \in Loop
    PROVE  /\ lp.endpoints \subseteq LocalEndpoint /\ lp.builtin \subseteq Participant
           /\ lp.matched \in [LocalEndpoint -> SUBSET Endpoint]
BY DEF Loop

\* remote_reader_discovered, remote_writer_discovered
LEMMA DiscoveredFacts ==
    ASSUME NEW lp \in Loop, NEW e \in Endpoint, NEW u, u = remote_endpoint_discovered(lp, e)
    PROVE  /\ u \in Loop /\ u.endpoints = lp.endpoints
           /\ \A l \in LocalEndpoint : /\ lp.matched[l] \subseteq u.matched[l]
                                       /\ u.matched[l] \subseteq lp.matched[l] \cup {e}
           /\ \A l \in lp.endpoints : Fits(l, e) => e \in u.matched[l]
<1>1. PICK m : m = [l \in LocalEndpoint |->
         IF l \in lp.endpoints /\ Candidate(l, e)
         THEN update_proxy(lp, l, e).matched[l] ELSE lp.matched[l]]
      OBVIOUS
<1>2. u = [lp EXCEPT !.matched = m]  BY <1>1 DEF remote_endpoint_discovered
<1>3. ASSUME NEW l \in LocalEndpoint
      PROVE  update_proxy(lp, l, e).matched[l] =
                IF Compatible(l, e) THEN lp.matched[l] \cup {e} ELSE lp.matched[l]
      <2>1. CASE Compatible(l, e)
            <3>1. update_proxy(lp, l, e) = [lp EXCEPT !.matched[l] = @ \cup {e}]
                  BY <2>1 DEF update_proxy
            <3> QED  BY <2>1, <3>1, LoopFields DEF Loop
      <2>2. CASE ~Compatible(l, e)  BY <2>2 DEF update_proxy
      <2> QED  BY <2>1, <2>2
<1>4. \A l \in LocalEndpoint : /\ lp.matched[l] \subseteq m[l]
                               /\ m[l] \subseteq lp.matched[l] \cup {e}
      BY <1>1, <1>3
<1>5. \A l \in lp.endpoints : Fits(l, e) => e \in m[l]
      BY <1>1, <1>3, LoopFields DEF Fits
<1>6. m \in [LocalEndpoint -> SUBSET Endpoint]  BY <1>1, <1>4, LoopFields
<1>7. u \in Loop /\ u.endpoints = lp.endpoints /\ u.matched = m  BY <1>2, <1>6 DEF Loop
<1> QED  BY <1>4, <1>5, <1>7

\* remote_reader_lost, remote_writer_lost
LEMMA LostFacts ==
    ASSUME NEW lp \in Loop, NEW e \in Endpoint, NEW u, u = remote_endpoint_lost(lp, e)
    PROVE  /\ u \in Loop /\ u.endpoints = lp.endpoints
           /\ \A l \in LocalEndpoint : u.matched[l] = lp.matched[l] \ {e}
<1>1. PICK m : m = [l \in LocalEndpoint |-> lp.matched[l] \ {e}]  OBVIOUS
<1>2. u = [lp EXCEPT !.matched = m]  BY <1>1 DEF remote_endpoint_lost
<1>3. m \in [LocalEndpoint -> SUBSET Endpoint]  BY <1>1, LoopFields
<1>4. u \in Loop /\ u.endpoints = lp.endpoints /\ u.matched = m  BY <1>2, <1>3 DEF Loop
<1> QED  BY <1>1, <1>4

\* remote_participant_lost
LEMMA ParticipantLostFacts ==
    ASSUME NEW lp \in Loop, NEW p \in Participant, NEW u, u = remote_participant_lost(lp, p)
    PROVE  /\ u \in Loop /\ u.endpoints = lp.endpoints
           /\ \A l \in LocalEndpoint : u.matched[l] = {e \in lp.matched[l] : PrefixOf(e) # p}
<1>1. PICK m : m = [l \in LocalEndpoint |-> lp.matched[l] \ OfPrefix(lp.matched[l], p)]  OBVIOUS
<1>2. u = [lp EXCEPT !.matched = m, !.builtin = @ \ {p}]
      BY <1>1 DEF remote_participant_lost
<1>3. m \in [LocalEndpoint -> SUBSET Endpoint]  BY <1>1, LoopFields
<1>4. u \in Loop /\ u.endpoints = lp.endpoints /\ u.matched = m
      BY <1>2, <1>3, LoopFields DEF Loop
<1>5. \A l \in LocalEndpoint : m[l] = {e \in lp.matched[l] : PrefixOf(e) # p}
      BY <1>1 DEF OfPrefix
<1> QED  BY <1>4, <1>5

\* update_participant of the event loop: only built-in endpoints.
LEMMA BuiltinFacts ==
    ASSUME NEW lp \in Loop, NEW d, NEW p \in Participant,
           NEW u, u = update_builtin_endpoints(lp, d, p)
    PROVE  u \in Loop /\ u.endpoints = lp.endpoints /\ u.matched = lp.matched
<1>1. CASE p \in d.proxies
      <2>1. u = [lp EXCEPT !.builtin = @ \cup {p}]  BY <1>1 DEF update_builtin_endpoints
      <2> QED  BY <2>1, LoopFields DEF Loop
<1>2. CASE p \notin d.proxies  BY <1>2 DEF update_builtin_endpoints
<1> QED  BY <1>1, <1>2

\* A new Reader or Writer starts without proxies.
LEMMA AddFacts ==
    ASSUME NEW lp \in Loop, NEW L \in SUBSET LocalEndpoint, NEW u, u = add_local_endpoints(lp, L)
    PROVE  u \in Loop /\ u.endpoints = lp.endpoints \cup L /\ u.matched = lp.matched
<1>1. u = [lp EXCEPT !.endpoints = @ \cup L]  BY DEF add_local_endpoints
<1> QED  BY <1>1, LoopFields DEF Loop

\* One that is removed takes its proxies away.
LEMMA RemoveFacts ==
    ASSUME NEW lp \in Loop, NEW L \in SUBSET LocalEndpoint, NEW u, u = remove_local_endpoints(lp, L)
    PROVE  /\ u \in Loop /\ u.endpoints = lp.endpoints \ L
           /\ \A l \in LocalEndpoint :
                 u.matched[l] = IF l \in L THEN {} ELSE lp.matched[l]
<1>1. PICK m : m = [l \in LocalEndpoint |-> IF l \in L THEN {} ELSE lp.matched[l]]  OBVIOUS
<1>2. u = [lp EXCEPT !.endpoints = @ \ L, !.matched = m]
      BY <1>1 DEF remove_local_endpoints
<1>3. m \in [LocalEndpoint -> SUBSET Endpoint]  BY <1>1, LoopFields
<1>4. u \in Loop /\ u.endpoints = lp.endpoints \ L /\ u.matched = m
      BY <1>2, <1>3, LoopFields DEF Loop
<1> QED  BY <1>1, <1>4

----------------------------------------------------------------------------
(* The queue of notifications *)

QueueInv == NotifyFirst /\ ForgottenInv /\ AnnouncedInv

\* It is about the database's endpoints, the event loop and what is between.
LEMMA QueueFrame ==
    ASSUME QueueInv, db'.ext = db.ext, db'.attic = db.attic,
           UNCHANGED <<loop, notif, todo, late>>
    PROVE  QueueInv'
<1>1. NotifyFirst'  BY DEF QueueInv, NotifyFirst
<1>2. \A e, i : (DropSent(e, i)' <=> DropSent(e, i)) /\ (DropDue(e, i)' <=> DropDue(e, i))
      BY DEF DropSent, DropDue, Drops
<1>3. ForgottenInv'  BY <1>2 DEF QueueInv, ForgottenInv
<1>4. AnnouncedInv'
      BY <1>2 DEF QueueInv, AnnouncedInv, WillMatch, UpdateSent, UpdateDue, Fits
<1> QED  BY <1>1, <1>3, <1>4 DEF QueueInv

\* Between two notifications of a handler there is no other work, so when the
\* next thing to do is no notification, none is left to send.
NothingDue == \A i \in DOMAIN todo : todo[i].do # "notify"

LEMMA NoneDue ==
    ASSUME todo \in Seq(Work), NotifyFirst, todo = <<>> \/ Head(todo).do # "notify"
    PROVE  NothingDue
<1>1. CASE todo = <<>>  BY <1>1, Elements DEF NothingDue
<1>2. CASE todo # <<>> /\ Head(todo).do # "notify"
      <2>1. Head(todo) = todo[1] /\ Len(todo) \in Nat \ {0} /\ DOMAIN todo = 1 .. Len(todo)
            BY <1>2, TailFacts
      <2> QED  BY <1>2, <2>1 DEF NothingDue, NotifyFirst
<1> QED  BY <1>1, <1>2

\* A step of the Discovery thread that has nothing left to send: it may forget
\* endpoints if it will say so, and learn of endpoints if it will say so, or if
\* every Reader and Writer knows them as late.
LEMMA EnqueueStep ==
    ASSUME TypeInv, QueueInv, NothingDue, UNCHANGED <<notif, loop>>, NotifyFirst',
           db'.ext \subseteq Endpoint,
           \A e \in Endpoint \ db'.ext, i \in DOMAIN todo' : todo'[i] # Notify(Updated(e)),
           \A e \in db.ext \ db'.ext : DropDue(e, 0)',
           \A e \in db'.ext : ~DropDue(e, 0)',
           \A e \in db'.ext \ db.ext :
               UpdateDue(e)' \/ \A l \in loop.endpoints : e \in late'[l],
           \A l \in loop.endpoints : late[l] \subseteq late'[l] /\ db'.attic \subseteq late'[l]
    PROVE  QueueInv'
<1>1. \A e, i : DropSent(e, i)' <=> DropSent(e, i)  BY DEF DropSent, Drops
<1>2. \A e, i : ~DropDue(e, i)  BY DEF DropDue, NothingDue
<1>3. \A e : ~UpdateDue(e)  BY DEF UpdateDue, NothingDue, Notify
<1>4. ForgottenInv'
      <2> SUFFICES ASSUME NEW e \in Endpoint \ db'.ext
                   PROVE  /\ \A l \in LocalEndpoint :
                                e \in loop.matched[l] => DropSent(e, 0)' \/ DropDue(e, 0)'
                          /\ \A i \in DOMAIN notif :
                                notif[i] = Updated(e) => DropSent(e, i)' \/ DropDue(e, 0)'
                          /\ \A i \in DOMAIN todo' : todo'[i] = Notify(Updated(e)) => DropDue(e, i)'
          BY DEF ForgottenInv
      <2>1. CASE e \in db.ext  BY <2>1
      <2>2. CASE e \notin db.ext
            BY <1>1, <1>2, <2>2 DEF QueueInv, ForgottenInv
      <2> QED  BY <2>1, <2>2
<1>5. AnnouncedInv'
      <2> SUFFICES ASSUME NEW l \in loop.endpoints
                   PROVE  /\ db'.attic \subseteq late'[l]
                          /\ \A e \in db'.ext \ late'[l] : Fits(l, e) => WillMatch(l, e)'
          BY DEF AnnouncedInv, Fits
      <2>1. ASSUME NEW e \in db'.ext \ late'[l], Fits(l, e)
            PROVE  WillMatch(l, e)'
            <3>1. CASE e \notin db.ext  BY <2>1, <3>1 DEF WillMatch
            <3>2. CASE e \in db.ext
                  <4>1. WillMatch(l, e)  BY <2>1, <3>2 DEF QueueInv, AnnouncedInv
                  <4>2. ~DropDue(e, 0)'  BY <2>1
                  <4> QED  BY <1>1, <1>3, <4>1, <4>2 DEF WillMatch, UpdateSent
            <3> QED  BY <3>1, <3>2
      <2> QED  BY <2>1
<1> QED  BY <1>4, <1>5 DEF QueueInv

\* Work of which all, and of which none is to notify.
Loud(s) == \A i \in DOMAIN s : s[i].do = "notify"
Quiet(s) == \A i \in DOMAIN s : s[i].do # "notify"

\* The rest of a handler's work.
LEMMA QuietFacts ==
    /\ <<>> \in Seq(Work) /\ Quiet(<<>>)
    /\ \A w \in Work : w.do # "notify" => <<w>> \in Seq(Work) /\ Quiet(<<w>>)
    /\ \A s, t \in Seq(Work) : Quiet(s) /\ Quiet(t) => s \o t \in Seq(Work) /\ Quiet(s \o t)
<1>1. <<>> \in Seq(Work) /\ Quiet(<<>>)  BY DEF Quiet
<1>2. \A w \in Work : w.do # "notify" => <<w>> \in Seq(Work) /\ Quiet(<<w>>)  BY DEF Quiet
<1>3. ASSUME NEW s \in Seq(Work), NEW t \in Seq(Work), Quiet(s), Quiet(t)
      PROVE  s \o t \in Seq(Work) /\ Quiet(s \o t)
      BY <1>3, ConcatFacts DEF Quiet
<1> QED  BY <1>1, <1>2, <1>3

\* What is left when the next thing to do was no notification.
LEMMA QuietTail ==
    ASSUME todo \in Seq(Work), todo # <<>>, NothingDue
    PROVE  Tail(todo) \in Seq(Work) /\ Quiet(Tail(todo))
<1>1. /\ Tail(todo) \in Seq(Work) /\ DOMAIN todo = 1 .. Len(todo)
      /\ DOMAIN Tail(todo) = 1 .. Len(todo) - 1 /\ Len(todo) \in Nat \ {0}
      /\ \A i \in DOMAIN Tail(todo) : Tail(todo)[i] = todo[i + 1]
      BY TailFacts
<1>2. \A i \in 1 .. Len(todo) - 1 : i + 1 \in 1 .. Len(todo)  BY <1>1
<1> QED  BY <1>1, <1>2 DEF Quiet, NothingDue

\* Notifications put in front of other work are sent first.
LEMMA Enqueued ==
    ASSUME NEW front \in Seq(Work), NEW rest \in Seq(Work), Loud(front), Quiet(rest),
           todo' = front \o rest
    PROVE  /\ todo' \in Seq(Work) /\ NotifyFirst'
           /\ \A i \in DOMAIN todo' : todo'[i].do = "notify" =>
                 \E j \in DOMAIN front : todo'[i] = front[j]
           /\ \A j \in DOMAIN front : j \in DOMAIN todo' /\ todo'[j] = front[j]
<1>1. /\ front \o rest \in Seq(Work)
      /\ \A i \in DOMAIN (front \o rest) :
            \/ i \in DOMAIN front /\ (front \o rest)[i] = front[i]
            \/ /\ i > Len(front) /\ i - Len(front) \in DOMAIN rest
               /\ (front \o rest)[i] = rest[i - Len(front)]
      /\ \A j \in DOMAIN front : j \in DOMAIN (front \o rest) /\ (front \o rest)[j] = front[j]
      BY ConcatFacts
<1>2. Len(front) \in Nat /\ DOMAIN front = 1 .. Len(front)  BY Elements
<1>3. Len(front \o rest) \in Nat /\ DOMAIN (front \o rest) = 1 .. Len(front \o rest)
      BY <1>1, Elements
<1>4. \A i \in DOMAIN todo' : todo'[i].do = "notify" => i \in DOMAIN front /\ todo'[i] = front[i]
      BY <1>1 DEF Quiet
<1>5. NotifyFirst'
      <2> SUFFICES ASSUME NEW i \in DOMAIN todo', NEW j \in DOMAIN todo', i < j,
                          todo'[j].do = "notify"
                   PROVE  todo'[i].do = "notify"
          BY DEF NotifyFirst
      <2>1. j \in 1 .. Len(front)  BY <1>2, <1>4
      <2>2. i \in DOMAIN front  BY <1>2, <1>3, <2>1
      <2> QED  BY <1>1, <2>2 DEF Loud
<1> QED  BY <1>1, <1>4, <1>5

\* A handler that goes on without notifying anyone.
LEMMA QuietStep ==
    ASSUME TypeInv, QueueInv, NothingDue, todo' \in Seq(Work), Quiet(todo'),
           UNCHANGED <<notif, loop, late>>, db'.ext = db.ext, db'.attic = db.attic
    PROVE  QueueInv'
<1>1. NotifyFirst'  BY DEF NotifyFirst, Quiet
<1>2. \A e, i : ~DropDue(e, i)'  BY DEF DropDue, Quiet
<1>3. \A e : \A i \in DOMAIN todo' : todo'[i] # Notify(Updated(e))  BY DEF Quiet, Notify
<1>4. db.ext \subseteq Endpoint  BY DBFields DEF TypeInv, ThreadInv
<1>5. \A l \in loop.endpoints : db.attic \subseteq late[l]  BY DEF QueueInv, AnnouncedInv
<1>6. NotifyFirst' /\ db'.ext \subseteq Endpoint  BY <1>1, <1>4
<1>7. \A e \in Endpoint \ db'.ext, i \in DOMAIN todo' : todo'[i] # Notify(Updated(e))
      BY <1>3
<1>8. \A e \in db'.ext \ db.ext :
         UpdateDue(e)' \/ \A l \in loop.endpoints : e \in late'[l]
      OBVIOUS
<1>9. \A l \in loop.endpoints : late[l] \subseteq late'[l] /\ db'.attic \subseteq late'[l]
      BY <1>5
<1>10. \A e \in db.ext \ db'.ext : DropDue(e, 0)'  OBVIOUS
<1>11. \A e \in db'.ext : ~DropDue(e, 0)'  BY <1>2
<1> QED  BY <1>6, <1>7, <1>8, <1>9, <1>10, <1>11, EnqueueStep

\* A handler that notifies of one thing and goes on.
LEMMA NotifyStep ==
    ASSUME NEW n \in Notification, NEW rest \in Seq(Work), Quiet(rest),
           todo' = <<Notify(n)>> \o rest
    PROVE  /\ todo' \in Seq(Work) /\ NotifyFirst'
           /\ \A e : DropDue(e, 0)' <=> Drops(n, e)
           /\ \A e : n = Updated(e) => UpdateDue(e)'
           /\ \A e : \A i \in DOMAIN todo' : todo'[i] = Notify(Updated(e)) => n = Updated(e)
<1>1. PICK front : front = <<Notify(n)>>  OBVIOUS
<1>2. Notify(n) \in Work /\ Notify(n).do = "notify" /\ Notify(n).arg = n  BY WorkFacts
<1>3. front \in Seq(Work) /\ DOMAIN front = {1} /\ front[1] = Notify(n)  BY <1>1, <1>2
<1>4. Loud(front)  BY <1>2, <1>3 DEF Loud
<1>5. todo' = front \o rest  BY <1>1
<1>6. /\ todo' \in Seq(Work) /\ NotifyFirst'
      /\ \A i \in DOMAIN todo' : todo'[i].do = "notify" =>
            \E j \in DOMAIN front : todo'[i] = front[j]
      /\ \A j \in DOMAIN front : j \in DOMAIN todo' /\ todo'[j] = front[j]
      BY <1>3, <1>4, <1>5, Enqueued
<1>7. \A i \in DOMAIN todo' : todo'[i].do = "notify" => todo'[i] = Notify(n)  BY <1>3, <1>6
<1>8. 1 \in DOMAIN todo' /\ todo'[1] = Notify(n)  BY <1>3, <1>6
<1>9. \A e : DropDue(e, 0)' <=> Drops(n, e)  BY <1>2, <1>7, <1>8 DEF DropDue, Drops
<1>10. \A e : n = Updated(e) => ~Drops(n, e)
       BY DEF Drops, Updated, Lost, ParticipantLost
<1>11. ASSUME NEW e, NEW i \in DOMAIN todo', todo'[i] = Notify(Updated(e))
       PROVE  n = Updated(e)
       <2>1. Notify(Updated(e)).do = "notify" /\ Notify(Updated(e)).arg = Updated(e)  BY DEF Notify
       <2>2. todo'[i] = Notify(n)  BY <1>7, <1>11, <2>1
       <2> QED  BY <1>2, <1>11, <2>1, <2>2
<1>12. ASSUME NEW e, n = Updated(e) PROVE UpdateDue(e)'
       <2>1. ~DropDue(e, 0)'  BY <1>9, <1>10, <1>12
       <2>2. ~DropDue(e, 1)'  BY <2>1, <1>6, Elements DEF DropDue
       <2> QED  BY <1>8, <1>12, <2>2 DEF UpdateDue
<1> QED  BY <1>6, <1>9, <1>11, <1>12

----------------------------------------------------------------------------
(* The Discovery thread and the queue *)

\* A participant's data or its disposal.
LEMMA ParticipantReaderQueue ==
    ASSUME TypeInv, QueueInv, NEW p \in Participant, handle_participant_reader(p)
    PROVE  ThreadInv' /\ QueueInv'
<1>1. UNCHANGED <<notif, cmds, loop, addCh, removeCh, app, told, stop, late>> /\ todo = <<>>
      BY DEF handle_participant_reader, Idle, channels
<1>2. NothingDue  BY <1>1, NoneDue DEF TypeInv, ThreadInv, QueueInv
<1>3. db \in DB  BY DEF TypeInv, ThreadInv
<1>4. db.ext \subseteq Endpoint  BY <1>3, DBFields
<1>5. \A l \in loop.endpoints : db.attic \subseteq late[l]  BY DEF QueueInv, AnnouncedInv
<1>6. CASE process_discovered_participant_data(p)
      <2>1. PICK rest : rest = IF is_new_participant(db, p)
               THEN <<TakeTopics, TakeEndpoints("reader", p), TakeEndpoints("writer", p)>>
               ELSE <<>>
            OBVIOUS
      <2>2. rest \in Seq(Work) /\ Quiet(rest)
            <3>1. CASE rest = <<>>  BY <3>1, QuietFacts
            <3>2. CASE rest = <<TakeTopics, TakeEndpoints("reader", p), TakeEndpoints("writer", p)>>
                  <4>1. /\ TakeTopics \in Work /\ TakeTopics.do # "notify"
                        /\ TakeEndpoints("reader", p) \in Work
                        /\ TakeEndpoints("reader", p).do # "notify"
                        /\ TakeEndpoints("writer", p) \in Work
                        /\ TakeEndpoints("writer", p).do # "notify"
                        BY WorkFacts
                  <4>2. /\ DOMAIN rest = 1 .. 3 /\ rest[1] = TakeTopics
                        /\ rest[2] = TakeEndpoints("reader", p)
                        /\ rest[3] = TakeEndpoints("writer", p)
                        BY <3>2
                  <4>3. rest \in Seq(Work)  BY <3>2, <4>1
                  <4> QED  BY <4>1, <4>2, <4>3 DEF Quiet
            <3> QED  BY <2>1, <3>1, <3>2
      <2>3. PICK n : n = ParticipantUpdated(p)  OBVIOUS
      <2>4. n \in Notification /\ \A e \in Endpoint : ~Drops(n, e) /\ n # Updated(e)
            BY <2>3, Notifications, DropFacts DEF ParticipantUpdated, Updated
      <2>5. todo' = <<Notify(n)>> \o rest
            BY <1>6, <2>1, <2>3 DEF process_discovered_participant_data
      <2>6. /\ todo' \in Seq(Work) /\ NotifyFirst'
            /\ \A e : DropDue(e, 0)' <=> Drops(n, e)
            /\ \A e : \A i \in DOMAIN todo' : todo'[i] = Notify(Updated(e)) => n = Updated(e)
            BY <2>2, <2>4, <2>5, NotifyStep
      <2>7. /\ db' \in DB /\ db'.attic \subseteq db.attic
            /\ db.ext \subseteq db'.ext /\ db'.ext \subseteq db.ext \cup db.attic
            <3>1. db' = Discovered(db, p)
                  BY <1>6 DEF process_discovered_participant_data, Discovered
            <3> QED  BY <1>3, <3>1, UpdateParticipant
      <2>8. db'.ext \subseteq Endpoint  BY <2>7, DBFields
      <2>9. \A e \in Endpoint \ db'.ext, i \in DOMAIN todo' : todo'[i] # Notify(Updated(e))
            BY <2>4, <2>6
      <2>10. \A e \in db.ext \ db'.ext : DropDue(e, 0)'  BY <2>7
      <2>11. \A e \in db'.ext : ~DropDue(e, 0)'  BY <2>4, <2>6, <2>8
      <2>12. \A e \in db'.ext \ db.ext :
                UpdateDue(e)' \/ \A l \in loop.endpoints : e \in late'[l]
             BY <1>1, <1>5, <2>7
      <2>13. \A l \in loop.endpoints : late[l] \subseteq late'[l] /\ db'.attic \subseteq late'[l]
             BY <1>1, <1>5, <2>7
      <2>14. QueueInv'
             BY <1>1, <1>2, <2>6, <2>8, <2>9, <2>10, <2>11, <2>12, <2>13, EnqueueStep
      <2> QED  BY <1>1, <2>6, <2>7, <2>14 DEF TypeInv, ThreadInv
<1>7. CASE process_participant_dispose(p)
      <2>1. PICK n : n = ParticipantLost(p)  OBVIOUS
      <2>2. /\ n \in Notification
            /\ \A e \in Endpoint : (Drops(n, e) <=> PrefixOf(e) = p) /\ n # Updated(e)
            BY <2>1, Notifications, DropFacts DEF ParticipantLost, Updated
      <2>3. todo' = <<Notify(n)>> \o <<>>
            <3>1. Notify(n) \in Work  BY <2>2, WorkFacts
            <3>2. <<Notify(n)>> \o <<>> = <<Notify(n)>>  BY <3>1, ConcatEmptySeq
            <3> QED  BY <1>7, <2>1, <3>2 DEF process_participant_dispose
      <2>4. /\ todo' \in Seq(Work) /\ NotifyFirst'
            /\ \A e : DropDue(e, 0)' <=> Drops(n, e)
            /\ \A e : \A i \in DOMAIN todo' : todo'[i] = Notify(Updated(e)) => n = Updated(e)
            BY <2>2, <2>3, NotifyStep, QuietFacts
      <2>5. /\ db' \in DB /\ db'.attic = db.attic
            /\ db'.ext = {e \in db.ext : PrefixOf(e) # p}
            <3>1. db' = Disposed(db, p)  BY <1>7 DEF process_participant_dispose, Disposed
            <3> QED  BY <1>3, <3>1, RemoveParticipant
      <2>6. db'.ext \subseteq Endpoint  BY <2>5, DBFields
      <2>7. \A e \in Endpoint \ db'.ext, i \in DOMAIN todo' : todo'[i] # Notify(Updated(e))
            BY <2>2, <2>4
      <2>8. \A e \in db.ext \ db'.ext : DropDue(e, 0)'  BY <1>4, <2>2, <2>4, <2>5
      <2>9. \A e \in db'.ext : ~DropDue(e, 0)'  BY <2>2, <2>4, <2>5, <2>6
      <2>10. \A e \in db'.ext \ db.ext :
                UpdateDue(e)' \/ \A l \in loop.endpoints : e \in late'[l]
             BY <2>5
      <2>11. \A l \in loop.endpoints : late[l] \subseteq late'[l] /\ db'.attic \subseteq late'[l]
             BY <1>1, <1>5, <2>5
      <2>12. QueueInv'
             BY <1>1, <1>2, <2>4, <2>6, <2>7, <2>8, <2>9, <2>10, <2>11, EnqueueStep
      <2> QED  BY <1>1, <2>4, <2>5, <2>12 DEF TypeInv, ThreadInv
<1> QED  BY <1>6, <1>7 DEF handle_participant_reader

\* Samples are taken before they are handled.
LEMMA TakeWork ==
    ASSUME TypeInv, NEW kind, NEW wanted, NEW rest \in Seq(Work), Quiet(rest),
           Take(kind, wanted, rest)
    PROVE  todo' \in Seq(Work) /\ Quiet(todo')
<1>1. PICK unread : unread = {e \in Endpoint : Kind[e] = kind /\ sedp[e] # "none"}  OBVIOUS
<1>2. PICK kept : kept = {<<e, sedp[e]>> : e \in unread \cap wanted}  OBVIOUS
<1>3. todo' = (IF kept = {} THEN <<>> ELSE <<Samples(kept)>>) \o rest
      BY <1>1, <1>2 DEF Take
<1>4. kept \in SUBSET WorkSamples
      <2>1. ASSUME NEW e \in unread PROVE <<e, sedp[e]>> \in WorkSamples
            <3>1. e \in Endpoint /\ sedp[e] # "none"  BY <1>1
            <3>2. sedp[e] \in {"data", "dispose"}
                  BY <3>1 DEF TypeInv, DomainInv, Sample
            <3> QED  BY <3>1, <3>2 DEF WorkSamples
      <2> QED  BY <1>2, <2>1
<1>5. Samples(kept) \in Work /\ Samples(kept).do # "notify"  BY <1>4, WorkFacts
<1>6. PICK front : front = IF kept = {} THEN <<>> ELSE <<Samples(kept)>>  OBVIOUS
<1>7. front \in Seq(Work) /\ Quiet(front)  BY <1>5, <1>6, QuietFacts
<1>8. todo' = front \o rest  BY <1>3, <1>6
<1> QED  BY <1>7, <1>8, QuietFacts

\* An SEDP reader has samples, or is looked into for one participant.
LEMMA EndpointReaderQueue ==
    ASSUME TypeInv, QueueInv,
           \/ \E kind \in {"reader", "writer"} : handle_endpoint_reader(kind)
           \/ handle_endpoint_reader_of
    PROVE  ThreadInv' /\ QueueInv'
<1>1. UNCHANGED <<db, notif, cmds, loop, addCh, removeCh, app, told, stop, late>>
      BY DEF handle_endpoint_reader, handle_endpoint_reader_of, channels
<1>2. todo = <<>> \/ (todo # <<>> /\ Head(todo).do = "take")
      BY DEF handle_endpoint_reader, handle_endpoint_reader_of, Idle
<1>3. NothingDue  BY <1>2, NoneDue DEF TypeInv, ThreadInv, QueueInv
<1>4. todo' \in Seq(Work) /\ Quiet(todo')
      <2>1. CASE \E kind \in {"reader", "writer"} : handle_endpoint_reader(kind)
            <3>1. PICK kind \in {"reader", "writer"} : handle_endpoint_reader(kind)  BY <2>1
            <3>2. Take(kind, Endpoint, <<>>)  BY <3>1 DEF handle_endpoint_reader
            <3> QED  BY <3>2, TakeWork, QuietFacts
      <2>2. CASE handle_endpoint_reader_of
            <3>1. todo # <<>> /\ todo \in Seq(Work)
                  BY <2>2 DEF handle_endpoint_reader_of, TypeInv, ThreadInv
            <3>2. Tail(todo) \in Seq(Work) /\ Quiet(Tail(todo))  BY <1>3, <3>1, QuietTail
            <3>3. \E kind, wanted : Take(kind, wanted, Tail(todo))
                  BY <2>2 DEF handle_endpoint_reader_of
            <3> QED  BY <3>2, <3>3, TakeWork
      <2> QED  BY <2>1, <2>2
<1>5. QueueInv'  BY <1>1, <1>3, <1>4, QuietStep
<1> QED  BY <1>1, <1>4, <1>5 DEF TypeInv, ThreadInv

\* One SEDP sample: the database, then the event loop.
LEMMA EndpointSampleQueue ==
    ASSUME TypeInv, QueueInv, handle_endpoint_sample
    PROVE  ThreadInv' /\ QueueInv'
<1>1. /\ UNCHANGED <<notif, cmds, loop, addCh, removeCh, app, told, stop, late>>
      /\ todo # <<>> /\ Head(todo).do = "samples" /\ todo \in Seq(Work)
      BY DEF handle_endpoint_sample, channels, TypeInv, ThreadInv
<1>2. NothingDue  BY <1>1, NoneDue DEF QueueInv
<1>3. db \in DB  BY DEF TypeInv, ThreadInv
<1>4. db.ext \subseteq Endpoint  BY <1>3, DBFields
<1>5. \A l \in loop.endpoints : db.attic \subseteq late[l]  BY DEF QueueInv, AnnouncedInv
<1>6. Head(todo) \in Work  BY <1>1, TailFacts
<1>7. Head(todo).arg \in SUBSET WorkSamples  BY <1>1, <1>6, WorkArgs
<1>8. PICK s \in Head(todo).arg :
         /\ db' = IF s[2] = "data" THEN update_endpoint(db, s[1]) ELSE remove_endpoint(db, s[1])
         /\ todo' = <<Notify(IF s[2] = "data" THEN Updated(s[1]) ELSE Lost(s[1]))>>
                    \o (IF Head(todo).arg \ {s} = {} THEN <<>>
                        ELSE <<Samples(Head(todo).arg \ {s})>>)
                    \o Tail(todo)
      BY DEF handle_endpoint_sample
<1>9. s[1] \in Endpoint  BY <1>7 DEF WorkSamples
<1>10. PICK e : e = s[1]  OBVIOUS
<1>11. PICK n : n = IF s[2] = "data" THEN Updated(e) ELSE Lost(e)  OBVIOUS
<1>12. PICK more : more = IF Head(todo).arg \ {s} = {} THEN <<>>
                          ELSE <<Samples(Head(todo).arg \ {s})>>
       OBVIOUS
<1>13. more \in Seq(Work) /\ Quiet(more)
       <2>1. Head(todo).arg \ {s} \in SUBSET WorkSamples  BY <1>7
       <2>2. /\ Samples(Head(todo).arg \ {s}) \in Work
             /\ Samples(Head(todo).arg \ {s}).do # "notify"
             BY <2>1, WorkFacts
       <2> QED  BY <1>12, <2>2, QuietFacts
<1>14. Tail(todo) \in Seq(Work) /\ Quiet(Tail(todo))  BY <1>1, <1>2, QuietTail
<1>15. n \in Notification  BY <1>9, <1>10, <1>11, Notifications
<1>16. PICK rest : rest = more \o Tail(todo)  OBVIOUS
<1>17. rest \in Seq(Work) /\ Quiet(rest)  BY <1>13, <1>14, <1>16, QuietFacts
<1>18. todo' = <<Notify(n)>> \o rest
       <2>1. todo' = (<<Notify(n)>> \o more) \o Tail(todo)  BY <1>8, <1>10, <1>11, <1>12
       <2>2. <<Notify(n)>> \in Seq(Work)  BY <1>15, WorkFacts
       <2> QED  BY <1>13, <1>14, <1>16, <2>1, <2>2, ConcatAssociative
<1>19. /\ todo' \in Seq(Work) /\ NotifyFirst'
       /\ \A x : DropDue(x, 0)' <=> Drops(n, x)
       /\ \A x : n = Updated(x) => UpdateDue(x)'
       /\ \A x : \A i \in DOMAIN todo' : todo'[i] = Notify(Updated(x)) => n = Updated(x)
       BY <1>15, <1>17, <1>18, NotifyStep
<1>20. e \in Endpoint  BY <1>9, <1>10
<1>21. CASE s[2] = "data"
       <2>1. db' = update_endpoint(db, e) /\ n = Updated(e)  BY <1>8, <1>10, <1>11, <1>21
       <2>2. db' \in DB /\ db'.ext = db.ext \cup {e} /\ db'.attic = db.attic
             BY <1>3, <1>20, <2>1, UpdateEndpoint
       <2>3. \A x \in Endpoint : ~Drops(n, x)  BY <2>1, DropFacts
       <2>4. \A x : n = Updated(x) => x = e  BY <2>1 DEF Updated
       <2>5. db'.ext \subseteq Endpoint  BY <1>4, <1>20, <2>2
       <2>6. \A x \in Endpoint \ db'.ext, i \in DOMAIN todo' : todo'[i] # Notify(Updated(x))
             BY <1>19, <2>2, <2>4
       <2>7. \A x \in db.ext \ db'.ext : DropDue(x, 0)'  BY <2>2
       <2>8. \A x \in db'.ext : ~DropDue(x, 0)'  BY <1>19, <2>3, <2>5
       <2>9. \A x \in db'.ext \ db.ext :
                UpdateDue(x)' \/ \A l \in loop.endpoints : x \in late'[l]
             BY <1>19, <2>1, <2>2
       <2>10. \A l \in loop.endpoints : late[l] \subseteq late'[l] /\ db'.attic \subseteq late'[l]
             BY <1>1, <1>5, <2>2
       <2>11. QueueInv'
             BY <1>1, <1>2, <1>19, <2>5, <2>6, <2>7, <2>8, <2>9, <2>10, EnqueueStep
       <2> QED  BY <1>1, <1>19, <2>2, <2>11 DEF TypeInv, ThreadInv
<1>22. CASE s[2] # "data"
       <2>1. db' = remove_endpoint(db, e) /\ n = Lost(e)  BY <1>8, <1>10, <1>11, <1>22
       <2>2. db' \in DB /\ db'.ext = db.ext \ {e} /\ db'.attic = db.attic
             BY <1>3, <2>1, RemoveEndpoint
       <2>3. \A x \in Endpoint : (Drops(n, x) <=> x = e)  BY <2>1, DropFacts
       <2>4. \A x : n # Updated(x)  BY <2>1 DEF Updated, Lost
       <2>5. db'.ext \subseteq Endpoint  BY <1>4, <2>2
       <2>6. \A x \in Endpoint \ db'.ext, i \in DOMAIN todo' : todo'[i] # Notify(Updated(x))
             BY <1>19, <2>4
       <2>7. \A x \in db.ext \ db'.ext : DropDue(x, 0)'  BY <1>4, <1>19, <2>2, <2>3
       <2>8. \A x \in db'.ext : ~DropDue(x, 0)'  BY <1>19, <2>2, <2>3, <2>5
       <2>9. \A x \in db'.ext \ db.ext :
                UpdateDue(x)' \/ \A l \in loop.endpoints : x \in late'[l]
             BY <2>2
       <2>10. \A l \in loop.endpoints : late[l] \subseteq late'[l] /\ db'.attic \subseteq late'[l]
             BY <1>1, <1>5, <2>2
       <2>11. QueueInv'
             BY <1>1, <1>2, <1>19, <2>5, <2>6, <2>7, <2>8, <2>9, <2>10, EnqueueStep
       <2> QED  BY <1>1, <1>19, <2>2, <2>11 DEF TypeInv, ThreadInv
<1> QED  BY <1>21, <1>22

\* The DCPSTopic reader has samples, or is looked into on the way.
LEMMA TopicReaderQueue ==
    ASSUME TypeInv, QueueInv, handle_topic_reader
    PROVE  ThreadInv' /\ QueueInv'
<1>1. UNCHANGED <<db, notif, cmds, loop, addCh, removeCh, app, told, stop, late>>
      BY DEF handle_topic_reader, channels
<1>2. todo \in Seq(Work) /\ (todo = <<>> \/ (todo # <<>> /\ Head(todo).do = "take topics"))
      BY DEF handle_topic_reader, Idle, TypeInv, ThreadInv
<1>3. NothingDue  BY <1>2, NoneDue DEF QueueInv
<1>4. PICK unread : unread = {tp \in topicIn : tp[2] \in loop.builtin}  OBVIOUS
<1>5. unread \in SUBSET (Topic \X Participant)  BY <1>4 DEF TypeInv, DomainInv
<1>6. PICK rest : rest = IF todo = <<>> THEN <<>> ELSE Tail(todo)  OBVIOUS
<1>7. rest \in Seq(Work) /\ Quiet(rest)
      <2>1. CASE todo = <<>>  BY <1>6, <2>1, QuietFacts
      <2>2. CASE todo # <<>>  BY <1>2, <1>3, <1>6, <2>2, QuietTail
      <2> QED  BY <2>1, <2>2
<1>8. PICK front : front = IF unread = {} THEN <<>> ELSE <<TopicSamples(unread)>>  OBVIOUS
<1>9. front \in Seq(Work) /\ Quiet(front)
      <2>1. TopicSamples(unread) \in Work /\ TopicSamples(unread).do # "notify"
            BY <1>5, WorkFacts
      <2> QED  BY <1>8, <2>1, QuietFacts
<1>10. todo' = front \o rest  BY <1>4, <1>6, <1>8 DEF handle_topic_reader
<1>11. todo' \in Seq(Work) /\ Quiet(todo')  BY <1>7, <1>9, <1>10, QuietFacts
<1>12. QueueInv'  BY <1>1, <1>3, <1>11, QuietStep
<1> QED  BY <1>1, <1>11, <1>12 DEF TypeInv, ThreadInv

\* Notifications of endpoints the database knows, as a sequence.
Updates(E) == {Notify(Updated(e)) : e \in E}

LEMMA AgainFacts ==
    ASSUME NEW E, E \subseteq Endpoint, NEW q, q = SetToSeq(Updates(E))
    PROVE  /\ q \in Seq(Work) /\ Loud(q)
           /\ \A i \in DOMAIN q : \E e \in E : q[i] = Notify(Updated(e))
<1>1. PICK S : S = Updates(E)  OBVIOUS
<1>2. IsFiniteSet(E)  BY DomainAssumption, FS_Subset
<1>3. IsFiniteSet(S)
      <2>1. PICK f : f = [e \in E |-> Notify(Updated(e))]  OBVIOUS
      <2>2. f \in Surjection(E, S)  BY <1>1, <2>1 DEF Surjection, Updates
      <2> QED  BY <1>2, <2>2, FS_Surjection
<1>4. q \in Seq(S)  BY <1>1, <1>3, SetToSeqFacts
<1>5. \A w \in S : w \in Work /\ w.do = "notify" /\ \E e \in E : w = Notify(Updated(e))
      <2>1. \A e \in E : Notify(Updated(e)) \in Work /\ Notify(Updated(e)).do = "notify"
            BY Notifications, WorkFacts
      <2> QED  BY <1>1, <2>1 DEF Updates
<1>6. q \in Seq(Work)  BY <1>4, <1>5, SeqMonotonic
<1>7. \A i \in DOMAIN q : q[i] \in S  BY <1>4, Elements
<1> QED  BY <1>5, <1>6, <1>7 DEF Loud

\* One DCPSTopic sample: the announcer's endpoints are notified again.
LEMMA TopicSampleQueue ==
    ASSUME TypeInv, QueueInv, handle_topic_sample
    PROVE  ThreadInv' /\ QueueInv'
<1>1. /\ UNCHANGED <<notif, cmds, loop, addCh, removeCh, app, told, stop, late>>
      /\ todo # <<>> /\ Head(todo).do = "topics" /\ todo \in Seq(Work)
      BY DEF handle_topic_sample, channels, TypeInv, ThreadInv
<1>2. NothingDue  BY <1>1, NoneDue DEF QueueInv
<1>3. db \in DB  BY DEF TypeInv, ThreadInv
<1>4. db.ext \subseteq Endpoint  BY <1>3, DBFields
<1>5. \A l \in loop.endpoints : db.attic \subseteq late[l]  BY DEF QueueInv, AnnouncedInv
<1>6. Head(todo) \in Work  BY <1>1, TailFacts
<1>7. Head(todo).arg \in SUBSET (Topic \X Participant)  BY <1>1, <1>6, WorkArgs
<1>8. PICK s \in Head(todo).arg :
         /\ db' = update_topic_data(db, s[1], s[2])
         /\ todo' = SetToSeq(Updates(on_topic_and_participant(db, "writer", s[1], s[2])))
                    \o SetToSeq(Updates(on_topic_and_participant(db, "reader", s[1], s[2])))
                    \o (IF Head(todo).arg \ {s} = {} THEN <<>>
                        ELSE <<TopicSamples(Head(todo).arg \ {s})>>)
                    \o Tail(todo)
      BY DEF handle_topic_sample, Updates
<1>9. s[1] \in Topic /\ s[2] \in Participant  BY <1>7
<1>10. /\ db' \in DB /\ db'.ext = db.ext /\ db'.attic = db.attic
       BY <1>3, <1>8, <1>9, TopicFacts
<1>11. PICK more : more = IF Head(todo).arg \ {s} = {} THEN <<>>
                          ELSE <<TopicSamples(Head(todo).arg \ {s})>>
       OBVIOUS
<1>12. more \in Seq(Work) /\ Quiet(more)
       <2>1. Head(todo).arg \ {s} \in SUBSET (Topic \X Participant)  BY <1>7
       <2>2. /\ TopicSamples(Head(todo).arg \ {s}) \in Work
             /\ TopicSamples(Head(todo).arg \ {s}).do # "notify"
             BY <2>1, WorkFacts
       <2> QED  BY <1>11, <2>2, QuietFacts
<1>13. Tail(todo) \in Seq(Work) /\ Quiet(Tail(todo))  BY <1>1, <1>2, QuietTail
<1>14. PICK W : W = on_topic_and_participant(db, "writer", s[1], s[2])  OBVIOUS
<1>15. PICK R : R = on_topic_and_participant(db, "reader", s[1], s[2])  OBVIOUS
<1>16. W \subseteq db.ext /\ R \subseteq db.ext
       BY <1>14, <1>15 DEF on_topic_and_participant, OfPrefix
<1>17. PICK a : a = SetToSeq(Updates(W))  OBVIOUS
<1>18. PICK b : b = SetToSeq(Updates(R))  OBVIOUS
<1>19. /\ a \in Seq(Work) /\ Loud(a)
       /\ \A i \in DOMAIN a : \E e \in W : a[i] = Notify(Updated(e))
       BY <1>4, <1>16, <1>17, AgainFacts
<1>20. /\ b \in Seq(Work) /\ Loud(b)
       /\ \A i \in DOMAIN b : \E e \in R : b[i] = Notify(Updated(e))
       BY <1>4, <1>16, <1>18, AgainFacts
<1>21. PICK front : front = a \o b  OBVIOUS
<1>22. /\ front \in Seq(Work) /\ Loud(front)
       /\ \A i \in DOMAIN front : \E e \in db.ext : front[i] = Notify(Updated(e))
       BY <1>16, <1>19, <1>20, <1>21, ConcatFacts DEF Loud
<1>23. PICK rest : rest = more \o Tail(todo)  OBVIOUS
<1>24. rest \in Seq(Work) /\ Quiet(rest)  BY <1>12, <1>13, <1>23, QuietFacts
<1>25. todo' = front \o rest
       <2>1. todo' = ((a \o b) \o more) \o Tail(todo)
             BY <1>8, <1>11, <1>14, <1>15, <1>17, <1>18
       <2>2. todo' = (front \o more) \o Tail(todo)  BY <1>21, <2>1
       <2>3. front \in Seq(Work) /\ more \in Seq(Work) /\ Tail(todo) \in Seq(Work)
             BY <1>12, <1>13, <1>22
       <2>4. (front \o more) \o Tail(todo) = front \o (more \o Tail(todo))
             BY <2>3, ConcatAssociative
       <2> QED  BY <1>23, <2>2, <2>4
<1>26. /\ todo' \in Seq(Work) /\ NotifyFirst'
       /\ \A i \in DOMAIN todo' : todo'[i].do = "notify" =>
             \E j \in DOMAIN front : todo'[i] = front[j]
       BY <1>22, <1>24, <1>25, Enqueued
<1>27. \A i \in DOMAIN todo' : todo'[i].do = "notify" =>
          \E e \in db.ext : todo'[i] = Notify(Updated(e))
       BY <1>22, <1>26
<1>28. \A x \in Endpoint : ~DropDue(x, 0)'
       <2>1. \A e : Notify(Updated(e)).arg = Updated(e)  BY DEF Notify
       <2>2. \A e, x : ~Drops(Updated(e), x)  BY DEF Drops, Updated, Lost, ParticipantLost
       <2> QED  BY <1>27, <2>1, <2>2 DEF DropDue, Drops
<1>29. \A x \in Endpoint \ db'.ext, i \in DOMAIN todo' : todo'[i] # Notify(Updated(x))
       <2>1. \A e : Notify(Updated(e)).do = "notify"  BY DEF Notify
       <2>2. \A e, x : Notify(Updated(e)) = Notify(Updated(x)) => e = x  BY DEF Notify, Updated
       <2> QED  BY <1>10, <1>27, <2>1, <2>2
<1>30. db'.ext \subseteq Endpoint  BY <1>4, <1>10
<1>31. \A x \in db.ext \ db'.ext : DropDue(x, 0)'  BY <1>10
<1>32. \A x \in db'.ext : ~DropDue(x, 0)'  BY <1>28, <1>30
<1>33. \A x \in db'.ext \ db.ext :
          UpdateDue(x)' \/ \A l \in loop.endpoints : x \in late'[l]
       BY <1>10
<1>34. \A l \in loop.endpoints : late[l] \subseteq late'[l] /\ db'.attic \subseteq late'[l]
       BY <1>1, <1>5, <1>10
<1>35. QueueInv'
       BY <1>1, <1>2, <1>26, <1>29, <1>30, <1>31, <1>32, <1>33, <1>34, EnqueueStep
<1> QED  BY <1>1, <1>10, <1>26, <1>35 DEF TypeInv, ThreadInv

\* Expired participants: their endpoints go to the attic and are late for all.
LEMMA CleanupQueue ==
    ASSUME TypeInv, QueueInv, ParticipantCleanup
    PROVE  ThreadInv' /\ QueueInv'
<1>1. UNCHANGED <<notif, cmds, loop, addCh, removeCh, app, told, stop>> /\ todo = <<>>
      BY DEF ParticipantCleanup, Idle, channels
<1>2. NothingDue  BY <1>1, NoneDue DEF TypeInv, ThreadInv, QueueInv
<1>3. db \in DB /\ late \in [LocalEndpoint -> SUBSET Endpoint] /\ loop \in Loop
      BY DEF TypeInv, ThreadInv
<1>4. db.ext \subseteq Endpoint  BY <1>3, DBFields
<1>5. \A l \in loop.endpoints : db.attic \subseteq late[l]  BY DEF QueueInv, AnnouncedInv
<1>6. PICK gone : gone = expired_participants(db)  OBVIOUS
<1>7. /\ db' \in DB /\ gone \subseteq db.proxies
      /\ \A e : e \in db'.ext <=> e \in db.ext /\ PrefixOf(e) \notin gone
      /\ db'.attic = db.attic \cup (db.ext \ db'.ext)
      <2>1. db' = participant_cleanup(db)  BY DEF ParticipantCleanup
      <2> QED  BY <1>3, <1>6, <2>1, ParticipantCleanupFacts
<1>8. late' = [l \in LocalEndpoint |-> late[l] \cup (db.ext \ db'.ext)]
      BY DEF ParticipantCleanup
<1>9. late' \in [LocalEndpoint -> SUBSET Endpoint]  BY <1>3, <1>4, <1>8
<1>10. loop.endpoints \subseteq LocalEndpoint  BY <1>3, LoopFields
<1>11. PICK S : S = {Notify(ParticipantLost(p)) : p \in gone}  OBVIOUS
<1>12. gone \subseteq Participant  BY <1>3, <1>7, DBFields
<1>13. IsFiniteSet(S)
       <2>1. IsFiniteSet(Participant)  BY DomainAssumption, FS_AddElement DEF Participant
       <2>2. IsFiniteSet(gone)  BY <1>12, <2>1, FS_Subset
       <2>3. PICK f : f = [p \in gone |-> Notify(ParticipantLost(p))]  OBVIOUS
       <2>4. f \in Surjection(gone, S)  BY <1>11, <2>3 DEF Surjection
       <2> QED  BY <2>2, <2>4, FS_Surjection
<1>14. todo' = SetToSeq(S)  BY <1>6, <1>11 DEF ParticipantCleanup
<1>15. todo' \in Seq(S) /\ \A x \in S : \E i \in DOMAIN todo' : todo'[i] = x
       BY <1>13, <1>14, SetToSeqFacts
<1>16. \A p \in gone :
          /\ Notify(ParticipantLost(p)) \in Work /\ Notify(ParticipantLost(p)).do = "notify"
          /\ Notify(ParticipantLost(p)).arg = ParticipantLost(p)
       BY <1>12, Notifications, WorkFacts
<1>17. \A w \in S : w \in Work /\ w.do = "notify"  BY <1>11, <1>16
<1>18. todo' \in Seq(Work)  BY <1>15, <1>17, SeqMonotonic
<1>19. \A i \in DOMAIN todo' : todo'[i] \in S  BY <1>15, Elements
<1>20. NotifyFirst'  BY <1>17, <1>19 DEF NotifyFirst
<1>21. \A i \in DOMAIN todo' : \E p \in gone : todo'[i] = Notify(ParticipantLost(p))
       BY <1>11, <1>19
<1>22. ASSUME NEW x \in Endpoint PROVE DropDue(x, 0)' <=> PrefixOf(x) \in gone
       <2>1. ASSUME PrefixOf(x) \in gone PROVE DropDue(x, 0)'
             <3>1. PICK i \in DOMAIN todo' : todo'[i] = Notify(ParticipantLost(PrefixOf(x)))
                   BY <1>11, <1>15, <2>1
             <3>2. i > 0  BY <1>18, Elements
             <3> QED  BY <1>16, <2>1, <3>1, <3>2 DEF DropDue, Drops
       <2>2. ASSUME DropDue(x, 0)' PROVE PrefixOf(x) \in gone
             <3>1. PICK i \in DOMAIN todo' : Drops(todo'[i].arg, x)
                   BY <2>2 DEF DropDue, Drops
             <3>2. PICK p \in gone : todo'[i] = Notify(ParticipantLost(p))  BY <1>21
             <3>3. Drops(ParticipantLost(p), x)  BY <1>16, <3>1, <3>2
             <3> QED  BY <3>3, DropFacts
       <2> QED  BY <2>1, <2>2
<1>23. \A x \in Endpoint \ db'.ext, i \in DOMAIN todo' : todo'[i] # Notify(Updated(x))
       <2>1. \A p, x : Notify(ParticipantLost(p)) # Notify(Updated(x))
             BY DEF Notify, ParticipantLost, Updated
       <2> QED  BY <1>21, <2>1
<1>24. db'.ext \subseteq Endpoint  BY <1>4, <1>7
<1>25. \A x \in db.ext \ db'.ext : DropDue(x, 0)'  BY <1>4, <1>7, <1>22
<1>26. \A x \in db'.ext : ~DropDue(x, 0)'  BY <1>7, <1>22, <1>24
<1>27. \A x \in db'.ext \ db.ext :
          UpdateDue(x)' \/ \A l \in loop.endpoints : x \in late'[l]
       BY <1>7
<1>28. \A l \in loop.endpoints : late[l] \subseteq late'[l] /\ db'.attic \subseteq late'[l]
       BY <1>5, <1>7, <1>8, <1>10
<1>29. QueueInv'
       BY <1>1, <1>2, <1>20, <1>23, <1>24, <1>25, <1>26, <1>27, <1>28, EnqueueStep
<1> QED  BY <1>1, <1>7, <1>9, <1>18, <1>29 DEF TypeInv, ThreadInv

\* A notification enters the channel: the queue is the same.
LEMMA SendQueue ==
    ASSUME TypeInv, QueueInv, send_discovery_notification
    PROVE  ThreadInv' /\ QueueInv'
<1>1. /\ UNCHANGED <<db, cmds, loop, addCh, removeCh, app, told, stop, late>>
      /\ todo # <<>> /\ Head(todo).do = "notify" /\ todo \in Seq(Work)
      /\ notif \in Seq(Notification)
      /\ notif' = Append(notif, Head(todo).arg) /\ todo' = Tail(todo)
      BY DEF send_discovery_notification, channels, TypeInv, ThreadInv
<1>2. /\ Tail(todo) \in Seq(Work)
      /\ Len(todo) \in Nat \ {0} /\ DOMAIN todo = 1 .. Len(todo)
      /\ DOMAIN todo' = 1 .. Len(todo) - 1
      /\ \A i \in DOMAIN todo' : todo'[i] = todo[i + 1]
      /\ Head(todo) = todo[1] /\ todo[1] \in Work
      BY <1>1, TailFacts
<1>3. PICK n : n = Head(todo).arg  OBVIOUS
<1>4. n \in Notification /\ todo[1] = Notify(n)  BY <1>1, <1>2, <1>3, WorkArgs
<1>5. /\ Len(notif) \in Nat /\ DOMAIN notif = 1 .. Len(notif)
      /\ notif' \in Seq(Notification)
      /\ DOMAIN notif' = 1 .. Len(notif) + 1
      /\ \A i \in DOMAIN notif : notif'[i] = notif[i]
      /\ notif'[Len(notif) + 1] = n
      BY <1>1, <1>3, <1>4, AppendFacts
<1>6. Notify(n).arg = n /\ Notify(n).do = "notify"  BY DEF Notify
<1>7. NotifyFirst'
      <2>1. ASSUME NEW i \in DOMAIN todo', NEW j \in DOMAIN todo', i < j, todo'[j].do = "notify"
            PROVE  todo'[i].do = "notify"
            <3>1. i + 1 \in DOMAIN todo /\ j + 1 \in DOMAIN todo /\ i + 1 < j + 1
                  BY <1>2, <2>1
            <3>2. todo'[i] = todo[i + 1] /\ todo'[j] = todo[j + 1]  BY <1>2
            <3> QED  BY <2>1, <3>1, <3>2 DEF QueueInv, NotifyFirst
      <2> QED  BY <2>1 DEF NotifyFirst
<1>8. ASSUME NEW x \in Endpoint, NEW i \in Nat
      PROVE  DropDue(x, i)' <=> DropDue(x, i + 1)
      <2>1. ASSUME DropDue(x, i)' PROVE DropDue(x, i + 1)
            <3>1. PICK j \in DOMAIN todo' :
                     j > i /\ todo'[j].do = "notify" /\ Drops(todo'[j].arg, x)
                  BY <2>1 DEF DropDue, Drops
            <3>2. j + 1 \in DOMAIN todo /\ j + 1 > i + 1 /\ todo[j + 1] = todo'[j]
                  BY <1>2, <3>1
            <3> QED  BY <3>1, <3>2 DEF DropDue
      <2>2. ASSUME DropDue(x, i + 1) PROVE DropDue(x, i)'
            <3>1. PICK j \in DOMAIN todo :
                     j > i + 1 /\ todo[j].do = "notify" /\ Drops(todo[j].arg, x)
                  BY <2>2 DEF DropDue
            <3>2. j - 1 \in DOMAIN todo' /\ j - 1 > i /\ (j - 1) + 1 = j  BY <1>2, <3>1
            <3>3. todo'[j - 1] = todo[j]  BY <1>2, <3>2
            <3> QED  BY <3>1, <3>2, <3>3 DEF DropDue, Drops
      <2> QED  BY <2>1, <2>2
<1>9. ASSUME NEW x \in Endpoint
      PROVE  DropDue(x, 0) <=> DropDue(x, 0)' \/ Drops(n, x)
      <2>1. DropDue(x, 0) <=> DropDue(x, 1) \/ Drops(n, x)
            BY <1>2, <1>4, <1>6 DEF DropDue
      <2>2. DropDue(x, 0)' <=> DropDue(x, 1)  BY <1>8
      <2> QED  BY <2>1, <2>2
<1>10. ASSUME NEW x \in Endpoint, NEW i \in 0 .. Len(notif)
       PROVE  DropSent(x, i)' <=> DropSent(x, i) \/ Drops(n, x)
       BY <1>5 DEF DropSent, Drops
<1>11. ASSUME NEW x \in Endpoint, NEW k, k = Len(notif) + 1 PROVE ~DropSent(x, k)'
       BY <1>5, <1>11 DEF DropSent
<1>12. ForgottenInv'
       <2> SUFFICES ASSUME NEW x \in Endpoint \ db.ext
                    PROVE  /\ \A l \in LocalEndpoint :
                                 x \in loop.matched[l] => DropSent(x, 0)' \/ DropDue(x, 0)'
                           /\ \A i \in DOMAIN notif' :
                                 notif'[i] = Updated(x) => DropSent(x, i)' \/ DropDue(x, 0)'
                           /\ \A i \in DOMAIN todo' :
                                 todo'[i] = Notify(Updated(x)) => DropDue(x, i)'
           BY <1>1 DEF ForgottenInv
       <2>1. /\ \A l \in LocalEndpoint :
                   x \in loop.matched[l] => DropSent(x, 0) \/ DropDue(x, 0)
             /\ \A i \in DOMAIN notif : notif[i] = Updated(x) => DropSent(x, i) \/ DropDue(x, 0)
             /\ \A i \in DOMAIN todo : todo[i] = Notify(Updated(x)) => DropDue(x, i)
             BY DEF QueueInv, ForgottenInv
       <2>2. \A l \in LocalEndpoint :
                x \in loop.matched[l] => DropSent(x, 0)' \/ DropDue(x, 0)'
             BY <1>5, <1>9, <1>10, <2>1
       <2>3. ASSUME NEW i \in DOMAIN notif', notif'[i] = Updated(x)
             PROVE  DropSent(x, i)' \/ DropDue(x, 0)'
             <3>1. CASE i \in DOMAIN notif
                   <4>1. DropSent(x, i) \/ DropDue(x, 0)  BY <1>5, <2>1, <2>3, <3>1
                   <4>2. i \in 0 .. Len(notif)  BY <1>5, <3>1
                   <4> QED  BY <1>9, <1>10, <4>1, <4>2
             <3>2. CASE i = Len(notif) + 1
                   <4>1. todo[1] = Notify(Updated(x)) /\ 1 \in DOMAIN todo
                         BY <1>2, <1>4, <1>5, <2>3, <3>2
                   <4>2. DropDue(x, 0 + 1)  BY <2>1, <4>1
                   <4> QED  BY <1>8, <4>2
             <3> QED  BY <1>5, <3>1, <3>2
       <2>4. ASSUME NEW i \in DOMAIN todo', todo'[i] = Notify(Updated(x))
             PROVE  DropDue(x, i)'
             <3>1. i + 1 \in DOMAIN todo /\ todo[i + 1] = Notify(Updated(x)) /\ i \in Nat
                   BY <1>2, <2>4
             <3>2. DropDue(x, i + 1)  BY <2>1, <3>1
             <3> QED  BY <1>8, <3>1, <3>2
       <2> QED  BY <2>2, <2>3, <2>4
<1>13. AnnouncedInv'
       <2> SUFFICES ASSUME NEW l \in loop.endpoints
                    PROVE  /\ db.attic \subseteq late[l]
                           /\ \A x \in db.ext \ late[l] : Fits(l, x) => WillMatch(l, x)'
           BY <1>1 DEF AnnouncedInv, Fits
       <2>1. db.attic \subseteq late[l]  BY DEF QueueInv, AnnouncedInv
       <2>2. ASSUME NEW x \in db.ext \ late[l], Fits(l, x) PROVE WillMatch(l, x)'
             <3>1. x \in Endpoint  BY DBFields DEF TypeInv, ThreadInv
             <3>2. WillMatch(l, x)  BY <2>2 DEF QueueInv, AnnouncedInv
             <3>3. CASE x \in loop.matched[l] /\ ~DropSent(x, 0) /\ ~DropDue(x, 0)
                   <4>1. ~DropDue(x, 0)' /\ ~Drops(n, x)  BY <1>9, <3>1, <3>3
                   <4>2. ~DropSent(x, 0)'  BY <1>5, <1>10, <3>1, <3>3, <4>1
                   <4> QED  BY <1>1, <3>3, <4>1, <4>2 DEF WillMatch
             <3>4. CASE UpdateSent(x)
                   <4>1. PICK i \in DOMAIN notif :
                            notif[i] = Updated(x) /\ ~DropSent(x, i) /\ ~DropDue(x, 0)
                         BY <3>4 DEF UpdateSent
                   <4>2. ~DropDue(x, 0)' /\ ~Drops(n, x)  BY <1>9, <3>1, <4>1
                   <4>3. i \in 0 .. Len(notif)  BY <1>5
                   <4>4. ~DropSent(x, i)'  BY <1>10, <3>1, <4>1, <4>2, <4>3
                   <4>5. i \in DOMAIN notif' /\ notif'[i] = Updated(x)  BY <1>5, <4>1
                   <4>6. UpdateSent(x)'  BY <4>2, <4>4, <4>5 DEF UpdateSent
                   <4> QED  BY <4>6 DEF WillMatch
             <3>5. CASE UpdateDue(x)
                   <4>1. PICK i \in DOMAIN todo : todo[i] = Notify(Updated(x)) /\ ~DropDue(x, i)
                         BY <3>5 DEF UpdateDue
                   <4>2. CASE i = 1
                         <5>1. n = Updated(x)
                               <6>1. Notify(Updated(x)).arg = Updated(x)  BY DEF Notify
                               <6> QED  BY <1>4, <1>6, <4>1, <4>2, <6>1
                         <5>2. ~DropDue(x, 0 + 1)  BY <4>1, <4>2
                         <5>3. ~DropDue(x, 0)'  BY <1>8, <3>1, <5>2
                         <5>4. PICK k : k = Len(notif) + 1  OBVIOUS
                         <5>5. k \in DOMAIN notif' /\ notif'[k] = Updated(x) /\ ~DropSent(x, k)'
                               BY <1>5, <1>11, <3>1, <5>1, <5>4
                         <5>6. UpdateSent(x)'  BY <5>3, <5>5 DEF UpdateSent
                         <5> QED  BY <5>6 DEF WillMatch
                   <4>3. CASE i # 1
                         <5>1. i - 1 \in DOMAIN todo' /\ i - 1 \in Nat /\ (i - 1) + 1 = i
                               BY <1>2, <4>3
                         <5>2. todo'[i - 1] = Notify(Updated(x))  BY <1>2, <4>1, <5>1
                         <5>3. ~DropDue(x, (i - 1) + 1)  BY <4>1, <5>1
                         <5>4. ~DropDue(x, i - 1)'  BY <1>8, <3>1, <5>1, <5>3
                         <5>5. UpdateDue(x)'  BY <5>1, <5>2, <5>4 DEF UpdateDue
                         <5> QED  BY <5>5 DEF WillMatch
                   <4> QED  BY <4>2, <4>3
             <3> QED  BY <3>2, <3>3, <3>4, <3>5 DEF WillMatch
       <2> QED  BY <2>1, <2>2
<1> QED  BY <1>1, <1>2, <1>5, <1>7, <1>12, <1>13 DEF TypeInv, ThreadInv, QueueInv

----------------------------------------------------------------------------
(* The event loop and the queue *)

\* The event loop does what the notification says with every endpoint.
LEMMA NotificationEffect ==
    ASSUME TypeInv, handle_notification, NEW n, n = Head(notif)
    PROVE  /\ n \in Notification /\ loop' \in Loop /\ loop'.endpoints = loop.endpoints
           /\ \A l \in LocalEndpoint, e \in Endpoint :
                 /\ e \in loop'.matched[l] => e \in loop.matched[l] \/ n = Updated(e)
                 /\ e \in loop'.matched[l] => ~Drops(n, e)
                 /\ e \in loop.matched[l] /\ ~Drops(n, e) => e \in loop'.matched[l]
           /\ \A l \in loop.endpoints, e \in Endpoint :
                 n = Updated(e) /\ Fits(l, e) => e \in loop'.matched[l]
<1>1. loop \in Loop /\ notif # <<>> /\ notif \in Seq(Notification)
      BY DEF TypeInv, ThreadInv, handle_notification
<1>2. n \in Notification  BY <1>1, TailFacts
<1>3. loop.endpoints \subseteq LocalEndpoint  BY <1>1, LoopFields
<1>4. loop' = CASE n.is = "EndpointUpdated" -> remote_endpoint_discovered(loop, n.of)
                [] n.is = "EndpointLost" -> remote_endpoint_lost(loop, n.of)
                [] n.is = "ParticipantUpdated" -> update_builtin_endpoints(loop, db, n.of)
                [] n.is = "ParticipantLost" -> remote_participant_lost(loop, n.of)
      BY DEF handle_notification
<1>5. CASE n.is = "EndpointUpdated" /\ n.of \in Endpoint /\ n = Updated(n.of)
      <2>1. PICK x : x = n.of  OBVIOUS
      <2>2. loop' = remote_endpoint_discovered(loop, x)  BY <1>4, <1>5, <2>1
      <2>3. /\ loop' \in Loop /\ loop'.endpoints = loop.endpoints
            /\ \A l \in LocalEndpoint : /\ loop.matched[l] \subseteq loop'.matched[l]
                                        /\ loop'.matched[l] \subseteq loop.matched[l] \cup {x}
            /\ \A l \in loop.endpoints : Fits(l, x) => x \in loop'.matched[l]
            BY <1>1, <1>5, <2>1, <2>2, DiscoveredFacts
      <2>4. \A e \in Endpoint : ~Drops(n, e) /\ (n = Updated(e) <=> e = x)
            BY <1>5, <2>1, DropFacts DEF Updated
      <2> QED  BY <1>2, <2>3, <2>4
<1>6. CASE n.is = "EndpointLost" /\ n.of \in Endpoint /\ n = Lost(n.of)
      <2>1. PICK x : x = n.of  OBVIOUS
      <2>2. loop' = remote_endpoint_lost(loop, x)  BY <1>4, <1>6, <2>1
      <2>3. /\ loop' \in Loop /\ loop'.endpoints = loop.endpoints
            /\ \A l \in LocalEndpoint : loop'.matched[l] = loop.matched[l] \ {x}
            BY <1>1, <1>6, <2>1, <2>2, LostFacts
      <2>4. \A e \in Endpoint : (Drops(n, e) <=> x = e)  BY <1>6, <2>1, DropFacts
      <2>5. \A e : n # Updated(e)  BY <1>6 DEF Updated
      <2> QED  BY <1>2, <2>3, <2>4, <2>5
<1>7. CASE n.is = "ParticipantUpdated" /\ n.of \in Participant /\ n = ParticipantUpdated(n.of)
      <2>1. PICK p : p = n.of  OBVIOUS
      <2>2. loop' = update_builtin_endpoints(loop, db, p)  BY <1>4, <1>7, <2>1
      <2>3. loop' \in Loop /\ loop'.endpoints = loop.endpoints /\ loop'.matched = loop.matched
            BY <1>1, <1>7, <2>1, <2>2, BuiltinFacts
      <2>4. \A e \in Endpoint : ~Drops(n, e)  BY <1>7, <2>1, DropFacts
      <2>5. \A e : n # Updated(e)  BY <1>7 DEF Updated
      <2> QED  BY <1>2, <2>3, <2>4, <2>5
<1>8. CASE n.is = "ParticipantLost" /\ n.of \in Participant /\ n = ParticipantLost(n.of)
      <2>1. PICK p : p = n.of  OBVIOUS
      <2>2. loop' = remote_participant_lost(loop, p)  BY <1>4, <1>8, <2>1
      <2>3. /\ loop' \in Loop /\ loop'.endpoints = loop.endpoints
            /\ \A l \in LocalEndpoint : \A e :
                  e \in loop'.matched[l] <=> e \in loop.matched[l] /\ PrefixOf(e) # p
            BY <1>1, <1>8, <2>1, <2>2, ParticipantLostFacts
      <2>4. \A e \in Endpoint : (Drops(n, e) <=> p = PrefixOf(e))  BY <1>8, <2>1, DropFacts
      <2>5. \A e : n # Updated(e)  BY <1>8 DEF Updated
      <2> QED  BY <1>2, <2>3, <2>4, <2>5
<1> QED  BY <1>2, <1>5, <1>6, <1>7, <1>8, Notifications

\* A notification leaves the channel: what it says has happened.
LEMMA NotificationQueue ==
    ASSUME TypeInv, QueueInv, handle_notification
    PROVE  ThreadInv' /\ QueueInv'
<1>1. /\ UNCHANGED <<db, todo, cmds, addCh, removeCh, app, told, stop, late>>
      /\ notif # <<>> /\ notif \in Seq(Notification) /\ notif' = Tail(notif)
      BY DEF handle_notification, channels, TypeInv, ThreadInv
<1>2. /\ notif' \in Seq(Notification)
      /\ Len(notif) \in Nat \ {0} /\ DOMAIN notif = 1 .. Len(notif)
      /\ DOMAIN notif' = 1 .. Len(notif) - 1
      /\ \A i \in DOMAIN notif' : notif'[i] = notif[i + 1]
      /\ Head(notif) = notif[1]
      BY <1>1, TailFacts
<1>3. PICK n : n = Head(notif)  OBVIOUS
<1>4. /\ n \in Notification /\ loop' \in Loop /\ loop'.endpoints = loop.endpoints
      /\ \A l \in LocalEndpoint, e \in Endpoint :
            /\ e \in loop'.matched[l] => e \in loop.matched[l] \/ n = Updated(e)
            /\ e \in loop'.matched[l] => ~Drops(n, e)
            /\ e \in loop.matched[l] /\ ~Drops(n, e) => e \in loop'.matched[l]
      /\ \A l \in loop.endpoints, e \in Endpoint :
            n = Updated(e) /\ Fits(l, e) => e \in loop'.matched[l]
      BY <1>3, NotificationEffect
<1>5. \A e, i : (DropDue(e, i)' <=> DropDue(e, i))  BY <1>1 DEF DropDue, Drops
<1>6. ASSUME NEW x \in Endpoint, NEW i \in Nat
      PROVE  DropSent(x, i)' <=> DropSent(x, i + 1)
      <2>1. ASSUME DropSent(x, i)' PROVE DropSent(x, i + 1)
            <3>1. PICK j \in DOMAIN notif' : j > i /\ Drops(notif'[j], x)
                  BY <2>1 DEF DropSent, Drops
            <3>2. j + 1 \in DOMAIN notif /\ j + 1 > i + 1 /\ notif[j + 1] = notif'[j]
                  BY <1>2, <3>1
            <3> QED  BY <3>1, <3>2 DEF DropSent
      <2>2. ASSUME DropSent(x, i + 1) PROVE DropSent(x, i)'
            <3>1. PICK j \in DOMAIN notif : j > i + 1 /\ Drops(notif[j], x)
                  BY <2>2 DEF DropSent
            <3>2. j - 1 \in DOMAIN notif' /\ j - 1 > i /\ (j - 1) + 1 = j  BY <1>2, <3>1
            <3>3. notif'[j - 1] = notif[j]  BY <1>2, <3>2
            <3> QED  BY <3>1, <3>2, <3>3 DEF DropSent, Drops
      <2> QED  BY <2>1, <2>2
<1>7. ASSUME NEW x \in Endpoint
      PROVE  DropSent(x, 0) <=> DropSent(x, 0)' \/ Drops(n, x)
      <2>1. DropSent(x, 0) <=> DropSent(x, 1) \/ Drops(n, x)  BY <1>2, <1>3 DEF DropSent
      <2>2. DropSent(x, 0)' <=> DropSent(x, 1)  BY <1>6
      <2> QED  BY <2>1, <2>2
<1>8. ForgottenInv'
      <2> SUFFICES ASSUME NEW x \in Endpoint \ db.ext
                   PROVE  /\ \A l \in LocalEndpoint :
                                x \in loop'.matched[l] => DropSent(x, 0)' \/ DropDue(x, 0)
                          /\ \A i \in DOMAIN notif' :
                                notif'[i] = Updated(x) => DropSent(x, i)' \/ DropDue(x, 0)
                          /\ \A i \in DOMAIN todo : todo[i] = Notify(Updated(x)) => DropDue(x, i)
          BY <1>1, <1>5 DEF ForgottenInv
      <2>1. /\ \A l \in LocalEndpoint :
                  x \in loop.matched[l] => DropSent(x, 0) \/ DropDue(x, 0)
            /\ \A i \in DOMAIN notif : notif[i] = Updated(x) => DropSent(x, i) \/ DropDue(x, 0)
            /\ \A i \in DOMAIN todo : todo[i] = Notify(Updated(x)) => DropDue(x, i)
            BY DEF QueueInv, ForgottenInv
      <2>2. ASSUME NEW l \in LocalEndpoint, x \in loop'.matched[l]
            PROVE  DropSent(x, 0)' \/ DropDue(x, 0)
            <3>1. CASE x \in loop.matched[l]  BY <1>4, <1>7, <2>1, <2>2, <3>1
            <3>2. CASE n = Updated(x)
                  <4>1. notif[1] = Updated(x) /\ 1 \in DOMAIN notif  BY <1>2, <1>3, <3>2
                  <4>2. DropSent(x, 0 + 1) \/ DropDue(x, 0)  BY <2>1, <4>1
                  <4> QED  BY <1>6, <4>2
            <3> QED  BY <1>4, <2>2, <3>1, <3>2
      <2>3. ASSUME NEW i \in DOMAIN notif', notif'[i] = Updated(x)
            PROVE  DropSent(x, i)' \/ DropDue(x, 0)
            <3>1. i + 1 \in DOMAIN notif /\ notif[i + 1] = Updated(x) /\ i \in Nat
                  BY <1>2, <2>3
            <3>2. DropSent(x, i + 1) \/ DropDue(x, 0)  BY <2>1, <3>1
            <3> QED  BY <1>6, <3>1, <3>2
      <2> QED  BY <2>1, <2>2, <2>3
<1>9. AnnouncedInv'
      <2> SUFFICES ASSUME NEW l \in loop.endpoints
                   PROVE  /\ db.attic \subseteq late[l]
                          /\ \A x \in db.ext \ late[l] : Fits(l, x) => WillMatch(l, x)'
          BY <1>1, <1>4 DEF AnnouncedInv, Fits
      <2>1. db.attic \subseteq late[l]  BY DEF QueueInv, AnnouncedInv
      <2>2. ASSUME NEW x \in db.ext \ late[l], Fits(l, x) PROVE WillMatch(l, x)'
            <3>1. x \in Endpoint /\ l \in LocalEndpoint
                  BY DBFields, LoopFields DEF TypeInv, ThreadInv
            <3>2. WillMatch(l, x)  BY <2>2 DEF QueueInv, AnnouncedInv
            <3>3. CASE x \in loop.matched[l] /\ ~DropSent(x, 0) /\ ~DropDue(x, 0)
                  <4>1. ~Drops(n, x) /\ ~DropSent(x, 0)'  BY <1>7, <3>1, <3>3
                  <4>2. x \in loop'.matched[l]  BY <1>4, <3>1, <3>3, <4>1
                  <4> QED  BY <1>5, <3>3, <4>1, <4>2 DEF WillMatch
            <3>4. CASE UpdateSent(x)
                  <4>1. PICK i \in DOMAIN notif :
                           notif[i] = Updated(x) /\ ~DropSent(x, i) /\ ~DropDue(x, 0)
                        BY <3>4 DEF UpdateSent
                  <4>2. CASE i = 1
                        <5>1. x \in loop'.matched[l]
                              BY <1>2, <1>3, <1>4, <2>2, <3>1, <4>1, <4>2
                        <5>2. ~DropSent(x, 0 + 1)  BY <4>1, <4>2
                        <5>3. ~DropSent(x, 0)'  BY <1>6, <3>1, <5>2
                        <5> QED  BY <1>5, <4>1, <5>1, <5>3 DEF WillMatch
                  <4>3. CASE i # 1
                        <5>1. PICK k : k = i - 1  OBVIOUS
                        <5>2. k \in DOMAIN notif' /\ k \in Nat /\ k + 1 = i
                              BY <1>2, <4>3, <5>1
                        <5>3. notif'[k] = Updated(x)  BY <1>2, <4>1, <5>2
                        <5>4. ~DropSent(x, k + 1)  BY <4>1, <5>2
                        <5>5. ~DropSent(x, k)'  BY <1>6, <3>1, <5>2, <5>4
                        <5>6. ~DropDue(x, 0)'  BY <1>5, <4>1
                        <5>7. UpdateSent(x)'  BY <5>2, <5>3, <5>5, <5>6 DEF UpdateSent
                        <5> QED  BY <5>7 DEF WillMatch
                  <4> QED  BY <4>2, <4>3
            <3>5. CASE UpdateDue(x)
                  <4>1. UpdateDue(x)'  BY <1>1, <1>5, <3>5 DEF UpdateDue
                  <4> QED  BY <4>1 DEF WillMatch
            <3> QED  BY <3>2, <3>3, <3>4, <3>5 DEF WillMatch
      <2> QED  BY <2>1, <2>2
<1>10. NotifyFirst'  BY <1>1 DEF QueueInv, NotifyFirst
<1> QED  BY <1>1, <1>2, <1>4, <1>8, <1>9, <1>10 DEF TypeInv, ThreadInv, QueueInv

\* For a new Reader or Writer everything known so far is late.
LEMMA AddQueue ==
    ASSUME TypeInv, QueueInv, NEW kind \in {"reader", "writer"}, handle_add(kind)
    PROVE  ThreadInv' /\ QueueInv'
<1>1. /\ UNCHANGED <<db, todo, notif, cmds, removeCh, app, told, stop>>
      /\ loop' = add_local_endpoints(loop, addCh[kind])
      /\ late' = [l \in LocalEndpoint |->
                    IF l \in addCh[kind] THEN db.ext \cup db.attic ELSE late[l]]
      /\ addCh' = [addCh EXCEPT ![kind] = {}]
      BY DEF handle_add
<1>2. /\ addCh \in [{"reader", "writer"} -> SUBSET LocalEndpoint] /\ loop \in Loop /\ db \in DB
      /\ late \in [LocalEndpoint -> SUBSET Endpoint]
      BY DEF TypeInv, ThreadInv
<1>3. addCh[kind] \in SUBSET LocalEndpoint  BY <1>2
<1>4. /\ loop' \in Loop /\ loop'.endpoints = loop.endpoints \cup addCh[kind]
      /\ loop'.matched = loop.matched
      BY <1>1, <1>2, <1>3, AddFacts
<1>5. db.ext \subseteq Endpoint /\ db.attic \subseteq Endpoint  BY <1>2, DBFields
<1>6. late' \in [LocalEndpoint -> SUBSET Endpoint]  BY <1>1, <1>2, <1>5
<1>7. addCh' \in [{"reader", "writer"} -> SUBSET LocalEndpoint]  BY <1>1, <1>2
<1>8. \A e, i : (DropSent(e, i)' <=> DropSent(e, i)) /\ (DropDue(e, i)' <=> DropDue(e, i))
      BY <1>1 DEF DropSent, DropDue, Drops
<1>9. NotifyFirst'  BY <1>1 DEF QueueInv, NotifyFirst
<1>10. ForgottenInv'  BY <1>1, <1>4, <1>8 DEF QueueInv, ForgottenInv
<1>11. AnnouncedInv'
       <2> SUFFICES ASSUME NEW l \in loop.endpoints \cup addCh[kind]
                    PROVE  /\ db.attic \subseteq late'[l]
                           /\ \A x \in db.ext \ late'[l] : Fits(l, x) => WillMatch(l, x)'
           BY <1>1, <1>4 DEF AnnouncedInv, Fits
       <2>1. l \in LocalEndpoint  BY <1>2, <1>3, LoopFields
       <2>2. CASE l \in addCh[kind]  BY <1>1, <2>1, <2>2
       <2>3. CASE l \notin addCh[kind]
             <3>1. l \in loop.endpoints /\ late'[l] = late[l]  BY <1>1, <2>1, <2>3
             <3>2. \A x : WillMatch(l, x) => WillMatch(l, x)'
                   BY <1>1, <1>4, <1>8 DEF WillMatch, UpdateSent, UpdateDue
             <3> QED  BY <3>1, <3>2 DEF QueueInv, AnnouncedInv
       <2> QED  BY <2>2, <2>3
<1> QED  BY <1>1, <1>4, <1>6, <1>7, <1>9, <1>10, <1>11 DEF TypeInv, ThreadInv, QueueInv

\* A Reader or Writer that is removed takes its proxies along.
LEMMA RemoveQueue ==
    ASSUME TypeInv, QueueInv, NEW kind \in {"reader", "writer"}, handle_remove(kind)
    PROVE  ThreadInv' /\ QueueInv'
<1>1. /\ UNCHANGED <<db, todo, notif, cmds, addCh, app, told, stop, late>>
      /\ loop' = remove_local_endpoints(loop, removeCh[kind])
      /\ removeCh' = [removeCh EXCEPT ![kind] = {}]
      BY DEF handle_remove
<1>2. removeCh \in [{"reader", "writer"} -> SUBSET LocalEndpoint] /\ loop \in Loop
      BY DEF TypeInv, ThreadInv
<1>3. removeCh[kind] \in SUBSET LocalEndpoint  BY <1>2
<1>4. /\ loop' \in Loop /\ loop'.endpoints = loop.endpoints \ removeCh[kind]
      /\ \A l \in LocalEndpoint :
            loop'.matched[l] = IF l \in removeCh[kind] THEN {} ELSE loop.matched[l]
      BY <1>1, <1>2, <1>3, RemoveFacts
<1>5. removeCh' \in [{"reader", "writer"} -> SUBSET LocalEndpoint]  BY <1>1, <1>2
<1>6. \A e, i : (DropSent(e, i)' <=> DropSent(e, i)) /\ (DropDue(e, i)' <=> DropDue(e, i))
      BY <1>1 DEF DropSent, DropDue, Drops
<1>7. NotifyFirst'  BY <1>1 DEF QueueInv, NotifyFirst
<1>8. \A l \in LocalEndpoint : \A e : e \in loop'.matched[l] => e \in loop.matched[l]  BY <1>4
<1>9. ForgottenInv'  BY <1>1, <1>6, <1>8 DEF QueueInv, ForgottenInv
<1>10. AnnouncedInv'
       <2> SUFFICES ASSUME NEW l \in loop.endpoints \ removeCh[kind]
                    PROVE  /\ db.attic \subseteq late[l]
                           /\ \A x \in db.ext \ late[l] : Fits(l, x) => WillMatch(l, x)'
           BY <1>1, <1>4 DEF AnnouncedInv, Fits
       <2>1. l \in LocalEndpoint  BY <1>2, LoopFields
       <2>2. loop'.matched[l] = loop.matched[l]  BY <1>4, <2>1
       <2>3. \A x : WillMatch(l, x) => WillMatch(l, x)'
             BY <1>1, <1>6, <2>2 DEF WillMatch, UpdateSent, UpdateDue
       <2> QED  BY <2>3 DEF QueueInv, AnnouncedInv
<1> QED  BY <1>1, <1>4, <1>5, <1>7, <1>9, <1>10 DEF TypeInv, ThreadInv, QueueInv

----------------------------------------------------------------------------
(* The queue of commands *)

\* A command is sent.
LEMMA CommandSent ==
    ASSUME NEW q \in Seq(Command), NEW c \in Command, NEW r, r = Append(q, c)
    PROVE  /\ r \in Seq(Command)
           /\ \A x : Commanded(r, x) <=> Commanded(q, x) \/ x = c
           /\ \A l : Withdrawn(q, l) /\ c # AddLocal(l) => Withdrawn(r, l)
           /\ \A l : c = RemoveLocal(l) => Withdrawn(r, l)
<1>1. /\ r \in Seq(Command)
      /\ Len(q) \in Nat /\ DOMAIN q = 1 .. Len(q)
      /\ DOMAIN r = 1 .. Len(q) + 1
      /\ \A i \in DOMAIN q : r[i] = q[i]
      /\ r[Len(q) + 1] = c
      BY AppendFacts
<1>2. \A x : Commanded(r, x) <=> Commanded(q, x) \/ x = c  BY <1>1 DEF Commanded
<1>3. ASSUME NEW l, Withdrawn(q, l), c # AddLocal(l) PROVE Withdrawn(r, l)
      BY <1>1, <1>3 DEF Withdrawn
<1>4. ASSUME NEW l, c = RemoveLocal(l) PROVE Withdrawn(r, l)
      <2>1. c # AddLocal(l)  BY <1>4, Commands
      <2>2. ASSUME NEW i \in DOMAIN r, r[i] = AddLocal(l)
            PROVE  \E j \in DOMAIN r : j > i /\ r[j] = RemoveLocal(l)
            <3>1. i < Len(q) + 1  BY <1>1, <2>1, <2>2
            <3>2. Len(q) + 1 \in DOMAIN r /\ Len(q) + 1 > i  BY <1>1, <3>1
            <3> QED  BY <1>1, <1>4, <3>2
      <2> QED  BY <2>2 DEF Withdrawn
<1> QED  BY <1>1, <1>2, <1>3, <1>4

\* A command is received.
LEMMA CommandReceived ==
    ASSUME NEW q \in Seq(Command), q # <<>>, NEW r, r = Tail(q), NEW c, c = Head(q)
    PROVE  /\ r \in Seq(Command) /\ c \in Command
           /\ \A x : Commanded(q, x) <=> Commanded(r, x) \/ x = c
           /\ \A l : Withdrawn(q, l) => Withdrawn(r, l)
           /\ \A l : Withdrawn(q, l) /\ c = AddLocal(l) => Commanded(r, RemoveLocal(l))
<1>1. /\ r \in Seq(Command)
      /\ Len(q) \in Nat \ {0} /\ DOMAIN q = 1 .. Len(q)
      /\ DOMAIN r = 1 .. Len(q) - 1
      /\ \A i \in DOMAIN r : r[i] = q[i + 1]
      /\ c = q[1] /\ c \in Command
      BY TailFacts
<1>2. \A i \in DOMAIN q : i # 1 => i - 1 \in DOMAIN r /\ r[i - 1] = q[i]
      <2>1. \A i \in DOMAIN q : i # 1 => i - 1 \in DOMAIN r /\ (i - 1) + 1 = i  BY <1>1
      <2> QED  BY <1>1, <2>1
<1>3. \A i \in DOMAIN r : i + 1 \in DOMAIN q /\ q[i + 1] = r[i]  BY <1>1
<1>4. 1 \in DOMAIN q  BY <1>1
<1>5. ASSUME NEW x PROVE Commanded(q, x) <=> Commanded(r, x) \/ x = c
      <2>1. ASSUME Commanded(q, x), x # c PROVE Commanded(r, x)
            <3>1. PICK i \in DOMAIN q : q[i] = x  BY <2>1 DEF Commanded
            <3>2. i # 1  BY <1>1, <2>1, <3>1
            <3>3. i - 1 \in DOMAIN r /\ r[i - 1] = x  BY <1>2, <3>1, <3>2
            <3> QED  BY <3>3 DEF Commanded
      <2>2. ASSUME Commanded(r, x) PROVE Commanded(q, x)
            <3>1. PICK i \in DOMAIN r : r[i] = x  BY <2>2 DEF Commanded
            <3> QED  BY <1>3, <3>1 DEF Commanded
      <2>3. x = c => Commanded(q, x)  BY <1>1, <1>4 DEF Commanded
      <2> QED  BY <2>1, <2>2, <2>3
<1>6. ASSUME NEW l, Withdrawn(q, l), NEW i \in DOMAIN r, r[i] = AddLocal(l)
      PROVE  \E j \in DOMAIN r : j > i /\ r[j] = RemoveLocal(l)
      <2>1. PICK j \in DOMAIN q : j > i + 1 /\ q[j] = RemoveLocal(l)
            BY <1>3, <1>6 DEF Withdrawn
      <2>2. j - 1 \in DOMAIN r /\ j - 1 > i /\ r[j - 1] = q[j]  BY <1>1, <1>2, <2>1
      <2> QED  BY <2>1, <2>2
<1>7. ASSUME NEW l, Withdrawn(q, l), c = AddLocal(l) PROVE Commanded(r, RemoveLocal(l))
      <2>1. PICK j \in DOMAIN q : j > 1 /\ q[j] = RemoveLocal(l)
            BY <1>1, <1>4, <1>7 DEF Withdrawn
      <2>2. j - 1 \in DOMAIN r /\ r[j - 1] = q[j]  BY <1>1, <1>2, <2>1
      <2> QED  BY <2>1, <2>2 DEF Commanded
<1> QED  BY <1>1, <1>5, <1>6, <1>7 DEF Withdrawn

\* What is about l is kept by a step that is not.
LEMMA ToldFrame ==
    ASSUME ToldInv, UNCHANGED <<told, stop, cmds, app>>, db'.local = db.local
    PROVE  ToldInv'
BY DEF ToldInv, LocalInv

\* Commands in the order in which they were sent.
LEMMA CommandTold ==
    ASSUME TypeInv, ToldInv, handle_command
    PROVE  /\ cmds' \in Seq(Command) /\ db' \in DB /\ told' \in [LocalEndpoint -> Told]
           /\ stop' \in {"no", "asked", "done"}
           /\ db'.ext = db.ext /\ db'.attic = db.attic
           /\ db'.proxies = db.proxies /\ db'.age = db.age
           /\ ToldInv'
<1>1. /\ cmds # <<>> /\ cmds \in Seq(Command) /\ cmds' = Tail(cmds) /\ stop # "done"
      /\ db \in DB /\ told \in [LocalEndpoint -> Told] /\ stop \in {"no", "asked", "done"}
      /\ app' = app
      BY DEF handle_command, Idle, TypeInv, ThreadInv
<1>2. PICK c : c = Head(cmds)  OBVIOUS
<1>3. /\ cmds' \in Seq(Command) /\ c \in Command
      /\ \A x : Commanded(cmds, x) <=> Commanded(cmds', x) \/ x = c
      /\ \A l : Withdrawn(cmds, l) => Withdrawn(cmds', l)
      /\ \A l : Withdrawn(cmds, l) /\ c = AddLocal(l) => Commanded(cmds', RemoveLocal(l))
      BY <1>1, <1>2, CommandReceived
<1>4. /\ c.is = "AddTopic" => write_topic_info(c.of)
      /\ c.is = "AddLocal" => write_single_endpoint_info(c.of)
      /\ c.is = "RemoveLocal" => remove_local(c.of)
      /\ c.is = "StopDiscovery" => on_participant_shutting_down
      BY <1>2 DEF handle_command
<1>5. CASE c.is = "AddTopic" /\ c.of \in Topic /\ c = AddTopic(c.of)
      <2>1. UNCHANGED <<db, told, stop>>  BY <1>4, <1>5 DEF write_topic_info
      <2>2. \A l : c # AddLocal(l) /\ c # RemoveLocal(l)  BY <1>5, Commands
      <2>3. ASSUME NEW l \in LocalEndpoint PROVE LocalInv(l)'
            <3>1. LocalInv(l)  BY DEF ToldInv
            <3> QED  BY <1>1, <1>3, <2>1, <2>2, <3>1 DEF LocalInv
      <2> QED  BY <1>1, <1>3, <2>1, <2>3 DEF ToldInv
<1>6. CASE c.is = "AddLocal" /\ c.of \in LocalEndpoint /\ c = AddLocal(c.of)
      <2>1. PICK k : k = c.of  OBVIOUS
      <2>2. /\ UNCHANGED <<db, stop>>
            /\ k \notin db.local => told' = told
            /\ k \in db.local =>
                  \/ told' = [told EXCEPT ![k] = "data"]
                  \/ told' = [told EXCEPT ![k] = "failed"]
            BY <1>4, <1>6, <2>1 DEF write_single_endpoint_info
      <2>3. /\ \A l : c = AddLocal(l) <=> l = k
            /\ \A l : c # RemoveLocal(l)
            BY <1>6, <2>1, Commands
      <2>4. k \in LocalEndpoint  BY <1>6, <2>1
      <2>5. ASSUME NEW l \in LocalEndpoint PROVE LocalInv(l)'
            <3>1. LocalInv(l)  BY DEF ToldInv
            <3>2. CASE l = k /\ k \in db.local
                  <4>1. told'[l] \in Tried  BY <1>1, <2>2, <2>4, <3>2 DEF Tried
                  <4>2. Commanded(cmds, AddLocal(l))  BY <1>3, <2>3, <3>2
                  <4>3. app[l] \notin {"none", "half", "drop"}
                        BY <1>1, <3>1, <4>2 DEF LocalInv
                  <4>4. app[l] = "gone" => Commanded(cmds', RemoveLocal(l)) /\ Withdrawn(cmds', l)
                        BY <1>1, <1>3, <2>3, <3>1, <3>2 DEF LocalInv
                  <4>5. Commanded(cmds', RemoveLocal(l)) => app[l] = "gone"
                        BY <1>1, <1>3, <3>1 DEF LocalInv
                  <4> QED  BY <1>1, <2>2, <3>2, <4>1, <4>3, <4>4, <4>5 DEF LocalInv
            <3>3. CASE l = k /\ k \notin db.local
                  <4>1. told' = told  BY <2>2, <3>3
                  <4>2. Commanded(cmds, AddLocal(l))  BY <1>3, <2>3, <3>3
                  <4> QED  BY <1>1, <1>3, <2>2, <2>3, <3>1, <3>3, <4>1, <4>2 DEF LocalInv
            <3>4. CASE l # k
                  <4>1. told'[l] = told[l]  BY <1>1, <2>2, <2>4, <3>4
                  <4>2. c # AddLocal(l) /\ c # RemoveLocal(l)  BY <2>3, <3>4
                  <4> QED  BY <1>1, <1>3, <2>2, <3>1, <4>1, <4>2 DEF LocalInv
            <3> QED  BY <3>2, <3>3, <3>4
      <2>6. told' \in [LocalEndpoint -> Told]  BY <1>1, <2>2, <2>4 DEF Told, Sample
      <2> QED  BY <1>1, <1>3, <2>2, <2>5, <2>6 DEF ToldInv
<1>7. CASE c.is = "RemoveLocal" /\ c.of \in LocalEndpoint /\ c = RemoveLocal(c.of)
      <2>1. PICK k : k = c.of  OBVIOUS
      <2>2. /\ stop' = stop
            /\ told' = [told EXCEPT ![k] = "dispose"]
            /\ db' = remove_local_endpoint(db, k)
            BY <1>4, <1>7, <2>1 DEF remove_local
      <2>3. /\ \A l : c = RemoveLocal(l) <=> l = k
            /\ \A l : c # AddLocal(l)
            BY <1>7, <2>1, Commands
      <2>4. k \in LocalEndpoint  BY <1>7, <2>1
      <2>5. /\ db' \in DB /\ db'.local = db.local \ {k} /\ db'.ext = db.ext
            /\ db'.attic = db.attic /\ db'.proxies = db.proxies /\ db'.age = db.age
            BY <1>1, <2>2, RemoveLocalFacts
      <2>6. ASSUME NEW l \in LocalEndpoint PROVE LocalInv(l)'
            <3>1. LocalInv(l)  BY DEF ToldInv
            <3>2. CASE l = k
                  <4>1. told'[l] = "dispose" /\ told'[l] \notin Tried  BY <1>1, <2>2, <2>4, <3>2 DEF Tried
                  <4>2. app[l] = "gone"  BY <1>1, <1>3, <2>3, <3>1, <3>2 DEF LocalInv
                  <4>3. Withdrawn(cmds', l)  BY <1>1, <1>3, <3>1, <4>2 DEF LocalInv
                  <4> QED  BY <1>1, <4>1, <4>2, <4>3 DEF LocalInv
            <3>3. CASE l # k
                  <4>1. told'[l] = told[l] /\ (l \in db'.local <=> l \in db.local)
                        BY <1>1, <2>2, <2>4, <2>5, <3>3
                  <4>2. c # AddLocal(l) /\ c # RemoveLocal(l)  BY <2>3, <3>3
                  <4> QED  BY <1>1, <1>3, <2>2, <3>1, <4>1, <4>2 DEF LocalInv
            <3> QED  BY <3>2, <3>3
      <2>7. told' \in [LocalEndpoint -> Told]  BY <1>1, <2>2, <2>4 DEF Told, Sample
      <2> QED  BY <1>1, <1>3, <2>2, <2>5, <2>6, <2>7 DEF ToldInv
<1>8. CASE c.is = "StopDiscovery"
      <2>1. /\ db' = db /\ stop' = "done"
            /\ told' = [l \in LocalEndpoint |-> IF l \in db.local THEN "dispose" ELSE told[l]]
            BY <1>4, <1>8 DEF on_participant_shutting_down
      <2>2. ASSUME NEW l \in LocalEndpoint PROVE LocalInv(l)'
            <3>1. told[l] = "data" => l \in db.local  BY DEF ToldInv, LocalInv
            <3>2. told'[l] # "data"  BY <2>1, <3>1
            <3> QED  BY <2>1, <3>2 DEF LocalInv
      <2>3. told' \in [LocalEndpoint -> Told]  BY <1>1, <2>1 DEF Told, Sample
      <2> QED  BY <1>1, <1>3, <2>1, <2>2, <2>3 DEF ToldInv
<1> QED  BY <1>3, <1>5, <1>6, <1>7, <1>8, Commands

\* A command is sent if there is room and somebody to receive it.
LEMMA TrySent ==
    ASSUME NEW q \in Seq(Command), NEW c \in Command, NEW r, r = TrySend(q, c)
    PROVE  /\ r \in Seq(Command)
           /\ \A x : Commanded(r, x) <=> Commanded(q, x) \/ (CanSend(q) /\ x = c)
           /\ \A l : Withdrawn(q, l) /\ c # AddLocal(l) => Withdrawn(r, l)
<1>1. CASE CanSend(q)
      <2>1. r = Append(q, c)  BY <1>1 DEF TrySend
      <2> QED  BY <1>1, <2>1, CommandSent
<1>2. CASE ~CanSend(q)  BY <1>2 DEF TrySend
<1> QED  BY <1>1, <1>2

\* What is about l is kept by a step about another endpoint.
LEMMA OthersTold ==
    ASSUME NEW l \in LocalEndpoint, LocalInv(l),
           told'[l] = told[l], app'[l] = app[l], stop' = "done" <=> stop = "done",
           l \in db'.local <=> l \in db.local,
           Commanded(cmds', AddLocal(l)) <=> Commanded(cmds, AddLocal(l)),
           Commanded(cmds', RemoveLocal(l)) <=> Commanded(cmds, RemoveLocal(l)),
           Withdrawn(cmds, l) => Withdrawn(cmds', l)
    PROVE  LocalInv(l)'
BY DEF LocalInv

\* The first half of create_datareader.
LEMMA ReaderBeginTold ==
    ASSUME TypeInv, ToldInv, NEW k \in LocalEndpoint, CreateReaderBegin(k)
    PROVE  /\ cmds' \in Seq(Command) /\ db' \in DB /\ app' \in [LocalEndpoint -> AppState]
           /\ db'.ext = db.ext /\ db'.attic = db.attic
           /\ db'.proxies = db.proxies /\ db'.age = db.age
           /\ ToldInv'
<1>1. /\ cmds \in Seq(Command) /\ db \in DB /\ app \in [LocalEndpoint -> AppState]
      /\ app[k] = "none" /\ stop = "no" /\ told' = told /\ stop' = stop
      /\ cmds' = TrySend(cmds, AddTopic(TopicOf[k]))
      /\ app' = [app EXCEPT ![k] = "half"]
      BY DEF CreateReaderBegin, TypeInv, ThreadInv
<1>2. db' = update_topic_data(update_local_endpoint(db, k), TopicOf[k], Me)
      BY DEF CreateReaderBegin, EnterLocal
<1>3. /\ db' \in DB /\ db'.local = db.local \cup {k}
      /\ db'.ext = db.ext /\ db'.attic = db.attic
      /\ db'.proxies = db.proxies /\ db'.age = db.age
      BY <1>1, <1>2, EnterFacts
<1>4. AddTopic(TopicOf[k]) \in Command  BY Commands, DomainAssumption DEF Endpoint
<1>5. /\ cmds' \in Seq(Command)
      /\ \A x : Commanded(cmds', x) <=> Commanded(cmds, x) \/ (CanSend(cmds) /\ x = AddTopic(TopicOf[k]))
      /\ \A l : Withdrawn(cmds, l) /\ AddTopic(TopicOf[k]) # AddLocal(l) => Withdrawn(cmds', l)
      BY <1>1, <1>4, TrySent
<1>6. \A l : /\ Commanded(cmds', AddLocal(l)) <=> Commanded(cmds, AddLocal(l))
             /\ Commanded(cmds', RemoveLocal(l)) <=> Commanded(cmds, RemoveLocal(l))
             /\ Withdrawn(cmds, l) => Withdrawn(cmds', l)
      BY <1>5, Commands
<1>7. app' \in [LocalEndpoint -> AppState]  BY <1>1 DEF AppState
<1>8. ASSUME NEW l \in LocalEndpoint PROVE LocalInv(l)'
      <2>1. LocalInv(l)  BY DEF ToldInv
      <2>2. CASE l = k
            <3>1. app'[l] = "half" /\ l \in db'.local  BY <1>1, <1>3, <2>2
            <3>2. ~Commanded(cmds, AddLocal(l)) /\ ~Commanded(cmds, RemoveLocal(l))
                  BY <1>1, <2>1, <2>2 DEF LocalInv
            <3>3. told[l] \notin Tried /\ told[l] # "data"  BY <1>1, <2>1, <2>2 DEF LocalInv, Tried
            <3> QED  BY <1>1, <1>6, <3>1, <3>2, <3>3 DEF LocalInv
      <2>3. CASE l # k
            <3>1. app'[l] = app[l] /\ (l \in db'.local <=> l \in db.local)  BY <1>1, <1>3, <2>3
            <3> QED  BY <1>1, <1>6, <2>1, <3>1, OthersTold
      <2> QED  BY <2>2, <2>3
<1> QED  BY <1>3, <1>5, <1>7, <1>8 DEF ToldInv

\* The command that ends a creation: the endpoint is live, or has to go again.
LEMMA AddLocalSent ==
    ASSUME TypeInv, ToldInv, NEW k \in LocalEndpoint, app[k] = "half", k \in db'.local,
           \A l \in LocalEndpoint : l # k => (l \in db'.local <=> l \in db.local),
           UNCHANGED <<told, stop>>,
           NEW q \in Seq(Command), SendAddLocal(k, q),
           \A l : /\ Commanded(q, AddLocal(l)) <=> Commanded(cmds, AddLocal(l))
                  /\ Commanded(q, RemoveLocal(l)) <=> Commanded(cmds, RemoveLocal(l))
                  /\ Withdrawn(cmds, l) => Withdrawn(q, l)
    PROVE  cmds' \in Seq(Command) /\ app' \in [LocalEndpoint -> AppState] /\ ToldInv'
<1>1. app \in [LocalEndpoint -> AppState] /\ stop \in {"no", "asked", "done"}
      BY DEF TypeInv, ThreadInv
<1>2. /\ cmds' = TrySend(q, AddLocal(k))
      /\ app' = [app EXCEPT ![k] = IF CanSend(q) THEN "live" ELSE "drop"]
      BY DEF SendAddLocal
<1>3. AddLocal(k) \in Command  BY Commands
<1>4. /\ cmds' \in Seq(Command)
      /\ \A x : Commanded(cmds', x) <=> Commanded(q, x) \/ (CanSend(q) /\ x = AddLocal(k))
      /\ \A l : Withdrawn(q, l) /\ AddLocal(k) # AddLocal(l) => Withdrawn(cmds', l)
      BY <1>2, <1>3, TrySent
<1>5. app' \in [LocalEndpoint -> AppState]  BY <1>1, <1>2 DEF AppState
<1>6. ASSUME NEW l \in LocalEndpoint PROVE LocalInv(l)'
      <2>1. LocalInv(l)  BY DEF ToldInv
      <2>2. CASE l = k
            <3>1. /\ told[l] \notin Tried \/ stop = "done"
                  /\ stop # "done" => ~Commanded(cmds, AddLocal(l)) /\ ~Commanded(cmds, RemoveLocal(l))
                  BY <2>1, <2>2 DEF LocalInv
            <3>2. told[l] # "data"  BY <2>1, <3>1 DEF LocalInv, Tried
            <3>3. stop # "done" => ~Commanded(cmds', RemoveLocal(l))  BY <1>4, <3>1, Commands
            <3>4. CASE CanSend(q)
                  <4>1. Commanded(cmds', AddLocal(l)) /\ app'[l] = "live"  BY <1>1, <1>2, <1>4, <2>2, <3>4
                  <4> QED  BY <2>2, <3>2, <3>3, <4>1 DEF LocalInv
            <3>5. CASE ~CanSend(q)
                  <4>1. app'[l] = "drop"  BY <1>1, <1>2, <2>2, <3>5
                  <4>2. stop # "done" => ~Commanded(cmds', AddLocal(l))  BY <1>4, <3>1, <3>5
                  <4> QED  BY <3>1, <3>2, <3>3, <4>1, <4>2 DEF LocalInv
            <3> QED  BY <3>4, <3>5
      <2>3. CASE l # k
            <3>1. app'[l] = app[l] /\ (l \in db'.local <=> l \in db.local)  BY <1>1, <1>2, <2>3
            <3>2. AddLocal(l) # AddLocal(k) /\ RemoveLocal(l) # AddLocal(k)  BY <2>3, Commands
            <3>3. /\ Commanded(cmds', AddLocal(l)) <=> Commanded(cmds, AddLocal(l))
                  /\ Commanded(cmds', RemoveLocal(l)) <=> Commanded(cmds, RemoveLocal(l))
                  /\ Withdrawn(cmds, l) => Withdrawn(cmds', l)
                  BY <1>4, <3>2
            <3> QED  BY <2>1, <3>1, <3>3, OthersTold
      <2> QED  BY <2>2, <2>3
<1> QED  BY <1>4, <1>5, <1>6 DEF ToldInv

\* The second half of create_datareader.
LEMMA ReaderEndTold ==
    ASSUME TypeInv, ToldInv, NEW k \in LocalEndpoint, CreateReaderEnd(k)
    PROVE  cmds' \in Seq(Command) /\ app' \in [LocalEndpoint -> AppState] /\ ToldInv'
<1>1. /\ app[k] = "half" /\ Kind[k] = "reader" /\ UNCHANGED <<db, told, stop>>
      /\ cmds \in Seq(Command) /\ app \in [LocalEndpoint -> AppState]
      /\ \/ SendAddLocal(k, cmds)
         \/ app' = [app EXCEPT ![k] = "drop"] /\ cmds' = cmds
      BY DEF CreateReaderEnd, TypeInv, ThreadInv
<1>2. stop # "done" => k \in db.local  BY <1>1 DEF ToldInv, LocalInv
<1>3. CASE stop # "done" /\ SendAddLocal(k, cmds)
      <2>1. k \in db'.local  BY <1>1, <1>2, <1>3
      <2> QED  BY <1>1, <1>3, <2>1, AddLocalSent
<1>4. CASE app' = [app EXCEPT ![k] = "drop"] /\ cmds' = cmds
      <2>1. app' \in [LocalEndpoint -> AppState]  BY <1>1, <1>4 DEF AppState
      <2>2. ASSUME NEW l \in LocalEndpoint PROVE LocalInv(l)'
            <3>1. LocalInv(l)  BY DEF ToldInv
            <3>2. CASE l = k
                  <4>1. app[l] = "half" /\ app'[l] = "drop"  BY <1>1, <1>4, <3>2
                  <4> QED  BY <1>1, <1>4, <3>1, <4>1 DEF LocalInv
            <3>3. CASE l # k
                  <4>1. app'[l] = app[l]  BY <1>1, <1>4, <3>3
                  <4> QED  BY <1>1, <1>4, <3>1, <4>1, OthersTold
            <3> QED  BY <3>2, <3>3
      <2> QED  BY <1>1, <1>4, <2>1, <2>2 DEF ToldInv
<1>5. CASE stop = "done" /\ SendAddLocal(k, cmds)
      BY <1>1, <1>4, <1>5 DEF SendAddLocal, TrySend, CanSend
<1> QED  BY <1>1, <1>3, <1>4, <1>5

\* The second half of create_datawriter.
LEMMA WriterEndTold ==
    ASSUME TypeInv, ToldInv, NEW k \in LocalEndpoint, CreateWriterEnd(k)
    PROVE  /\ cmds' \in Seq(Command) /\ db' \in DB /\ app' \in [LocalEndpoint -> AppState]
           /\ db'.ext = db.ext /\ db'.attic = db.attic
           /\ db'.proxies = db.proxies /\ db'.age = db.age
           /\ ToldInv'
<1>1. PICK q : q = TrySend(cmds, AddTopic(TopicOf[k]))  OBVIOUS
<1>2. /\ app[k] = "half" /\ UNCHANGED <<told, stop>>
      /\ SendAddLocal(k, q) /\ cmds \in Seq(Command) /\ db \in DB
      BY <1>1 DEF CreateWriterEnd, TypeInv, ThreadInv
<1>3. db' = update_topic_data(update_local_endpoint(db, k), TopicOf[k], Me)
      BY DEF CreateWriterEnd, EnterLocal
<1>4. /\ db' \in DB /\ db'.local = db.local \cup {k}
      /\ db'.ext = db.ext /\ db'.attic = db.attic
      /\ db'.proxies = db.proxies /\ db'.age = db.age
      BY <1>2, <1>3, EnterFacts
<1>5. AddTopic(TopicOf[k]) \in Command  BY Commands, DomainAssumption DEF Endpoint
<1>6. /\ q \in Seq(Command)
      /\ \A x : Commanded(q, x) <=> Commanded(cmds, x) \/ (CanSend(cmds) /\ x = AddTopic(TopicOf[k]))
      /\ \A l : Withdrawn(cmds, l) /\ AddTopic(TopicOf[k]) # AddLocal(l) => Withdrawn(q, l)
      BY <1>1, <1>2, <1>5, TrySent
<1>7. \A l : /\ Commanded(q, AddLocal(l)) <=> Commanded(cmds, AddLocal(l))
             /\ Commanded(q, RemoveLocal(l)) <=> Commanded(cmds, RemoveLocal(l))
             /\ Withdrawn(cmds, l) => Withdrawn(q, l)
      BY <1>6, Commands
<1>8. /\ k \in db'.local
      /\ \A l \in LocalEndpoint : l # k => (l \in db'.local <=> l \in db.local)
      BY <1>4
<1>9. cmds' \in Seq(Command) /\ app' \in [LocalEndpoint -> AppState] /\ ToldInv'
      BY <1>2, <1>6, <1>7, <1>8, AddLocalSent
<1> QED  BY <1>4, <1>9

\* The first halves of create_datawriter and of a drop send no command.
LEMMA QuietTold ==
    ASSUME TypeInv, ToldInv, NEW k \in LocalEndpoint, CreateWriterBegin(k) \/ DropBegin(k)
    PROVE  app' \in [LocalEndpoint -> AppState] /\ ToldInv'
<1>1. /\ UNCHANGED <<db, cmds, told, stop>> /\ app \in [LocalEndpoint -> AppState]
      BY DEF CreateWriterBegin, DropBegin, TypeInv, ThreadInv
<1>2. \/ Kind[k] = "writer" /\ app[k] = "none" /\ app' = [app EXCEPT ![k] = "half"]
      \/ app[k] \in {"live", "drop"} /\ app' = [app EXCEPT ![k] = "dropping"]
      BY DEF CreateWriterBegin, DropBegin
<1>3. app' \in [LocalEndpoint -> AppState]  BY <1>1, <1>2 DEF AppState
<1>4. ASSUME NEW l \in LocalEndpoint PROVE LocalInv(l)'
      <2>1. LocalInv(l)  BY DEF ToldInv
      <2>2. CASE l = k /\ app[l] = "none"
            <3>1. app'[l] = "half" /\ Kind[l] = "writer"  BY <1>1, <1>2, <2>2
            <3> QED  BY <1>1, <2>1, <2>2, <3>1 DEF LocalInv
      <2>3. CASE l = k /\ app[l] # "none"
            <3>1. app[l] \in {"live", "drop"} /\ app'[l] = "dropping"  BY <1>1, <1>2, <2>3
            <3> QED  BY <1>1, <2>1, <3>1 DEF LocalInv
      <2>4. CASE l # k
            <3>1. app'[l] = app[l]  BY <1>1, <1>2, <2>4
            <3> QED  BY <1>1, <2>1, <3>1, OthersTold
      <2> QED  BY <2>2, <2>3, <2>4
<1> QED  BY <1>3, <1>4 DEF ToldInv

\* The end of a drop: Discovery is told after all that it was told before.
LEMMA DropEndTold ==
    ASSUME TypeInv, ToldInv, NEW k \in LocalEndpoint, DropEnd(k)
    PROVE  cmds' \in Seq(Command) /\ app' \in [LocalEndpoint -> AppState] /\ ToldInv'
<1>1. /\ UNCHANGED <<db, told, stop>> /\ app \in [LocalEndpoint -> AppState]
      /\ app[k] = "dropping" /\ app' = [app EXCEPT ![k] = "gone"] /\ cmds \in Seq(Command)
      BY DEF DropEnd, TypeInv, ThreadInv
<1>2. app' \in [LocalEndpoint -> AppState]  BY <1>1 DEF AppState
<1>3. CASE cmds' = Append(cmds, RemoveLocal(k))
      <2>1. RemoveLocal(k) \in Command  BY Commands
      <2>2. /\ cmds' \in Seq(Command)
            /\ \A x : Commanded(cmds', x) <=> Commanded(cmds, x) \/ x = RemoveLocal(k)
            /\ \A l : Withdrawn(cmds, l) /\ RemoveLocal(k) # AddLocal(l) => Withdrawn(cmds', l)
            /\ \A l : RemoveLocal(k) = RemoveLocal(l) => Withdrawn(cmds', l)
            BY <1>1, <1>3, <2>1, CommandSent
      <2>3. ASSUME NEW l \in LocalEndpoint PROVE LocalInv(l)'
            <3>1. LocalInv(l)  BY DEF ToldInv
            <3>2. CASE l = k
                  <4>1. app'[l] = "gone"  BY <1>1, <3>2
                  <4>2. Commanded(cmds', RemoveLocal(l)) /\ Withdrawn(cmds', l)  BY <2>2, <3>2
                  <4> QED  BY <1>1, <3>1, <4>1, <4>2 DEF LocalInv
            <3>3. CASE l # k
                  <4>1. app'[l] = app[l]  BY <1>1, <3>3
                  <4>2. AddLocal(l) # RemoveLocal(k) /\ RemoveLocal(l) # RemoveLocal(k)
                        BY <3>3, Commands
                  <4>3. /\ Commanded(cmds', AddLocal(l)) <=> Commanded(cmds, AddLocal(l))
                        /\ Commanded(cmds', RemoveLocal(l)) <=> Commanded(cmds, RemoveLocal(l))
                        /\ Withdrawn(cmds, l) => Withdrawn(cmds', l)
                        BY <2>2, <4>2
                  <4> QED  BY <1>1, <3>1, <4>1, <4>3, OthersTold
            <3> QED  BY <3>2, <3>3
      <2> QED  BY <1>2, <2>2, <2>3 DEF ToldInv
<1>4. CASE stop = "done" /\ cmds' = cmds
      <2>1. ASSUME NEW l \in LocalEndpoint PROVE LocalInv(l)'
            BY <1>1, <1>4 DEF ToldInv, LocalInv
      <2> QED  BY <1>1, <1>2, <1>4, <2>1 DEF ToldInv
<1> QED  BY <1>3, <1>4 DEF DropEnd

\* The command that stops Discovery.
LEMMA DropParticipantTold ==
    ASSUME TypeInv, ToldInv, DropParticipant
    PROVE  cmds' \in Seq(Command) /\ ToldInv'
<1>1. /\ UNCHANGED <<db, app, told>> /\ cmds \in Seq(Command)
      /\ stop = "no" /\ stop' = "asked" /\ cmds' = Append(cmds, StopDiscovery)
      BY DEF DropParticipant, TypeInv, ThreadInv
<1>2. /\ cmds' \in Seq(Command)
      /\ \A x : Commanded(cmds', x) <=> Commanded(cmds, x) \/ x = StopDiscovery
      /\ \A l : Withdrawn(cmds, l) /\ StopDiscovery # AddLocal(l) => Withdrawn(cmds', l)
      BY <1>1, Commands, CommandSent
<1>3. ASSUME NEW l \in LocalEndpoint PROVE LocalInv(l)'
      <2>1. LocalInv(l)  BY DEF ToldInv
      <2>2. /\ Commanded(cmds', AddLocal(l)) <=> Commanded(cmds, AddLocal(l))
            /\ Commanded(cmds', RemoveLocal(l)) <=> Commanded(cmds, RemoveLocal(l))
            /\ Withdrawn(cmds, l) => Withdrawn(cmds', l)
            BY <1>2, Commands
      <2> QED  BY <1>1, <2>1, <2>2, OthersTold
<1> QED  BY <1>2, <1>3 DEF ToldInv

----------------------------------------------------------------------------
(* Leases *)

\* They are about the participants in the database and their announcements.
LEMMA LeaseFrame ==
    ASSUME LeaseInv, UNCHANGED <<up, missed, spdp>>,
           db'.proxies = db.proxies, db'.age = db.age
    PROVE  LeaseInv'
BY DEF LeaseInv, Announcing

\* Endpoints and topics leave the participants alone.
LEMMA SampleDB ==
    ASSUME TypeInv, handle_endpoint_sample \/ handle_topic_sample \/ TopicCleanup
    PROVE  /\ db' \in DB /\ db'.local = db.local
           /\ db'.proxies = db.proxies /\ db'.age = db.age
<1>1. db \in DB /\ todo \in Seq(Work)  BY DEF TypeInv, ThreadInv
<1>2. CASE handle_endpoint_sample
      <2>1. todo # <<>> /\ Head(todo).do = "samples"  BY <1>2 DEF handle_endpoint_sample
      <2>2. Head(todo) \in Work  BY <1>1, <2>1, TailFacts
      <2>3. Head(todo).arg \in SUBSET WorkSamples  BY <2>1, <2>2, WorkArgs
      <2>4. PICK s \in Head(todo).arg :
               db' = IF s[2] = "data" THEN update_endpoint(db, s[1]) ELSE remove_endpoint(db, s[1])
            BY <1>2 DEF handle_endpoint_sample
      <2>5. PICK e \in Endpoint : e = s[1]  BY <2>3 DEF WorkSamples
      <2>6. db' = update_endpoint(db, e) \/ db' = remove_endpoint(db, e)  BY <2>4, <2>5
      <2>7. CASE db' = update_endpoint(db, e)  BY <1>1, <2>7, UpdateEndpoint
      <2>8. CASE db' = remove_endpoint(db, e)  BY <1>1, <2>8, RemoveEndpoint
      <2> QED  BY <2>6, <2>7, <2>8
<1>3. CASE handle_topic_sample
      <2>1. todo # <<>> /\ Head(todo).do = "topics"  BY <1>3 DEF handle_topic_sample
      <2>2. Head(todo) \in Work  BY <1>1, <2>1, TailFacts
      <2>3. Head(todo).arg \in SUBSET (Topic \X Participant)  BY <2>1, <2>2, WorkArgs
      <2>4. PICK s \in Head(todo).arg : db' = update_topic_data(db, s[1], s[2])
            BY <1>3 DEF handle_topic_sample
      <2>5. s[1] \in Topic /\ s[2] \in Endpoint \cup Participant  BY <2>3
      <2> QED  BY <1>1, <2>4, <2>5, TopicFacts
<1>4. CASE TopicCleanup
      <2>1. db' = topic_cleanup(db)  BY <1>4 DEF TopicCleanup
      <2> QED  BY <1>1, <2>1, TopicCleanupFacts
<1> QED  BY <1>2, <1>3, <1>4

\* A participant appears: nothing has been heard of it before.
LEMMA StartLease ==
    ASSUME DomainInv, LeaseInv, NEW p \in Remote, Start(p)
    PROVE  LeaseInv'
<1>1. /\ up[p] = "absent" /\ up' = [up EXCEPT ![p] = "up"] /\ UNCHANGED <<missed, spdp, db>>
      /\ up \in [Remote -> {"absent", "up", "gone"}] /\ missed \in [Participant -> Nat]
      BY DEF Start, DomainInv, readers
<1>2. p # Me /\ p \in Participant  BY DomainAssumption DEF Participant
<1>3. /\ p \notin db.proxies /\ spdp[p] = "none" /\ db.age[p] = 0 /\ missed[p] \in Nat
      BY <1>1, <1>2 DEF LeaseInv
<1>4. ASSUME NEW q \in Participant
      PROVE  /\ q \notin db.proxies => db.age[q] = 0
             /\ q \in db.proxies \/ spdp[q] # "none" => q = Me \/ up'[q] # "absent"
             /\ (q \in Audible /\ (q = Me \/ up'[q] = "up")) =>
                   spdp[q] # "dispose" /\ db.age[q] <= missed[q]
      <2>1. CASE q = p  BY <1>1, <1>3, <2>1
      <2>2. CASE q # p
            <3>1. q = Me \/ up'[q] = up[q]  BY <1>1, <2>2 DEF Participant
            <3> QED  BY <3>1 DEF LeaseInv, Announcing
      <2> QED  BY <2>1, <2>2
<1> QED  BY <1>1, <1>4 DEF LeaseInv, Announcing

\* A participant leaves, with a word or without.
LEMMA LeaveLease ==
    ASSUME DomainInv, LeaseInv, NEW p \in Remote, Leave(p)
    PROVE  LeaseInv'
<1>1. /\ up[p] = "up" /\ up' = [up EXCEPT ![p] = "gone"] /\ UNCHANGED <<missed, db>>
      /\ up \in [Remote -> {"absent", "up", "gone"}] /\ spdp \in [Participant -> Sample]
      BY DEF Leave, DomainInv
<1>2. p # Me /\ p \in Participant  BY DomainAssumption DEF Participant
<1>3. \A q \in Participant : q # p => spdp'[q] = spdp[q]  BY <1>1 DEF Leave
<1>4. up'[p] = "gone"  BY <1>1
<1>5. ASSUME NEW q \in Participant
      PROVE  /\ q \notin db.proxies => db.age[q] = 0
             /\ q \in db.proxies \/ spdp'[q] # "none" => q = Me \/ up'[q] # "absent"
             /\ (q \in Audible /\ (q = Me \/ up'[q] = "up")) =>
                   spdp'[q] # "dispose" /\ db.age[q] <= missed[q]
      <2>1. CASE q = p  BY <1>2, <1>4, <2>1 DEF LeaseInv
      <2>2. CASE q # p
            <3>1. q = Me \/ up'[q] = up[q]  BY <1>1, <2>2 DEF Participant
            <3>2. spdp'[q] = spdp[q]  BY <1>3, <2>2
            <3> QED  BY <3>1, <3>2 DEF LeaseInv, Announcing
      <2> QED  BY <2>1, <2>2
<1> QED  BY <1>1, <1>5 DEF LeaseInv, Announcing

\* What one announcement period does to the ages.
LEMMA TickFacts ==
    ASSUME TypeInv, Tick
    PROVE  /\ db' \in DB /\ db'.local = db.local /\ db'.proxies = db.proxies
           /\ db'.ext = db.ext /\ db'.attic = db.attic
           /\ \E heard \in SUBSET Announcing : \A p \in Participant :
                 /\ missed'[p] = IF p \in heard THEN 0
                                 ELSE IF p \in Announcing THEN missed[p] + 1 ELSE missed[p]
                 /\ spdp'[p] = IF p \in heard THEN "data" ELSE "none"
                 /\ p \in heard => db'.age[p] = IF p \in db.proxies THEN 0 ELSE db.age[p]
                 /\ db'.age[p] \in {0, db.age[p], db.age[p] + 1}
                 /\ p \notin db.proxies => db'.age[p] = db.age[p]
<1>1. db \in DB /\ db.age \in [Participant -> Age]  BY DBFields DEF TypeInv, ThreadInv
<1>2. PICK heard \in SUBSET Announcing :
         /\ missed' = [p \in Participant |->
                          IF p \in heard THEN 0
                          ELSE IF p \in Announcing THEN missed[p] + 1 ELSE missed[p]]
         /\ spdp' = [p \in Participant |-> IF p \in heard THEN "data" ELSE "none"]
         /\ db' = [db EXCEPT !.age = [p \in Participant |->
                      IF p \in heard THEN participant_is_alive(db, p).age[p]
                      ELSE IF p \in db.proxies \ db.forever /\ @[p] <= LeaseTicks
                      THEN @[p] + 1 ELSE @[p]]]
      BY DEF Tick
<1>3. PICK age : age = [p \in Participant |->
                      IF p \in heard THEN participant_is_alive(db, p).age[p]
                      ELSE IF p \in db.proxies \ db.forever /\ db.age[p] <= LeaseTicks
                      THEN db.age[p] + 1 ELSE db.age[p]]
      OBVIOUS
<1>4. db' = [db EXCEPT !.age = age]  BY <1>2, <1>3
<1>5. \A p \in Participant :
         participant_is_alive(db, p).age[p] = IF p \in db.proxies THEN 0 ELSE db.age[p]
      BY <1>1 DEF participant_is_alive, DB
<1>6. \A p \in Participant :
         age[p] = IF p \in heard THEN IF p \in db.proxies THEN 0 ELSE db.age[p]
                  ELSE IF p \in db.proxies \ db.forever /\ db.age[p] <= LeaseTicks
                  THEN db.age[p] + 1 ELSE db.age[p]
      BY <1>3, <1>5
<1>7. \A p \in Participant : age[p] \in Age  BY <1>1, <1>6, DomainAssumption DEF Age
<1>8. age \in [Participant -> Age]
      <2>1. DOMAIN age = Participant /\ age = [p \in Participant |-> age[p]]  BY <1>3
      <2> QED  BY <1>7, <2>1
<1>9. /\ db'.age = age /\ db'.local = db.local /\ db'.proxies = db.proxies
      /\ db'.ext = db.ext /\ db'.attic = db.attic /\ db' \in DB
      BY <1>1, <1>4, <1>8 DEF DB
<1>10. ASSUME NEW p \in Participant
       PROVE  /\ missed'[p] = IF p \in heard THEN 0
                                 ELSE IF p \in Announcing THEN missed[p] + 1 ELSE missed[p]
              /\ spdp'[p] = IF p \in heard THEN "data" ELSE "none"
              /\ p \in heard => db'.age[p] = IF p \in db.proxies THEN 0 ELSE db.age[p]
              /\ db'.age[p] \in {0, db.age[p], db.age[p] + 1}
              /\ p \notin db.proxies => db'.age[p] = db.age[p]
       <2>1. /\ missed'[p] = IF p \in heard THEN 0
                             ELSE IF p \in Announcing THEN missed[p] + 1 ELSE missed[p]
             /\ spdp'[p] = IF p \in heard THEN "data" ELSE "none"
             BY <1>2
       <2> QED  BY <1>6, <1>9, <2>1
<1> QED  BY <1>9, <1>10

\* A period in which p was heard takes both counts back to 0; otherwise both go up.
LEMMA TickLease ==
    ASSUME TypeInv, LeaseInv, Tick
    PROVE  LeaseInv'
<1>1. UNCHANGED up /\ db'.proxies = db.proxies  BY TickFacts DEF Tick
<1>2. PICK heard \in SUBSET Announcing : \A p \in Participant :
         /\ missed'[p] = IF p \in heard THEN 0
                         ELSE IF p \in Announcing THEN missed[p] + 1 ELSE missed[p]
         /\ spdp'[p] = IF p \in heard THEN "data" ELSE "none"
         /\ p \in heard => db'.age[p] = IF p \in db.proxies THEN 0 ELSE db.age[p]
         /\ db'.age[p] \in {0, db.age[p], db.age[p] + 1}
         /\ p \notin db.proxies => db'.age[p] = db.age[p]
      BY TickFacts
<1>3. Announcing' = Announcing  BY <1>1 DEF Announcing
<1>4. ASSUME NEW p \in Participant
      PROVE  /\ p \notin db.proxies => db'.age[p] = 0
             /\ p \in db.proxies \/ spdp'[p] # "none" => p = Me \/ up[p] # "absent"
             /\ p \in Announcing => spdp'[p] # "dispose" /\ db'.age[p] <= missed'[p]
      <2>1. /\ p \notin db.proxies => db.age[p] = 0
            /\ p \in db.proxies => p = Me \/ up[p] # "absent"
            /\ p \in Announcing => db.age[p] <= missed[p]
            BY DEF LeaseInv
      <2>2. missed[p] \in Nat /\ db.age[p] \in Nat
            <3>1. missed[p] \in Nat  BY DEF TypeInv, DomainInv
            <3>2. db.age[p] \in Age  BY DBFields DEF TypeInv, ThreadInv
            <3> QED  BY <3>1, <3>2 DEF Age
      <2>3. p \in heard => p \in Announcing  BY <1>2
      <2>4. p \in Announcing => p = Me \/ up[p] = "up"  BY DEF Announcing
      <2>5. CASE p \in heard
            <3>1. db'.age[p] = 0 /\ missed'[p] = 0 /\ spdp'[p] = "data"  BY <1>2, <2>1, <2>5
            <3> QED  BY <2>3, <2>4, <2>5, <3>1
      <2>6. CASE p \notin heard
            <3>1. /\ spdp'[p] = "none"
                  /\ p \in Announcing => missed'[p] = missed[p] + 1
                  /\ db'.age[p] <= db.age[p] + 1
                  /\ p \notin db.proxies => db'.age[p] = db.age[p]
                  BY <1>2, <2>2, <2>6
            <3>2. db'.age[p] \in Nat  BY <1>2, <2>2
            <3> QED  BY <2>1, <2>2, <3>1, <3>2
      <2> QED  BY <2>5, <2>6
<1> QED  BY <1>1, <1>3, <1>4 DEF LeaseInv

\* What a participant says of itself.
LEMMA ReaderLease ==
    ASSUME TypeInv, LeaseInv, NEW p \in Participant, handle_participant_reader(p)
    PROVE  /\ LeaseInv' /\ db'.local = db.local
           /\ \A q \in Announcing : q \in db.proxies => q \in db'.proxies
<1>1. /\ UNCHANGED <<up, missed>> /\ spdp[p] # "none" /\ spdp' = [spdp EXCEPT ![p] = "none"]
      /\ spdp \in [Participant -> Sample] /\ db \in DB /\ missed \in [Participant -> Nat]
      BY DEF handle_participant_reader, net, TypeInv, DomainInv, ThreadInv
<1>2. db.age \in [Participant -> Age]  BY <1>1, DBFields
<1>3. db' = Discovered(db, p) \/ db' = Disposed(db, p)
      BY DEF handle_participant_reader, process_discovered_participant_data,
             process_participant_dispose, Discovered, Disposed
<1>4. /\ db'.local = db.local
      /\ db'.age = [db.age EXCEPT ![p] = 0]
      /\ db'.proxies = db.proxies \cup {p} \/ db'.proxies = db.proxies \ {p}
      <2>1. db \in DB  BY <1>1
      <2>2. CASE db' = Discovered(db, p)  BY <2>1, <2>2, UpdateParticipant
      <2>3. CASE db' = Disposed(db, p)  BY <2>1, <2>3, RemoveParticipant
      <2> QED  BY <1>3, <2>2, <2>3
<1>5. Announcing' = Announcing  BY <1>1 DEF Announcing
<1>6. ASSUME NEW q \in Participant
      PROVE  /\ q \notin db'.proxies => db'.age[q] = 0
             /\ q \in db'.proxies \/ spdp'[q] # "none" => q = Me \/ up[q] # "absent"
             /\ q \in Announcing => spdp'[q] # "dispose" /\ db'.age[q] <= missed[q]
      <2>1. CASE q = p
            <3>1. db'.age[q] = 0 /\ spdp'[q] = "none" /\ missed[q] \in Nat  BY <1>1, <1>2, <1>4, <2>1
            <3>2. q = Me \/ up[q] # "absent"  BY <1>1, <2>1 DEF LeaseInv
            <3> QED  BY <3>1, <3>2
      <2>2. CASE q # p
            <3>1. /\ db'.age[q] = db.age[q] /\ spdp'[q] = spdp[q]
                  /\ q \in db'.proxies <=> q \in db.proxies
                  BY <1>1, <1>2, <1>4, <2>2
            <3> QED  BY <3>1 DEF LeaseInv
      <2> QED  BY <2>1, <2>2
<1>7. ASSUME NEW q \in Announcing, q \in db.proxies PROVE q \in db'.proxies
      <2>1. CASE q # p  BY <1>4, <1>7, <2>1
      <2>2. CASE q = p
            <3>1. spdp[p] = "data"  BY <1>1, <2>2 DEF LeaseInv, Sample
            <3>2. db' = Discovered(db, p)
                  BY <3>1 DEF handle_participant_reader, process_discovered_participant_data,
                              Discovered
            <3>3. db \in DB  BY <1>1
            <3>4. db'.proxies = db.proxies \cup {p}
                  BY <3>2, <3>3, UpdateParticipant
            <3> QED  BY <2>2, <3>4
      <2> QED  BY <2>1, <2>2
<1> QED  BY <1>1, <1>4, <1>5, <1>6, <1>7 DEF LeaseInv

\* Only those whose lease is over are removed.
LEMMA CleanupLease ==
    ASSUME TypeInv, LeaseInv, ParticipantCleanup
    PROVE  /\ LeaseInv' /\ db'.local = db.local
           /\ \A q \in Announcing : q \in db.proxies \ db'.proxies => missed[q] > LeaseTicks
<1>1. /\ UNCHANGED <<up, missed, spdp>> /\ db \in DB /\ missed \in [Participant -> Nat]
      /\ db' = participant_cleanup(db)
      BY DEF ParticipantCleanup, net, readers, TypeInv, DomainInv, ThreadInv
<1>2. PICK gone : gone = expired_participants(db)  OBVIOUS
<1>3. /\ db'.local = db.local /\ gone \subseteq db.proxies /\ db'.proxies = db.proxies \ gone
      /\ db'.age = [p \in Participant |-> IF p \in gone THEN 0 ELSE db.age[p]]
      BY <1>1, <1>2, ParticipantCleanupFacts
<1>4. Announcing' = Announcing  BY <1>1 DEF Announcing
<1>5. ASSUME NEW q \in Participant
      PROVE  /\ q \notin db'.proxies => db'.age[q] = 0
             /\ q \in db'.proxies \/ spdp[q] # "none" => q = Me \/ up[q] # "absent"
             /\ q \in Announcing => spdp[q] # "dispose" /\ db'.age[q] <= missed[q]
      <2>1. missed[q] \in Nat  BY <1>1
      <2>2. db'.age[q] = IF q \in gone THEN 0 ELSE db.age[q]  BY <1>3
      <2>3. q \in db'.proxies <=> q \in db.proxies /\ q \notin gone  BY <1>3
      <2> QED  BY <2>1, <2>2, <2>3 DEF LeaseInv
<1>6. ASSUME NEW q \in Announcing, q \in db.proxies \ db'.proxies PROVE missed[q] > LeaseTicks
      <2>1. q \in Participant  BY DiscoveryAssumption DEF Announcing
      <2>2. db.age[q] > LeaseTicks  BY <1>2, <1>3, <1>6 DEF expired_participants
      <2>3. db.age[q] <= missed[q]  BY <2>1 DEF LeaseInv
      <2>4. db.age[q] \in Nat /\ missed[q] \in Nat /\ LeaseTicks \in Nat
            BY <1>1, <2>1, DBFields, DomainAssumption DEF Age
      <2> QED  BY <2>2, <2>3, <2>4
<1> QED  BY <1>1, <1>3, <1>4, <1>5, <1>6 DEF LeaseInv

----------------------------------------------------------------------------
(* Types *)

\* The other participants and the clock.
LEMMA NetworkDomain ==
    ASSUME DomainInv, Network
    PROVE  DomainInv'
<1>1. ASSUME NEW p \in Remote, Start(p) PROVE DomainInv'
      <2>1. up' \in [Remote -> {"absent", "up", "gone"}]  BY <1>1 DEF Start, DomainInv
      <2> QED  BY <1>1, <2>1 DEF Start, DomainInv, readers
<1>2. ASSUME NEW p \in Remote, Leave(p) PROVE DomainInv'
      <2>1. PICK heard \in {"none", "dispose"}, E \in SUBSET OfPrefix(RemoteEndpoint, p) :
               /\ spdp' = [spdp EXCEPT ![p] = IF heard = "none" THEN @ ELSE heard]
               /\ wire' = [e \in Endpoint |->
                             IF PrefixOf(e) # p THEN wire[e]
                             ELSE IF e \in E /\ theirs[e] = "live" THEN "dispose"
                             ELSE "none"]
            BY <1>2 DEF Leave
      <2>2. spdp' \in [Participant -> Sample]  BY <2>1 DEF DomainInv, Participant, Sample
      <2>3. wire' \in [Endpoint -> Sample]  BY <2>1 DEF DomainInv, Sample
      <2>4. up' \in [Remote -> {"absent", "up", "gone"}]  BY <1>2 DEF Leave, DomainInv
      <2>5. topicIn' \subseteq Topic \X Participant  BY <1>2 DEF Leave, DomainInv
      <2> QED  BY <1>2, <2>2, <2>3, <2>4, <2>5 DEF Leave, DomainInv
<1>3. ASSUME NEW e \in RemoteEndpoint, Publish(e) PROVE DomainInv'
      <2>1. e \in Endpoint /\ TopicOf[e] \in Topic /\ Owner[e] \in Participant
            BY DomainAssumption DEF Endpoint, Participant
      <2>2. theirs' \in [RemoteEndpoint -> {"none", "live", "gone"}]  BY <1>3 DEF Publish, DomainInv
      <2>3. wire' \in [Endpoint -> Sample]  BY <1>3, <2>1 DEF Publish, DomainInv, Sample
      <2>4. topicIn' \subseteq Topic \X Participant  BY <1>3, <2>1 DEF Publish, DomainInv
      <2> QED  BY <1>3, <2>2, <2>3, <2>4 DEF Publish, DomainInv
<1>4. ASSUME NEW e \in RemoteEndpoint, Withdraw(e) PROVE DomainInv'
      <2>1. theirs' \in [RemoteEndpoint -> {"none", "live", "gone"}]  BY <1>4 DEF Withdraw, DomainInv
      <2>2. wire' \in [Endpoint -> Sample]  BY <1>4 DEF Withdraw, DomainInv, Sample, Endpoint
      <2> QED  BY <1>4, <2>1, <2>2 DEF Withdraw, DomainInv, readers
<1>5. CASE Tick
      <2>1. PICK heard \in SUBSET Announcing :
               /\ missed' = [p \in Participant |->
                                IF p \in heard THEN 0
                                ELSE IF p \in Announcing THEN missed[p] + 1 ELSE missed[p]]
               /\ spdp' = [p \in Participant |-> IF p \in heard THEN "data" ELSE "none"]
            BY <1>5 DEF Tick
      <2>2. missed' \in [Participant -> Nat]  BY <2>1 DEF DomainInv
      <2>3. spdp' \in [Participant -> Sample]  BY <2>1 DEF Sample
      <2> QED  BY <1>5, <2>2, <2>3 DEF Tick, DomainInv
<1> QED  BY <1>1, <1>2, <1>3, <1>4, <1>5 DEF Network

\* Samples are taken and the participant's own are written.
LEMMA DiscoveryDomain ==
    ASSUME TypeInv, DiscoveryThread
    PROVE  DomainInv'
<1>1. DomainInv  BY DEF TypeInv
<1>2. ASSUME NEW p \in Participant, handle_participant_reader(p) PROVE DomainInv'
      <2>1. spdp' \in [Participant -> Sample]
            BY <1>1, <1>2 DEF handle_participant_reader, DomainInv, Sample
      <2> QED  BY <1>1, <1>2, <2>1 DEF handle_participant_reader, DomainInv, net
<1>3. ASSUME NEW kind, NEW wanted, NEW rest, Take(kind, wanted, rest)
      PROVE  sedp' \in [Endpoint -> Sample]
      <2>1. PICK unread : sedp' = [e \in Endpoint |-> IF e \in unread THEN "none" ELSE sedp[e]]
            BY <1>3 DEF Take
      <2> QED  BY <1>1, <2>1 DEF DomainInv, Sample
<1>4. ASSUME NEW kind \in {"reader", "writer"}, handle_endpoint_reader(kind) PROVE DomainInv'
      <2>1. sedp' \in [Endpoint -> Sample]  BY <1>3, <1>4 DEF handle_endpoint_reader
      <2> QED  BY <1>1, <1>4, <2>1 DEF handle_endpoint_reader, DomainInv, net
<1>5. CASE handle_endpoint_reader_of
      <2>1. sedp' \in [Endpoint -> Sample]  BY <1>3, <1>5 DEF handle_endpoint_reader_of
      <2> QED  BY <1>1, <1>5, <2>1 DEF handle_endpoint_reader_of, DomainInv, net
<1>6. CASE handle_topic_reader
      <2>1. topicIn' \subseteq topicIn  BY <1>6 DEF handle_topic_reader
      <2>2. UNCHANGED <<up, theirs, missed, wire, spdp, sedp>>
            BY <1>6 DEF handle_topic_reader, net
      <2> QED  BY <1>1, <2>1, <2>2 DEF DomainInv
<1>7. CASE \/ handle_endpoint_sample \/ handle_topic_sample \/ send_discovery_notification
           \/ ParticipantCleanup \/ TopicCleanup
      <2>1. UNCHANGED <<up, theirs, missed, wire, spdp, sedp, topicIn>>
            BY <1>7 DEF handle_endpoint_sample, handle_topic_sample, send_discovery_notification,
                        ParticipantCleanup, TopicCleanup, net, readers
      <2> QED  BY <1>1, <2>1 DEF DomainInv
<1>8. CASE handle_command
      <2>1. cmds # <<>> /\ cmds \in Seq(Command)  BY <1>8 DEF handle_command, TypeInv, ThreadInv
      <2>2. PICK c : c = Head(cmds)  OBVIOUS
      <2>3. c \in Command  BY <2>1, <2>2, CommandReceived
      <2>4. /\ c.is = "AddTopic" => write_topic_info(c.of)
            /\ c.is = "AddLocal" => write_single_endpoint_info(c.of)
            /\ c.is = "RemoveLocal" => remove_local(c.of)
            /\ c.is = "StopDiscovery" => on_participant_shutting_down
            /\ UNCHANGED <<up, theirs, missed, spdp, sedp>>
            BY <1>8, <2>2 DEF handle_command, net
      <2>5. wire' \in [Endpoint -> Sample] /\ topicIn' \subseteq Topic \X Participant
            <3>1. wire \in [Endpoint -> Sample] /\ topicIn \subseteq Topic \X Participant
                  BY <1>1 DEF DomainInv
            <3>2. CASE c.is = "AddTopic" /\ c.of \in Topic
                  <4>1. wire' = wire /\ topicIn' \subseteq topicIn \cup {<<c.of, Me>>}
                        BY <2>4, <3>2 DEF write_topic_info
                  <4> QED  BY <3>1, <3>2, <4>1 DEF Participant
            <3>3. CASE c.is = "AddLocal" /\ c.of \in LocalEndpoint
                  <4>1. /\ topicIn' = topicIn
                        /\ wire' = wire \/ wire' = [wire EXCEPT ![c.of] = "data"]
                        BY <2>4, <3>3 DEF write_single_endpoint_info
                  <4> QED  BY <3>1, <4>1 DEF Sample
            <3>4. CASE c.is = "RemoveLocal" /\ c.of \in LocalEndpoint
                  <4>1. topicIn' = topicIn /\ wire' = [wire EXCEPT ![c.of] = "dispose"]
                        BY <2>4, <3>4 DEF remove_local
                  <4> QED  BY <3>1, <4>1 DEF Sample
            <3>5. CASE c.is = "StopDiscovery"
                  <4>1. /\ topicIn' = topicIn
                        /\ wire' = [e \in Endpoint |-> IF e \in db.local THEN "dispose" ELSE wire[e]]
                        BY <2>4, <3>5 DEF on_participant_shutting_down
                  <4> QED  BY <3>1, <4>1 DEF Sample
            <3> QED  BY <2>3, <3>2, <3>3, <3>4, <3>5, Commands
      <2> QED  BY <1>1, <2>4, <2>5 DEF DomainInv
<1> QED  BY <1>2, <1>4, <1>5, <1>6, <1>7, <1>8 DEF DiscoveryThread

\* The event loop takes SEDP samples from the wire; the application touches none
\* of this.
LEMMA OtherDomain ==
    ASSUME DomainInv, EventLoopThread \/ Application
    PROVE  DomainInv'
<1>1. ASSUME NEW e \in Endpoint, Receive(e) PROVE DomainInv'
      <2>1. wire' \in [Endpoint -> Sample]  BY <1>1 DEF Receive, DomainInv, Sample
      <2>2. wire[e] \in Sample  BY DEF DomainInv
      <2>3. sedp' \in [Endpoint -> Sample]  BY <1>1, <2>2 DEF Receive, DomainInv
      <2> QED  BY <1>1, <2>1, <2>3 DEF Receive, DomainInv, net
<1>2. ASSUME handle_notification \/ \E kind \in {"reader", "writer"} : handle_add(kind) \/ handle_remove(kind)
      PROVE  DomainInv'
      <2>1. UNCHANGED <<up, theirs, missed, wire, spdp, sedp, topicIn>>
            BY <1>2 DEF handle_notification, handle_add, handle_remove, net, readers
      <2> QED  BY <2>1 DEF DomainInv
<1>3. CASE Application
      <2>1. UNCHANGED <<up, theirs, missed, wire, spdp, sedp, topicIn>>
            BY <1>3 DEF Application, CreateReaderBegin, CreateReaderEnd, CreateWriterBegin,
                        CreateWriterEnd, DropBegin, DropEnd, DropParticipant, net, readers
      <2> QED  BY <2>1 DEF DomainInv
<1> QED  BY <1>1, <1>2, <1>3 DEF EventLoopThread

----------------------------------------------------------------------------
(* The invariant is inductive *)

\* The invariant in four parts.
LEMMA Parts == IInv <=> DomainInv /\ ThreadInv /\ QueueInv /\ ToldInv /\ LeaseInv
BY DEF IInv, TypeInv, QueueInv

\* A database from its fields.
LEMMA DBRecord ==
    ASSUME NEW proxies \in SUBSET Participant, NEW forever \in SUBSET Participant,
           NEW age \in [Participant -> Age], NEW local \in SUBSET LocalEndpoint,
           NEW ext \in SUBSET Endpoint, NEW attic \in SUBSET Endpoint,
           NEW topics \in [Topic -> SUBSET (Endpoint \cup Participant)]
    PROVE  [proxies |-> proxies, forever |-> forever, age |-> age, local |-> local, ext |-> ext,
            attic |-> attic, topics |-> topics] \in DB
BY DEF DB

\* The database Discovery starts with.
LEMMA FirstDB ==
    ASSUME NEW L \in SUBSET LocalEndpoint,
           NEW d, d = [update_participant(EmptyDB, Me, TRUE) EXCEPT !.local = L]
    PROVE  /\ d \in DB /\ d.local = L /\ d.ext = {} /\ d.attic = {}
           /\ d.proxies = {Me} /\ d.age = [p \in Participant |-> 0]
<1>1. PICK age : age = [p \in Participant |-> 0]  OBVIOUS
<1>2. PICK topics : topics = [t \in Topic |-> {}]  OBVIOUS
<1>3. Me \in Participant /\ [age EXCEPT ![Me] = 0] = age  BY <1>1 DEF Participant
<1>4. PICK back : back = IF Me \in EmptyDB.proxies THEN {} ELSE OfPrefix(EmptyDB.attic, Me)  OBVIOUS
<1>5. EmptyDB = [proxies |-> {}, forever |-> {}, age |-> age, local |-> {}, ext |-> {},
                 attic |-> {}, topics |-> topics]
      BY <1>1, <1>2 DEF EmptyDB
<1>6. back = {}
      <2>1. EmptyDB.attic = {}  BY <1>5
      <2> QED  BY <1>4, <2>1 DEF OfPrefix
<1>7. update_participant(EmptyDB, Me, TRUE) =
        [EmptyDB EXCEPT !.proxies = @ \cup {Me}, !.forever = @ \cup {Me}, !.age[Me] = 0,
                        !.ext = @ \cup back, !.attic = @ \ back]
      BY <1>4 DEF update_participant
<1>8. update_participant(EmptyDB, Me, TRUE) =
        [proxies |-> {Me}, forever |-> {Me}, age |-> age, local |-> {}, ext |-> {},
         attic |-> {}, topics |-> topics]
      BY <1>3, <1>5, <1>6, <1>7
<1>9. /\ d = [proxies |-> {Me}, forever |-> {Me}, age |-> age, local |-> L, ext |-> {},
              attic |-> {}, topics |-> topics]
      /\ d.local = L /\ d.ext = {} /\ d.attic = {} /\ d.proxies = {Me} /\ d.age = age
      <2>1. PICK m : m = update_participant(EmptyDB, Me, TRUE)  OBVIOUS
      <2>2. m = [proxies |-> {Me}, forever |-> {Me}, age |-> age, local |-> {}, ext |-> {},
                 attic |-> {}, topics |-> topics]
            BY <1>8, <2>1
      <2>3. d = [m EXCEPT !.local = L]  BY <2>1
      <2> QED  BY <2>2, <2>3
<1>10. age \in [Participant -> Age]
       <2>1. 0 \in Age  BY DomainAssumption DEF Age
       <2> QED  BY <1>1, <2>1
<1>11. topics \in [Topic -> SUBSET (Endpoint \cup Participant)]  BY <1>2
<1>12. d \in DB
       <2>1. {Me} \in SUBSET Participant /\ {} \in SUBSET Endpoint  BY <1>3
       <2>2. d = [proxies |-> {Me}, forever |-> {Me}, age |-> age, local |-> L, ext |-> {},
                  attic |-> {}, topics |-> topics]
             BY <1>9
       <2>3. [proxies |-> {Me}, forever |-> {Me}, age |-> age, local |-> L, ext |-> {},
              attic |-> {}, topics |-> topics] \in DB
             BY <1>10, <1>11, <2>1, DBRecord, Zenon
       <2> QED  BY <2>2, <2>3, Zenon
<1> QED  BY <1>1, <1>9, <1>12

\* The start of the Discovery thread.
LEMMA InitInvariant == Init => IInv
<1> SUFFICES ASSUME Init PROVE IInv  OBVIOUS
<1>1. PICK start \in Starts : \E written \in SUBSET LocalEndpoint :
         LET existing == {l \in LocalEndpoint : start.app[l] = "live"}
         IN /\ written \subseteq existing
            /\ up = start.up
            /\ app = start.app
            /\ theirs = [e \in RemoteEndpoint |-> "none"]
            /\ missed = [p \in Participant |-> 0]
            /\ wire = [e \in Endpoint |-> IF e \in written THEN "data" ELSE "none"]
            /\ spdp = [p \in Participant |-> "none"]
            /\ sedp = [e \in Endpoint |-> "none"]
            /\ topicIn = {}
            /\ db = [update_participant(EmptyDB, Me, TRUE) EXCEPT !.local = existing]
            /\ todo = <<Notify(ParticipantUpdated(Me))>>
            /\ notif = <<>>
            /\ cmds = <<>>
            /\ loop = [EmptyLoop EXCEPT !.endpoints = existing]
            /\ addCh = [k \in {"reader", "writer"} |-> {}]
            /\ removeCh = [k \in {"reader", "writer"} |-> {}]
            /\ ready = <<>>
            /\ told = [l \in LocalEndpoint |-> IF l \in written THEN "data"
                                               ELSE IF l \in existing THEN "failed" ELSE "none"]
            /\ stop = "no"
            /\ late = [l \in LocalEndpoint |-> {}]
      BY DEF Init
<1>2. PICK L \in SUBSET LocalEndpoint : L = {l \in LocalEndpoint : start.app[l] = "live"}  OBVIOUS
<1>3. start.app \in [LocalEndpoint -> {"none", "live", "gone"}] /\ start.up \in [Remote -> {"absent", "gone"}]
      BY DiscoveryAssumption
<1>4. /\ db \in DB /\ db.local = L /\ db.ext = {} /\ db.attic = {}
      /\ db.proxies = {Me} /\ db.age = [p \in Participant |-> 0]
      <2>1. db = [update_participant(EmptyDB, Me, TRUE) EXCEPT !.local = L]  BY <1>1, <1>2
      <2> QED  BY <2>1, FirstDB
<1>5. /\ loop \in Loop /\ loop.endpoints = L
      /\ loop.matched = [l \in LocalEndpoint |-> {}]
      <2>1. loop = [EmptyLoop EXCEPT !.endpoints = L]  BY <1>1, <1>2
      <2>2. PICK matched : matched = [l \in LocalEndpoint |-> {}]  OBVIOUS
      <2>3. loop = [endpoints |-> L, matched |-> matched, builtin |-> {}]
            BY <2>1, <2>2 DEF EmptyLoop
      <2>4. matched \in [LocalEndpoint -> SUBSET Endpoint]  BY <2>2
      <2> QED  BY <2>2, <2>3, <2>4 DEF Loop
<1>6. /\ todo \in Seq(Work) /\ notif \in Seq(Notification) /\ cmds \in Seq(Command)
      /\ DOMAIN todo = {1} /\ todo[1] = Notify(ParticipantUpdated(Me))
      /\ DOMAIN notif = {} /\ DOMAIN cmds = {}
      <2>1. Notify(ParticipantUpdated(Me)) \in Work
            <3>1. ParticipantUpdated(Me) \in Notification  BY Notifications DEF Participant
            <3> QED  BY <3>1, WorkFacts
      <2>2. PICK w \in Work : w = Notify(ParticipantUpdated(Me))  BY <2>1
      <2>3. todo = <<w>>  BY <1>1, <2>2
      <2>4. todo \in Seq(Work) /\ DOMAIN todo = {1} /\ todo[1] = w  BY <2>3
      <2>5. notif = <<>> /\ cmds = <<>>  BY <1>1
      <2> QED  BY <2>2, <2>4, <2>5
<1>7. DomainInv
      <2>1. up \in [Remote -> {"absent", "up", "gone"}]  BY <1>1, <1>3
      <2>2. wire \in [Endpoint -> Sample]  BY <1>1 DEF Sample
      <2>3. /\ theirs \in [RemoteEndpoint -> {"none", "live", "gone"}]
            /\ missed \in [Participant -> Nat] /\ spdp \in [Participant -> Sample]
            /\ sedp \in [Endpoint -> Sample] /\ topicIn \subseteq Topic \X Participant
            BY <1>1 DEF Sample
      <2> QED  BY <2>1, <2>2, <2>3 DEF DomainInv
<1>8. ThreadInv
      <2>1. app \in [LocalEndpoint -> AppState]  BY <1>1, <1>3 DEF AppState
      <2>2. told \in [LocalEndpoint -> Told]  BY <1>1 DEF Told, Sample
      <2>3. /\ addCh \in [{"reader", "writer"} -> SUBSET LocalEndpoint]
            /\ removeCh \in [{"reader", "writer"} -> SUBSET LocalEndpoint]
            /\ stop \in {"no", "asked", "done"} /\ late \in [LocalEndpoint -> SUBSET Endpoint]
            BY <1>1
      <2> QED  BY <1>4, <1>5, <1>6, <2>1, <2>2, <2>3 DEF ThreadInv
<1>9. QueueInv
      <2>1. NotifyFirst  BY <1>6 DEF NotifyFirst
      <2>2. \A e : Notify(ParticipantUpdated(Me)) # Notify(Updated(e))
            BY DEF Notify, ParticipantUpdated, Updated
      <2>3. ForgottenInv  BY <1>5, <1>6, <2>2 DEF ForgottenInv
      <2>4. AnnouncedInv  BY <1>4 DEF AnnouncedInv
      <2> QED  BY <2>1, <2>3, <2>4 DEF QueueInv
<1>10. ToldInv
       <2> SUFFICES ASSUME NEW l \in LocalEndpoint PROVE LocalInv(l)  BY DEF ToldInv
       <2>1. app[l] \in {"none", "live", "gone"} /\ (l \in L <=> app[l] = "live") /\ stop = "no"
             BY <1>1, <1>2, <1>3
       <2>2. told[l] \in Tried <=> l \in L  BY <1>1, <1>2 DEF Tried
       <2>3. \A c : ~Commanded(cmds, c)  BY <1>6 DEF Commanded
       <2>4. Withdrawn(cmds, l)  BY <1>6 DEF Withdrawn
       <2>5. told[l] = "data" => l \in L  BY <2>2 DEF Tried
       <2> QED  BY <1>4, <2>1, <2>2, <2>3, <2>4, <2>5 DEF LocalInv
<1>11. LeaseInv
       <2> SUFFICES ASSUME NEW p \in Participant
                    PROVE  /\ p \notin db.proxies => db.age[p] = 0
                           /\ p \in db.proxies \/ spdp[p] # "none" => p = Me \/ up[p] # "absent"
                           /\ p \in Announcing => spdp[p] # "dispose" /\ db.age[p] <= missed[p]
           BY DEF LeaseInv
       <2>1. db.age[p] = 0 /\ spdp[p] = "none" /\ missed[p] = 0  BY <1>1, <1>4
       <2> QED  BY <1>4, <2>1
<1> QED  BY <1>7, <1>8, <1>9, <1>10, <1>11, Parts

\* The network.
LEMMA NetworkInvariant ==
    ASSUME IInv, Network
    PROVE  IInv'
<1>1. DomainInv /\ ThreadInv /\ QueueInv /\ ToldInv /\ LeaseInv /\ TypeInv
      BY Parts DEF TypeInv
<1>2. DomainInv'  BY <1>1, NetworkDomain
<1>3. /\ UNCHANGED <<todo, notif, cmds, loop, addCh, removeCh, app, told, stop, late>>
      /\ db' = db \/ Tick
      BY DEF Network, Start, Leave, Publish, Withdraw, Tick, channels
<1>4. /\ db' \in DB /\ db'.local = db.local /\ db'.ext = db.ext /\ db'.attic = db.attic
      BY <1>1, <1>3, TickFacts DEF ThreadInv
<1>5. ThreadInv'  BY <1>1, <1>3, <1>4 DEF ThreadInv
<1>6. QueueInv'  BY <1>1, <1>3, <1>4, QueueFrame
<1>7. ToldInv'  BY <1>1, <1>3, <1>4, ToldFrame
<1>8. LeaseInv'
      <2>1. CASE \E e \in RemoteEndpoint : Publish(e) \/ Withdraw(e)
            <3>1. UNCHANGED <<up, missed, spdp, db>>  BY <2>1 DEF Publish, Withdraw, readers
            <3> QED  BY <1>1, <3>1, LeaseFrame
      <2>2. CASE \E p \in Remote : Start(p) \/ Leave(p)  BY <1>1, <2>2, StartLease, LeaveLease
      <2>3. CASE Tick  BY <1>1, <2>3, TickLease
      <2> QED  BY <2>1, <2>2, <2>3 DEF Network
<1> QED  BY <1>2, <1>5, <1>6, <1>7, <1>8 DEF IInv, TypeInv, QueueInv

\* The Discovery thread.
LEMMA DiscoveryThreadInvariant ==
    ASSUME IInv, DiscoveryThread
    PROVE  IInv'
<1>1. DomainInv /\ ThreadInv /\ QueueInv /\ ToldInv /\ LeaseInv /\ TypeInv
      BY Parts DEF TypeInv
<1>2. DomainInv'  BY <1>1, DiscoveryDomain
<1> SUFFICES ThreadInv' /\ QueueInv' /\ ToldInv' /\ LeaseInv'
    BY <1>2 DEF IInv, TypeInv, QueueInv
<1>3. ASSUME NEW p \in Participant, handle_participant_reader(p)
      PROVE  ThreadInv' /\ QueueInv' /\ ToldInv' /\ LeaseInv'
      <2>1. UNCHANGED <<told, stop, cmds, app>>  BY <1>3 DEF handle_participant_reader
      <2>2. LeaseInv' /\ db'.local = db.local  BY <1>1, <1>3, ReaderLease
      <2> QED  BY <1>1, <1>3, <2>1, <2>2, ParticipantReaderQueue, ToldFrame
<1>4. CASE (\E kind \in {"reader", "writer"} : handle_endpoint_reader(kind)) \/ handle_endpoint_reader_of
      <2>1. UNCHANGED <<told, stop, cmds, app, db, up, missed, spdp>>
            BY <1>4 DEF handle_endpoint_reader, handle_endpoint_reader_of, net
      <2> QED  BY <1>1, <1>4, <2>1, EndpointReaderQueue, ToldFrame, LeaseFrame
<1>5. CASE handle_topic_reader \/ send_discovery_notification
      <2>1. UNCHANGED <<told, stop, cmds, app, db, up, missed, spdp>>
            BY <1>5 DEF handle_topic_reader, send_discovery_notification, net, readers
      <2>2. ThreadInv' /\ QueueInv'  BY <1>1, <1>5, TopicReaderQueue, SendQueue
      <2> QED  BY <1>1, <2>1, <2>2, ToldFrame, LeaseFrame
<1>6. CASE handle_endpoint_sample \/ handle_topic_sample
      <2>1. UNCHANGED <<told, stop, cmds, app, up, missed, spdp>>
            BY <1>6 DEF handle_endpoint_sample, handle_topic_sample, net, readers
      <2>2. db'.local = db.local /\ db'.proxies = db.proxies /\ db'.age = db.age
            BY <1>1, <1>6, SampleDB
      <2>3. ThreadInv' /\ QueueInv'  BY <1>1, <1>6, EndpointSampleQueue, TopicSampleQueue
      <2> QED  BY <1>1, <2>1, <2>2, <2>3, ToldFrame, LeaseFrame
<1>7. CASE ParticipantCleanup
      <2>1. UNCHANGED <<told, stop, cmds, app>>  BY <1>7 DEF ParticipantCleanup
      <2>2. LeaseInv' /\ db'.local = db.local  BY <1>1, <1>7, CleanupLease
      <2> QED  BY <1>1, <1>7, <2>1, <2>2, CleanupQueue, ToldFrame
<1>8. CASE TopicCleanup
      <2>1. /\ UNCHANGED <<up, missed, spdp, todo, notif, cmds, loop, addCh, removeCh, app, told, stop, late>>
            /\ db' = topic_cleanup(db)
            BY <1>8 DEF TopicCleanup, net, readers, channels
      <2>2. db \in DB  BY <1>1 DEF ThreadInv
      <2>3. /\ db' \in DB /\ db'.local = db.local /\ db'.proxies = db.proxies /\ db'.age = db.age
            /\ db'.ext = db.ext /\ db'.attic = db.attic
            BY <2>1, <2>2, TopicCleanupFacts
      <2>4. ThreadInv'  BY <1>1, <2>1, <2>3 DEF ThreadInv
      <2> QED  BY <1>1, <2>1, <2>3, <2>4, QueueFrame, ToldFrame, LeaseFrame
<1>9. CASE handle_command
      <2>1. UNCHANGED <<up, missed, spdp, todo, notif, loop, addCh, removeCh, app, late>>
            BY <1>9 DEF handle_command, net, channels
      <2>2. /\ cmds' \in Seq(Command) /\ db' \in DB /\ told' \in [LocalEndpoint -> Told]
            /\ stop' \in {"no", "asked", "done"}
            /\ db'.ext = db.ext /\ db'.attic = db.attic
            /\ db'.proxies = db.proxies /\ db'.age = db.age
            /\ ToldInv'
            BY <1>1, <1>9, CommandTold
      <2>3. ThreadInv'  BY <1>1, <2>1, <2>2 DEF ThreadInv
      <2> QED  BY <1>1, <2>1, <2>2, <2>3, QueueFrame, LeaseFrame
<1> QED  BY <1>3, <1>4, <1>5, <1>6, <1>7, <1>8, <1>9 DEF DiscoveryThread

\* The event loop thread.
LEMMA EventLoopInvariant ==
    ASSUME IInv, EventLoopThread
    PROVE  IInv'
<1>1. DomainInv /\ ThreadInv /\ QueueInv /\ ToldInv /\ LeaseInv /\ TypeInv
      BY Parts DEF TypeInv
<1>2. DomainInv'  BY <1>1, OtherDomain
<1>3. UNCHANGED <<told, stop, cmds, app, db, up, missed, spdp>>
      BY DEF EventLoopThread, Receive, handle_notification, handle_add, handle_remove, net, readers
<1>4. ToldInv' /\ LeaseInv'  BY <1>1, <1>3, ToldFrame, LeaseFrame
<1>5. ThreadInv' /\ QueueInv'
      <2>1. CASE \E e \in Endpoint : Receive(e)
            <3>1. UNCHANGED <<db, todo, notif, cmds, loop, addCh, removeCh, app, told, stop, late>>
                  BY <2>1 DEF Receive, channels
            <3>2. ThreadInv'  BY <1>1, <3>1 DEF ThreadInv
            <3> QED  BY <1>1, <3>1, <3>2, QueueFrame
      <2>2. CASE handle_notification  BY <1>1, <2>2, NotificationQueue
      <2>3. CASE \E kind \in {"reader", "writer"} : handle_add(kind) \/ handle_remove(kind)
            BY <1>1, <2>3, AddQueue, RemoveQueue
      <2> QED  BY <2>1, <2>2, <2>3 DEF EventLoopThread
<1> QED  BY <1>2, <1>4, <1>5 DEF IInv, TypeInv, QueueInv

\* The application's threads.
LEMMA ApplicationInvariant ==
    ASSUME IInv, Application
    PROVE  IInv'
<1>1. DomainInv /\ ThreadInv /\ QueueInv /\ ToldInv /\ LeaseInv /\ TypeInv
      BY Parts DEF TypeInv
<1>2. DomainInv'  BY <1>1, OtherDomain
<1>3. UNCHANGED <<up, missed, spdp, todo, notif, loop, told, late>>
      BY DEF Application, CreateReaderBegin, CreateReaderEnd, CreateWriterBegin,
             CreateWriterEnd, DropBegin, DropEnd, DropParticipant, net, readers
<1>4. /\ stop' \in {"no", "asked", "done"}
      /\ addCh' \in [{"reader", "writer"} -> SUBSET LocalEndpoint]
      /\ removeCh' \in [{"reader", "writer"} -> SUBSET LocalEndpoint]
      <2>1. /\ stop \in {"no", "asked", "done"}
            /\ addCh \in [{"reader", "writer"} -> SUBSET LocalEndpoint]
            /\ removeCh \in [{"reader", "writer"} -> SUBSET LocalEndpoint]
            BY <1>1 DEF ThreadInv
      <2>2. stop' \in {"no", "asked", "done"}
            BY <2>1 DEF Application, CreateReaderBegin, CreateReaderEnd, CreateWriterBegin,
                        CreateWriterEnd, DropBegin, DropEnd, DropParticipant
      <2>3. \/ addCh' = addCh
            \/ \E l \in LocalEndpoint : addCh' = [addCh EXCEPT ![Kind[l]] = @ \cup {l}]
            BY DEF Application, CreateReaderBegin, CreateReaderEnd, CreateWriterBegin,
                   CreateWriterEnd, DropBegin, DropEnd, DropParticipant, AddToLoop, channels
      <2>4. \/ removeCh' = removeCh
            \/ \E l \in LocalEndpoint : removeCh' = [removeCh EXCEPT ![Kind[l]] = @ \cup {l}]
            BY DEF Application, CreateReaderBegin, CreateReaderEnd, CreateWriterBegin,
                   CreateWriterEnd, DropBegin, DropEnd, DropParticipant, channels
      <2> QED  BY <2>1, <2>2, <2>3, <2>4
<1>5. ASSUME NEW l \in LocalEndpoint, CreateReaderBegin(l) \/ CreateWriterEnd(l)
      PROVE  /\ cmds' \in Seq(Command) /\ db' \in DB /\ app' \in [LocalEndpoint -> AppState]
             /\ db'.ext = db.ext /\ db'.attic = db.attic
             /\ db'.proxies = db.proxies /\ db'.age = db.age
             /\ ToldInv'
      <2>1. CASE CreateReaderBegin(l)  BY <1>1, <2>1, ReaderBeginTold
      <2>2. CASE CreateWriterEnd(l)  BY <1>1, <2>2, WriterEndTold
      <2> QED  BY <1>5, <2>1, <2>2
<1>6. ASSUME NEW l \in LocalEndpoint,
             CreateReaderEnd(l) \/ CreateWriterBegin(l) \/ DropBegin(l) \/ DropEnd(l)
      PROVE  /\ cmds' \in Seq(Command) /\ db' = db /\ app' \in [LocalEndpoint -> AppState]
             /\ ToldInv'
      <2>1. db' = db
            BY <1>6 DEF CreateReaderEnd, CreateWriterBegin, DropBegin, DropEnd
      <2>2. CASE CreateReaderEnd(l)  BY <1>1, <2>1, <2>2, ReaderEndTold
      <2>3. CASE CreateWriterBegin(l) \/ DropBegin(l)
            <3>1. cmds' = cmds  BY <2>3 DEF CreateWriterBegin, DropBegin
            <3>2. app' \in [LocalEndpoint -> AppState] /\ ToldInv'  BY <1>1, <2>3, QuietTold
            <3> QED  BY <1>1, <2>1, <3>1, <3>2 DEF ThreadInv
      <2>4. CASE DropEnd(l)  BY <1>1, <2>1, <2>4, DropEndTold
      <2> QED  BY <1>6, <2>2, <2>3, <2>4
<1>7. ASSUME DropParticipant
      PROVE  cmds' \in Seq(Command) /\ db' = db /\ app' = app /\ ToldInv'
      BY <1>1, <1>7, DropParticipantTold DEF DropParticipant
<1>8. /\ cmds' \in Seq(Command) /\ db' \in DB /\ app' \in [LocalEndpoint -> AppState]
      /\ db'.ext = db.ext /\ db'.attic = db.attic
      /\ db'.proxies = db.proxies /\ db'.age = db.age
      /\ ToldInv'
      <2>1. db \in DB /\ app \in [LocalEndpoint -> AppState]  BY <1>1 DEF ThreadInv
      <2> QED  BY <1>5, <1>6, <1>7, <2>1 DEF Application
<1>9. ThreadInv'  BY <1>1, <1>3, <1>4, <1>8 DEF ThreadInv
<1>10. QueueInv' /\ LeaseInv'  BY <1>1, <1>3, <1>8, QueueFrame, LeaseFrame
<1> QED  BY <1>2, <1>8, <1>9, <1>10 DEF IInv, TypeInv, QueueInv

\* Every step of every thread keeps the invariant.
LEMMA NextInvariant == IInv /\ [Next]_vars => IInv'
<1> SUFFICES ASSUME IInv, [Next]_vars PROVE IInv'  OBVIOUS
<1>1. CASE Next
      BY <1>1, NetworkInvariant, DiscoveryThreadInvariant, EventLoopInvariant,
         ApplicationInvariant DEF Next
<1>2. CASE UNCHANGED vars
      <2>1. /\ UNCHANGED <<up, theirs, missed, wire, spdp, sedp, topicIn>>
            /\ UNCHANGED <<db, todo, notif, cmds, loop, addCh, removeCh, app, told, stop, late>>
            BY <1>2 DEF vars, net, readers, channels
      <2>2. DomainInv' /\ ThreadInv'  BY <2>1 DEF IInv, TypeInv, DomainInv, ThreadInv
      <2>3. QueueInv' /\ ToldInv' /\ LeaseInv'
            BY <2>1, Parts, QueueFrame, ToldFrame, LeaseFrame
      <2> QED  BY <2>2, <2>3 DEF IInv, TypeInv, QueueInv
<1> QED  BY <1>1, <1>2

\* A participant that can be heard is removed by its lease only, and the lease
\* lasts as long as its announcements get lost.
LEMMA LeaseStep ==
    ASSUME IInv, [Next]_vars
    PROVE  \A p \in Announcing : p \in db.proxies \ db'.proxies => missed[p] > LeaseTicks
<1>1. TypeInv /\ ToldInv /\ LeaseInv  BY DEF IInv
<1>2. CASE \E p \in Participant : handle_participant_reader(p)  BY <1>1, <1>2, ReaderLease
<1>3. CASE ParticipantCleanup  BY <1>1, <1>3, CleanupLease
<1>4. CASE handle_endpoint_sample \/ handle_topic_sample \/ TopicCleanup
      BY <1>1, <1>4, SampleDB
<1>5. CASE handle_command  BY <1>1, <1>5, CommandTold
<1>6. CASE Tick  BY <1>1, <1>6, TickFacts
<1>7. ASSUME NEW l \in LocalEndpoint, CreateReaderBegin(l) \/ CreateWriterEnd(l)
      PROVE  db'.proxies = db.proxies
      BY <1>1, <1>7, ReaderBeginTold, WriterEndTold
<1>8. CASE db' = db  BY <1>8
<1>9. \/ \E p \in Participant : handle_participant_reader(p)
      \/ ParticipantCleanup \/ handle_command \/ Tick
      \/ handle_endpoint_sample \/ handle_topic_sample \/ TopicCleanup
      \/ \E l \in LocalEndpoint : CreateReaderBegin(l) \/ CreateWriterEnd(l)
      \/ db' = db
      <2>1. CASE Network  BY <2>1 DEF Network, Start, Leave, Publish, Withdraw
      <2>2. CASE DiscoveryThread
            BY <2>2 DEF DiscoveryThread, handle_endpoint_reader, handle_endpoint_reader_of,
                        handle_topic_reader, send_discovery_notification
      <2>3. CASE EventLoopThread
            BY <2>3 DEF EventLoopThread, Receive, handle_notification, handle_add, handle_remove
      <2>4. CASE Application
            BY <2>4 DEF Application, CreateReaderEnd, CreateWriterBegin, DropBegin, DropEnd,
                        DropParticipant
      <2>5. CASE UNCHANGED vars  BY <2>5 DEF vars
      <2> QED  BY <2>1, <2>2, <2>3, <2>4, <2>5 DEF Next
<1> QED  BY <1>2, <1>3, <1>4, <1>5, <1>6, <1>7, <1>8, <1>9

----------------------------------------------------------------------------
(* What holds of Discovery *)

\* The invariant holds for any number of participants, endpoints and topics, any
\* capacity of the channels and any lease.
THEOREM InvariantHolds == Spec => []IInv
<1>1. Init => IInv  BY InitInvariant
<1>2. IInv /\ [Next]_vars => IInv'  BY NextInvariant
<1> QED  BY <1>1, <1>2, PTL DEF Spec

\* The event loop does not stay matched with what Discovery has forgotten: the
\* word that it is lost is behind every word that it is there.
THEOREM MatchedAreKnown == Spec => []MatchedIsKnown
<1>1. IInv => MatchedIsKnown
      <2> SUFFICES ASSUME IInv, NEW l \in LocalEndpoint, NEW e \in loop.matched[l], e \notin db.ext
                   PROVE  Lost(e) \in InTransit \/ ParticipantLost(PrefixOf(e)) \in InTransit
          BY DEF MatchedIsKnown
      <2>1. loop \in Loop /\ ForgottenInv  BY DEF IInv, TypeInv, ThreadInv
      <2>2. e \in Endpoint  BY <2>1, LoopFields
      <2>3. DropSent(e, 0) \/ DropDue(e, 0)  BY <2>1, <2>2 DEF ForgottenInv
      <2>4. CASE DropSent(e, 0)
            <3>1. PICK j \in DOMAIN notif : Drops(notif[j], e)  BY <2>4 DEF DropSent
            <3>2. notif[j] \in InTransit  BY DEF InTransit, ToSet
            <3> QED  BY <3>1, <3>2 DEF Drops
      <2>5. CASE DropDue(e, 0)
            <3>1. PICK j \in DOMAIN todo : todo[j].do = "notify" /\ Drops(todo[j].arg, e)
                  BY <2>5 DEF DropDue
            <3>2. todo[j] \in ToSet(todo)  BY DEF ToSet
            <3>3. todo[j].arg \in InTransit  BY <3>1, <3>2 DEF InTransit
            <3> QED  BY <3>1, <3>3 DEF Drops
      <2> QED  BY <2>3, <2>4, <2>5
<1> QED  BY <1>1, InvariantHolds, PTL

\* When the queues are empty, whatever was announced in time is matched.
THEOREM AnnouncedAreMatched == Spec => []AnnouncedIsMatched
<1>1. IInv => AnnouncedIsMatched
      <2> SUFFICES ASSUME IInv, Served, NEW l \in LocalEndpoint, NEW e \in Endpoint,
                          Known(l, e), e \notin late[l]
                   PROVE  e \in loop.matched[l]
          BY DEF AnnouncedIsMatched
      <2>1. /\ todo = <<>> /\ notif = <<>>
            /\ todo \in Seq(Work) /\ notif \in Seq(Notification)
            BY DEF Served, IInv, TypeInv, ThreadInv
      <2>2. DOMAIN todo = {} /\ DOMAIN notif = {}  BY <2>1, Elements
      <2>3. WillMatch(l, e)  BY DEF IInv, AnnouncedInv, Known, Fits
      <2> QED  BY <2>2, <2>3 DEF WillMatch, UpdateSent, UpdateDue
<1> QED  BY <1>1, InvariantHolds, PTL

\* Whatever Discovery has announced it has disposed when it is done.
THEOREM ShutdownDisposes == Spec => []ShutdownDisposesAll
<1>1. IInv => ShutdownDisposesAll  BY DEF IInv, ToldInv, LocalInv, ShutdownDisposesAll
<1> QED  BY <1>1, InvariantHolds, PTL

\* When the queues are empty, what the application has was announced, or the
\* announcement was refused; and what it had and dropped was disposed.
THEOREM AnnouncementsAreTrue == Spec => []ToldIsTrue
<1>1. IInv => ToldIsTrue
      <2> SUFFICES ASSUME IInv, Served, stop = "no", NEW l \in LocalEndpoint,
                          app[l] \in {"live", "gone"}
                   PROVE  IF app[l] = "live" THEN told[l] \in {"data", "failed"}
                                             ELSE told[l] \in {"none", "dispose"}
          BY DEF ToldIsTrue
      <2>1. cmds = <<>> /\ cmds \in Seq(Command)  BY DEF Served, IInv, TypeInv, ThreadInv
      <2>2. DOMAIN cmds = {}  BY <2>1, Elements
      <2>3. \A c : ~Commanded(cmds, c)  BY <2>2 DEF Commanded
      <2>4. LocalInv(l)  BY DEF IInv, ToldInv
      <2>5. told[l] \in Told /\ Served /\ stop = "no"  BY DEF IInv, TypeInv, ThreadInv
      <2> QED  BY <2>3, <2>4, <2>5 DEF LocalInv, Told, Tried, Sample
<1> QED  BY <1>1, InvariantHolds, PTL

\* With a lease of at least two periods (send_participant_info announces five)
\* a participant that can be heard survives the loss of two announcements.
THEOREM LeaseSurvives ==
    ASSUME LeaseTicks >= 2
    PROVE  Spec => LeaseSurvivesTwoLosses
<1>1. ASSUME IInv, [Next]_vars
      PROVE  [\A p \in Announcing : p \in db.proxies \ db'.proxies => missed[p] > 2]_vars
      <2>1. ASSUME NEW p \in Announcing, p \in db.proxies \ db'.proxies PROVE missed[p] > 2
            <3>1. missed[p] > LeaseTicks  BY <1>1, <2>1, LeaseStep
            <3>2. p \in Participant  BY DiscoveryAssumption DEF Announcing
            <3>3. missed[p] \in Nat  BY <1>1, <3>2 DEF IInv, TypeInv, DomainInv
            <3> QED  BY <3>1, <3>3, DomainAssumption
      <2> QED  BY <2>1
<1> QED  BY <1>1, InvariantHolds, PTL DEF Spec, LeaseSurvivesTwoLosses

-----------------------------------------------------------------------------
(***************************************************************************)
(* Announcements and decisions.                                            *)
(*                                                                         *)
(* What a side decides about a match rests on what it read of the other's  *)
(* announcement.  A parameter list holds a QoS if it says of each policy   *)
(* what to_parameter_list says, whatever else it holds (Says); reading     *)
(* gives the QoS back then.  The members of an announcement have names of  *)
(* their own, so none takes the place of another.                          *)
(***************************************************************************)

\* All but the property policy is sent.
Sent(q) == [p \in DOMAIN q \ {"property"} |-> q[p]]

\* pl says the same of a QoS as other.
SaysOfQos(pl, other) ==
    \A p \in Policies \cup {"ownership_strength"} :
        /\ p \in DOMAIN pl <=> p \in DOMAIN other
        /\ p \in DOMAIN other => pl[p] = other[p]

\* How pl says what q is.
Says(pl, q) ==
    /\ \A p \in Policies : p \in DOMAIN pl <=> p \in DOMAIN q \ {"property"}
    /\ "ownership_strength" \in DOMAIN pl
          <=> "ownership" \in DOMAIN q /\ q.ownership.kind = "Exclusive"
    /\ "ownership" \in DOMAIN q => pl["ownership"] = <<q.ownership.kind>>
    /\ "ownership_strength" \in DOMAIN pl => pl["ownership_strength"] = <<q.ownership.strength>>
    /\ "reliability" \in DOMAIN q => pl["reliability"] =
          <<IF q.reliability.kind = "BestEffort"
            THEN [kind |-> "BestEffort", max_blocking_time |-> 0] ELSE q.reliability>>
    /\ "history" \in DOMAIN q => pl["history"] =
          <<IF q.history.kind = "KeepAll"
            THEN [kind |-> "KeepAll", depth |-> 0] ELSE q.history>>
    /\ \A p \in PlainPolicies \cap DOMAIN q : pl[p] = <<q[p]>>

\* What to_parameter_list writes.
LEMMA Written ==
    ASSUME NEW q, IsQos(q)
    PROVE  Says(to_parameter_list(q), q)
<1> DEFINE pl == to_parameter_list(q)
           V(p) == CASE p = "ownership" -> q[p].kind
                     [] p = "reliability" /\ q[p].kind = "BestEffort" ->
                           [kind |-> "BestEffort", max_blocking_time |-> 0]
                     [] p = "history" /\ q[p].kind = "KeepAll" ->
                           [kind |-> "KeepAll", depth |-> 0]
                     [] OTHER -> q[p]
<1>1. "ownership_strength" \notin DOMAIN q /\ DOMAIN q \subseteq Policies
      BY DEF IsQos, Policies, PlainPolicies
<1>2. /\ DOMAIN pl = (DOMAIN q \ {"property"})
                \cup {x \in {"ownership_strength"} :
                          "ownership" \in DOMAIN q /\ q.ownership.kind = "Exclusive"}
      /\ "ownership_strength" \in DOMAIN pl => pl["ownership_strength"] = <<q.ownership.strength>>
      /\ \A p \in DOMAIN q \ {"property"} : pl[p] = <<V(p)>>
      BY <1>1 DEF to_parameter_list, ++
<1>3. /\ V("ownership") = q.ownership.kind
      /\ V("reliability") = IF q.reliability.kind = "BestEffort"
                            THEN [kind |-> "BestEffort", max_blocking_time |-> 0]
                            ELSE q.reliability
      /\ V("history") = IF q.history.kind = "KeepAll"
                        THEN [kind |-> "KeepAll", depth |-> 0] ELSE q.history
      /\ \A p \in PlainPolicies : V(p) = q[p]
      BY DEF PlainPolicies
<1> HIDE DEF pl, V
<1>4. \A p \in Policies : p \in DOMAIN pl <=> p \in DOMAIN q \ {"property"}
      BY <1>1, <1>2 DEF Policies, PlainPolicies
<1>5. "property" \notin {"ownership", "reliability", "history"} \cup PlainPolicies
      BY DEF PlainPolicies
<1>6. "ownership" \in DOMAIN q => pl["ownership"] = <<q.ownership.kind>>
      BY <1>2, <1>3, <1>5
<1>7. "reliability" \in DOMAIN q => pl["reliability"] =
          <<IF q.reliability.kind = "BestEffort"
            THEN [kind |-> "BestEffort", max_blocking_time |-> 0] ELSE q.reliability>>
      BY <1>2, <1>3, <1>5
<1>8. "history" \in DOMAIN q => pl["history"] =
          <<IF q.history.kind = "KeepAll"
            THEN [kind |-> "KeepAll", depth |-> 0] ELSE q.history>>
      BY <1>2, <1>3, <1>5
<1>9. \A p \in PlainPolicies \cap DOMAIN q : pl[p] = <<q[p]>>
      BY <1>2, <1>3, <1>5
<1>10. "ownership_strength" \in DOMAIN pl
          <=> "ownership" \in DOMAIN q /\ q.ownership.kind = "Exclusive"
      BY <1>1, <1>2
<1> QED  BY <1>2, <1>4, <1>6, <1>7, <1>8, <1>9, <1>10, Zenon DEF Says, pl

\* Other parameters do not matter.
LEMMA SaysToo ==
    ASSUME NEW q, NEW pl, NEW other, SaysOfQos(pl, other), Says(other, q), IsQos(q)
    PROVE  Says(pl, q)
<1>1. PlainPolicies \subseteq Policies /\ {"ownership", "reliability", "history"} \subseteq Policies
      BY DEF Policies
<1>2. "property" \notin {"ownership", "reliability", "history"} \cup PlainPolicies
      BY DEF PlainPolicies
<1>3. \A p \in Policies \cup {"ownership_strength"} :
        /\ p \in DOMAIN pl <=> p \in DOMAIN other
        /\ p \in DOMAIN other => pl[p] = other[p]
      BY Zenon DEF SaysOfQos
<1>4. \A p \in Policies : p \in DOMAIN pl <=> p \in DOMAIN q \ {"property"}
      BY <1>3 DEF Says
<1>5. \A p \in {"ownership", "reliability", "history"} \cup PlainPolicies :
         p \in DOMAIN q => pl[p] = other[p]
      BY <1>1, <1>2, <1>3, <1>4
<1> QED  BY <1>1, <1>3, <1>4, <1>5 DEF Says

\* from_parameter_list undoes to_parameter_list; only the property policy, which
\* is not sent, is missing.
LEMMA ReadBack ==
    ASSUME NEW q, IsQos(q), NEW pl, SaysOfQos(pl, to_parameter_list(q))
    PROVE  from_parameter_list(pl) = Sent(q)
<1> DEFINE kind == get_option_from_pl_map(pl, "ownership")
           strength == get_option_from_pl_map(pl, "ownership_strength")
           read == {p \in Policies \ {"ownership", "property"} : p \in DOMAIN pl}
                  \cup {p \in {"ownership"} :
                          \/ kind = <<"Shared">> /\ strength = <<>>
                          \/ kind = <<"Exclusive">> /\ strength # <<>>}
           Value(p) ==
            LET v == Head(pl[p])
            IN  CASE p = "ownership" /\ v = "Exclusive" ->
                        [kind |-> v, strength |-> Head(strength)]
                  [] p = "ownership" /\ v = "Shared" -> [kind |-> v]
                  [] p = "reliability" /\ v.kind = "BestEffort" -> [kind |-> v.kind]
                  [] p = "history" /\ v.kind = "KeepAll" -> [kind |-> v.kind]
                  [] OTHER -> v
<1>1. from_parameter_list(pl) = [p \in read |-> Value(p)]
      BY Zenon DEF from_parameter_list
<1>2. Says(pl, q)
      BY Written, SaysToo
<1>3. ASSUME "ownership" \in DOMAIN q
      PROVE  "ownership" \in read /\ Value("ownership") = q.ownership
      <2>1. pl["ownership"] = <<q.ownership.kind>> /\ "ownership" \in DOMAIN pl
            BY <1>2, <1>3 DEF Says, Policies
      <2>2. kind = <<q.ownership.kind>>
            BY <2>1 DEF get_option_from_pl_map
      <2>3. CASE q.ownership = [kind |-> "Shared"]
            <3>1. q.ownership.kind = "Shared"
                  BY <2>3
            <3>2. "ownership_strength" \notin DOMAIN pl
                  BY <1>2, <3>1 DEF Says
            <3>3. strength = <<>>
                  BY <3>2 DEF get_option_from_pl_map
            <3> HIDE DEF kind, strength
            <3> QED  BY <2>1, <2>2, <2>3, <3>1, <3>3
      <2>4. ASSUME NEW n, q.ownership = [kind |-> "Exclusive", strength |-> n]
            PROVE  "ownership" \in read /\ Value("ownership") = q.ownership
            <3>1. q.ownership.kind = "Exclusive" /\ q.ownership.strength = n
                  BY <2>4
            <3>2. "ownership_strength" \in DOMAIN pl /\ pl["ownership_strength"] = <<n>>
                  BY <1>2, <1>3, <3>1 DEF Says
            <3>3. strength = <<n>>
                  BY <3>2 DEF get_option_from_pl_map
            <3> HIDE DEF kind, strength
            <3> QED  BY <2>1, <2>2, <2>4, <3>1, <3>3
      <2> QED  BY <1>3, <2>3, <2>4 DEF IsQos
<1>4. ASSUME "ownership" \notin DOMAIN q PROVE "ownership" \notin read
      BY <1>2, <1>4 DEF Says, get_option_from_pl_map, Policies
<1>5. read = DOMAIN q \ {"property"}
      <2>1. \A p \in read : p \in Policies
            BY DEF Policies
      <2>2. DOMAIN q \subseteq Policies /\ "ownership" # "property"
            BY DEF IsQos
      <2>3. \A p \in Policies : p \in DOMAIN pl <=> p \in DOMAIN q \ {"property"}
            BY <1>2 DEF Says
      <2> QED  BY <1>3, <1>4, <2>1, <2>2, <2>3
<1>6. ASSUME NEW p \in DOMAIN q \ {"property"} PROVE Value(p) = q[p]
      <2>1. p \in Policies
            BY DEF IsQos
      <2>2. CASE p = "ownership"
            BY <1>3, <2>2
      <2>3. CASE p = "reliability"
            BY <1>2, <2>3 DEF Says, IsQos
      <2>4. CASE p = "history"
            BY <1>2, <2>4 DEF Says, IsQos
      <2>5. CASE p \in PlainPolicies
            <3>1. Head(pl[p]) = q[p]
                  BY <1>2, <2>5 DEF Says
            <3> QED  BY <2>5, <3>1 DEF PlainPolicies
      <2> QED  BY <2>1, <2>2, <2>3, <2>4, <2>5 DEF Policies
<1> HIDE DEF read, Value
<1> QED  BY <1>1, <1>5, <1>6 DEF Sent

----------------------------------------------------------------------------
(* Announcements *)

\* Which of two functions f ++ g follows.
LEMMA Joined ==
    ASSUME NEW f, NEW g
    PROVE  /\ DOMAIN (f ++ g) = DOMAIN f \cup DOMAIN g
           /\ \A x \in DOMAIN f : (f ++ g)[x] = f[x]
           /\ \A x \in DOMAIN g \ DOMAIN f : (f ++ g)[x] = g[x]
BY DEF ++

EndpointOptional == EndpointLocators \cup EndpointOptions \cup RpcOptions

AllMembers ==
    EndpointMandatory \cup EndpointLocators \cup EndpointOptions \cup RpcOptions
      \cup {"expects_inline_qos", "content_filter", "data_max_size_serialized"}

\* No member of an announcement has the name of a policy.
LEMMA NamesApart ==
    AllMembers \cap (Policies \cup {"ownership_strength"}) = {}
BY DEF AllMembers, EndpointMandatory, EndpointLocators, EndpointOptions, RpcOptions,
       Policies, PlainPolicies

\* What Emit and EmitOptions write.
LEMMA EmittedDomains ==
    ASSUME NEW data, NEW members
    PROVE  /\ DOMAIN Emit(data, members) = members
           /\ \A m \in members : Emit(data, members)[m] = <<data[m]>>
           /\ DOMAIN EmitOptions(data, members) = {m \in members : data[m] # <<>>}
           /\ \A m \in DOMAIN EmitOptions(data, members) : EmitOptions(data, members)[m] = data[m]
BY DEF Emit, EmitOptions

\* The parameters of a QoS.
LEMMA QosDomain ==
    ASSUME NEW q, IsQos(q)
    PROVE  DOMAIN to_parameter_list(q) \subseteq Policies \cup {"ownership_strength"}
BY DEF to_parameter_list, ++, IsQos

\* The part of an announcement that Readers and Writers have in common.
LEMMA EndpointList ==
    ASSUME NEW e, IsQos(e.qos)
    PROVE  LET pl == endpoint_to_parameter_list(e) IN
           /\ SaysOfQos(pl, to_parameter_list(e.qos))
           /\ EndpointMandatory \subseteq DOMAIN pl
           /\ DOMAIN pl \subseteq Policies \cup {"ownership_strength"} \cup EndpointMandatory
                 \cup EndpointOptional
           /\ \A m \in EndpointMandatory : pl[m] = <<e[m]>>
           /\ \A m \in EndpointOptional :
                 (m \in DOMAIN pl <=> e[m] # <<>>) /\ (m \in DOMAIN pl => pl[m] = e[m])
<1> DEFINE O == EndpointOptional
           first == Emit(e, EndpointMandatory)
           second == EmitOptions(e, O)
           third == to_parameter_list(e.qos)
           pl == endpoint_to_parameter_list(e)
<1>1. pl = (first ++ second) ++ third
      BY Zenon DEF endpoint_to_parameter_list, EndpointOptional
<1>2. /\ DOMAIN first = EndpointMandatory /\ \A m \in EndpointMandatory : first[m] = <<e[m]>>
      /\ DOMAIN second = {m \in O : e[m] # <<>>} /\ \A m \in DOMAIN second : second[m] = e[m]
      BY EmittedDomains
<1>3. DOMAIN third \subseteq Policies \cup {"ownership_strength"}
      BY QosDomain
<1>4. /\ EndpointMandatory \cap O = {}
      /\ EndpointMandatory \cap (Policies \cup {"ownership_strength"}) = {}
      /\ O \cap (Policies \cup {"ownership_strength"}) = {}
      <2>1. EndpointMandatory \cap O = {}
            BY DEF EndpointMandatory, EndpointOptional, EndpointLocators, EndpointOptions, RpcOptions
      <2> QED  BY <2>1, NamesApart DEF AllMembers, EndpointOptional
<1> HIDE DEF first, second, third, O, pl
<1>5. /\ DOMAIN pl = DOMAIN first \cup DOMAIN second \cup DOMAIN third
      /\ \A m \in DOMAIN first : pl[m] = first[m]
      /\ \A m \in DOMAIN second \ DOMAIN first : pl[m] = second[m]
      /\ \A m \in DOMAIN third \ (DOMAIN first \cup DOMAIN second) : pl[m] = third[m]
      <2> DEFINE both == first ++ second
      <2>1. /\ DOMAIN both = DOMAIN first \cup DOMAIN second
            /\ \A m \in DOMAIN first : both[m] = first[m]
            /\ \A m \in DOMAIN second \ DOMAIN first : both[m] = second[m]
            BY Joined
      <2> HIDE DEF both
      <2>2. /\ DOMAIN pl = DOMAIN both \cup DOMAIN third
            /\ \A m \in DOMAIN both : pl[m] = both[m]
            /\ \A m \in DOMAIN third \ DOMAIN both : pl[m] = third[m]
            BY <1>1 DEF both, ++
      <2> QED  BY <2>1, <2>2
<1>6. SaysOfQos(pl, third)
      BY <1>2, <1>3, <1>4, <1>5 DEF SaysOfQos
<1>7. /\ EndpointMandatory \subseteq DOMAIN pl
      /\ DOMAIN pl \subseteq Policies \cup {"ownership_strength"} \cup EndpointMandatory \cup O
      /\ \A m \in EndpointMandatory : pl[m] = <<e[m]>>
      /\ \A m \in O : (m \in DOMAIN pl <=> e[m] # <<>>)
                     /\ (m \in DOMAIN pl => pl[m] = e[m])
      BY <1>2, <1>3, <1>4, <1>5
<1> HIDE DEF O
<1> QED  BY <1>6, <1>7 DEF pl, third, O

\* A Reader's announcement adds two members, and a Writer's one.
LEMMA ReaderList ==
    ASSUME NEW r, IsQos(r.qos)
    PROVE  LET pl == reader_to_parameter_list(r)
               O == EndpointOptional \cup {"content_filter"} IN
           /\ SaysOfQos(pl, to_parameter_list(r.qos))
           /\ EndpointMandatory \cup {"expects_inline_qos"} \subseteq DOMAIN pl
           /\ \A m \in EndpointMandatory \cup {"expects_inline_qos"} : pl[m] = <<r[m]>>
           /\ \A m \in O : (m \in DOMAIN pl <=> r[m] # <<>>)
                     /\ (m \in DOMAIN pl => pl[m] = r[m])
<1> DEFINE O == EndpointOptional
           first == endpoint_to_parameter_list(r)
           second == Emit(r, {"expects_inline_qos"})
           third == EmitOptions(r, {"content_filter"})
           both == first ++ second
           pl == reader_to_parameter_list(r)
           tp == to_parameter_list(r.qos)
           P == Policies \cup {"ownership_strength"}
<1>1. pl = both ++ third
      BY Zenon DEF reader_to_parameter_list
<1>2. /\ SaysOfQos(first, tp)
      /\ EndpointMandatory \subseteq DOMAIN first
      /\ DOMAIN first \subseteq P \cup EndpointMandatory \cup O
      /\ \A m \in EndpointMandatory : first[m] = <<r[m]>>
      /\ \A m \in O : (m \in DOMAIN first <=> r[m] # <<>>)
                     /\ (m \in DOMAIN first => first[m] = r[m])
      BY EndpointList
<1>3. /\ DOMAIN second = {"expects_inline_qos"}
      /\ second["expects_inline_qos"] = <<r["expects_inline_qos"]>>
      /\ DOMAIN third = {m \in {"content_filter"} : r[m] # <<>>}
      /\ \A m \in DOMAIN third : third[m] = r[m]
      BY EmittedDomains
<1>4. /\ "expects_inline_qos" \notin EndpointMandatory \cup O \cup P
      /\ "content_filter" \notin EndpointMandatory \cup O \cup P
      /\ "content_filter" # "expects_inline_qos"
      /\ (EndpointMandatory \cup O) \cap P = {}
      BY NamesApart DEF AllMembers, EndpointMandatory, EndpointOptional, EndpointLocators, EndpointOptions, RpcOptions
<1>5. /\ DOMAIN both = DOMAIN first \cup DOMAIN second
      /\ \A m \in DOMAIN first : both[m] = first[m]
      /\ \A m \in DOMAIN second \ DOMAIN first : both[m] = second[m]
      BY Joined
<1> HIDE DEF first, second, third, O, pl, both, tp, P
<1>6. /\ DOMAIN pl = DOMAIN both \cup DOMAIN third
      /\ \A m \in DOMAIN both : pl[m] = both[m]
      /\ \A m \in DOMAIN third \ DOMAIN both : pl[m] = third[m]
      BY <1>1 DEF ++
<1>7. SaysOfQos(pl, tp)
      <2>1. ASSUME NEW p \in P
            PROVE  (p \in DOMAIN pl <=> p \in DOMAIN tp) /\ (p \in DOMAIN tp => pl[p] = tp[p])
            <3>1. (p \in DOMAIN first <=> p \in DOMAIN tp) /\ (p \in DOMAIN tp => first[p] = tp[p])
                  BY <1>2 DEF SaysOfQos, P
            <3> QED  BY <1>3, <1>4, <1>5, <1>6, <3>1
      <2> QED  BY <2>1 DEF SaysOfQos, P
<1>8. /\ EndpointMandatory \cup {"expects_inline_qos"} \subseteq DOMAIN pl
      /\ \A m \in EndpointMandatory \cup {"expects_inline_qos"} : pl[m] = <<r[m]>>
      BY <1>2, <1>3, <1>4, <1>5, <1>6
<1>9. ASSUME NEW m \in O
      PROVE  (m \in DOMAIN pl <=> r[m] # <<>>) /\ (m \in DOMAIN pl => pl[m] = r[m])
      <2>1. m \notin DOMAIN second \cup DOMAIN third
            BY <1>3, <1>4
      <2>2. m \in DOMAIN pl <=> m \in DOMAIN first
            BY <1>5, <1>6, <2>1
      <2>3. m \in DOMAIN first => pl[m] = first[m]
            BY <1>5, <1>6
      <2>4. (m \in DOMAIN first <=> r[m] # <<>>) /\ (m \in DOMAIN first => first[m] = r[m])
            BY <1>2
      <2> QED  BY <2>2, <2>3, <2>4
<1>10. /\ "content_filter" \in DOMAIN pl <=> r["content_filter"] # <<>>
       /\ "content_filter" \in DOMAIN pl => pl["content_filter"] = r["content_filter"]
      BY <1>2, <1>3, <1>4, <1>5, <1>6
<1> QED  BY <1>7, <1>8, <1>9, <1>10 DEF pl, tp, O

LEMMA WriterList ==
    ASSUME NEW w, IsQos(w.qos)
    PROVE  LET pl == writer_to_parameter_list(w)
               O == EndpointOptional \cup {"data_max_size_serialized"} IN
           /\ SaysOfQos(pl, to_parameter_list(w.qos))
           /\ EndpointMandatory \subseteq DOMAIN pl
           /\ \A m \in EndpointMandatory : pl[m] = <<w[m]>>
           /\ \A m \in O : (m \in DOMAIN pl <=> w[m] # <<>>)
                           /\ (m \in DOMAIN pl => pl[m] = w[m])
<1> DEFINE O == EndpointOptional
           first == endpoint_to_parameter_list(w)
           second == EmitOptions(w, {"data_max_size_serialized"})
           pl == writer_to_parameter_list(w)
           tp == to_parameter_list(w.qos)
           P == Policies \cup {"ownership_strength"}
<1>1. pl = first ++ second
      BY Zenon DEF writer_to_parameter_list
<1>2. /\ SaysOfQos(first, tp)
      /\ EndpointMandatory \subseteq DOMAIN first
      /\ DOMAIN first \subseteq P \cup EndpointMandatory \cup O
      /\ \A m \in EndpointMandatory : first[m] = <<w[m]>>
      /\ \A m \in O : (m \in DOMAIN first <=> w[m] # <<>>)
                     /\ (m \in DOMAIN first => first[m] = w[m])
      BY EndpointList
<1>3. /\ DOMAIN second = {m \in {"data_max_size_serialized"} : w[m] # <<>>}
      /\ \A m \in DOMAIN second : second[m] = w[m]
      BY EmittedDomains
<1>4. /\ "data_max_size_serialized" \notin EndpointMandatory \cup O \cup P
      /\ (EndpointMandatory \cup O) \cap P = {}
      BY NamesApart DEF AllMembers, EndpointMandatory, EndpointOptional, EndpointLocators, EndpointOptions, RpcOptions
<1> HIDE DEF first, second, O, pl, tp, P
<1>6. /\ DOMAIN pl = DOMAIN first \cup DOMAIN second
      /\ \A m \in DOMAIN first : pl[m] = first[m]
      /\ \A m \in DOMAIN second \ DOMAIN first : pl[m] = second[m]
      BY <1>1 DEF ++
<1>7. SaysOfQos(pl, tp)
      <2>1. ASSUME NEW p \in P
            PROVE  (p \in DOMAIN pl <=> p \in DOMAIN tp) /\ (p \in DOMAIN tp => pl[p] = tp[p])
            <3>1. (p \in DOMAIN first <=> p \in DOMAIN tp) /\ (p \in DOMAIN tp => first[p] = tp[p])
                  BY <1>2 DEF SaysOfQos, P
            <3> QED  BY <1>3, <1>4, <1>6, <3>1
      <2> QED  BY <2>1 DEF SaysOfQos, P
<1>8. /\ EndpointMandatory \subseteq DOMAIN pl
      /\ \A m \in EndpointMandatory : pl[m] = <<w[m]>>
      BY <1>2, <1>6
<1>9. ASSUME NEW m \in O
      PROVE  (m \in DOMAIN pl <=> w[m] # <<>>) /\ (m \in DOMAIN pl => pl[m] = w[m])
      BY <1>2, <1>3, <1>4, <1>6
<1>10. /\ "data_max_size_serialized" \in DOMAIN pl <=> w["data_max_size_serialized"] # <<>>
       /\ "data_max_size_serialized" \in DOMAIN pl =>
             pl["data_max_size_serialized"] = w["data_max_size_serialized"]
      BY <1>2, <1>3, <1>4, <1>6
<1> QED  BY <1>7, <1>8, <1>9, <1>10 DEF pl, tp, O

----------------------------------------------------------------------------
(* What comes back *)

\* An announced QoS is read as it was announced.
LEMMA SetQos ==
    ASSUME NEW q, IsQos(q)
    PROVE  IsQos(set_qos(q)) /\ set_qos(Sent(set_qos(q))) = set_qos(q)
<1>1. /\ DOMAIN set_qos(q) = DOMAIN q \cap EndpointPolicies
      /\ \A p \in DOMAIN q \cap EndpointPolicies : set_qos(q)[p] = q[p]
      /\ set_qos(q) = [p \in DOMAIN set_qos(q) |-> set_qos(q)[p]]
      BY DEF set_qos
<1>2. IsQos(set_qos(q))
      BY <1>1 DEF IsQos
<1>3. "property" \notin EndpointPolicies
      BY DEF EndpointPolicies
<1>4. Sent(set_qos(q)) = set_qos(q)
      BY <1>1, <1>3 DEF Sent
<1>5. set_qos(set_qos(q)) = set_qos(q)
      BY <1>1 DEF set_qos
<1> QED  BY <1>2, <1>4, <1>5

\* What an endpoint announces.
IsEndpointData(e) ==
    /\ \E q : IsQos(q) /\ e.qos = set_qos(q)
    /\ \A m \in EndpointOptions : IsOption(e[m])
    /\ \A m \in RpcOptions : e[m] = <<>>
EndpointMembers == EndpointMandatory \cup EndpointOptional \cup {"qos"}
IsReaderData(r) ==
    /\ IsEndpointData(r)
    /\ r = [m \in EndpointMembers \cup {"expects_inline_qos", "content_filter"} |-> r[m]]
    /\ IsOption(r["content_filter"])
IsWriterData(w) ==
    /\ IsEndpointData(w)
    /\ w = [m \in EndpointMembers \cup {"data_max_size_serialized"} |-> w[m]]
    /\ IsOption(w["data_max_size_serialized"])

\* A member that may be absent or repeated is read as it was sent.
LEMMA OptionReadBack ==
    ASSUME NEW pl, NEW m, NEW v, m \in DOMAIN pl <=> v # <<>>, m \in DOMAIN pl => pl[m] = v
    PROVE  /\ get_all_from_pl_map(pl, m) = v
           /\ IsOption(v) => get_option_from_pl_map(pl, m) = v
<1>1. get_all_from_pl_map(pl, m) = v
      BY DEF get_all_from_pl_map
<1>2. ASSUME NEW x, v = <<x>> PROVE get_option_from_pl_map(pl, m) = v
      <2>1. v # <<>> /\ Head(v) = x
            BY <1>2
      <2> QED  BY <1>2, <2>1 DEF get_option_from_pl_map
<1>3. ASSUME v = <<>> PROVE get_option_from_pl_map(pl, m) = v
      BY <1>3 DEF get_option_from_pl_map
<1> QED  BY <1>1, <1>2, <1>3 DEF IsOption

\* Some members of e.
Part(e, members) == [m \in members |-> e[m]]

LEMMA JoinOf ==
    ASSUME NEW e, NEW A, NEW B
    PROVE  Part(e, A) ++ Part(e, B) = Part(e, A \cup B)
BY DEF Part, ++

\* What Readers and Writers have in common is read as it was sent.
LEMMA EndpointReadBack ==
    ASSUME NEW e, IsEndpointData(e), NEW pl,
           SaysOfQos(pl, to_parameter_list(e.qos)),
           EndpointMandatory \subseteq DOMAIN pl,
           \A m \in EndpointMandatory : pl[m] = <<e[m]>>,
           \A m \in EndpointOptional : (m \in DOMAIN pl <=> e[m] # <<>>)
                                       /\ (m \in DOMAIN pl => pl[m] = e[m])
    PROVE  endpoint_from_parameter_list(pl) = Part(e, EndpointMembers)
<1> DEFINE f1 == ReadFirst(pl, EndpointMandatory)
           f2 == ReadAll(pl, EndpointLocators)
           f3 == ReadOptions(pl, EndpointOptions)
           f4 == [m \in RpcOptions |-> <<>>]
           f5 == [qos |-> set_qos(from_parameter_list(pl))]
<1>1. endpoint_from_parameter_list(pl) = (((f1 ++ f2) ++ f3) ++ f4) ++ f5
      BY Zenon DEF endpoint_from_parameter_list
<1>2. set_qos(from_parameter_list(pl)) = e.qos
      BY ReadBack, SetQos DEF IsEndpointData
<1>3. f1 = Part(e, EndpointMandatory)
      BY DEF ReadFirst, Part
<1>4. f2 = Part(e, EndpointLocators)
      <2>1. \A m \in EndpointLocators : get_all_from_pl_map(pl, m) = e[m]
            BY DEF EndpointOptional, get_all_from_pl_map
      <2> QED  BY <2>1 DEF ReadAll, Part
<1>5. f3 = Part(e, EndpointOptions)
      <2>1. ASSUME NEW m \in EndpointOptions PROVE get_option_from_pl_map(pl, m) = e[m]
            <3>1. m \in EndpointOptional /\ IsOption(e[m])
                  BY DEF EndpointOptional, IsEndpointData
            <3> QED  BY <3>1, OptionReadBack
      <2> QED  BY <2>1 DEF ReadOptions, Part
<1>6. f4 = Part(e, RpcOptions)
      BY DEF IsEndpointData, Part
<1>7. f5 = Part(e, {"qos"})
      BY <1>2 DEF Part
<1> HIDE DEF f1, f2, f3, f4, f5
<1>8. (((f1 ++ f2) ++ f3) ++ f4) ++ f5
         = Part(e, (((EndpointMandatory \cup EndpointLocators) \cup EndpointOptions)
                      \cup RpcOptions) \cup {"qos"})
      <2>1. f1 ++ f2 = Part(e, EndpointMandatory \cup EndpointLocators)
            BY <1>3, <1>4, JoinOf
      <2>2. (f1 ++ f2) ++ f3
               = Part(e, (EndpointMandatory \cup EndpointLocators) \cup EndpointOptions)
            BY <1>5, <2>1, JoinOf
      <2>3. ((f1 ++ f2) ++ f3) ++ f4
               = Part(e, ((EndpointMandatory \cup EndpointLocators) \cup EndpointOptions)
                            \cup RpcOptions)
            BY <1>6, <2>2, JoinOf
      <2> QED  BY <1>7, <2>3, JoinOf
<1>9. (((EndpointMandatory \cup EndpointLocators) \cup EndpointOptions) \cup RpcOptions)
         \cup {"qos"} = EndpointMembers
      BY DEF EndpointMembers, EndpointOptional
<1> QED  BY <1>1, <1>8, <1>9

\* What is read of a Reader's announcement is what was announced.
LEMMA ReaderReadBack ==
    ASSUME NEW r, IsReaderData(r)
    PROVE  reader_from_parameter_list(reader_to_parameter_list(r)) = {r}
<1> DEFINE pl == reader_to_parameter_list(r)
           f1 == endpoint_from_parameter_list(pl)
           f2 == ReadFirst(pl, {"expects_inline_qos"} \cap DOMAIN pl)
           f3 == [expects_inline_qos |-> FALSE]
           f4 == ReadOptions(pl, {"content_filter"})
<1>1. reader_from_parameter_list(pl)
         = IF EndpointMandatory \subseteq DOMAIN pl THEN {((f1 ++ f2) ++ f3) ++ f4} ELSE {}
      BY Zenon DEF reader_from_parameter_list, Read
<1>2. IsEndpointData(r) /\ IsQos(r.qos)
      BY SetQos DEF IsReaderData, IsEndpointData
<1>3. /\ SaysOfQos(pl, to_parameter_list(r.qos))
      /\ EndpointMandatory \cup {"expects_inline_qos"} \subseteq DOMAIN pl
      /\ \A m \in EndpointMandatory \cup {"expects_inline_qos"} : pl[m] = <<r[m]>>
      /\ \A m \in EndpointOptional \cup {"content_filter"} :
            (m \in DOMAIN pl <=> r[m] # <<>>) /\ (m \in DOMAIN pl => pl[m] = r[m])
      BY <1>2, ReaderList
<1> HIDE DEF pl
<1>4. f1 = Part(r, EndpointMembers)
      BY <1>2, <1>3, EndpointReadBack
<1>5. f2 = Part(r, {"expects_inline_qos"})
      BY <1>3 DEF ReadFirst, Part
<1>6. f4 = Part(r, {"content_filter"})
      <2>1. get_option_from_pl_map(pl, "content_filter") = r["content_filter"]
            BY <1>3, OptionReadBack DEF IsReaderData
      <2> QED  BY <2>1 DEF ReadOptions, Part
<1> HIDE DEF f1, f2, f4
<1>7. f1 ++ f2 = Part(r, EndpointMembers \cup {"expects_inline_qos"})
      BY <1>4, <1>5, JoinOf, Zenon
<1>8. (f1 ++ f2) ++ f3 = f1 ++ f2
      BY <1>7 DEF ++, Part
<1>9. (f1 ++ f2) ++ f4
         = Part(r, (EndpointMembers \cup {"expects_inline_qos"}) \cup {"content_filter"})
      BY <1>6, <1>7, JoinOf
<1>10. (EndpointMembers \cup {"expects_inline_qos"}) \cup {"content_filter"}
         = EndpointMembers \cup {"expects_inline_qos", "content_filter"}
      OBVIOUS
<1>11. ((f1 ++ f2) ++ f3) ++ f4 = r
      BY <1>8, <1>9, <1>10, Zenon DEF IsReaderData, Part
<1> QED  BY <1>1, <1>3, <1>11 DEF pl

\* The same of a Writer's.
LEMMA WriterReadBack ==
    ASSUME NEW w, IsWriterData(w)
    PROVE  writer_from_parameter_list(writer_to_parameter_list(w)) = {w}
<1> DEFINE pl == writer_to_parameter_list(w)
           f1 == endpoint_from_parameter_list(pl)
           f2 == ReadOptions(pl, {"data_max_size_serialized"})
<1>1. writer_from_parameter_list(pl)
         = IF EndpointMandatory \subseteq DOMAIN pl THEN {f1 ++ f2} ELSE {}
      BY Zenon DEF writer_from_parameter_list, Read
<1>2. IsEndpointData(w) /\ IsQos(w.qos)
      BY SetQos DEF IsWriterData, IsEndpointData
<1>3. /\ SaysOfQos(pl, to_parameter_list(w.qos))
      /\ EndpointMandatory \subseteq DOMAIN pl
      /\ \A m \in EndpointMandatory : pl[m] = <<w[m]>>
      /\ \A m \in EndpointOptional \cup {"data_max_size_serialized"} :
            (m \in DOMAIN pl <=> w[m] # <<>>) /\ (m \in DOMAIN pl => pl[m] = w[m])
      BY <1>2, WriterList
<1> HIDE DEF pl
<1>4. f1 = Part(w, EndpointMembers)
      BY <1>2, <1>3, EndpointReadBack
<1>5. f2 = Part(w, {"data_max_size_serialized"})
      <2>1. get_option_from_pl_map(pl, "data_max_size_serialized") = w["data_max_size_serialized"]
            BY <1>3, OptionReadBack DEF IsWriterData
      <2> QED  BY <2>1 DEF ReadOptions, Part
<1> HIDE DEF f1, f2
<1>6. f1 ++ f2 = Part(w, EndpointMembers \cup {"data_max_size_serialized"})
      BY <1>4, <1>5, JoinOf, Zenon
<1>7. f1 ++ f2 = w
      BY <1>6, Zenon DEF IsWriterData, Part
<1> QED  BY <1>1, <1>3, <1>7 DEF pl

\* And of what a participant says of itself.
ParticipantOptional == ParticipantLocators \cup ParticipantOptions
ParticipantSingle == ParticipantMandatory \cup ParticipantDefaulted
IsParticipantData(p) ==
    /\ p = Part(p, ParticipantSingle \cup ParticipantOptional)
    /\ \A m \in ParticipantOptions : IsOption(p[m])

LEMMA ParticipantReadBack ==
    ASSUME NEW p, IsParticipantData(p)
    PROVE  participant_from_parameter_list(participant_to_parameter_list(p)) = {p}
<1> DEFINE pl == participant_to_parameter_list(p)
           first == Emit(p, ParticipantSingle)
           second == EmitOptions(p, ParticipantOptional)
           f1 == ReadFirst(pl, ParticipantMandatory)
           f2 == ReadFirst(pl, ParticipantDefaulted \cap DOMAIN pl)
           f3 == [expects_inline_qos |-> FALSE, manual_liveliness_count |-> 0]
           f4 == ReadAll(pl, ParticipantLocators)
           f5 == ReadOptions(pl, ParticipantOptions)
<1>1. pl = first ++ second
      BY Zenon DEF participant_to_parameter_list, ParticipantSingle, ParticipantOptional
<1>2. participant_from_parameter_list(pl)
         = IF ParticipantMandatory \subseteq DOMAIN pl
           THEN {(((f1 ++ f2) ++ f3) ++ f4) ++ f5} ELSE {}
      BY Zenon DEF participant_from_parameter_list, Read
<1>3. /\ DOMAIN first = ParticipantSingle /\ \A m \in ParticipantSingle : first[m] = <<p[m]>>
      /\ DOMAIN second = {m \in ParticipantOptional : p[m] # <<>>}
      /\ \A m \in DOMAIN second : second[m] = p[m]
      BY EmittedDomains
<1>4. ParticipantSingle \cap ParticipantOptional = {}
      BY DEF ParticipantSingle, ParticipantOptional, ParticipantMandatory, ParticipantDefaulted,
             ParticipantLocators, ParticipantOptions, SecurityMembers
<1> HIDE DEF first, second, pl
<1>5. /\ ParticipantSingle \subseteq DOMAIN pl
      /\ \A m \in ParticipantSingle : pl[m] = <<p[m]>>
      /\ \A m \in ParticipantOptional :
            (m \in DOMAIN pl <=> p[m] # <<>>) /\ (m \in DOMAIN pl => pl[m] = p[m])
      BY <1>1, <1>3, <1>4 DEF ++
<1>6. f1 = Part(p, ParticipantMandatory) /\ f2 = Part(p, ParticipantDefaulted)
      <2>1. ParticipantDefaulted \cap DOMAIN pl = ParticipantDefaulted
            BY <1>5 DEF ParticipantSingle
      <2> QED  BY <1>5, <2>1 DEF ReadFirst, Part, ParticipantSingle
<1>7. f4 = Part(p, ParticipantLocators)
      <2>1. \A m \in ParticipantLocators : get_all_from_pl_map(pl, m) = p[m]
            BY <1>5 DEF ParticipantOptional, get_all_from_pl_map
      <2> QED  BY <2>1 DEF ReadAll, Part
<1>8. f5 = Part(p, ParticipantOptions)
      <2>1. ASSUME NEW m \in ParticipantOptions PROVE get_option_from_pl_map(pl, m) = p[m]
            <3>1. m \in ParticipantOptional /\ IsOption(p[m])
                  BY DEF ParticipantOptional, IsParticipantData
            <3> QED  BY <1>5, <3>1, OptionReadBack
      <2> QED  BY <2>1 DEF ReadOptions, Part
<1> HIDE DEF f1, f2, f4, f5
<1>9. f1 ++ f2 = Part(p, ParticipantSingle)
      BY <1>6, JoinOf DEF ParticipantSingle
<1>10. (f1 ++ f2) ++ f3 = f1 ++ f2
      BY <1>9 DEF ++, Part, ParticipantSingle, ParticipantDefaulted
<1>11. (f1 ++ f2) ++ f4 = Part(p, ParticipantSingle \cup ParticipantLocators)
      BY <1>7, <1>9, JoinOf
<1>12. ((f1 ++ f2) ++ f4) ++ f5
         = Part(p, (ParticipantSingle \cup ParticipantLocators) \cup ParticipantOptions)
      BY <1>8, <1>11, JoinOf
<1>13. (ParticipantSingle \cup ParticipantLocators) \cup ParticipantOptions
         = ParticipantSingle \cup ParticipantOptional
      BY DEF ParticipantOptional
<1>14. (((f1 ++ f2) ++ f3) ++ f4) ++ f5 = p
      BY <1>10, <1>12, <1>13, Zenon DEF IsParticipantData
<1>15. ParticipantMandatory \subseteq DOMAIN pl
      BY <1>5 DEF ParticipantSingle
<1> QED  BY <1>2, <1>14, <1>15, Zenon DEF pl

\* The participant itself is such a thing, with or without security.
LEMMA LocalParticipant ==
    ASSUME NEW guid, NEW locators, locators = Part(locators, ParticipantLocators),
           NEW security, IsOption(security), NEW lease
    PROVE  IsParticipantData(from_local_participant(guid, locators, security, lease))
<1> DEFINE f1 == [protocol_version |-> "2.3",
                  vendor_id |-> "this",
                  participant_guid |-> guid,
                  available_builtin_endpoints |->
                     BuiltinEndpoints \cup IF security = <<>> THEN {} ELSE SecureBuiltinEndpoints,
                  expects_inline_qos |-> FALSE,
                  manual_liveliness_count |-> 0,
                  lease_duration |-> <<lease>>,
                  builtin_endpoint_qos |-> <<>>,
                  entity_name |-> <<>>]
           tokens == [m \in SecurityMembers |-> [i \in DOMAIN security |-> security[i][m]]]
           p == from_local_participant(guid, locators, security, lease)
           Own == {"lease_duration", "builtin_endpoint_qos", "entity_name"}
<1>1. p = (f1 ++ locators) ++ tokens
      BY Zenon DEF from_local_participant
<1>2. /\ DOMAIN f1 = ParticipantSingle \cup Own
      /\ f1["lease_duration"] = <<lease>> /\ f1["builtin_endpoint_qos"] = <<>>
      /\ f1["entity_name"] = <<>>
      BY DEF ParticipantSingle, ParticipantMandatory, ParticipantDefaulted
<1>3. DOMAIN locators = ParticipantLocators
      BY DEF Part
<1>4. DOMAIN tokens = SecurityMembers /\ \A m \in SecurityMembers : IsOption(tokens[m])
      <2>1. CASE security = <<>>
            BY <2>1 DEF IsOption
      <2>2. ASSUME NEW x, security = <<x>> PROVE \A m \in SecurityMembers : tokens[m] = <<x[m]>>
            BY <2>2
      <2> QED  BY <2>1, <2>2 DEF IsOption
<1>5. /\ (ParticipantSingle \cup Own) \cap SecurityMembers = {}
      /\ ParticipantLocators \cap (SecurityMembers \cup Own) = {}
      BY DEF ParticipantSingle, ParticipantMandatory, ParticipantDefaulted, ParticipantLocators,
             SecurityMembers
<1> HIDE DEF f1, tokens, p, Own
<1>6. /\ DOMAIN p = (DOMAIN f1 \cup DOMAIN locators) \cup DOMAIN tokens
      /\ p = [m \in DOMAIN p |-> p[m]]
      /\ \A m \in DOMAIN f1 : p[m] = f1[m]
      /\ \A m \in DOMAIN tokens \ (DOMAIN f1 \cup DOMAIN locators) : p[m] = tokens[m]
      BY <1>1 DEF ++
<1>7. DOMAIN p = ParticipantSingle \cup ParticipantOptional
      BY <1>2, <1>3, <1>4, <1>6 DEF ParticipantOptional, ParticipantOptions, Own
<1>8. ASSUME NEW m \in ParticipantOptions PROVE IsOption(p[m])
      <2>1. CASE m \in SecurityMembers
            <3>1. p[m] = tokens[m]
                  BY <1>2, <1>3, <1>4, <1>5, <1>6, <2>1
            <3> QED  BY <1>4, <2>1, <3>1
      <2>2. CASE m \in Own
            <3>1. p[m] = f1[m]
                  BY <1>2, <1>6, <2>2
            <3> QED  BY <1>2, <2>2, <3>1 DEF IsOption, Own
      <2> QED  BY <2>1, <2>2 DEF ParticipantOptions, Own
<1> QED  BY <1>6, <1>7, <1>8 DEF IsParticipantData, Part, p

----------------------------------------------------------------------------
(* The decisions *)

\* Of the Readers and Writers of this participant the same can be said.
LEMMA LocalReader ==
    ASSUME NEW guid, NEW dp, NEW topic, NEW type, NEW q, IsQos(q), NEW info, IsOption(info)
    PROVE  LET r == local_reader_data(guid, dp, topic, type, q, info)
           IN  IsReaderData(r) /\ r.qos = set_qos(q)
<1> DEFINE r == local_reader_data(guid, dp, topic, type, q, info)
<1>1. /\ DOMAIN r = {"endpoint_guid", "participant_guid", "topic_name", "type_name", "qos",
                     "security_info", "unicast_locators", "multicast_locators",
                     "expects_inline_qos", "content_filter"} \cup RpcOptions
      /\ r = [m \in DOMAIN r |-> r[m]]
      /\ r.qos = set_qos(q) /\ r["security_info"] = info
      /\ r["participant_guid"] = <<dp.participant_guid>> /\ r["content_filter"] = <<>>
      /\ \A m \in RpcOptions : r[m] = <<>>
      BY DEF local_reader_data, BuiltinTopicData, ++, RpcOptions
<1> HIDE DEF r
<1>2. DOMAIN r = EndpointMembers \cup {"expects_inline_qos", "content_filter"}
      BY <1>1 DEF EndpointMembers, EndpointMandatory, EndpointOptional, EndpointLocators, EndpointOptions
<1>3. IsEndpointData(r)
      BY <1>1 DEF IsEndpointData, EndpointOptions, IsOption
<1>4. IsOption(r["content_filter"])
      BY <1>1 DEF IsOption
<1> QED  BY <1>1, <1>2, <1>3, <1>4 DEF IsReaderData, r

LEMMA LocalWriter ==
    ASSUME NEW guid, NEW dp, NEW topic, NEW type, NEW q, IsQos(q), NEW info, IsOption(info)
    PROVE  LET w == local_writer_data(guid, dp, topic, type, q, info)
           IN  IsWriterData(w) /\ w.qos = set_qos(q)
<1> DEFINE w == local_writer_data(guid, dp, topic, type, q, info)
<1>1. /\ DOMAIN w = {"endpoint_guid", "participant_guid", "topic_name", "type_name", "qos",
                     "security_info", "unicast_locators", "multicast_locators",
                     "data_max_size_serialized"} \cup RpcOptions
      /\ w = [m \in DOMAIN w |-> w[m]]
      /\ w.qos = set_qos(q) /\ w["security_info"] = info
      /\ w["participant_guid"] = <<dp.participant_guid>> /\ w["data_max_size_serialized"] = <<>>
      /\ \A m \in RpcOptions : w[m] = <<>>
      BY DEF local_writer_data, BuiltinTopicData, ++, RpcOptions
<1> HIDE DEF w
<1>2. DOMAIN w = EndpointMembers \cup {"data_max_size_serialized"}
      BY <1>1 DEF EndpointMembers, EndpointMandatory, EndpointOptional, EndpointLocators, EndpointOptions
<1>3. IsEndpointData(w)
      BY <1>1 DEF IsEndpointData, EndpointOptions, IsOption
<1>4. IsOption(w["data_max_size_serialized"])
      BY <1>1 DEF IsOption
<1> QED  BY <1>1, <1>2, <1>3, <1>4 DEF IsWriterData, w

\* And of topics, with and without a key.
LEMMA TopicReadBack ==
    ASSUME NEW key, IsOption(key), NEW name, NEW type, NEW q, IsQos(q)
    PROVE  LET t == TopicBuiltinTopicData(key, name, type, q)
           IN  topic_from_parameter_list(topic_to_parameter_list(t)) = {t}
<1> DEFINE t == TopicBuiltinTopicData(key, name, type, q)
           k == [p \in DOMAIN q \cap TopicPolicies |-> q[p]]
           first == Emit(t, {"topic_name", "type_name"})
           second == EmitOptions(t, {"endpoint_guid"})
           tp == to_parameter_list(t.qos)
           pl == topic_to_parameter_list(t)
           P == Policies \cup {"ownership_strength"}
<1>1. pl = (first ++ second) ++ tp
      BY Zenon DEF topic_to_parameter_list
<1>2. /\ t.qos = k /\ t["endpoint_guid"] = key /\ t["topic_name"] = name /\ t["type_name"] = type
      /\ t = [endpoint_guid |-> key, topic_name |-> name, type_name |-> type, qos |-> k]
      BY DEF TopicBuiltinTopicData
<1>3. IsQos(k) /\ Sent(k) = k
      <2>1. DOMAIN k = DOMAIN q \cap TopicPolicies /\ \A p \in DOMAIN k : k[p] = q[p]
            OBVIOUS
      <2>2. k = [p \in DOMAIN k |-> k[p]]
            OBVIOUS
      <2>3. "property" \notin TopicPolicies
            BY DEF TopicPolicies
      <2> HIDE DEF k
      <2> QED  BY <2>1, <2>2, <2>3 DEF IsQos, Sent
<1>4. [p \in DOMAIN k \cap TopicPolicies |-> k[p]] = k
      OBVIOUS
<1>5. DOMAIN tp \subseteq P
      BY <1>2, <1>3, QosDomain
<1>6. /\ DOMAIN first = {"topic_name", "type_name"}
      /\ first["topic_name"] = <<name>> /\ first["type_name"] = <<type>>
      /\ DOMAIN second = {m \in {"endpoint_guid"} : key # <<>>}
      /\ \A m \in DOMAIN second : second[m] = key
      <2> HIDE DEF t, k
      <2>1. t["endpoint_guid"] = key /\ t["topic_name"] = name /\ t["type_name"] = type
            BY <1>2
      <2> QED  BY <2>1 DEF Emit, EmitOptions
<1>7. {"topic_name", "type_name", "endpoint_guid"} \cap P = {}
      BY NamesApart DEF AllMembers, EndpointMandatory
<1> HIDE DEF first, second, tp, pl, P, t, k
<1>8. /\ DOMAIN pl = (DOMAIN first \cup DOMAIN second) \cup DOMAIN tp
      /\ \A m \in DOMAIN first : pl[m] = first[m]
      /\ \A m \in DOMAIN second \ DOMAIN first : pl[m] = second[m]
      /\ \A m \in DOMAIN tp \ (DOMAIN first \cup DOMAIN second) : pl[m] = tp[m]
      BY <1>1 DEF ++
<1>9. SaysOfQos(pl, tp)
      BY <1>5, <1>6, <1>7, <1>8 DEF SaysOfQos, P
<1>10. from_parameter_list(pl) = k
      BY <1>2, <1>3, <1>9, ReadBack DEF tp
<1>11. /\ {"topic_name", "type_name"} \subseteq DOMAIN pl
       /\ Head(pl["topic_name"]) = name /\ Head(pl["type_name"]) = type
      BY <1>6, <1>8
<1>12. get_option_from_pl_map(pl, "endpoint_guid") = key
      <2>1. ("endpoint_guid" \in DOMAIN pl <=> key # <<>>)
               /\ ("endpoint_guid" \in DOMAIN pl => pl["endpoint_guid"] = key)
            BY <1>5, <1>6, <1>7, <1>8
      <2> QED  BY <2>1, OptionReadBack
<1>13. topic_from_parameter_list(pl) = {TopicBuiltinTopicData(key, name, type, k)}
      BY <1>10, <1>11, <1>12 DEF topic_from_parameter_list, Read
<1>14. TopicBuiltinTopicData(key, name, type, k) = t
      BY <1>2, <1>4, Zenon DEF TopicBuiltinTopicData
<1> QED  BY <1>13, <1>14 DEF pl, t

\* What a participant announces of itself, its Readers, Writers and topics is
\* what the others read, whatever its locators, tokens and QoS: no parameter is
\* lost, takes another's place or comes back changed, also not where one policy
\* becomes two parameters (qos.rs:433-620, sedp_messages.rs,
\* spdp_participant_data.rs).
THEOREM AnnouncementsComeBack ==
    ASSUME NEW guid, NEW locators, locators = Part(locators, ParticipantLocators),
           NEW tokens, IsOption(tokens), NEW lease,
           NEW id, NEW topic, NEW type, NEW q, IsQos(q), NEW info, IsOption(info)
    PROVE  LET dp == from_local_participant(guid, locators, tokens, lease)
               r == local_reader_data(id, dp, topic, type, q, info)
               w == local_writer_data(id, dp, topic, type, q, info)
           IN  /\ participant_from_parameter_list(participant_to_parameter_list(dp)) = {dp}
               /\ reader_from_parameter_list(reader_to_parameter_list(r)) = {r}
               /\ writer_from_parameter_list(writer_to_parameter_list(w)) = {w}
               /\ topic_from_parameter_list(topic_to_parameter_list(to_topic_data(w)))
                     = {to_topic_data(w)}
<1> DEFINE dp == from_local_participant(guid, locators, tokens, lease)
           r == local_reader_data(id, dp, topic, type, q, info)
           w == local_writer_data(id, dp, topic, type, q, info)
<1>1. participant_from_parameter_list(participant_to_parameter_list(dp)) = {dp}
      BY LocalParticipant, ParticipantReadBack
<1> HIDE DEF dp
<1>2. reader_from_parameter_list(reader_to_parameter_list(r)) = {r}
      BY LocalReader, ReaderReadBack
<1>3. writer_from_parameter_list(writer_to_parameter_list(w)) = {w}
      BY LocalWriter, WriterReadBack
<1>4. topic_from_parameter_list(topic_to_parameter_list(to_topic_data(w))) = {to_topic_data(w)}
      <2>1. IsQos(w.qos)
            BY LocalWriter, SetQos
      <2>2. IsOption(<<>>)
            BY DEF IsOption
      <2> HIDE DEF w
      <2> QED  BY <2>1, <2>2, TopicReadBack DEF to_topic_data
<1> QED  BY <1>1, <1>2, <1>3, <1>4 DEF dp

\* A QoS modified by another is a QoS.
LEMMA Modified ==
    ASSUME NEW q, IsQos(q), NEW other, IsQos(other)
    PROVE  IsQos(modify_by(q, other))
<1> DEFINE n == modify_by(q, other)
<1>1. /\ DOMAIN n = DOMAIN other \cup DOMAIN q
      /\ n = [p \in DOMAIN n |-> n[p]]
      /\ \A p \in DOMAIN n : (n[p] = other[p] /\ p \in DOMAIN other) \/ (n[p] = q[p] /\ p \in DOMAIN q)
      BY DEF modify_by, ++
<1> HIDE DEF n
<1>2. DOMAIN n \subseteq Policies
      BY <1>1 DEF IsQos
<1>3. "ownership" \in DOMAIN n =>
          \/ n.ownership = [kind |-> "Shared"]
          \/ \E strength : n.ownership = [kind |-> "Exclusive", strength |-> strength]
      BY <1>1 DEF IsQos
<1>4. "reliability" \in DOMAIN n =>
          \/ n.reliability = [kind |-> "BestEffort"]
          \/ \E time : n.reliability = [kind |-> "Reliable", max_blocking_time |-> time]
      BY <1>1 DEF IsQos
<1>5. "history" \in DOMAIN n =>
          \/ n.history = [kind |-> "KeepAll"]
          \/ \E depth : n.history = [kind |-> "KeepLast", depth |-> depth]
      BY <1>1 DEF IsQos
<1> QED  BY <1>1, <1>2, <1>3, <1>4, <1>5, Zenon DEF IsQos, n

\* The empty QoS modifies nothing.
LEMMA NoneChanges ==
    ASSUME NEW q, IsQos(q)
    PROVE  modify_by(q, qos_none) = q /\ modify_by(qos_none, q) = q
<1>1. q = [p \in DOMAIN q |-> q[p]]
      BY DEF IsQos
<1>2. DOMAIN qos_none = {}
      BY DEF qos_none
<1>3. /\ modify_by(q, qos_none) = [p \in DOMAIN q |-> q[p]]
      /\ modify_by(qos_none, q) = [p \in DOMAIN q |-> q[p]]
      BY <1>2 DEF modify_by, ++
<1> QED  BY <1>1, <1>3

\* Compliance does not depend on the policies that are not announced.
LEMMA ComplianceOfAnnounced ==
    ASSUME NEW off, NEW req
    PROVE  compliance_failure_wrt(off, set_qos(req)) = compliance_failure_wrt(set_qos(off), req)
<1> DEFINE I(a, b) == {i \in 1 .. Len(ComplianceOrder) :
                         /\ ComplianceOrder[i] \in DOMAIN a \cap DOMAIN b
                         /\ Fails(ComplianceOrder[i], a[ComplianceOrder[i]], b[ComplianceOrder[i]])}
           first(a, b) == IF I(a, b) # {} THEN Min(I(a, b)) ELSE 0
<1>1. \A a, b : compliance_failure_wrt(a, b) =
         IF first(a, b) = 0 THEN <<>> ELSE <<ComplianceOrder[first(a, b)]>>
      BY Zenon DEF compliance_failure_wrt, SelectInSeq
<1>2. ASSUME NEW i \in 1 .. Len(ComplianceOrder)
      PROVE  ComplianceOrder[i] \in EndpointPolicies
      BY DEF ComplianceOrder, EndpointPolicies, Policies, PlainPolicies
<1>3. \A q : /\ DOMAIN set_qos(q) = DOMAIN q \cap EndpointPolicies
             /\ \A p \in DOMAIN set_qos(q) : set_qos(q)[p] = q[p]
      BY DEF set_qos
<1>4. I(off, set_qos(req)) = I(set_qos(off), req)
      BY <1>2, <1>3
<1> QED  BY <1>1, <1>4, Zenon

\* Writer and Reader decide alike, down to the policy they report, whatever
\* the QoS of publisher, Writer and topics, if the Reader has none of its own
\* (Writer::update_reader_proxy, Reader::update_writer_proxy).
THEOREM DecisionsAlike ==
    ASSUME NEW s, IsQos(s.publisher), IsQos(s.topicW), IsQos(s.writer), IsQos(s.topicR),
           s.subscriber = qos_none, s.reader = qos_none
    PROVE  WriterDecision(s) = ReaderDecision(s)
<1> DEFINE r == local_reader_data("r", EndpointParticipant, "t", "type", s.topicR, <<>>)
           w == local_writer_data("w", EndpointParticipant, "t", "type", writer_qos(s), <<>>)
<1>1. IsOption(<<>>)
      BY DEF IsOption
<1>2. IsQos(writer_qos(s))
      BY Modified DEF writer_qos, datawriter_qos
<1>3. reader_qos(s) = s.topicR
      BY NoneChanges DEF reader_qos, datareader_qos
<1>4. IsReaderData(r) /\ r.qos = set_qos(s.topicR)
      BY <1>1, LocalReader
<1>5. IsWriterData(w) /\ w.qos = set_qos(writer_qos(s))
      BY <1>1, <1>2, LocalWriter
<1> HIDE DEF r, w
<1>6. WriterDecision(s) = {update_reader_proxy(writer_qos(s), r)}
      BY <1>4, ReaderReadBack DEF WriterDecision, r
<1>7. ReaderDecision(s) = {update_writer_proxy(reader_qos(s), w)}
      BY <1>5, WriterReadBack DEF ReaderDecision, w
<1> QED  BY <1>3, <1>4, <1>5, <1>6, <1>7, ComplianceOfAnnounced DEF update_reader_proxy, update_writer_proxy

\* No value comes before itself.
LEMMA NotLessThanItself ==
    ASSUME NEW a
    PROVE  /\ ~Less(Durability, a, a) /\ ~Less(PresentationAccessScope, a, a)
           /\ ~Less(ReliabilityKind, a, a) /\ ~Less(DestinationOrder, a, a)
BY DEF Less, Durability, PresentationAccessScope, ReliabilityKind, DestinationOrder

\* A QoS complies with itself, and with the one that asks for best effort instead.
LEMMA SelfComplies ==
    ASSUME NEW q, NEW r,
           DOMAIN r = DOMAIN q,
           \A p \in DOMAIN q : p # "reliability" => r[p] = q[p],
           "reliability" \in DOMAIN q =>
              r["reliability"].kind \in {q["reliability"].kind, "BestEffort"},
           \A p \in {"deadline", "latency_budget"} : p \in DOMAIN q => q[p] \in Int,
           "liveliness" \in DOMAIN q =>
              q["liveliness"].kind = "Automatic" /\ q["liveliness"].lease_duration \in Int
    PROVE  compliance_failure_wrt(q, r) = <<>>
<1> DEFINE I == {i \in 1 .. Len(ComplianceOrder) :
                         /\ ComplianceOrder[i] \in DOMAIN q \cap DOMAIN r
                         /\ Fails(ComplianceOrder[i], q[ComplianceOrder[i]], r[ComplianceOrder[i]])}
           first == IF I # {} THEN Min(I) ELSE 0
<1>1. compliance_failure_wrt(q, r) = IF first = 0 THEN <<>> ELSE <<ComplianceOrder[first]>>
      BY Zenon DEF compliance_failure_wrt, SelectInSeq
<1>2. ASSUME NEW p \in {"durability", "presentation", "deadline", "latency_budget", "ownership",
                        "liveliness", "destination_order"}, p \in DOMAIN q
      PROVE  ~Fails(p, q[p], q[p])
      <2>1. CASE p = "durability"
            BY <2>1, NotLessThanItself DEF Fails
      <2>2. CASE p = "presentation"
            BY <2>2, NotLessThanItself DEF Fails
      <2>3. CASE p \in {"deadline", "latency_budget"}
            <3>1. q[p] \in Int
                  BY <1>2, <2>3
            <3>2. Fails(p, q[p], q[p]) <=> q[p] > q[p]
                  BY <2>3 DEF Fails
            <3> QED  BY <3>1, <3>2
      <2>4. CASE p = "ownership"
            BY <2>4 DEF Fails
      <2>5. CASE p = "liveliness"
            <3> DEFINE l == q["liveliness"]
                       n == CHOOSE i \in DOMAIN LivelinessKind : LivelinessKind[i] = l.kind
            <3>1. l.kind = "Automatic" /\ l.lease_duration \in Int
                  BY <1>2, <2>5
            <3>2. n \in DOMAIN LivelinessKind /\ DOMAIN LivelinessKind = 1 .. 3
                  <4>1. 1 \in DOMAIN LivelinessKind /\ LivelinessKind[1] = "Automatic"
                           /\ DOMAIN LivelinessKind = 1 .. 3
                        BY DEF LivelinessKind
                  <4> HIDE DEF l
                  <4>2. \E i \in DOMAIN LivelinessKind : LivelinessKind[i] = l.kind
                        BY <3>1, <4>1
                  <4> QED  BY <4>1, <4>2, Zenon
            <3>3. LivelinessLess(l, l) <=> n < n \/ (n = n /\ l.lease_duration > l.lease_duration)
                  <4> HIDE DEF l
                  <4> QED  BY DEF LivelinessLess
            <3> HIDE DEF l, n
            <3>4. ~LivelinessLess(l, l)
                  BY <3>1, <3>2, <3>3
            <3>5. Fails(p, l, l) <=> LivelinessLess(l, l)
                  BY <2>5 DEF Fails
            <3> QED  BY <2>5, <3>4, <3>5 DEF l
      <2>6. CASE p = "destination_order"
            BY <2>6, NotLessThanItself DEF Fails
      <2> QED  BY <2>1, <2>2, <2>3, <2>4, <2>5, <2>6
<1>3. ASSUME "reliability" \in DOMAIN q
      PROVE  ~Fails("reliability", q["reliability"], r["reliability"])
      <2> DEFINE off == q["reliability"].kind
                 req == r["reliability"].kind
      <2>1. Fails("reliability", q["reliability"], r["reliability"])
               <=> Less(ReliabilityKind, off, req)
            BY DEF Fails
      <2>2. req = off \/ req = "BestEffort"
            BY <1>3, Zenon
      <2> HIDE DEF off, req
      <2>3. ~Less(ReliabilityKind, off, off) /\ ~Less(ReliabilityKind, off, "BestEffort")
            BY NotLessThanItself DEF Less, ReliabilityKind
      <2> QED  BY <2>1, <2>2, <2>3, Zenon
<1>4. \A i \in 1 .. Len(ComplianceOrder) :
         ComplianceOrder[i] \in {"durability", "presentation", "deadline", "latency_budget",
                                 "ownership", "liveliness", "reliability", "destination_order"}
      BY DEF ComplianceOrder
<1>5. ASSUME NEW p \in {"durability", "presentation", "deadline", "latency_budget",
                        "ownership", "liveliness", "reliability", "destination_order"},
             p \in DOMAIN q
      PROVE  ~Fails(p, q[p], r[p])
      <2>1. CASE p = "reliability"
            BY <1>3, <1>5, <2>1, Zenon
      <2>2. CASE p # "reliability"
            <3>1. r[p] = q[p]
                  BY <1>5, <2>2
            <3> QED  BY <1>2, <1>5, <2>2, <3>1
      <2> QED  BY <2>1, <2>2
<1>6. I = {}
      BY <1>4, <1>5
<1> QED  BY <1>1, <1>6

\* The builtin endpoints of a topic have one QoS, which complies with itself and
\* with what the Writer takes the Reader's to be.
LEMMA BuiltinComplies ==
    ASSUME NEW opt \in BuiltinQosOptions
    PROVE  LET writer == builtin_writer_qos(opt)
               reader == builtin_reader_qos(opt)
           IN  /\ writer = reader
               /\ compliance_failure_wrt(writer, writer) = <<>>
               /\ \A best_effort \in BOOLEAN :
                     compliance_failure_wrt(writer, assumed_reader_qos(opt, best_effort)) = <<>>
<1> DEFINE writer == builtin_writer_qos(opt)
           reader == builtin_reader_qos(opt)
           Good(q) ==
              /\ \A p \in {"deadline", "latency_budget"} : p \in DOMAIN q => q[p] \in Int
              /\ "liveliness" \in DOMAIN q =>
                    q["liveliness"].kind = "Automatic" /\ q["liveliness"].lease_duration \in Int
<1>1. writer = reader
      BY Zenon DEF builtin_writer_qos, builtin_reader_qos, publisher_qos, datawriter_qos, datareader_qos
<1>2. ASSUME NEW q, Good(q), NEW other, Good(other)
      PROVE  Good(modify_by(q, other))
      <2>1. /\ DOMAIN modify_by(q, other) = DOMAIN other \cup DOMAIN q
            /\ \A p \in DOMAIN modify_by(q, other) :
                  \/ p \in DOMAIN other /\ modify_by(q, other)[p] = other[p]
                  \/ p \in DOMAIN q /\ modify_by(q, other)[p] = q[p]
            BY DEF modify_by, ++
      <2> DEFINE n == modify_by(q, other)
      <2> HIDE DEF n
      <2>2. /\ DOMAIN n = DOMAIN other \cup DOMAIN q
            /\ \A p \in DOMAIN n :
                  \/ p \in DOMAIN other /\ n[p] = other[p]
                  \/ p \in DOMAIN q /\ n[p] = q[p]
            BY <2>1, Zenon DEF n
      <2>3. \A p \in {"deadline", "latency_budget"} : p \in DOMAIN n => n[p] \in Int
            BY <1>2, <2>2
      <2>4. "liveliness" \in DOMAIN n =>
               n["liveliness"].kind = "Automatic" /\ n["liveliness"].lease_duration \in Int
            BY <1>2, <2>2, Zenon
      <2> QED  BY <2>3, <2>4, Zenon DEF n
<1>3. Good(subscriber_qos)
      BY DEF subscriber_qos, Infinite
<1>4. Good(qos_none)
      BY DEF qos_none
<1>5. opt # <<>> => Good(opt[1])
      <2>1. Good(create_spdp_participant_qos)
            BY DEF create_spdp_participant_qos
      <2>2. Good(create_participant_stateless_message_qos)
            BY <2>1 DEF create_participant_stateless_message_qos
      <2>3. Good(create_participant_volatile_message_secure_qos)
            BY DEF create_participant_volatile_message_secure_qos
      <2>4. Good(PARTICIPANT_MESSAGE_QOS)
            BY DEF PARTICIPANT_MESSAGE_QOS
      <2> HIDE DEF Good
      <2> QED  BY <2>1, <2>2, <2>3, <2>4 DEF BuiltinQosOptions
<1> HIDE DEF Good
<1>6. Good(reader)
      <2>1. CASE opt = <<>>
            <3>1. reader = modify_by(modify_by(subscriber_qos, subscriber_qos), qos_none)
                  BY <2>1, Zenon DEF builtin_reader_qos, datareader_qos
            <3>2. Good(modify_by(subscriber_qos, subscriber_qos))
                  BY <1>2, <1>3, Zenon
            <3>3. Good(modify_by(modify_by(subscriber_qos, subscriber_qos), qos_none))
                  BY <1>2, <1>4, <3>2, Zenon
            <3> QED  BY <3>1, <3>3, Zenon
      <2>2. CASE opt # <<>>
            <3>1. reader = modify_by(modify_by(subscriber_qos, opt[1]), opt[1])
                  BY <2>2, Zenon DEF builtin_reader_qos, datareader_qos
            <3>2. Good(modify_by(subscriber_qos, opt[1]))
                  BY <1>2, <1>3, <1>5, <2>2, Zenon
            <3>3. Good(modify_by(modify_by(subscriber_qos, opt[1]), opt[1]))
                  BY <1>2, <1>5, <2>2, <3>2, Zenon
            <3> QED  BY <3>1, <3>3, Zenon
      <2> QED  BY <2>1, <2>2
<1>7. ASSUME NEW best_effort \in BOOLEAN
      PROVE  \/ assumed_reader_qos(opt, best_effort) = writer
             \/ assumed_reader_qos(opt, best_effort)
                   = [writer EXCEPT !.reliability = [kind |-> "BestEffort"]]
      BY Zenon DEF assumed_reader_qos
<1> HIDE DEF reader, writer
<1>8. compliance_failure_wrt(reader, reader) = <<>>
      BY <1>6, SelfComplies DEF Good
<1>9. ASSUME NEW best_effort \in BOOLEAN
      PROVE  compliance_failure_wrt(writer, assumed_reader_qos(opt, best_effort)) = <<>>
      <2> DEFINE r == [writer EXCEPT !.reliability = [kind |-> "BestEffort"]]
      <2>1. /\ DOMAIN r = DOMAIN writer
            /\ \A p \in DOMAIN writer : p # "reliability" => r[p] = writer[p]
            /\ "reliability" \in DOMAIN writer => r["reliability"].kind = "BestEffort"
            OBVIOUS
      <2> HIDE DEF r
      <2>2. compliance_failure_wrt(writer, r) = <<>>
            BY <1>1, <1>6, <2>1, SelfComplies DEF Good
      <2> QED  BY <1>1, <1>7, <1>8, <2>2 DEF r
<1> QED  BY <1>1, <1>8, <1>9 DEF reader, writer

\* Writer and Reader, and the builtin ones, decide alike, in whatever situations.
THEOREM EndpointsDecideAlike == Spec => []DecideAlike
<1>1. ASSUME NEW s \in Situations, s.subscriber = qos_none, s.reader = qos_none
      PROVE  WriterDecision(s) = ReaderDecision(s)
      <2>1. IsQos(s.publisher) /\ IsQos(s.topicW) /\ IsQos(s.writer) /\ IsQos(s.topicR)
            BY SituationsAssumption
      <2> QED  BY <1>1, <2>1, DecisionsAlike
<1>2. ASSUME NEW opt \in BuiltinQosOptions
      PROVE  LET writer == builtin_writer_qos(opt)
                 reader == builtin_reader_qos(opt)
             IN  /\ \A best_effort \in BOOLEAN :
                       update_reader_proxy(writer, [qos |-> assumed_reader_qos(opt, best_effort)])
                         = <<>>
                 /\ update_writer_proxy(reader, [qos |-> assumed_writer_qos(opt)]) = <<>>
                 /\ compliance_failure_wrt(writer, reader) = <<>>
      <2> DEFINE writer == builtin_writer_qos(opt)
                 reader == builtin_reader_qos(opt)
      <2>1. /\ writer = reader /\ compliance_failure_wrt(writer, writer) = <<>>
            /\ \A best_effort \in BOOLEAN :
                  compliance_failure_wrt(writer, assumed_reader_qos(opt, best_effort)) = <<>>
            BY BuiltinComplies
      <2>2. assumed_writer_qos(opt) = reader
            BY DEF assumed_writer_qos
      <2> HIDE DEF writer, reader
      <2>3. \A qos : [qos |-> qos].qos = qos
            OBVIOUS
      <2>4. \A best_effort \in BOOLEAN :
               update_reader_proxy(writer, [qos |-> assumed_reader_qos(opt, best_effort)]) = <<>>
            BY <2>1, <2>3 DEF update_reader_proxy
      <2>5. update_writer_proxy(reader, [qos |-> assumed_writer_qos(opt)]) = <<>>
            BY <2>1, <2>2, <2>3 DEF update_writer_proxy
      <2> QED  BY <2>1, <2>4, <2>5 DEF writer, reader
<1>3. DecideAlike
      BY <1>1, <1>2, Zenon DEF DecideAlike
<1> QED  BY <1>3, PTL

\* What the others make of a participant: secure or not, and where its builtin
\* endpoints and those of its endpoints that name no locators are reached.
LEMMA ParticipantIsReached ==
    ASSUME NEW dp \in LocalParticipants, NEW q, NEW info
    PROVE  LET Silent(data) == [data EXCEPT !.unicast_locators = <<>>, !.multicast_locators = <<>>]
               reader == local_reader_data("r", dp, "t", "type", q, info)
               writer == local_writer_data("w", dp, "t", "type", q, info)
           IN  /\ supports_security(dp)
                    <=> SecureBuiltinEndpoints \subseteq dp.available_builtin_endpoints
               /\ reader_proxy(Silent(reader), <<dp>>) = reader_proxy(reader, <<dp>>)
               /\ writer_proxy(Silent(writer), <<dp>>) = writer_proxy(writer, <<dp>>)
               /\ writer_proxy(Silent(writer), <<dp>>).unicast = dp.default_unicast_locators
               /\ ~topics_inconsistent(to_topic_data(reader), to_topic_data(writer))
<1>0. PICK locators \in Bindings, security \in Credentials :
         dp = from_local_participant("participant", locators, security, 10)
      BY DEF LocalParticipants
<1> DEFINE f1 == [protocol_version |-> "2.3",
                  vendor_id |-> "this",
                  participant_guid |-> "participant",
                  available_builtin_endpoints |->
                     BuiltinEndpoints \cup IF security = <<>> THEN {} ELSE SecureBuiltinEndpoints,
                  expects_inline_qos |-> FALSE,
                  manual_liveliness_count |-> 0,
                  lease_duration |-> <<10>>,
                  builtin_endpoint_qos |-> <<>>,
                  entity_name |-> <<>>]
           tokens == [m \in SecurityMembers |-> [i \in DOMAIN security |-> security[i][m]]]
           Silent(data) == [data EXCEPT !.unicast_locators = <<>>, !.multicast_locators = <<>>]
           reader == local_reader_data("r", dp, "t", "type", q, info)
           writer == local_writer_data("w", dp, "t", "type", q, info)
<1>1. dp = (f1 ++ locators) ++ tokens
      BY <1>0, Zenon DEF from_local_participant
<1>2. DOMAIN f1 = ParticipantSingle \cup {"lease_duration", "builtin_endpoint_qos", "entity_name"}
      BY DEF ParticipantSingle, ParticipantMandatory, ParticipantDefaulted
<1>3. f1.available_builtin_endpoints
         = BuiltinEndpoints \cup IF security = <<>> THEN {} ELSE SecureBuiltinEndpoints
      OBVIOUS
<1>4. DOMAIN locators = ParticipantLocators
      <2>1. locators = [m \in ParticipantLocators |-> locators[m]]
            BY AnnouncedAssumption
      <2> QED  BY <2>1
<1>5. DOMAIN tokens = SecurityMembers /\ \A m \in SecurityMembers : tokens[m] = <<>> <=> security = <<>>
      <2>1. CASE security = <<>>
            BY <2>1
      <2>2. ASSUME NEW x, security = <<x>> PROVE \A m \in SecurityMembers : tokens[m] = <<x[m]>>
            BY <2>2
      <2>3. security = <<>> \/ security = <<security[1]>>
            BY AnnouncedAssumption DEF IsOption
      <2> HIDE DEF tokens
      <2>4. ASSUME security = <<security[1]>>
            PROVE  security # <<>> /\ \A m \in SecurityMembers : tokens[m] # <<>>
            BY <2>2, <2>4
      <2>5. DOMAIN tokens = SecurityMembers
            BY DEF tokens
      <2> QED  BY <2>1, <2>3, <2>4, <2>5 DEF tokens
<1>6. (DOMAIN f1 \cup ParticipantLocators) \cap SecurityMembers = {}
      BY <1>2 DEF ParticipantSingle, ParticipantMandatory, ParticipantDefaulted, ParticipantLocators,
             SecurityMembers
<1> HIDE DEF f1, tokens
<1>7. /\ \A m \in DOMAIN f1 : dp[m] = f1[m]
      /\ \A m \in SecurityMembers : dp[m] = tokens[m]
      BY <1>1, <1>4, <1>5, <1>6 DEF ++
<1>8. dp.available_builtin_endpoints
         = BuiltinEndpoints \cup IF security = <<>> THEN {} ELSE SecureBuiltinEndpoints
      BY <1>2, <1>3, <1>7 DEF ParticipantSingle, ParticipantMandatory
<1>9. supports_security(dp) <=> SecureBuiltinEndpoints \subseteq dp.available_builtin_endpoints
      <2>1. supports_security(dp) <=> security # <<>>
            <3>1. "property" \in SecurityMembers
                  BY DEF SecurityMembers
            <3> QED  BY <1>5, <1>7, <3>1 DEF supports_security
      <2>2. "PARTICIPANT_SECURE" \in SecureBuiltinEndpoints \ BuiltinEndpoints
            BY DEF SecureBuiltinEndpoints, BuiltinEndpoints
      <2> QED  BY <1>8, <2>1, <2>2
<1> DEFINE uni == dp.default_unicast_locators
           multi == dp.default_multicast_locators
           default == [m \in ParticipantLocators |->
                          IF <<dp>> = <<>> THEN <<>> ELSE Head(<<dp>>)[m]]
<1>10. default.default_unicast_locators = uni /\ default.default_multicast_locators = multi
      BY DEF ParticipantLocators
<1>11. /\ DOMAIN reader = {"endpoint_guid", "participant_guid", "topic_name", "type_name", "qos",
                     "security_info", "unicast_locators", "multicast_locators",
                     "expects_inline_qos", "content_filter"} \cup RpcOptions
       /\ reader = [m \in DOMAIN reader |-> reader[m]]
       /\ reader.unicast_locators = uni /\ reader.multicast_locators = multi
       /\ reader.type_name = "type"
      BY DEF local_reader_data, BuiltinTopicData, ++, RpcOptions
<1>12. /\ DOMAIN writer = {"endpoint_guid", "participant_guid", "topic_name", "type_name", "qos",
                     "security_info", "unicast_locators", "multicast_locators",
                     "data_max_size_serialized"} \cup RpcOptions
       /\ writer = [m \in DOMAIN writer |-> writer[m]]
       /\ writer.unicast_locators = uni /\ writer.multicast_locators = <<>>
       /\ writer.type_name = "type"
      BY DEF local_writer_data, BuiltinTopicData, ++, RpcOptions
<1> HIDE DEF reader, writer, default, uni, multi
<1>13. /\ Silent(reader).unicast_locators = <<>> /\ Silent(reader).multicast_locators = <<>>
       /\ \A m \in DOMAIN reader \ {"unicast_locators", "multicast_locators"} :
             Silent(reader)[m] = reader[m]
       /\ DOMAIN Silent(reader) = DOMAIN reader
      BY <1>11
<1>14. /\ Silent(writer).unicast_locators = <<>> /\ Silent(writer).multicast_locators = <<>>
       /\ Silent(writer).endpoint_guid = writer.endpoint_guid
      BY <1>12
<1>15. /\ discovered_or_default(<<>>, uni) = uni /\ discovered_or_default(uni, uni) = uni
       /\ discovered_or_default(<<>>, multi) = multi /\ discovered_or_default(multi, multi) = multi
      BY DEF discovered_or_default
<1> DEFINE silentW == Silent(writer)
           silentR == Silent(reader)
           proxyW == [remote_guid |-> writer.endpoint_guid, unicast |-> uni, multicast |-> multi]
<1>16. /\ writer_proxy(writer, <<dp>>) = proxyW
       /\ writer_proxy(silentW, <<dp>>) = proxyW
      <2>1. ASSUME NEW w PROVE writer_proxy(w, <<dp>>) = from_discovered_writer_data(w, uni, multi)
            BY <1>10, Zenon DEF writer_proxy, default
      <2>2. from_discovered_writer_data(writer, uni, multi) = proxyW
            BY <1>12, <1>15 DEF from_discovered_writer_data
      <2>3. from_discovered_writer_data(silentW, uni, multi) = proxyW
            <3> HIDE DEF silentW
            <3>1. silentW.unicast_locators = <<>> /\ silentW.multicast_locators = <<>>
                     /\ silentW.endpoint_guid = writer.endpoint_guid
                  BY <1>14 DEF silentW
            <3> QED  BY <1>15, <3>1 DEF from_discovered_writer_data
      <2> HIDE DEF silentW, proxyW
      <2> QED  BY <2>1, <2>2, <2>3
<1>17. proxyW.unicast = uni
      OBVIOUS
<1>18. reader_proxy(silentR, <<dp>>) = reader_proxy(reader, <<dp>>)
      <2> DEFINE To(r) == from_discovered_reader_data(r, uni, multi)
                 Into(r, f) == [r EXCEPT !.unicast_locators = f.unicast,
                                         !.multicast_locators = f.multicast]
      <2>1. ASSUME NEW r PROVE reader_proxy(r, <<dp>>)
                                  = from_discovered_reader_data(Into(r, To(r)), <<>>, <<>>)
            BY <1>10, Zenon DEF reader_proxy, default
      <2> HIDE DEF silentR
      <2>2. /\ silentR.unicast_locators = <<>> /\ silentR.multicast_locators = <<>>
            /\ \A m \in DOMAIN reader \ {"unicast_locators", "multicast_locators"} :
                  silentR[m] = reader[m]
            /\ DOMAIN silentR = DOMAIN reader
            BY <1>13 DEF silentR
      <2>3. /\ silentR.endpoint_guid = reader.endpoint_guid
            /\ silentR.expects_inline_qos = reader.expects_inline_qos
            /\ silentR.qos = reader.qos
            BY <1>11, <2>2
      <2>4. To(silentR) = To(reader)
            BY <1>11, <1>15, <2>2, <2>3, Zenon DEF from_discovered_reader_data
      <2> DEFINE f == To(reader)
      <2> HIDE DEF f, To
      <2>5. Into(silentR, f) = Into(reader, f)
            BY <1>11, <2>2
      <2> HIDE DEF Into
      <2>6. Into(silentR, To(silentR)) = Into(reader, To(reader))
            BY <2>4, <2>5, Zenon DEF f
      <2> QED  BY <2>1, <2>6, Zenon
<1>19. ~topics_inconsistent(to_topic_data(reader), to_topic_data(writer))
      <2>1. to_topic_data(reader).type_name = reader.type_name
               /\ to_topic_data(writer).type_name = writer.type_name
            BY DEF to_topic_data, TopicBuiltinTopicData
      <2> QED  BY <1>11, <1>12, <2>1, Zenon DEF topics_inconsistent
<1> HIDE DEF proxyW
<1> QED  BY <1>9, <1>16, <1>17, <1>18, <1>19, Zenon
         DEF uni, reader, writer, silentR, silentW

\* A disposal names the endpoint that the announcement is about.
LEMMA KeyIsThere ==
    ASSUME NEW r, IsQos(r.qos)
    PROVE  Endpoint_GUID_from_parameter_list(reader_to_parameter_list(r))
              = Endpoint_GUID_from_parameter_list(Endpoint_GUID_to_parameter_list(r.endpoint_guid))
<1> DEFINE pl == reader_to_parameter_list(r)
           key == Endpoint_GUID_to_parameter_list(r.endpoint_guid)
<1>1. "endpoint_guid" \in DOMAIN pl /\ pl["endpoint_guid"] = <<r["endpoint_guid"]>>
      BY ReaderList DEF EndpointMandatory
<1>2. "endpoint_guid" \in DOMAIN key /\ key["endpoint_guid"] = <<r.endpoint_guid>>
      BY DEF Endpoint_GUID_to_parameter_list
<1> HIDE DEF pl, key
<1> QED  BY <1>1, <1>2 DEF Endpoint_GUID_from_parameter_list, Read, pl, key

\* What is announced is what is read, of whatever participants, Readers and
\* Writers, and leads the others where they are to be reached.
THEOREM AnnouncementsDoSurvive == Spec => []AnnouncementsSurvive
<1>1. ASSUME NEW dp \in LocalParticipants
      PROVE  \E read \in participant_from_parameter_list(participant_to_parameter_list(dp)) :
             /\ read = dp
             /\ Participant_GUID_from_parameter_list(
                   Participant_GUID_to_parameter_list(dp.participant_guid))
                  = {read.participant_guid}
             /\ supports_security(read)
                  <=> SecureBuiltinEndpoints \subseteq dp.available_builtin_endpoints
             /\ as_reader_proxy(read, TRUE, "SEDP").unicast = dp.metatraffic_unicast_locators
             /\ as_writer_proxy(read, TRUE, "SEDP").unicast = dp.metatraffic_unicast_locators
             /\ \A q \in Settings, s \in SecurityInfos :
                   LET Silent(data) == [data EXCEPT !.unicast_locators = <<>>,
                                                    !.multicast_locators = <<>>]
                       reader == local_reader_data("r", dp, "t", "type", q, s)
                       writer == local_writer_data("w", dp, "t", "type", q, s)
                   IN  /\ reader_proxy(Silent(reader), <<read>>) = reader_proxy(reader, <<read>>)
                       /\ writer_proxy(Silent(writer), <<read>>) = writer_proxy(writer, <<read>>)
                       /\ writer_proxy(Silent(writer), <<read>>).unicast
                            = dp.default_unicast_locators
                       /\ ~topics_inconsistent(to_topic_data(reader), to_topic_data(writer))
      <2>1. PICK locators \in Bindings, security \in Credentials :
               dp = from_local_participant("participant", locators, security, 10)
            BY <1>1 DEF LocalParticipants
      <2>2. participant_from_parameter_list(participant_to_parameter_list(dp)) = {dp}
            <3>1. locators = Part(locators, ParticipantLocators) /\ IsOption(security)
                  BY AnnouncedAssumption DEF Part
            <3> QED  BY <2>1, <3>1, LocalParticipant, ParticipantReadBack
      <2>3. Participant_GUID_from_parameter_list(
               Participant_GUID_to_parameter_list(dp.participant_guid)) = {dp.participant_guid}
            BY DEF Participant_GUID_from_parameter_list, Participant_GUID_to_parameter_list, Read
      <2>4. /\ as_reader_proxy(dp, TRUE, "SEDP").unicast = dp.metatraffic_unicast_locators
            /\ as_writer_proxy(dp, TRUE, "SEDP").unicast = dp.metatraffic_unicast_locators
            BY DEF as_reader_proxy, as_writer_proxy
      <2>5. supports_security(dp) <=> SecureBuiltinEndpoints \subseteq dp.available_builtin_endpoints
            BY ParticipantIsReached
      <2>6. ASSUME NEW q \in Settings, NEW s \in SecurityInfos
            PROVE  LET Silent(data) == [data EXCEPT !.unicast_locators = <<>>,
                                                    !.multicast_locators = <<>>]
                       reader == local_reader_data("r", dp, "t", "type", q, s)
                       writer == local_writer_data("w", dp, "t", "type", q, s)
                   IN  /\ reader_proxy(Silent(reader), <<dp>>) = reader_proxy(reader, <<dp>>)
                       /\ writer_proxy(Silent(writer), <<dp>>) = writer_proxy(writer, <<dp>>)
                       /\ writer_proxy(Silent(writer), <<dp>>).unicast
                            = dp.default_unicast_locators
                       /\ ~topics_inconsistent(to_topic_data(reader), to_topic_data(writer))
            BY ParticipantIsReached
      <2> QED  BY <2>2, <2>3, <2>4, <2>5, <2>6, Zenon
<1>2. ASSUME NEW rd \in LocalReaders
      PROVE  /\ reader_from_parameter_list(reader_to_parameter_list(rd)) = {rd}
             /\ Endpoint_GUID_from_parameter_list(reader_to_parameter_list(rd))
                  = Endpoint_GUID_from_parameter_list(
                       Endpoint_GUID_to_parameter_list(rd.endpoint_guid))
      <2>1. PICK dp \in LocalParticipants, q \in Settings, info \in SecurityInfos :
               rd = local_reader_data("r", dp, "t", "type", q, info)
            BY <1>2 DEF LocalReaders
      <2>2. IsQos(q) /\ IsOption(info)
            BY AnnouncedAssumption
      <2>3. IsReaderData(rd) /\ rd.qos = set_qos(q)
            BY <2>1, <2>2, LocalReader
      <2>4. IsQos(rd.qos)
            BY <2>2, <2>3, SetQos
      <2> QED  BY <2>3, <2>4, ReaderReadBack, KeyIsThere
<1>3. ASSUME NEW wd \in LocalWriters
      PROVE  /\ writer_from_parameter_list(writer_to_parameter_list(wd)) = {wd}
             /\ topic_from_parameter_list(topic_to_parameter_list(to_topic_data(wd)))
                  = {to_topic_data(wd)}
      <2>1. PICK dp \in LocalParticipants, q \in Settings, info \in SecurityInfos :
               wd = local_writer_data("w", dp, "t", "type", q, info)
            BY <1>3 DEF LocalWriters
      <2>2. IsQos(q) /\ IsOption(info) /\ IsOption(<<>>)
            BY AnnouncedAssumption DEF IsOption
      <2>3. IsWriterData(wd) /\ wd.qos = set_qos(q)
            BY <2>1, <2>2, LocalWriter
      <2>4. IsQos(wd.qos)
            BY <2>2, <2>3, SetQos
      <2>5. topic_from_parameter_list(topic_to_parameter_list(to_topic_data(wd)))
               = {to_topic_data(wd)}
            <3>1. \A name, type :
                     LET t == TopicBuiltinTopicData(<<>>, name, type, wd.qos)
                     IN  topic_from_parameter_list(topic_to_parameter_list(t)) = {t}
                  BY <2>2, <2>4, TopicReadBack
            <3> QED  BY <3>1, Zenon DEF to_topic_data
      <2> QED  BY <2>3, <2>5, WriterReadBack
<1>4. AnnouncementsSurvive
      BY <1>1, <1>2, <1>3, Zenon DEF AnnouncementsSurvive
<1> QED  BY <1>4, PTL

=============================================================================
