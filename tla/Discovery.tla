----------------------------- MODULE Discovery -----------------------------
(***************************************************************************)
(* The Discovery thread, the event loop thread that it notifies, and the   *)
(* application threads that create and drop endpoints.  They share the     *)
(* DiscoveryDB and are connected by bounded channels:                      *)
(*                                                                         *)
(*    application --cmds--> Discovery --notif--> event loop                *)
(*    application --addCh, removeCh-----------> event loop                 *)
(*                                                                         *)
(* The other participants announce themselves by best-effort SPDP samples  *)
(* and their endpoints by reliable SEDP samples, which the event loop      *)
(* receives and puts into the built-in readers that Discovery reads.  Our  *)
(* own announcements come back to us in the same way.                      *)
(*                                                                         *)
(* One clock tick is SEND_PARTICIPANT_INFO_PERIOD, the time between two    *)
(* SPDP announcements of one participant.                                  *)
(***************************************************************************)
EXTENDS DPEventLoop, Matching

CONSTANTS
    NotifCapacity,    \* discovery_updated channel (32)
    CommandCapacity,  \* discovery_command channel (64)
    Audible,          \* participants whose announcements can reach us (our own
                      \* do where multicast is looped back)
    MaxMissed,        \* [Participant -> Nat] SPDP samples lost in a row
    Starts            \* the situations to start from, see Init

ASSUME DiscoveryAssumption ==
    /\ NotifCapacity \in Nat \ {0}
    /\ CommandCapacity \in Nat \ {0}
    /\ Audible \subseteq Participant
    /\ MaxMissed \in [Participant -> Nat]
    /\ Starts \subseteq [app : [LocalEndpoint -> {"none", "live", "gone"}],
                         up : [Remote -> {"absent", "gone"}]]

VARIABLES
    up,         \* [Remote -> {"absent", "up", "gone"}]
    theirs,     \* [RemoteEndpoint -> {"none", "live", "gone"}]
    missed,     \* [Participant -> Nat] SPDP samples lost since the last heard
    wire,       \* [Endpoint -> Sample] SEDP sample not yet received
    spdp,       \* [Participant -> Sample] unread in the DCPSParticipant reader
    sedp,       \* [Endpoint -> Sample] unread in the SEDP readers
    topicIn,    \* DCPSTopic samples not yet read, <<topic, participant>>
    db,         \* the DiscoveryDB
    todo,       \* what the Discovery thread is in the middle of
    notif,      \* DiscoveryNotifications on their way to the event loop
    cmds,       \* DiscoveryCommands on their way to Discovery
    loop,       \* the event loop's endpoints and proxies
    addCh,      \* [{"reader", "writer"} -> set of endpoints to add]
    removeCh,   \* [{"reader", "writer"} -> set of endpoints to remove]
    ready,      \* tokens of these channels in the order they became ready
    app,        \* [LocalEndpoint -> state of the application's handle]
    told,       \* [LocalEndpoint -> Sample or "failed"] history: what was last
                \* announced about it, or that its announcement failed
    stop,       \* "no", "asked", "done": the participant is being dropped
    late        \* history, [LocalEndpoint -> endpoints that were known before it
                \* came or have timed out since]

net == <<up, theirs, missed>>
readers == <<spdp, sedp, topicIn>>
channels == <<addCh, removeCh, ready>>
vars == <<net, wire, readers, db, todo, notif, cmds, loop, channels, app, told, stop, late>>

Sample == {"none", "data", "dispose"}
AppState == {"none", "half", "live", "drop", "dropping", "gone"}

\* DiscoveryNotificationType; Reader and Writer are told apart by the endpoint.
Updated(e) == [is |-> "EndpointUpdated", of |-> e]
Lost(e) == [is |-> "EndpointLost", of |-> e]
ParticipantUpdated(p) == [is |-> "ParticipantUpdated", of |-> p]
ParticipantLost(p) == [is |-> "ParticipantLost", of |-> p]

\* DiscoveryCommand
AddTopic(t) == [is |-> "AddTopic", of |-> t]
AddLocal(l) == [is |-> "AddLocal", of |-> l]
RemoveLocal(l) == [is |-> "RemoveLocal", of |-> l]
StopDiscovery == [is |-> "StopDiscovery", of |-> Me]

\* Work left in the handler that runs: a notification to send (send blocks
\* while the channel is full), samples already taken, a reader to take from.
Notify(n) == [do |-> "notify", arg |-> n]
Samples(S) == [do |-> "samples", arg |-> S]
TopicSamples(S) == [do |-> "topics", arg |-> S]
TakeTopics == [do |-> "take topics", arg |-> Me]
TakeEndpoints(kind, p) == [do |-> "take", arg |-> <<kind, p>>]

\* Discovery starts with its own participant in the database and announces the
\* endpoints that are there already (write_writers_info, write_readers_info:
\* written, or failed as in write_single_endpoint_info).  A start says which
\* those are, which ones the application will never create and which
\* participants never come.
Init ==
    \E start \in Starts :
    LET existing == {l \in LocalEndpoint : start.app[l] = "live"}
    IN
    \E written \in SUBSET existing :
    /\ up = start.up
    /\ app = start.app
    /\ theirs = [e \in RemoteEndpoint |-> "none"]
    /\ missed = [p \in Participant |-> 0]
    /\ wire = [e \in Endpoint |-> IF e \in written THEN "data" ELSE "none"]
    /\ spdp = [p \in Participant |-> "none"]
    /\ sedp = [e \in Endpoint |-> "none"]
    /\ topicIn = {}
    /\ db = [update_participant(EmptyDB, Me, TRUE) EXCEPT !.local = existing]
    /\ todo = <<Notify(ParticipantUpdated(Me))>>
    /\ notif = <<>>
    /\ cmds = <<>>
    /\ loop = [EmptyLoop EXCEPT !.endpoints = existing]
    /\ addCh = [k \in {"reader", "writer"} |-> {}]
    /\ removeCh = [k \in {"reader", "writer"} |-> {}]
    /\ ready = <<>>
    /\ told = [l \in LocalEndpoint |-> IF l \in written THEN "data"
                                      ELSE IF l \in existing THEN "failed" ELSE "none"]
    /\ stop = "no"
    /\ late = [l \in LocalEndpoint |-> {}]

----------------------------------------------------------------------------
(* The other participants and the network *)

Announcing == {p \in Audible : p = Me \/ up[p] = "up"}

Start(p) ==
    /\ up[p] = "absent"
    /\ up' = [up EXCEPT ![p] = "up"]
    /\ UNCHANGED <<theirs, missed, wire, readers, db, todo, notif, cmds, loop,
                   channels, app, told, stop, late>>

\* A participant makes an endpoint known, with its topic, and takes it back.
Publish(e) ==
    /\ up[Owner[e]] = "up" /\ theirs[e] = "none"
    /\ theirs' = [theirs EXCEPT ![e] = "live"]
    /\ wire' = [wire EXCEPT ![e] = "data"]
    /\ topicIn' = topicIn \cup {<<TopicOf[e], Owner[e]>>}
    /\ UNCHANGED <<up, missed, spdp, sedp, db, todo, notif, cmds, loop, channels,
                   app, told, stop, late>>

Withdraw(e) ==
    /\ up[Owner[e]] = "up" /\ theirs[e] = "live"
    /\ theirs' = [theirs EXCEPT ![e] = "gone"]
    /\ wire' = [wire EXCEPT ![e] = "dispose"]
    /\ UNCHANGED <<up, missed, readers, db, todo, notif, cmds, loop,
                   channels, app, told, stop, late>>

\* It crashes, or shuts down and says so: any part of that may get lost.
Leave(p) ==
    /\ up[p] = "up"
    /\ up' = [up EXCEPT ![p] = "gone"]
    /\ \E heard \in {"none", "dispose"}, E \in SUBSET OfPrefix(RemoteEndpoint, p) :
          /\ spdp' = [spdp EXCEPT ![p] = IF heard = "none" THEN @ ELSE heard]
          /\ wire' = [e \in Endpoint |->
                        IF PrefixOf(e) # p THEN wire[e]
                        ELSE IF e \in E /\ theirs[e] = "live" THEN "dispose"
                        ELSE "none"]
    /\ topicIn' = {tp \in topicIn : tp[2] # p}
    /\ UNCHANGED <<theirs, missed, sedp, db, todo, notif, cmds,
                   loop, channels, app, told, stop, late>>

\* Time passes for one announcement period: everyone who is up announces, and
\* some announcements get lost.  For each one received the event loop puts the
\* sender into the spdp_liveness channel as well, for participant_is_alive.
\* Channels and readers are taken to be served within the period.
Served ==
    /\ todo = <<>> /\ notif = <<>> /\ cmds = <<>> /\ ready = <<>>
    /\ \A p \in Participant : spdp[p] = "none"
    /\ \A e \in Endpoint : sedp[e] = "none" /\ (PrefixOf(e) \in loop.builtin => wire[e] = "none")

Tick ==
    /\ Served /\ stop = "no"
    /\ \E heard \in SUBSET Announcing :
          /\ \A p \in Announcing \ heard : missed[p] < MaxMissed[p]
          /\ missed' = [p \in Participant |->
                          IF p \in heard THEN 0
                          ELSE IF p \in Announcing THEN missed[p] + 1 ELSE missed[p]]
          /\ spdp' = [p \in Participant |-> IF p \in heard THEN "data" ELSE "none"]
          /\ db' = [db EXCEPT !.age = [p \in Participant |->
                      IF p \in heard THEN participant_is_alive(db, p).age[p]
                      ELSE IF p \in db.proxies \ db.forever /\ @[p] <= LeaseTicks
                      THEN @[p] + 1 ELSE @[p]]]
    /\ UNCHANGED <<up, theirs, wire, sedp, topicIn, todo, notif, cmds, loop,
                   channels, app, told, stop, late>>

----------------------------------------------------------------------------
(* The Discovery thread *)

Idle == todo = <<>> /\ stop # "done"

process_discovered_participant_data(p) ==
    /\ db' = update_participant(db, p, FALSE)
    /\ todo' = <<Notify(ParticipantUpdated(p))>> \o
               (IF is_new_participant(db, p)
                THEN <<TakeTopics, TakeEndpoints("reader", p), TakeEndpoints("writer", p)>>
                ELSE <<>>)

process_participant_dispose(p) ==
    /\ db' = remove_participant(db, p, TRUE)
    /\ todo' = <<Notify(ParticipantLost(p))>>

handle_participant_reader(p) ==
    /\ Idle /\ spdp[p] # "none"
    /\ spdp' = [spdp EXCEPT ![p] = "none"]
    /\ IF spdp[p] = "data" THEN process_discovered_participant_data(p)
                           ELSE process_participant_dispose(p)
    /\ UNCHANGED <<net, wire, sedp, topicIn, notif, cmds, loop, channels,
                   app, told, stop, late>>

\* handle_subscription_reader and handle_publication_reader take every sample
\* there is; with read_history they then keep those of one participant only.
Take(kind, wanted, rest) ==
    LET unread == {e \in Endpoint : Kind[e] = kind /\ sedp[e] # "none"}
        kept == {<<e, sedp[e]>> : e \in unread \cap wanted}
    IN  /\ sedp' = [e \in Endpoint |-> IF e \in unread THEN "none" ELSE sedp[e]]
        /\ todo' = (IF kept = {} THEN <<>> ELSE <<Samples(kept)>>) \o rest

handle_endpoint_reader(kind) ==
    /\ Idle
    /\ \E e \in Endpoint : Kind[e] = kind /\ sedp[e] # "none"
    /\ Take(kind, Endpoint, <<>>)
    /\ UNCHANGED <<net, wire, spdp, topicIn, db, notif, cmds, loop,
                   channels, app, told, stop, late>>

handle_endpoint_reader_of ==
    /\ todo # <<>> /\ Head(todo).do = "take"
    /\ LET of == Head(todo).arg[2]
       IN  Take(Head(todo).arg[1], {e \in Endpoint : PrefixOf(e) = of}, Tail(todo))
    /\ UNCHANGED <<net, wire, spdp, topicIn, db, notif, cmds, loop,
                   channels, app, told, stop, late>>

\* One sample of those taken: the database, then the event loop.
handle_endpoint_sample ==
    /\ todo # <<>> /\ Head(todo).do = "samples"
    /\ \E s \in Head(todo).arg :
          LET others == Head(todo).arg \ {s}
          IN  /\ db' = IF s[2] = "data" THEN update_endpoint(db, s[1])
                                        ELSE remove_endpoint(db, s[1])
              /\ todo' = <<Notify(IF s[2] = "data" THEN Updated(s[1]) ELSE Lost(s[1]))>>
                         \o (IF others = {} THEN <<>> ELSE <<Samples(others)>>)
                         \o Tail(todo)
    /\ UNCHANGED <<net, wire, readers, notif, cmds, loop, channels, app, told, stop, late>>

\* Samples are received from participants whose built-in endpoints are matched.
handle_topic_reader ==
    LET unread == {tp \in topicIn : tp[2] \in loop.builtin}
        rest == IF todo = <<>> THEN <<>> ELSE Tail(todo)
    IN  /\ \/ Idle /\ unread # {}
           \/ todo # <<>> /\ Head(todo).do = "take topics"
        /\ todo' = (IF unread = {} THEN <<>> ELSE <<TopicSamples(unread)>>) \o rest
        /\ topicIn' = topicIn \ unread
        /\ UNCHANGED <<net, wire, spdp, sedp, db, notif, cmds, loop, channels,
                       app, told, stop, late>>

\* The endpoints of the announcer on this topic are notified again.
handle_topic_sample ==
    /\ todo # <<>> /\ Head(todo).do = "topics"
    /\ \E s \in Head(todo).arg :
          LET others == Head(todo).arg \ {s}
              again(kind) == SetToSeq({Notify(Updated(e)) :
                               e \in on_topic_and_participant(db, kind, s[1], s[2])})
          IN  /\ db' = update_topic_data(db, s[1], s[2])
              /\ todo' = again("writer") \o again("reader")
                         \o (IF others = {} THEN <<>> ELSE <<TopicSamples(others)>>)
                         \o Tail(todo)
    /\ UNCHANGED <<net, wire, readers, notif, cmds, loop, channels, app, told, stop, late>>

\* Fault: drops what finds no room.
send_discovery_notification_try ==
    /\ todo # <<>> /\ Head(todo).do = "notify"
    /\ notif' = IF Len(notif) < NotifCapacity THEN Append(notif, Head(todo).arg) ELSE notif
    /\ todo' = Tail(todo)
    /\ UNCHANGED <<net, wire, readers, db, cmds, loop, channels, app, told, stop, late>>

send_discovery_notification ==
    /\ todo # <<>> /\ Head(todo).do = "notify"
    /\ Len(notif) < NotifCapacity
    /\ notif' = Append(notif, Head(todo).arg)
    /\ todo' = Tail(todo)
    /\ UNCHANGED <<net, wire, readers, db, cmds, loop, channels, app, told, stop, late>>

ParticipantCleanup ==
    /\ Idle /\ expired_participants(db) # {}
    /\ db' = participant_cleanup(db)
    /\ late' = [l \in LocalEndpoint |-> late[l] \cup (db.ext \ participant_cleanup(db).ext)]
    /\ todo' = SetToSeq({Notify(ParticipantLost(p)) : p \in expired_participants(db)})
    /\ UNCHANGED <<net, wire, readers, notif, cmds, loop, channels, app, told, stop>>

TopicCleanup ==
    /\ Idle /\ topic_cleanup(db) # db
    /\ db' = topic_cleanup(db)
    /\ UNCHANGED <<net, wire, readers, todo, notif, cmds, loop, channels, app,
                   told, stop, late>>

\* write_topic_info, write_single_reader_info, write_single_writer_info: what
\* the database no longer has is not announced.  The write to the built-in
\* DataWriter gives up when the event loop leaves its channel full for 100 ms,
\* and is not tried again; how full that channel is, is left open.
write_topic_info(t) ==
    /\ \/ db.topics[t] # {} /\ topicIn' = topicIn \cup {<<t, Me>>}
       \/ topicIn' = topicIn
    /\ UNCHANGED <<wire, db, told, stop>>

write_single_endpoint_info(l) ==
    /\ \/ l \notin db.local /\ UNCHANGED <<wire, told>>
       \/ /\ l \in db.local
          /\ \/ wire' = [wire EXCEPT ![l] = "data"] /\ told' = [told EXCEPT ![l] = "data"]
             \/ wire' = wire /\ told' = [told EXCEPT ![l] = "failed"]
    /\ UNCHANGED <<topicIn, db, stop>>

\* dispose waits for room.
remove_local(l) ==
    /\ wire' = [wire EXCEPT ![l] = "dispose"]
    /\ told' = [told EXCEPT ![l] = "dispose"]
    /\ db' = remove_local_endpoint(db, l)
    /\ UNCHANGED <<topicIn, stop>>

\* Fault: forgets the Writers.
on_participant_shutting_down_readers ==
    /\ wire' = wire
    /\ told' = [l \in LocalEndpoint |->
                  IF l \in db.local /\ Kind[l] = "reader" THEN "dispose" ELSE told[l]]
    /\ stop' = "done"
    /\ UNCHANGED <<topicIn, db>>

on_participant_shutting_down ==
    /\ wire' = [e \in Endpoint |-> IF e \in db.local THEN "dispose" ELSE wire[e]]
    /\ told' = [l \in LocalEndpoint |-> IF l \in db.local THEN "dispose" ELSE told[l]]
    /\ stop' = "done"
    /\ UNCHANGED <<topicIn, db>>

handle_command ==
    /\ Idle /\ cmds # <<>>
    /\ cmds' = Tail(cmds)
    /\ LET c == Head(cmds)
       IN  CASE c.is = "AddTopic" -> write_topic_info(c.of)
             [] c.is = "AddLocal" -> write_single_endpoint_info(c.of)
             [] c.is = "RemoveLocal" -> remove_local(c.of)
             [] c.is = "StopDiscovery" -> on_participant_shutting_down
    /\ UNCHANGED <<net, spdp, sedp, todo, notif, loop, channels, app, late>>

----------------------------------------------------------------------------
(* The event loop thread *)

\* SEDP is reliable once our built-in endpoints are matched with theirs.
Receive(e) ==
    /\ wire[e] # "none" /\ PrefixOf(e) \in loop.builtin
    /\ sedp' = [sedp EXCEPT ![e] = wire[e]]
    /\ wire' = [wire EXCEPT ![e] = "none"]
    /\ UNCHANGED <<net, spdp, topicIn, db, todo, notif, cmds,
                   loop, channels, app, told, stop, late>>

handle_notification ==
    /\ notif # <<>>
    /\ notif' = Tail(notif)
    /\ LET n == Head(notif)
       IN  loop' = CASE n.is = "EndpointUpdated" -> remote_endpoint_discovered(loop, n.of)
                     [] n.is = "EndpointLost" -> remote_endpoint_lost(loop, n.of)
                     [] n.is = "ParticipantUpdated" -> update_builtin_endpoints(loop, db, n.of)
                     [] n.is = "ParticipantLost" -> remote_participant_lost(loop, n.of)
    /\ UNCHANGED <<net, wire, readers, db, todo, cmds, channels, app, told, stop, late>>

\* handle_reader_action, handle_writer_action: a ready token drains its channel.
handle_add(kind) ==
    /\ ready # <<>> /\ Head(ready) = <<"add", kind>>
    /\ loop' = add_local_endpoints(loop, addCh[kind])
    /\ late' = [l \in LocalEndpoint |-> IF l \in addCh[kind] THEN db.ext \cup db.attic ELSE late[l]]
    /\ addCh' = [addCh EXCEPT ![kind] = {}]
    /\ ready' = Tail(ready)
    /\ UNCHANGED <<net, wire, readers, db, todo, notif, cmds, removeCh, app,
                   told, stop>>

handle_remove(kind) ==
    /\ ready # <<>> /\ Head(ready) = <<"remove", kind>>
    /\ loop' = remove_local_endpoints(loop, removeCh[kind])
    /\ removeCh' = [removeCh EXCEPT ![kind] = {}]
    /\ ready' = Tail(ready)
    /\ UNCHANGED <<net, wire, readers, db, todo, notif, cmds, addCh, app, told, stop, late>>

----------------------------------------------------------------------------
(* The application's threads *)

MarkReady(token) == ready' = IF token \in ToSet(ready) THEN ready ELSE Append(ready, token)

\* try_send: no room, or Discovery is gone.
CanSend(queue) == Len(queue) < CommandCapacity /\ stop # "done"
TrySend(queue, c) == IF CanSend(queue) THEN Append(queue, c) ELSE queue

\* The participant defines the topic and enters the endpoint in the database.
EnterLocal(l) == db' = update_topic_data(update_local_endpoint(db, l), TopicOf[l], Me)

AddToLoop(l) ==
    /\ addCh' = [addCh EXCEPT ![Kind[l]] = @ \cup {l}]
    /\ MarkReady(<<"add", Kind[l]>>)

\* AddLocal must get through, or the creation fails and drops the endpoint.
SendAddLocal(l, queue) ==
    /\ cmds' = TrySend(queue, AddLocal(l))
    /\ app' = [app EXCEPT ![l] = IF CanSend(queue) THEN "live" ELSE "drop"]

\* create_datareader tells Discovery of the topic before the event loop knows
\* of the Reader.
CreateReaderBegin(l) ==
    /\ Kind[l] = "reader" /\ app[l] = "none" /\ stop = "no"
    /\ EnterLocal(l)
    /\ cmds' = TrySend(cmds, AddTopic(TopicOf[l]))
    /\ app' = [app EXCEPT ![l] = "half"]
    /\ UNCHANGED <<net, wire, readers, todo, notif, loop, channels, told, stop, late>>

\* The event loop's channel, which all endpoints of the participant use, may be
\* full: then try_send fails, and with it the creation.
CreateReaderEnd(l) ==
    /\ Kind[l] = "reader" /\ app[l] = "half"
    /\ \/ AddToLoop(l) /\ SendAddLocal(l, cmds)
       \/ app' = [app EXCEPT ![l] = "drop"] /\ UNCHANGED <<addCh, ready, cmds>>
    /\ UNCHANGED <<net, wire, readers, db, todo, notif, loop, removeCh, told, stop, late>>

\* create_datawriter goes to the event loop first.
CreateWriterBegin(l) ==
    /\ Kind[l] = "writer" /\ app[l] = "none" /\ stop = "no"
    /\ AddToLoop(l)
    /\ app' = [app EXCEPT ![l] = "half"]
    /\ UNCHANGED <<net, wire, readers, db, todo, notif, cmds, loop, removeCh,
                   told, stop, late>>

CreateWriterEnd(l) ==
    /\ Kind[l] = "writer" /\ app[l] = "half"
    /\ EnterLocal(l)
    /\ SendAddLocal(l, TrySend(cmds, AddTopic(TopicOf[l])))
    /\ UNCHANGED <<net, wire, readers, todo, notif, loop, channels, told, stop, late>>

\* drop of a DataReader or DataWriter: the event loop first, where remove_reader
\* and remove_writer give up if the channel stays full for 20 ms, then Discovery,
\* where send waits for room and fails once Discovery is gone.
DropBegin(l) ==
    /\ app[l] \in {"live", "drop"}
    /\ app' = [app EXCEPT ![l] = "dropping"]
    /\ \/ /\ removeCh' = [removeCh EXCEPT ![Kind[l]] = @ \cup {l}]
          /\ MarkReady(<<"remove", Kind[l]>>)
       \/ UNCHANGED <<removeCh, ready>>
    /\ UNCHANGED <<net, wire, readers, db, todo, notif, cmds, loop, addCh, told, stop, late>>

\* Fault: gives up when the channel is full.
DropEndTry(l) ==
    /\ app[l] = "dropping"
    /\ cmds' = TrySend(cmds, RemoveLocal(l))
    /\ app' = [app EXCEPT ![l] = "gone"]
    /\ UNCHANGED <<net, wire, readers, db, todo, notif, loop, channels, told, stop, late>>

DropEnd(l) ==
    /\ app[l] = "dropping"
    /\ \/ CanSend(cmds) /\ cmds' = Append(cmds, RemoveLocal(l))
       \/ stop = "done" /\ cmds' = cmds
    /\ app' = [app EXCEPT ![l] = "gone"]
    /\ UNCHANGED <<net, wire, readers, db, todo, notif, loop, channels, told, stop, late>>

\* drop of the DomainParticipant
DropParticipant ==
    /\ stop = "no" /\ CanSend(cmds)
    /\ cmds' = Append(cmds, StopDiscovery)
    /\ stop' = "asked"
    /\ UNCHANGED <<net, wire, readers, db, todo, notif, loop, channels, app, told, late>>

----------------------------------------------------------------------------

\* Once Discovery has stopped, the participant stops its event loop.
Network ==
    /\ stop # "done"
    /\ \/ \E p \in Remote : Start(p) \/ Leave(p)
       \/ \E e \in RemoteEndpoint : Publish(e) \/ Withdraw(e)
       \/ Tick

DiscoveryThread ==
    \/ \E p \in Participant : handle_participant_reader(p)
    \/ \E kind \in {"reader", "writer"} : handle_endpoint_reader(kind)
    \/ handle_endpoint_reader_of
    \/ handle_endpoint_sample
    \/ handle_topic_reader
    \/ handle_topic_sample
    \/ send_discovery_notification
    \/ ParticipantCleanup
    \/ TopicCleanup
    \/ handle_command

EventLoopThread ==
    /\ stop # "done"
    /\ \/ \E e \in Endpoint : Receive(e)
       \/ handle_notification
       \/ \E kind \in {"reader", "writer"} : handle_add(kind) \/ handle_remove(kind)

Application ==
    \/ \E l \in LocalEndpoint :
          \/ CreateReaderBegin(l) \/ CreateReaderEnd(l)
          \/ CreateWriterBegin(l) \/ CreateWriterEnd(l)
          \/ DropBegin(l) \/ DropEnd(l)
    \/ DropParticipant

Next == Network \/ DiscoveryThread \/ EventLoopThread \/ Application

Spec == Init /\ [][Next]_vars

----------------------------------------------------------------------------
(* Properties *)

Notification ==
    {Updated(e) : e \in Endpoint} \cup {Lost(e) : e \in Endpoint} \cup
    {ParticipantUpdated(p) : p \in Participant} \cup
    {ParticipantLost(p) : p \in Participant}

InTransit ==
    ToSet(notif) \cup {w.arg : w \in {w \in ToSet(todo) : w.do = "notify"}}

\* A Reader or Writer holds a proxy of an endpoint only while the database
\* knows the endpoint, or else the word that it is lost is on its way: however
\* leases, disposals, rediscoveries and notifications interleave, the event
\* loop does not stay matched with something Discovery has forgotten.
MatchedIsKnown ==
    \A l \in LocalEndpoint : \A e \in loop.matched[l] :
        \/ e \in db.ext
        \/ Lost(e) \in InTransit
        \/ ParticipantLost(PrefixOf(e)) \in InTransit

\* A running participant that can be heard is timed out only when more than two
\* of its announcements in a row got lost ("so lease doesn't break if update
\* fails once or twice", send_participant_info).
LeaseSurvivesTwoLosses ==
    [][\A p \in Announcing : p \in db.proxies \ db'.proxies => missed[p] > 2]_vars

\* Once Discovery has shut down, no peer is left believing in an endpoint of
\* ours: whatever was announced was disposed as well, by drop or by shutdown.
ShutdownDisposesAll ==
    stop = "done" => \A l \in LocalEndpoint : told[l] # "data"

\* When all work is done, the peers have been told of the endpoints the
\* application has, except those whose announcement the built-in DataWriter
\* refused (discovery.rs:1723-1730, 1798-1805: it is not repeated), and every
\* endpoint it dropped was disposed, announced or not, unless it was gone before
\* Discovery began.  Creation and drop race with each other and with full command
\* channels, and a creation may fail half-way.
ToldIsTrue ==
    Served /\ stop = "no" =>
        \A l \in LocalEndpoint :
            /\ app[l] = "live" => told[l] \in {"data", "failed"}
            /\ app[l] = "gone" => told[l] \in {"none", "dispose"}

Known(l, e) ==
    /\ Candidate(l, e) /\ Compatible(l, e)
    /\ l \in loop.endpoints
    /\ e \in db.ext /\ PrefixOf(e) \in db.proxies

\* When all work is done, a Reader or Writer is matched with every endpoint that
\* was announced since it is there and whose participant did not time out.
AnnouncedIsMatched ==
    Served => \A l \in LocalEndpoint, e \in Endpoint :
                 Known(l, e) /\ e \notin late[l] => e \in loop.matched[l]

---------------------------------------------------------------------------
(* What is announced, and what is decided from it.  It depends on the QoS  *)
(* and the participants alone, and is compared before anything happens.    *)

\* Writer and Reader decide alike whether they match, each from its own QoS and
\* what it read of the other's announcement, down to the policy they report,
\* as long as the DataReader has no QoS but that of its topic.  The builtin
\* endpoints of two participants accept each other, each from what it takes the
\* other's QoS to be, best effort participant messages included, and so they
\* would from what it is.
DecideAlike ==
    Init =>
    /\ \A s \in Situations :
          s.subscriber = qos_none /\ s.reader = qos_none => WriterDecision(s) = ReaderDecision(s)
    /\ \A opt \in BuiltinQosOptions :
          LET writer == builtin_writer_qos(opt)
              reader == builtin_reader_qos(opt)
          IN  /\ \A best_effort \in BOOLEAN :
                    update_reader_proxy(writer, [qos |-> assumed_reader_qos(opt, best_effort)])
                      = <<>>
              /\ update_writer_proxy(reader, [qos |-> assumed_writer_qos(opt)]) = <<>>
              /\ compliance_failure_wrt(writer, reader) = <<>>

\* What a participant announces of itself, its endpoints and its topics is what
\* the others read.  They take it for secure if and only if it has the secure
\* builtin endpoints.  Builtin endpoints are reached at the metatraffic
\* locators, and an endpoint whose announcement names no locators as if it had
\* named the default ones of its participant.  Endpoints of one type agree on
\* the topic.  A disposal names the key of the announcement it takes back.
AnnouncementsSurvive ==
    Init =>
    /\ \A dp \in LocalParticipants :
          \E read \in participant_from_parameter_list(participant_to_parameter_list(dp)) :
             /\ read = dp
             /\ Participant_GUID_from_parameter_list(
                   Participant_GUID_to_parameter_list(dp.participant_guid))
                  = {read.participant_guid}
             /\ supports_security(read)
                  <=> SecureBuiltinEndpoints \subseteq dp.available_builtin_endpoints
             /\ as_reader_proxy(read, TRUE, "SEDP").unicast = dp.metatraffic_unicast_locators
             /\ as_writer_proxy(read, TRUE, "SEDP").unicast = dp.metatraffic_unicast_locators
             /\ \A q \in Settings, s \in SecurityInfos :
                   LET Silent(data) == [data EXCEPT !.unicast_locators = <<>>,
                                                    !.multicast_locators = <<>>]
                       reader == local_reader_data("r", dp, "t", "type", q, s)
                       writer == local_writer_data("w", dp, "t", "type", q, s)
                   IN  /\ reader_proxy(Silent(reader), <<read>>) = reader_proxy(reader, <<read>>)
                       /\ writer_proxy(Silent(writer), <<read>>) = writer_proxy(writer, <<read>>)
                       /\ writer_proxy(Silent(writer), <<read>>).unicast
                            = dp.default_unicast_locators
                       /\ ~topics_inconsistent(to_topic_data(reader), to_topic_data(writer))
    /\ \A rd \in LocalReaders :
          /\ reader_from_parameter_list(reader_to_parameter_list(rd)) = {rd}
          /\ Endpoint_GUID_from_parameter_list(reader_to_parameter_list(rd))
                = Endpoint_GUID_from_parameter_list(
                     Endpoint_GUID_to_parameter_list(rd.endpoint_guid))
    /\ \A wd \in LocalWriters :
          /\ writer_from_parameter_list(writer_to_parameter_list(wd)) = {wd}
          /\ topic_from_parameter_list(topic_to_parameter_list(to_topic_data(wd)))
                = {to_topic_data(wd)}
=============================================================================
