---------------------------- MODULE DPEventLoop ----------------------------
(***************************************************************************)
(* The part of DPEventLoop that owns the RTPS Readers and Writers and      *)
(* matches them with the endpoints Discovery tells of.                     *)
(*                                                                         *)
(* A loop record holds the local endpoints the event loop has, the proxies *)
(* in each of them, and the participants whose built-in endpoints are      *)
(* proxied in ours.                                                        *)
(***************************************************************************)
EXTENDS DiscoveryDB

CONSTANT Compatible(_, _)    \* compliance_failure_wrt finds no bad policy

Loop == [endpoints : SUBSET LocalEndpoint,     \* writers, available_readers
         matched   : [LocalEndpoint -> SUBSET Endpoint],
         builtin   : SUBSET Participant]

EmptyLoop == [endpoints |-> {},
              matched |-> [l \in LocalEndpoint |-> {}],
              builtin |-> {}]

\* A Writer is matched with Readers and a Reader with Writers, by topic name.
Candidate(l, e) == Kind[l] # Kind[e] /\ TopicOf[l] = TopicOf[e]

\* A new Reader or Writer starts without proxies, and takes its own away.
add_local_endpoints(loop, L) ==
    [loop EXCEPT !.endpoints = @ \cup L]

remove_local_endpoints(loop, L) ==
    [loop EXCEPT !.endpoints = @ \ L,
                 !.matched = [l \in LocalEndpoint |-> IF l \in L THEN {} ELSE @[l]]]

\* update_reader_proxy, update_writer_proxy: an incompatible endpoint is
\* reported and leaves the proxies as they are.
update_proxy(loop, l, e) ==
    IF Compatible(l, e) THEN [loop EXCEPT !.matched[l] = @ \cup {e}] ELSE loop

\* remote_reader_discovered, remote_writer_discovered (without security)
remote_endpoint_discovered(loop, e) ==
    [loop EXCEPT !.matched = [l \in LocalEndpoint |->
        IF l \in loop.endpoints /\ Candidate(l, e)
        THEN update_proxy(loop, l, e).matched[l]
        ELSE @[l]]]

\* remote_reader_lost, remote_writer_lost
remote_endpoint_lost(loop, e) ==
    [loop EXCEPT !.matched = [l \in LocalEndpoint |-> @[l] \ {e}]]

\* update_participant: connects the built-in endpoints, if the database still
\* has the participant.
update_builtin_endpoints(loop, db, p) ==
    IF p \in db.proxies THEN [loop EXCEPT !.builtin = @ \cup {p}] ELSE loop

\* Fault: lets go of the built-in endpoints only.
remote_participant_lost_builtin(loop, p) == [loop EXCEPT !.builtin = @ \ {p}]

remote_participant_lost(loop, p) ==
    [loop EXCEPT !.matched = [l \in LocalEndpoint |-> @[l] \ OfPrefix(@[l], p)],
                 !.builtin = @ \ {p}]
=============================================================================
