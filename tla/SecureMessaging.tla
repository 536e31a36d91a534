-------------------------- MODULE SecureMessaging --------------------------
(***************************************************************************)
(* Writers and Readers of several participants send messages, protected as *)
(* the domain's rules demand (security_encode and the send functions of    *)
(* rtps/writer.rs and rtps/reader.rs), while the participants register     *)
(* each other's endpoints, match them and receive each other's keys.  The  *)
(* network loses, repeats and reorders messages.                           *)
(*                                                                         *)
(* How tokens travel over the volatile topic is the subject of             *)
(* SecureDiscovery; here they arrive at any time after they were created.  *)
(***************************************************************************)
EXTENDS MessageReceiver

CONSTANTS
    Listeners       \* the participants whose MessageReceiver is looked at

ASSUME ListenersAssumption == Listeners \subseteq Prefix

VARIABLES
    net,            \* messages [no, kind, source, subs] on their way
    sent,           \* ghost: what was sent, by whom, to whom
    heard,          \* ghost: <<participant, message>> pairs received
    left            \* pairs that were matched and are no more

receiver == <<situation, crypto, matched, rx, acks, log>>
vars == <<receiver, net, sent, heard, left>>

Init ==
    /\ situation \in Situations
    /\ crypto = [x \in Prefix |-> NoKeys]
    /\ matched = [x \in Prefix |-> {}]
    /\ rx = [x \in Prefix |-> NewReceiver]
    /\ acks = [x \in Prefix |-> <<>>]
    /\ log = {}
    /\ net = {} /\ sent = <<>> /\ heard = {} /\ left = {}

-----------------------------------------------------------------------------
(* Matching and keys *)

VolatilePairs(y) == {<<"volatile_w", <<y, "volatile_r">>>>, <<"volatile_r", <<y, "volatile_w">>>>}

\* Discovery registers the other participant and the endpoints of the topic of
\* the keys once the handshake is through.
register_remote_to_crypto(x, y) ==
    /\ <<x, y>> \in situation.peers /\ y \notin crypto[x].participants
    /\ crypto' = [crypto EXCEPT
          ![x].participants = @ \cup {y},
          ![x].handles = @ \cup VolatilePairs(y),
          ![x].encode = @ \cup {<<pair[1], y>> : pair \in VolatilePairs(y)},
          ![x].decode = WithKeys(@, {<<pair[1], y>> : pair \in VolatilePairs(y)},
                                 derive_volatile_key_materials(x, y))]
    /\ UNCHANGED <<situation, matched, rx, acks, log, net, sent, heard, left>>

\* The event loop, told of it, matches these endpoints.
update_participant(x, y) ==
    /\ y \in crypto[x].participants /\ ~(VolatilePairs(y) \subseteq matched[x])
    /\ matched' = [matched EXCEPT ![x] = @ \cup VolatilePairs(y)]
    /\ UNCHANGED <<situation, crypto, rx, acks, log, net, sent, heard, left>>

set_remote_participant_crypto_tokens(x, y) ==
    /\ y \in crypto[x].participants \ crypto[x].participant_keys
    /\ x \in crypto[y].participants
    /\ crypto' = [crypto EXCEPT ![x].participant_keys = @ \cup {y}]
    /\ UNCHANGED <<situation, matched, rx, acks, log, net, sent, heard, left>>

Restricted == {situation.rtps, situation.submessage, situation.payload} # {"NONE"}

\* The event loop matches endpoints, before their keys are registered and after
\* the built-in endpoints, of which it was told before; the security of the
\* endpoints of a participant without plugins has to be none.
UserPairs(x) == {<<pr[1][2], pr[2]>> : pr \in {pr \in situation.pairs : pr[1][1] = x}}
                \cup {<<pr[2][2], pr[1]>> : pr \in {pr \in situation.pairs : pr[2][1] = x}}
Match(x, pair) ==
    /\ pair \in UserPairs(x) \ (matched[x] \cup left)
    /\ x \in Secured => IF pair[2][1] \in Secured
                        THEN VolatilePairs(pair[2][1]) \subseteq matched[x] ELSE ~Restricted
    /\ matched' = [matched EXCEPT ![x] = @ \cup {pair}]
    /\ UNCHANGED <<situation, crypto, rx, acks, log, net, sent, heard, left>>

\* start_key_exchange_with_remote_endpoint: a further endpoint of the same
\* participant shares the handle of the first, and registering it fails.
register_matched_remote_endpoint(x, pair) ==
    /\ pair \in matched[x] \ crypto[x].handles
    /\ pair[2][1] \in crypto[x].participants /\ <<pair[1], pair[2][1]>> \notin crypto[x].encode
    /\ crypto' = [crypto EXCEPT ![x].handles = @ \cup {pair},
                                ![x].encode = @ \cup {<<pair[1], pair[2][1]>>}]
    /\ UNCHANGED <<situation, matched, rx, acks, log, net, sent, heard, left>>

\* The remote made tokens for this endpoint; keys that are there stay.
set_remote_endpoint_crypto_tokens(x, pair) ==
    LET y == pair[2][1]
        handle == <<pair[1], y>> IN
    /\ pair \in crypto[x].handles /\ handle \notin DOMAIN crypto[x].decode
    /\ <<pair[2][2], <<x, pair[1]>>>> \in crypto[y].handles
    /\ {situation.submessage, situation.payload} # {"NONE"}
    /\ crypto' = [crypto EXCEPT ![x].decode =
                    WithKeys(@, {handle}, EndpointMaterials(y, pair[2][2], x))]
    /\ UNCHANGED <<situation, matched, rx, acks, log, net, sent, heard, left>>

\* A Writer loses a Reader, and unregisters its keys; not matched again.
matched_reader_remove(x, pair) ==
    LET handle == <<pair[1], pair[2][1]>> IN
    /\ situation.leaves /\ pair \in matched[x] /\ pair[1] = "w" /\ pair \notin left
    /\ matched' = [matched EXCEPT ![x] = @ \ {pair}]
    /\ left' = left \cup {pair}
    /\ crypto' = IF pair \notin crypto[x].handles THEN crypto
                 ELSE [crypto EXCEPT ![x].handles = @ \ {pair}, ![x].encode = @ \ {handle},
                          ![x].decode = [h \in DOMAIN @ \ {handle} |-> @[h]]]
    /\ UNCHANGED <<situation, rx, acks, log, net, sent, heard>>

-----------------------------------------------------------------------------
(* Sending *)

\* The Reader g can open what the endpoint by sends it.
HasKeys(g, by) ==
    LET keys == crypto[g[1]] IN
    /\ <<g[2], by>> \in matched[g[1]]
    /\ g[1] \in Secured /\ ~rtps_not_protected /\ by[2] \notin BuiltinWriters =>
          by[1] \in keys.participants \cap keys.participant_keys
    /\ g[1] \in Secured /\ {submessage_kind(g[2]), payload_kind(g[2])} # {"NONE"} =>
          <<g[2], by>> \in keys.handles /\ <<g[2], by[1]>> \in DOMAIN keys.decode

\* send_message_to_readers, encode_and_send: each message is encoded for all it
\* is for; one that cannot be encoded is not sent.  parts: <<kind, submessages>>.
send_messages(by, to, aimed, stamped, parts) ==
    LET encoded(part) == security_encode(by[1], by[2], part[2], to) IN
    /\ Len(sent) < situation.MaxSent /\ to # {}
    /\ net' = net \cup {[no |-> Len(sent) + 1, kind |-> part[1], source |-> by[1], subs |-> encoded(part)] :
                          part \in {part \in ToSet(parts) : encoded(part) # <<>>}}
    /\ sent' = Append(sent, [by |-> by, to |-> to, aimed |-> aimed, stamped |-> stamped,
                             expect |-> {g \in to : g[1] \in Listeners /\ g[2] \in ReaderIds
                                                      /\ HasKeys(g, by)}])
    /\ UNCHANGED <<receiver, heard, left>>

No == Len(sent) + 1
Sub(kind, from, to) == [kind |-> kind, from |-> from, to |-> to, content |-> No]
INFO_TS == [kind |-> "INFO_TS", timestamp |-> No]
INFO_DST(y) == [kind |-> "INFO_DST", prefix |-> y]

GUID_UNKNOWN == <<UNKNOWN, UNKNOWN>>

\* DATA or DATAFRAG, with the payload protected first.
data_msg(kind, by, to) ==
    [kind |-> kind, from |-> by[2], to |-> to,
     payload |-> encode_serialized_payload(by[1], by[2], Plain(No))]

matched_readers(by) == {pair[2] : pair \in {pair \in matched[by[1]] : pair[1] = by[2]}}

\* One sample, to all Readers or to one; fragments travel in messages of their
\* own, and so do the GAP and the HEARTBEAT around them.
send_cache_change(by, target, options) ==
    LET aimed == target # GUID_UNKNOWN
        to == IF aimed THEN {target} ELSE matched_readers(by)
        id == IF aimed THEN target[2] ELSE UNKNOWN
        ts == IF options.stamped THEN <<INFO_TS>> ELSE <<>>
        dst == IF aimed THEN <<INFO_DST(target[1])>> ELSE <<>>
        gap == IF aimed /\ options.gaps THEN <<Sub("GAP", by[2], id)>> ELSE <<>>
        hb == <<Sub("HEARTBEAT", by[2], id)>>
    IN  /\ aimed => target \in matched_readers(by)
        /\ by[2] = "volatile_w" => aimed
        /\ send_messages(by, to, aimed, options.stamped,
              IF ~options.fragmented
              THEN <<<<"DATA", ts \o dst \o gap \o <<data_msg("DATA", by, id)>> \o hb>>>>
              ELSE (IF gap = <<>> THEN <<>> ELSE <<<<"GAP", dst \o gap>>>>)
                   \o <<<<"DATAFRAG", ts \o dst \o <<data_msg("DATAFRAG", by, id)>>>>,
                        <<"HEARTBEAT", hb>>>>)

\* The announcements of the participant go to anybody, by a stateless Writer.
send_spdp(x) ==
    send_messages(<<x, "spdp_w">>, {<<UNKNOWN, "spdp_r">>}, FALSE, TRUE,
                  <<<<"DATA", <<INFO_TS, data_msg("DATA", <<x, "spdp_w">>, UNKNOWN)>>>>>>)

\* To all Readers together; on the volatile topic to each alone.
handle_heartbeat_tick(by) ==
    LET parts == <<<<"HEARTBEAT", <<INFO_TS, Sub("HEARTBEAT", by[2], UNKNOWN)>>>>>> IN
    IF by[2] = "volatile_w"
    THEN \E g \in matched_readers(by) : send_messages(by, {g}, FALSE, TRUE, parts)
    ELSE send_messages(by, matched_readers(by), FALSE, TRUE, parts)

\* send_acknack_to, send_nackfrags_to.
send_acknack_to(by, kind, g) ==
    /\ <<by[2], g>> \in matched[by[1]]
    /\ send_messages(by, {g}, TRUE, FALSE, <<<<kind, <<INFO_DST(g[1]), Sub(kind, by[2], g[2])>>>>>>)

-----------------------------------------------------------------------------

\* A datagram, which may have come before.
handle_received_packet(x, m) ==
    /\ handle_parsed_message(x, m)
    /\ heard' = heard \cup {<<x, m>>}
    /\ UNCHANGED <<net, sent, left>>

Exchange ==
    \E x \in Prefix :
        \/ \E y \in Prefix :
              \/ register_remote_to_crypto(x, y) \/ update_participant(x, y)
              \/ set_remote_participant_crypto_tokens(x, y)
        \/ \E pair \in UserPairs(x) :
              \/ Match(x, pair) \/ register_matched_remote_endpoint(x, pair)
              \/ set_remote_endpoint_crypto_tokens(x, pair)

Leave == \E x \in Prefix : \E pair \in UserPairs(x) : matched_reader_remove(x, pair)

\* To keep the instances small, in some situations all keys are exchanged
\* before anything is sent.
Settled == situation.settled => ~ENABLED Exchange
Send ==
    /\ Settled
    /\ \/ \E by \in situation.writers :
             \/ \E target \in {GUID_UNKNOWN} \cup matched_readers(by), options \in situation.options :
                   send_cache_change(by, target, options)
             \/ handle_heartbeat_tick(by)
             \/ send_spdp(by[1])
       \/ \E by \in situation.acking, kind \in ReaderKinds :
             \E g \in {pair[2] : pair \in matched[by[1]]} : send_acknack_to(by, kind, g)

Receive ==
    \E x \in Listeners :
        \/ \E m \in net : m.source # x /\ handle_received_packet(x, m)
        \/ handle_submessage(x) /\ UNCHANGED <<net, sent, heard, left>>
        \/ handle_writer_acknack_action(x) /\ UNCHANGED <<net, sent, heard, left>>

Next == Exchange \/ Leave \/ Send \/ Receive
Spec == Init /\ [][Next]_vars

-----------------------------------------------------------------------------

IsUser(g) == g[2] \notin SpecialCase

\* The domain protects the origin of messages or of submessages.
OriginAuthenticated ==
    \/ situation.rtps_origin /\ situation.rtps # "NONE"
    \/ situation.submessage_origin /\ situation.submessage # "NONE"

\* What an endpoint is given was sent to it: its source GUID is that of the
\* endpoint that sent it, the timestamp is the one sent along, or none if there
\* was none, and what was for one Reader went to no other, except that the
\* HEARTBEAT after fragments names the Reader without its participant
\* (writer.rs:816-835).  With origin authentication nothing of the user's went
\* to a participant it was not for.  With any protection, no user endpoint is
\* given what a participant without plugins sent (MessageReceiver: reset,
\* handle_submessage, handle_interpreter_submessage,
\* must_be_rtps_protection_special_case; decode_submessage).
DeliveredAsSent ==
    \A e \in log :
        LET s == sent[e.content] IN
        /\ e.from = s.by
        /\ e.kind \in {"DATA", "DATAFRAG"} => e.timestamp = (IF s.stamped THEN e.content ELSE 0)
        /\ s.aimed => \E g \in s.to : e.at[2] = g[2] /\ (e.kind # "HEARTBEAT" => e.at = g)
        /\ e.at[1] \in Secured /\ IsUser(s.by) /\ OriginAuthenticated =>
              e.at[1] \in {g[1] : g \in s.to}
        /\ IsUser(e.at) /\ e.at[1] \in Secured /\ Restricted => e.from[1] \in Secured

\* The user's submessages that can be read in a message without keys.
Readable(m) == {s \in ToSet(m.subs) : "from" \in DOMAIN s /\ s.from \notin SpecialCase}

\* Encryption is not bypassed: in a message of a participant with plugins no
\* user submessage can be read if messages or submessages are encrypted, and no
\* payload if payloads are (encode_message, encode_submessage, data_msg).
NothingInClear ==
    \A m \in net : m.source \in Secured =>
        /\ "GCM" \in {situation.rtps, situation.submessage} => Readable(m) = {}
        /\ situation.payload = "GCM" =>
              \A s \in Readable(m) : s.kind \in {"DATA", "DATAFRAG"} => IsSealed(s.payload)

\* Nothing is protected so that it cannot be read: a Reader that had the keys
\* when a message was sent to it has been given its contents once its
\* participant is through with the message.
AddresseesGetIt ==
    \A h \in heard :
        rx[h[1]].queue = <<>> =>
            \A g \in {g \in sent[h[2].no].expect : g[1] = h[1]} :
                \E e \in log : e.at = g /\ e.content = h[2].no /\ e.kind = h[2].kind
=============================================================================
