-------------------------- MODULE SecureDiscovery --------------------------
(***************************************************************************)
(* Two participants with DDS Security authenticate each other and exchange *)
(* keys (discovery/secure_discovery.rs, the security parts of discovery.rs *)
(* and rtps/dp_event_loop.rs).  In each, the Discovery thread and the      *)
(* event loop thread work on the Discovery DB and the security plugins,    *)
(* and talk over two channels.  Handshake messages travel best effort;     *)
(* keys travel over the volatile topic, which is reliable.  One step is    *)
(* what a thread does with one message, command or notification.           *)
(*                                                                         *)
(* p has the smaller GUID prefix.  p has a DataWriter and q a DataReader    *)
(* on one topic.                                                           *)
(***************************************************************************)
EXTENDS CryptoKeys, AccessControl

CONSTANTS
    p, q,          \* the participants
    MaxOut,        \* bound: handshake messages waiting for the stateless Writer
    Situations,    \* configurations and faults of one behaviour, see below
    NoMessage      \* no authentication message is stored

(***************************************************************************)
(* A situation has the configuration: trusted, the participants that find  *)
(* the other's certificate and signatures good; rules, the domain rule of  *)
(* the governance of each; grants, the permissions of each; resends, is    *)
(* STORED_AUTH_MESSAGE_MAX_RESEND_COUNT.  And the faults: outages, how     *)
(* often a lease may expire; timely, that messages take much less than the *)
(* second between two resends; losses, the number of handshake messages    *)
(* that are lost in a timely situation and of writes of keys that fail.    *)
(* Without timely, messages may be lost, repeated and late without bound.  *)
(***************************************************************************)
Nodes == {p, q}

\* The domain and the topic the documents are read for, the time at which the
\* participants were created and the time since.
Domain == 0
Topic  == "Topic"
Past   == 0
Now    == 1

ASSUME SecurityAssumption ==
    /\ p # q /\ NoMessage \notin Nodes
    /\ MaxOut \in Nat \ {0}
    /\ \A s \in Situations :
          /\ s.resends \in Nat \ {0} /\ s.losses \in Nat /\ s.outages \in Nat
          /\ s.trusted \subseteq Nodes /\ s.timely \in BOOLEAN
          /\ DOMAIN s.grants = Nodes /\ DOMAIN s.rules = Nodes

VARIABLES
    situation,   \* the situation, fixed
    losses, outages,  \* how many of the faults have happened
    turn,        \* in a timely situation, whose resend timer fires next
    status,      \* Discovery DB: AuthenticationStatus of the remote
    known,       \* Discovery DB: it has the remote's participant data
    announced,   \* of the remote's endpoint: "read", what SEDP brought is read;
                 \* Discovery DB: "known", or in the "attic"
    hs,          \* handshake_states
    stored,      \* stored_authentication_messages, as [message, left]
    next,        \* next_seqnum of the ParticipantGenericMessageHelper
    cached,      \* cached_received_key_exchange_messages
    unsent,      \* cached_key_exchange_messages_for_resend
    keysSent,    \* user_data_endpoints_with_keys_already_sent_to
    auth,        \* the authentication plugin
    crypto,      \* the cryptographic plugin
    notes,       \* discovery_updated channel, to the event loop
    commands,    \* discovery_command channel, to Discovery
    out,         \* handshake messages on their way to the stateless Writer
    loop,        \* event loop: the groups of built-in endpoints it matched
    matched,     \* event loop: the user endpoints are matched
    net,         \* external: handshake messages in the network
    volatile     \* the volatile topic's messages, by destination

discovery == <<status, known, announced, hs, stored, next, cached, unsent, keysSent>>
plugins   == <<auth, crypto>>
eventLoop == <<loop, matched>>
faults    == <<situation, losses, outages>>
vars      == <<faults, turn, discovery, plugins, notes, commands, out, eventLoop, net, volatile>>

Peer(n) == IF n = p THEN q ELSE p

\* What the permissions handle of participant m stands for at n: n's governance
\* and m's permissions; a certificate's subject is the participant.
Permissions(n, m) ==
    [rule |-> situation.rules[n], subject |-> m, grants |-> situation.grants[m]]

\* get_topic_sec_attributes and get_*_sec_attributes of the topic at n.
Attributes(n) == get_endpoint_security_attributes(situation.rules[n], Topic)

EndpointInfo(n) == EndpointSecurityInfo(situation.rules[n], Topic)

\* By what the other announced of its endpoint.
NeedsKeys(n) ==
    \E info \in EndpointInfo(Peer(n)) :
        info.attributes.payload.is_protected \/ info.attributes.submessage.is_protected

\* What the participants and their endpoints had to pass to be created.
Created(n) ==
    LET perm == Permissions(n, n) IN
    /\ validate_local_permissions(perm, Past)
    /\ check_participant(perm, Domain, Past)
    /\ check_entity(perm, Domain, Topic, IF n = p THEN "writer" ELSE "reader", Past)
    /\ EndpointInfo(n) # {}

Init ==
    /\ situation \in Situations /\ \A n \in Nodes : Created(n)
    /\ losses = 0 /\ outages = 0 /\ turn = p
    /\ status = [n \in Nodes |-> "None"] /\ known = [n \in Nodes |-> FALSE]
    /\ announced = [n \in Nodes |-> {}]
    /\ hs = [n \in Nodes |-> "None"] /\ stored = [n \in Nodes |-> NoMessage]
    /\ next = [n \in Nodes |-> 1]
    /\ cached = [n \in Nodes |-> {}] /\ unsent = [n \in Nodes |-> {}] /\ keysSent = [n \in Nodes |-> FALSE]
    /\ auth = [n \in Nodes |-> NoIdentity] /\ crypto = [n \in Nodes |-> NoCrypto]
    /\ notes = [n \in Nodes |-> <<>>] /\ commands = [n \in Nodes |-> <<>>]
    /\ out = [n \in Nodes |-> <<>>]
    /\ loop = [n \in Nodes |-> {}] /\ matched = [n \in Nodes |-> FALSE]
    /\ net = {} /\ volatile = [n \in Nodes |-> <<>>]

-----------------------------------------------------------------------------
\* A message identifies itself and the message it answers, which is 0 for
\* none; a stored message is resent as it is.
new_stateless_message(n, related, token) ==
    [to |-> Peer(n), id |-> next[n], related |-> related, token |-> token]

StoredAuthenticationMessage(m) == [message |-> m, left |-> situation.resends]

send_discovery_notification(n, note) == notes' = [notes EXCEPT ![n] = Append(@, note)]

\* Writes a new handshake message, stores it and counts it.
SendNew(n, m) ==
    /\ stored' = [stored EXCEPT ![n] = StoredAuthenticationMessage(m)]
    /\ out' = [out EXCEPT ![n] = Append(@, m)]
    /\ next' = [next EXCEPT ![n] = @ + 1]

\* With the plugin's record a.  When the plugin refuses, the handshake state
\* PendingRequestSend has it tried again at the next SPDP or handshake message.
try_sending_new_handshake_request_message(n, a) ==
    IF can_begin_handshake_request(a)
    THEN /\ auth' = [auth EXCEPT ![n] = begin_handshake_request(a, next[n])]
         /\ SendNew(n, new_stateless_message(n, 0, Token("request", next[n], NoChallenge)))
         /\ hs' = [hs EXCEPT ![n] = "PendingReply"]
    ELSE /\ auth' = [auth EXCEPT ![n] = a] /\ hs' = [hs EXCEPT ![n] = "PendingRequestSend"]
         /\ UNCHANGED <<stored, out, next>>

\* DiscoveryDB's update_participant takes back from the attic what it has of a
\* participant it did not know.
UpdateDB(n) ==
    /\ known' = [known EXCEPT ![n] = TRUE]
    /\ announced' = [announced EXCEPT ![n] = IF "attic" \in @ THEN (@ \ {"attic"}) \cup {"known"}
                                             ELSE @]

start_authentication_with_remote(n) ==
    LET a == validate_remote_identity(auth[n], n = p) IN
    /\ UpdateDB(n)
    /\ status' = [status EXCEPT ![n] = "Authenticating"]
    /\ send_discovery_notification(n, "StatusChanged")
    /\ IF n = p
       THEN try_sending_new_handshake_request_message(n, a)
       ELSE /\ auth' = [auth EXCEPT ![n] = a]
            /\ hs' = [hs EXCEPT ![n] = "PendingRequestMessage"]
            /\ UNCHANGED <<stored, out, next>>

\* The security part of the SPDP data of n.
SpdpData(n) ==
    [identity_token    |-> {"DDS:Auth:PKI-DH:1.0"},
     permissions_token |-> {PermissionsClassId},
     security_info     |-> {ParticipantSecurityInfo(situation.rules[n])}]

\* Same plugins, and the same security info with valid masks throughout.
check_compatibility_with_remote_participant(mine, remote) ==
    /\ \E token \in remote.identity_token : token \in mine.identity_token
    /\ \E token \in remote.permissions_token : token \in mine.permissions_token
    /\ \E info \in remote.security_info : \A own \in mine.security_info :
          /\ {own.mask.is_valid, own.plugin_mask.is_valid,
              info.mask.is_valid, info.plugin_mask.is_valid} = {TRUE}
          /\ own = info

Compatible(n) ==
    check_compatibility_with_remote_participant(SpdpData(n), SpdpData(Peer(n)))

\* process_discovered_participant_data, which only Unauthenticated allows.
ProcessUnauthenticated(n) ==
    /\ status' = [status EXCEPT ![n] = "Unauthenticated"]
    /\ UpdateDB(n)
    /\ send_discovery_notification(n, "Updated")
    /\ UNCHANGED <<hs, stored, out, next, auth>>

\* SPDP data of the other participant is read, whatever is known of it.
participant_data_read(n) ==
    /\ \/ /\ status[n] = "None" /\ Compatible(n)
          /\ start_authentication_with_remote(n)
       \/ /\ \/ status[n] = "None" /\ ~Compatible(n)
                /\ situation.rules[n].allow_unauthenticated_participants
             \/ status[n] = "Unauthenticated" /\ notes[n] = <<>>
          /\ ProcessUnauthenticated(n)
       \/ /\ status[n] = "None" /\ ~Compatible(n)
          /\ ~situation.rules[n].allow_unauthenticated_participants
          /\ status' = [status EXCEPT ![n] = "Rejected"]
          /\ UNCHANGED <<known, announced, notes, hs, stored, out, next, auth>>
       \/ /\ status[n] = "Authenticating" /\ hs[n] = "PendingRequestSend"
          /\ try_sending_new_handshake_request_message(n, auth[n])
          /\ UNCHANGED <<status, known, announced, notes>>
    /\ UNCHANGED <<faults, turn, cached, unsent, keysSent, crypto, commands, eventLoop, net, volatile>>

-----------------------------------------------------------------------------
\* Whether m answers the message we have stored, if we still have it.
any_related(n, m) == stored[n] # NoMessage

check_is_stateless_msg_related_to_our_msg(n, m) ==
    stored[n] # NoMessage /\ m.related = stored[n].message.id

update_status_and_notify(n, s) ==
    status' = [status EXCEPT ![n] = s] /\ send_discovery_notification(n, "StatusChanged")

\* register_remote_to_crypto, from the record k, with the secret of a.
register_remote_to_crypto(k, a) ==
    register_matched_remote_endpoint_if_not_already(
        register_matched_remote_endpoint_if_not_already(
            register_matched_remote_participant(k), a, "volatile"), a, "builtin")

\* The plugins are not locked throughout: when the event loop has a loss of the
\* remote to handle, it may forget the identity before the registration or in
\* the middle of it, which then fails.  (That it is forgotten is the event loop's
\* own step, which may as well come right after.)
RegisteredInPart(k, a) ==
    LET r == register_matched_remote_participant(k)
    IN  {k, r, register_matched_remote_endpoint_if_not_already(r, a, "volatile")}

\* Permissions are validated with what the DB and the handshake know, then
\* checked, then the remote is registered; anything that fails rejects it.
on_remote_participant_authenticated_unchecked(n, a) ==
    /\ auth' = [auth EXCEPT ![n] = [a EXCEPT !.permissions = TRUE]]
    /\ crypto' = [crypto EXCEPT ![n] = register_remote_to_crypto(@, a)]
    /\ update_status_and_notify(n, "Authenticated")

on_remote_participant_authenticated(n, a) ==
    LET perm == Permissions(n, Peer(n))
        valid == /\ known[n] /\ can_validate_permissions(a)
                 /\ \E token \in SpdpData(Peer(n)).permissions_token :
                        validate_remote_permissions(token, perm, Now)
        admitted == situation.rules[n].enable_join_access_control =>
                        check_participant(perm, Domain, Now)
    IN
    /\ auth' = [auth EXCEPT ![n] = [a EXCEPT !.permissions = valid \/ @]]
    /\ \/ /\ valid /\ admitted
          /\ crypto' = [crypto EXCEPT ![n] = register_remote_to_crypto(@, a)]
          /\ update_status_and_notify(n, "Authenticated")
       \/ /\ valid /\ admitted /\ Contains(notes[n], "Lost")
          /\ \E k \in RegisteredInPart(crypto[n], a) : crypto' = [crypto EXCEPT ![n] = k]
          /\ update_status_and_notify(n, "Rejected")
       \/ ~(valid /\ admitted) /\ update_status_and_notify(n, "Rejected") /\ UNCHANGED crypto

Ignored == UNCHANGED <<auth, stored, out, next, hs, status, notes, crypto>>

handshake_on_pending_request_message(n, m) ==
    /\ IF can_begin_handshake_reply(auth[n], m.token, n \in situation.trusted)
       THEN /\ auth' = [auth EXCEPT ![n] = begin_handshake_reply(@, m.token, next[n])]
            /\ SendNew(n, new_stateless_message(n, m.id, Token("reply", m.token.c1, next[n])))
            /\ hs' = [hs EXCEPT ![n] = "PendingFinal"]
            /\ UNCHANGED <<status, notes, crypto>>
       ELSE Ignored

\* A token the plugin refuses: the resends start from anew.
Refused(n, a) ==
    /\ auth' = [auth EXCEPT ![n] = a]
    /\ stored' = [stored EXCEPT ![n] = StoredAuthenticationMessage(@.message)]
    /\ UNCHANGED <<out, next, hs, status, notes, crypto>>

handshake_on_pending_reply_message(n, m) ==
    LET a == process_handshake(auth[n], m.token, n \in situation.trusted) IN
    IF ~check_is_stateless_msg_related_to_our_msg(n, m) THEN Ignored
    ELSE IF accepts(auth[n], m.token, n \in situation.trusted)
         THEN /\ SendNew(n, new_stateless_message(n, m.id, Token("final", a.c1, a.c2)))
              /\ hs' = [hs EXCEPT ![n] = "CompletedSent"]
              /\ on_remote_participant_authenticated(n, a)
         ELSE Refused(n, a)

handshake_on_pending_final_message(n, m) ==
    LET a == process_handshake(auth[n], m.token, n \in situation.trusted) IN
    IF ~check_is_stateless_msg_related_to_our_msg(n, m) THEN Ignored
    ELSE IF accepts(auth[n], m.token, n \in situation.trusted)
         THEN /\ hs' = [hs EXCEPT ![n] = "CompletedReceived"]
              /\ stored' = [stored EXCEPT ![n] = NoMessage]
              /\ on_remote_participant_authenticated(n, a)
              /\ UNCHANGED <<out, next>>
         ELSE Refused(n, a)

resend_final_handshake_message(n) ==
    /\ out' = IF stored[n] = NoMessage THEN out
              ELSE [out EXCEPT ![n] = Append(@, stored[n].message)]
    /\ UNCHANGED <<stored, next, hs, auth, status, notes, crypto>>

participant_stateless_message_read(n, m) ==
    /\ m.to = n
    /\ CASE hs[n] = "PendingRequestSend" ->
              /\ try_sending_new_handshake_request_message(n, auth[n])
              /\ UNCHANGED <<status, notes, crypto>>
         [] hs[n] = "PendingRequestMessage" -> handshake_on_pending_request_message(n, m)
         [] hs[n] = "PendingReply" -> handshake_on_pending_reply_message(n, m)
         [] hs[n] = "PendingFinal" -> handshake_on_pending_final_message(n, m)
         [] hs[n] = "CompletedSent" -> resend_final_handshake_message(n)
         [] OTHER -> Ignored
    /\ UNCHANGED <<known, announced, cached, unsent, keysSent, commands, eventLoop, volatile>>

\* In a timely situation a message is read once.
StatelessRead(n) ==
    \E m \in net :
        /\ Len(out[n]) < MaxOut
        /\ participant_stateless_message_read(n, m)
        /\ net' = IF situation.timely THEN net \ {m} ELSE net
        /\ UNCHANGED <<faults, turn>>

LoseMessage ==
    /\ situation.timely /\ losses < situation.losses /\ losses' = losses + 1
    /\ \E m \in net : net' = net \ {m}
    /\ UNCHANGED <<situation, outages, turn, discovery, plugins, notes, commands, out, eventLoop, volatile>>

\* Everything sent has arrived and been dealt with.
Settled ==
    /\ net = {} /\ \A n \in Nodes : <<notes[n], commands[n], out[n]>> = << <<>>, <<>>, <<>> >>
    /\ \A n \in Nodes : status[n] # "None"

Without(owners, failed) == SelectSeq(owners, LAMBDA o : o \notin failed)

\* Writes to the volatile topic, which reach a matched remote.  One that times
\* out is kept until the resend timer tries again.
send_key_exchange_messages(n, owners, kept) ==
    \E failed \in SUBSET ToSet(owners) :
        /\ failed # {} => losses < situation.losses
        /\ losses' = IF failed = {} THEN losses ELSE losses + 1
        /\ unsent' = [unsent EXCEPT ![n] = kept \cup failed]
        /\ volatile' = IF "secure" \in loop[n]
                       THEN [volatile EXCEPT ![Peer(n)] = @ \o Without(owners, failed)]
                       ELSE volatile

\* Counts a resend, and gives the message up with the last one.
resent_once(st) == NoMessage

resent(st) == IF st.left > 1 THEN [st EXCEPT !.left = @ - 1] ELSE NoMessage

\* The resend timer, every second, for handshake messages and keys.  The final
\* message is only resent when asked for.
resend_cached_secure_discovery_messages(n) ==
    /\ Len(out[n]) < MaxOut
    /\ situation.timely => Settled /\ turn = n
    /\ turn' = IF situation.timely THEN Peer(n) ELSE turn
    /\ IF stored[n] = NoMessage \/ hs[n] = "CompletedSent" THEN UNCHANGED <<stored, out>>
       ELSE /\ out' = [out EXCEPT ![n] = Append(@, stored[n].message)]
            /\ stored' = [stored EXCEPT ![n] = resent(@)]
    /\ send_key_exchange_messages(n, SetToSeq(unsent[n]), {})
    /\ UNCHANGED <<situation, outages, status, known, announced, hs, next, cached, keysSent, plugins,
                   notes, commands, eventLoop, net>>

\* participant_cleanup: the lease has expired.  What Secure Discovery keeps
\* about the remote stays.
participant_cleanup(n) ==
    /\ known[n] /\ outages < situation.outages /\ outages' = outages + 1
    /\ known' = [known EXCEPT ![n] = FALSE] /\ status' = [status EXCEPT ![n] = "None"]
    /\ announced' = [announced EXCEPT ![n] = IF "known" \in @ THEN (@ \ {"known"}) \cup {"attic"}
                                             ELSE @]
    /\ send_discovery_notification(n, "Lost")
    /\ UNCHANGED <<situation, losses, turn, hs, stored, next, cached, unsent, keysSent, plugins, commands,
                   out, eventLoop, net, volatile>>

-----------------------------------------------------------------------------
start_key_exchange_with_remote_participant(n) ==
    LET owners == SelectSeq(<<"participant", "builtin">>, LAMBDA o : can_create_tokens(crypto[n], o)) IN
    /\ IF known[n] THEN send_key_exchange_messages(n, owners, unsent[n])
       ELSE UNCHANGED <<losses, unsent, volatile>>
    /\ UNCHANGED <<cached, keysSent, crypto>>

\* Registers the remote endpoint and uses the keys it sent before that.  Gives
\* the plugin's record and what is left in the cache.
register_and_use_cached(n) ==
    LET k == register_matched_remote_endpoint_if_not_already(crypto[n], auth[n], "user")
        use == "user" \in cached[n] /\ can_set_tokens(k, "user")
    IN  [crypto |-> IF use THEN set_remote_crypto_tokens(k, "user") ELSE k,
         cached |-> IF use THEN cached[n] \ {"user"} ELSE cached[n]]

\* Sends our keys, if there are any to be sent and they have not been sent; not
\* when the remote endpoint is no longer known.
send_endpoint_keys(n, k) ==
    LET send == /\ ~keysSent[n] /\ "known" \in announced[n] /\ EndpointInfo(Peer(n)) # {}
                /\ NeedsKeys(n) => can_create_tokens(k, "user")
    IN  /\ keysSent' = [keysSent EXCEPT ![n] = @ \/ send]
        /\ IF send /\ NeedsKeys(n) THEN send_key_exchange_messages(n, <<"user">>, unsent[n])
           ELSE UNCHANGED <<losses, unsent, volatile>>

start_key_exchange_with_remote_endpoint(n) ==
    LET r == register_and_use_cached(n) IN
    /\ crypto' = [crypto EXCEPT ![n] = r.crypto] /\ cached' = [cached EXCEPT ![n] = r.cached]
    /\ send_endpoint_keys(n, r.crypto)

handle_command(n) ==
    /\ commands[n] # <<>> /\ commands' = [commands EXCEPT ![n] = Tail(@)]
    /\ CASE Head(commands[n]) = "KeyExchangeWithParticipant" ->
              start_key_exchange_with_remote_participant(n)
         [] Head(commands[n]) = "KeyExchangeWithEndpoint" ->
              start_key_exchange_with_remote_endpoint(n)
    /\ UNCHANGED <<situation, outages, turn, status, known, announced, hs, stored, next, auth, notes,
                   out, eventLoop, net>>

\* Endpoint keys that cannot be set yet are kept for later.
store_received_volatile_message(received, owner) ==
    IF owner = "participant" THEN received ELSE received \cup {owner}

volatile_message_secure_read(n) ==
    /\ volatile[n] # <<>> /\ "secure" \in loop[n]
    /\ can_decode_volatile(crypto[n], crypto[Peer(n)])
    /\ LET owner == Head(volatile[n]) IN
       /\ crypto' = [crypto EXCEPT ![n] = set_remote_crypto_tokens(@, owner)]
       /\ cached' = [cached EXCEPT ![n] = IF can_set_tokens(crypto[n], owner) THEN @
                                          ELSE store_received_volatile_message(@, owner)]
    /\ volatile' = [volatile EXCEPT ![n] = Tail(@)]
    /\ UNCHANGED <<faults, turn, status, known, announced, hs, stored, next, unsent, keysSent, auth,
                   notes, commands, out, eventLoop, net>>

\* What governance says of the topic is looked up with the remote's
\* permissions handle.  A Reader that may only relay is let through too.
HasAttributes(n) ==
    get_permissions_handle(auth[n]) /\ has_endpoint_security_attributes(situation.rules[n], Topic)

MayRead(n) ==
    Attributes(n).is_read_protected =>
        check_remote_datareader(Permissions(n, Peer(n)), Domain, Topic, Now).check_passed

MayWrite(n) ==
    Attributes(n).is_write_protected =>
        check_entity(Permissions(n, Peer(n)), Domain, Topic, "writer", Now)

check_nonsecure_subscription_read(n) ==
    /\ HasAttributes(n) /\ ~Attributes(n).is_discovery_protected
    /\ \/ status[n] = "Unauthenticated" /\ ~Attributes(n).is_read_protected
       \/ status[n] = "Authenticated" /\ MayRead(n)

check_nonsecure_publication_read(n) ==
    /\ HasAttributes(n) /\ ~Attributes(n).is_discovery_protected
    /\ \/ status[n] = "Unauthenticated" /\ ~Attributes(n).is_write_protected
       \/ status[n] = "Authenticated" /\ MayWrite(n)

check_secure_subscription_read(n) == status[n] = "Authenticated" /\ HasAttributes(n) /\ MayRead(n)

\* Fault: takes what comes over the secure topic as permitted.
check_secure_publication_read_any(n) == status[n] = "Authenticated" /\ HasAttributes(n)

check_secure_publication_read(n) == status[n] = "Authenticated" /\ HasAttributes(n) /\ MayWrite(n)

\* An announcement is taken even when it is denied.
Decide(n, permission) ==
    IF permission
    THEN /\ announced' = [announced EXCEPT ![n] = @ \cup {"read", "known"}]
         /\ send_discovery_notification(n, "Endpoint")
    ELSE announced' = [announced EXCEPT ![n] = @ \cup {"read"}] /\ UNCHANGED notes

\* p hears of a subscription, q of a publication, on the secure SEDP topics
\* when the one who announces it protects discovery of the topic.
AnnouncedSecurely(n) == \E info \in EndpointInfo(Peer(n)) : info.attributes.is_discovery_protected

SecureSedp(n) ==
    /\ AnnouncedSecurely(n) /\ "secure" \in loop[n] \cap loop[Peer(n)]
    /\ can_decode(crypto[n], "builtin") /\ "builtin" \in crypto[Peer(n)].encode

handle_secure_subscription_reader(n) ==
    n = p /\ SecureSedp(n) /\ Decide(n, check_secure_subscription_read(n))

handle_secure_publication_reader(n) ==
    n = q /\ SecureSedp(n) /\ Decide(n, check_secure_publication_read(n))

PlainSedp(n) == ~AnnouncedSecurely(n) /\ "standard" \in loop[n] \cap loop[Peer(n)]

handle_subscription_reader(n) ==
    n = p /\ PlainSedp(n) /\ Decide(n, check_nonsecure_subscription_read(n))

handle_publication_reader(n) ==
    n = q /\ PlainSedp(n) /\ Decide(n, check_nonsecure_publication_read(n))

endpoint_read(n) ==
    /\ "read" \notin announced[n]
    /\ \/ handle_secure_subscription_reader(n) \/ handle_secure_publication_reader(n)
       \/ handle_subscription_reader(n) \/ handle_publication_reader(n)
    /\ UNCHANGED <<faults, turn, status, known, hs, stored, next, cached, unsent, keysSent, plugins,
                   commands, out, eventLoop, net, volatile>>

-----------------------------------------------------------------------------
\* The event loop.  The stateless Writer sends to the Readers it has matched.
WriterSend(n) ==
    /\ out[n] # <<>> /\ out' = [out EXCEPT ![n] = Tail(@)]
    /\ net' = IF "stateless" \in loop[n] THEN net \cup {Head(out[n])} ELSE net
    /\ UNCHANGED <<faults, turn, discovery, plugins, notes, commands, eventLoop, volatile>>

\* The groups of built-in endpoints that are matched at each status.
groups(s) ==
    CASE s = "Authenticating"  -> {"stateless"}
      [] s = "Authenticated"   -> {"standard", "secure"}
      [] s = "Unauthenticated" -> {"standard"}
      [] OTHER                 -> {}

update_participant(n) ==
    loop' = [loop EXCEPT ![n] = IF known[n] THEN @ \cup groups(status[n]) ELSE @]

\* The status is the one in the DB now, not the one that was announced.
on_remote_participant_authentication_status_changed(n) ==
    /\ IF status[n] \in {"Authenticated", "Authenticating"} THEN update_participant(n)
       ELSE UNCHANGED loop
    /\ commands' = IF status[n] = "Authenticated"
                   THEN [commands EXCEPT ![n] = Append(@, "KeyExchangeWithParticipant")]
                   ELSE commands
    /\ UNCHANGED <<matched, plugins, announced, volatile>>

\* Neither has security info, or both the same and valid.
check_are_endpoints_securities_compatible(local, remote) ==
    /\ local = remote
    /\ \A info \in local : info.is_valid

\* remote_reader_discovered and remote_writer_discovered.
remote_endpoint_discovered(n) ==
    /\ IF check_are_endpoints_securities_compatible(EndpointInfo(n), EndpointInfo(Peer(n)))
       THEN /\ matched' = [matched EXCEPT ![n] = TRUE]
            /\ commands' = [commands EXCEPT ![n] = Append(@, "KeyExchangeWithEndpoint")]
       ELSE UNCHANGED <<matched, commands>>
    /\ UNCHANGED <<loop, plugins, announced, volatile>>

\* Each proxy that is removed unregisters its endpoint.
remote_participant_lost(n) ==
    LET pairs == (IF "secure" \in loop[n] THEN BuiltinPairs ELSE {})
                 \cup (IF matched[n] THEN {"user"} ELSE {}) IN
    /\ loop' = [loop EXCEPT ![n] = {}] /\ matched' = [matched EXCEPT ![n] = FALSE]
    /\ auth' = [auth EXCEPT ![n] = forget_identity(@)]
    /\ crypto' = [crypto EXCEPT ![n] =
                     unregister_remote_participant(unregister_remote_endpoints(@, pairs))]
    /\ announced' = [announced EXCEPT ![n] = @ \ {"read"}]
    /\ volatile' = [volatile EXCEPT ![Peer(n)] = <<>>]
    /\ UNCHANGED commands

handle_notification(n) ==
    /\ notes[n] # <<>> /\ notes' = [notes EXCEPT ![n] = Tail(@)]
    /\ CASE Head(notes[n]) = "StatusChanged" ->
              on_remote_participant_authentication_status_changed(n)
         [] Head(notes[n]) = "Updated" ->
              update_participant(n) /\ UNCHANGED <<matched, plugins, announced, volatile, commands>>
         [] Head(notes[n]) = "Endpoint" -> remote_endpoint_discovered(n)
         [] Head(notes[n]) = "Lost" -> remote_participant_lost(n)
    /\ UNCHANGED <<faults, turn, status, known, hs, stored, next, cached, unsent, keysSent, out, net>>

-----------------------------------------------------------------------------
Step(n) ==
    \/ participant_data_read(n) \/ StatelessRead(n)
    \/ handle_command(n) \/ volatile_message_secure_read(n) \/ endpoint_read(n)
    \/ WriterSend(n) \/ handle_notification(n)
    \/ resend_cached_secure_discovery_messages(n)

Next == LoseMessage \/ \E n \in Nodes : Step(n) \/ participant_cleanup(n)

Spec == Init /\ [][Next]_vars

\* Both threads of both participants keep running, SPDP data and what is in
\* the network and not lost arrives, and the timers fire; that much is only
\* promised where messages are timely.
Timely(A) == situation.timely /\ A

FairSpec ==
    /\ Spec
    /\ \A n \in Nodes :
          /\ WF_vars(Timely(participant_data_read(n))) /\ WF_vars(Timely(StatelessRead(n)))
          /\ WF_vars(Timely(handle_command(n))) /\ WF_vars(Timely(volatile_message_secure_read(n)))
          /\ WF_vars(Timely(endpoint_read(n))) /\ WF_vars(Timely(WriterSend(n)))
          /\ WF_vars(Timely(handle_notification(n)))
          /\ WF_vars(Timely(resend_cached_secure_discovery_messages(n)))

-----------------------------------------------------------------------------
\* n has refused the certificate a reply came with: the plugin has fallen back,
\* Secure Discovery still waits for a reply.
ReplyRefused(n) ==
    /\ n \notin situation.trusted
    /\ hs[n] = "PendingReply" /\ auth[n].state = "PendingRequestSend"

\* While no lease expires, the handshake state of Secure Discovery is the one
\* the authentication plugin is in, unless a certificate was refused.
HandshakeMirrored ==
    outages = 0 => \A n \in Nodes : hs[n] = auth[n].state \/ ReplyRefused(n)

\* Both ends of a completed handshake have the same secret, also when leases
\* expired in between and old messages are still around; and when no lease
\* expired, the first to complete is right about where the other one is.
SecretsAgree ==
    /\ Completed(auth[p].state) /\ Completed(auth[q].state) =>
           SharedSecret(auth[p]) = SharedSecret(auth[q])
    /\ outages = 0 /\ Completed(auth[p].state) =>
           /\ auth[q].state \in {"PendingFinal", "CompletedReceived"}
           /\ SharedSecret(auth[p]) = SharedSecret(auth[q])

\* A participant that was refused, by its certificate or its permissions,
\* gets no keys from the one that refused it.
RefusedGetsNoKeys ==
    \A n \in Nodes :
        \/ n \notin situation.trusted
        \/ /\ situation.rules[n].enable_join_access_control
           /\ ~check_participant(Permissions(n, Peer(n)), Domain, Now)
        => volatile[Peer(n)] = <<>> /\ crypto[Peer(n)].decode \subseteq {"volatile"}

\* The secure built-in endpoints are matched only with an authenticated remote,
\* or with one whose loss the event loop is yet to hear of; and a matched
\* endpoint of the other participant has the right it uses, by a rule of its
\* grant, if governance protects the topic against such use; and both sides
\* protect what they exchange alike.
MatchedIsPermitted ==
    LET Granted(m, action) ==
            LET g == find_grant(situation.grants[m], m, Now)
            IN  g # 0 /\ check_action(situation.grants[m][g], action, Domain, Topic)
    IN
    /\ \A n \in Nodes :
          "secure" \in loop[n] => status[n] = "Authenticated" \/ Contains(notes[n], "Lost")
    /\ matched[p] /\ Attributes(p).is_read_protected =>
           Granted(q, "Subscribe") \/ Granted(q, "Relay")
    /\ matched[q] /\ Attributes(q).is_write_protected => Granted(p, "Publish")
    /\ matched[p] \/ matched[q] => Attributes(p) = Attributes(q)

\* A rule written in the order of the schema loses none of its elements
\* (Rule::from_xml), and the decisions of access control, which are written
\* independently of each other, agree: on topics and endpoints, on a
\* Reader seen from both sides, on joining and using a domain.  The decisions
\* depend on the documents alone, so they are compared before anything happens.
DecisionsAgree == Init =>
    /\ \A elems \in RuleTexts, action \in Actions :
          rule_from_xml("Allow", {}, elems).criteria[action]
            = {c \in ToSet(elems) : c.action = action}
    /\ \A perm \in Handles : DecisionsAgreeOn(perm, Domain, Topic, Now)

\* Nothing stands in the way: certificates, documents and attributes are good.
InOrder ==
    /\ situation.timely /\ situation.outages = 0 /\ Compatible(p)
    /\ situation.trusted = Nodes /\ EndpointInfo(p) = EndpointInfo(q)
    /\ \A n \in Nodes : validate_remote_permissions(PermissionsClassId, Permissions(Peer(n), n), Now)
                       /\ check_participant(Permissions(Peer(n), n), Domain, Now)
    /\ check_entity(Permissions(q, p), Domain, Topic, "writer", Now)
    /\ check_entity(Permissions(p, q), Domain, Topic, "reader", Now)

Connected ==
    \A n \in Nodes :
        /\ status[n] = "Authenticated" /\ matched[n]
        /\ NeedsKeys(n) => can_decode(crypto[n], "user")

\* If all is in order, messages are timely and only so many are lost, both
\* end up authenticated and with the keys of the other's endpoint, and stay so:
\* whichever of registration, matching and the keys comes first
\* (secure_discovery.rs: the resend tasks, store_received_volatile_message,
\* start_key_exchange_with_remote_endpoint).
KeysAreExchanged == InOrder ~> [](Connected)
=============================================================================
