-------------------------- MODULE MessageReceiver --------------------------
(***************************************************************************)
(* The MessageReceiver (rtps/message_receiver.rs) of each participant,     *)
(* which takes a message apart submessage by submessage, and the part of   *)
(* SecurityPlugins (security/security_plugins.rs) it and the senders use.  *)
(*                                                                         *)
(* A GUID is <<prefix, entity id>>.  The plugin knows a remote endpoint by *)
(* a crypto handle, one for a local endpoint and a remote participant:     *)
(* <<local entity id, remote prefix>>.                                     *)
(***************************************************************************)
EXTENDS RtpsProtection

CONSTANTS
    Prefix,         \* the participants
    Secured,        \* those of them with security plugins
    AckCapacity,    \* of acknack_sender
    Situations      \* domain rules: kinds of protection, and the local Readers

VARIABLES
    situation,      \* the one of Situations this behaviour is about
    crypto,         \* what each participant's plugins know of the others
    matched,        \* <<local entity id, remote GUID>> pairs, per participant
    rx,             \* the MessageReceiver of each participant
    acks,           \* acknack_sender .. ack_nack_receiver
    log             \* what Readers and Writers were given

UNKNOWN == "ENTITYID_UNKNOWN"
BuiltinWriters == {"spdp_w", "volatile_w"}
BuiltinReaders == {"spdp_r", "volatile_r"}
WriterIds == BuiltinWriters \cup {"w"}
EntityOrder == <<"r1", "r2", "spdp_r", "volatile_r">>
ReaderIds == ToSet(EntityOrder)
SpecialCase == BuiltinWriters \cup BuiltinReaders

UserReaders == ReaderIds \ BuiltinReaders

\* Only participants with plugins authenticate each other.
ASSUME PrefixAssumption == Secured \subseteq Prefix /\ UNKNOWN \notin Prefix
ASSUME SituationsAssumption ==
    \A s \in Situations :
        /\ {s.rtps, s.submessage, s.payload} \subseteq Transformations
        /\ {s.rtps_origin, s.submessage_origin} \subseteq BOOLEAN
        /\ s.options \subseteq [fragmented : BOOLEAN, stamped : BOOLEAN, gaps : BOOLEAN]
        /\ s.readers \subseteq UserReaders
        /\ s.pairs \subseteq (Prefix \X {"w"}) \X (Prefix \X UserReaders)
        /\ s.peers \subseteq Secured \X Secured
        /\ s.writers \subseteq Prefix \X {"w", "volatile_w"}
        /\ s.acking \subseteq Prefix \X (UserReaders \cup {"volatile_r"})

available_readers(x) == situation.readers \cup BuiltinReaders
WriterKinds == {"DATA", "DATAFRAG", "GAP", "HEARTBEAT"}
ReaderKinds == {"ACKNACK", "NACKFRAG"}

\* The protection of an endpoint's submessages and payloads.
submessage_kind(id) ==
    CASE id \in {"spdp_w", "spdp_r"} -> "NONE"
      [] id \in {"volatile_w", "volatile_r"} -> "GCM"
      [] OTHER -> situation.submessage
payload_kind(id) == IF id \in SpecialCase THEN "NONE" ELSE situation.payload

-----------------------------------------------------------------------------
(* SecurityPlugins: what a participant's own keys are, and those of others *)

NoKeys == [participants |-> {}, participant_keys |-> {}, handles |-> {}, encode |-> {},
           decode |-> <<>>]

\* The keys with those of further handles.
WithKeys(keys, handles, materials) ==
    [h \in DOMAIN keys \cup handles |-> IF h \in handles THEN materials ELSE keys[h]]

rtps_not_protected == situation.rtps = "NONE"
submessage_not_protected(x, g) == g[1] = x /\ submessage_kind(g[2]) = "NONE"
payload_not_protected(id) == payload_kind(id) = "NONE"

\* The materials of the local participant and endpoint for one receiver.
ParticipantMaterials(x, y) ==
    generate_receiver_specific_key(participant_materials(x, situation.rtps), y,
                                   situation.rtps_origin)
EndpointMaterials(x, id, y) ==
    IF id \in {"volatile_w", "volatile_r"} THEN derive_volatile_key_materials(x, y)
    ELSE generate_receiver_specific_key(
             IF id \in WriterIds
             THEN datawriter_materials(<<x, id>>, submessage_kind(id), payload_kind(id))
             ELSE datareader_materials(<<x, id>>, submessage_kind(id)),
             y, situation.submessage_origin)

\* A message or a submessage under common and receiver-specific keys.
ReceiverKeys(materials) == {m[1].rid : m \in materials} \ {Zero}

\* encode_datawriter_submessage, encode_datareader_submessage: <<>> stands for
\* an error, which one receiver without a handle suffices for.
encode_submessage(x, from, s, to) ==
    LET handles == {<<from, g[1]>> : g \in to}
        known == /\ \A g \in to : <<from, g>> \in crypto[x].handles
                 /\ handles \subseteq crypto[x].encode
        one == from \in SpecialCase => Cardinality(handles) = 1
        materials == {EndpointMaterials(x, from, h[2]) : h \in handles}
        own == IF from \in SpecialCase THEN CHOOSE m \in materials : TRUE
               ELSE EndpointMaterials(x, from, x)
    IN  IF s.kind \notin WriterKinds \cup ReaderKinds \/ submessage_kind(from) = "NONE" THEN <<s>>
        ELSE IF ~known \/ ~one THEN <<>>
        ELSE encode_secure_submessage(select(own, "submessage"), ReceiverKeys(materials), s)

\* Fault: any protected submessage passes for one of the volatile topic.
is_rtps_protection_special_case_prefix(subs) ==
    {CASE s.kind \in WriterKinds \cup ReaderKinds -> s.from \in SpecialCase
       [] OTHER -> TRUE :
          s \in {s \in ToSet(subs) : s.kind \in WriterKinds \cup ReaderKinds \cup {"SEC_PREFIX"}}}

\* The verdicts of the submessages that have one; a mixture is an error.
is_rtps_protection_special_case(subs) ==
    {CASE s.kind \in WriterKinds \cup ReaderKinds -> s.from \in {"spdp_w", "spdp_r"}
       [] OTHER -> s.id = Zero :
          s \in {s \in ToSet(subs) : s.kind \in WriterKinds \cup ReaderKinds \cup {"SEC_PREFIX"}}}

encode_message(x, subs, to) ==
    LET special == is_rtps_protection_special_case(subs)
        own == participant_materials(x, situation.rtps)
    IN  IF rtps_not_protected \/ special = {TRUE} THEN subs
        ELSE IF special = {TRUE, FALSE} \/ ~({g[1] : g \in to} \subseteq crypto[x].participants)
        THEN <<>>
        ELSE encode_rtps_message(select(own, "message"),
                                 ReceiverKeys({ParticipantMaterials(x, g[1]) : g \in to}), x, subs)

\* security_encode of the Writer and of the Reader: every submessage, then the
\* message; without plugins all is sent as it is.
security_encode(x, from, subs, to) ==
    LET encoded == [i \in DOMAIN subs |-> encode_submessage(x, from, subs[i], to)]
    IN  IF x \notin Secured THEN subs
        ELSE IF \E i \in DOMAIN subs : encoded[i] = <<>> THEN <<>>
        ELSE encode_message(x, FlattenSeq(encoded), to)

\* The payload of DATA and DATAFRAG.
encode_serialized_payload(x, from, payload) ==
    IF x \notin Secured \/ payload_not_protected(from) THEN payload
    ELSE protect_payload(select(EndpointMaterials(x, from, x), "payload"), payload)

\* An encoded message becomes a plain one, or <<>>.
decode_rtps_message(x, source, subs) ==
    IF source \in crypto[x].participants \cap crypto[x].participant_keys
    THEN decode_secure_message(select(ParticipantMaterials(source, x), "message"), source, subs)
    ELSE <<>>

\* The keys with this id, of all endpoints registered to the sender.
matching_decode_materials(x, source, id) ==
    LET material(h) == select(crypto[x].decode[h], "submessage")
    IN  {[local |-> h[1], material |-> material(h)] :
            h \in {h \in DOMAIN crypto[x].decode : h[2] = source /\ material(h).id = id}}

\* They have to agree, and the local endpoints matched to those whose receiver
\* MAC is valid may have the submessage.
decode_submessage(x, source, header, body, postfix) ==
    LET fits == matching_decode_materials(x, source, header.id)
        plain == {unprotect(f.material, header, <<body>>, postfix) : f \in fits}
        approved == {f.local : f \in {f \in fits : validate_receiver_specific_mac(f.material, postfix)}}
    IN  IF /\ source \in crypto[x].participants
           /\ Cardinality({f.material.key : f \in fits}) = 1 /\ plain # {<<>>}
        THEN [ok |-> TRUE, body |-> (CHOOSE b \in plain : TRUE)[1], approved |-> approved]
        ELSE [ok |-> FALSE]

\* Whether the Reader id can have the payload, from this Writer.
decode_serialized_payload(x, id, source_guid, payload) ==
    \/ x \notin Secured \/ payload_not_protected(id)
    \/ LET h == <<id, source_guid[1]>>
       IN  /\ <<id, source_guid>> \in crypto[x].handles /\ h \in DOMAIN crypto[x].decode
           /\ can_unprotect_payload(select(crypto[x].decode[h], "payload"), payload)
Content(payload) == IF IsSealed(payload) THEN payload.sealed.content ELSE payload.content

-----------------------------------------------------------------------------
(* The submessage interpreter *)

\* reset, at the start of every message.
reset(st) ==
    [st EXCEPT !.dest = UNKNOWN, !.source = UNKNOWN, !.timestamp = 0, !.secure = <<>>]

NewReceiver == [dest |-> UNKNOWN, source |-> UNKNOWN, timestamp |-> 0, secure |-> <<>>,
                special |-> TRUE, queue |-> <<>>]

IsForMe(x) == rx[x].dest \in {x, UNKNOWN}

\* Readers of the Writer's entity id, whoever its participant; and SPDP.
contains_writer(x, id, from) ==
    \/ \E pair \in matched[x] : pair[1] = id /\ pair[2][2] = from
    \/ from = "spdp_w" /\ id = "spdp_r"

\* Data for a Reader: it is for this participant, came as it has to, can be
\* decoded, and the Reader knows the Writer.  The set of what is handed over.
handle_writer_submessage(x, id, s) ==
    LET st == rx[x]
        source_guid == <<st.source, s.from>>
    IN  IF /\ IsForMe(x) /\ (st.special => id \in SpecialCase) /\ id \in available_readers(x)
           /\ (s.kind \in {"DATA", "DATAFRAG"} =>
                  decode_serialized_payload(x, id, source_guid, s.payload))
           /\ <<id, source_guid>> \in matched[x] \/ (s.kind = "DATA" /\ s.from \in BuiltinWriters)
        THEN {[at |-> <<x, id>>, from |-> source_guid, kind |-> s.kind,
               timestamp |-> IF s.kind \in {"DATA", "DATAFRAG"} THEN st.timestamp ELSE 0,
               content |-> IF s.kind \in {"DATA", "DATAFRAG"} THEN Content(s.payload) ELSE s.content]}
        ELSE {}

\* ACKNACKs go to the Writers by a channel, which drops what finds no room;
\* NACKFRAGs are dropped here.
handle_reader_submessage(x, s) ==
    IF /\ IsForMe(x) /\ (rx[x].special => s.to \in SpecialCase)
       /\ s.kind = "ACKNACK" /\ Len(acks[x]) < AckCapacity
    THEN acks' = [acks EXCEPT ![x] = Append(@, [source |-> rx[x].source, ack |-> s])]
    ELSE UNCHANGED acks

handle_interpreter_submessage(st, s, x) ==
    CASE s.kind = "INFO_TS"  -> [st EXCEPT !.timestamp = s.timestamp]
      [] s.kind = "INFO_SRC" -> [st EXCEPT !.source = s.prefix, !.timestamp = 0]
      [] s.kind = "INFO_DST" -> [st EXCEPT !.dest = IF s.prefix = UNKNOWN THEN x ELSE s.prefix]

InterpreterKinds == {"INFO_TS", "INFO_SRC", "INFO_DST"}

\* A protected message is decoded as a whole; an unprotected one is only for
\* the topics that cannot be protected, if the domain is.
handle_parsed_message(x, m) ==
    LET secured == x \in Secured
        isProtected == secured /\ m.subs[1].kind = "SRTPS_PREFIX"
        subs == IF isProtected THEN decode_rtps_message(x, m.source, m.subs) ELSE m.subs
    IN  /\ rx[x].queue = <<>>
        /\ rx' = [rx EXCEPT ![x] =
                     [reset(@) EXCEPT !.dest = x, !.source = m.source, !.queue = subs,
                         !.special = IF isProtected /\ subs = <<>> THEN rx[x].special
                                     ELSE secured /\ ~isProtected /\ ~rtps_not_protected]]
        /\ UNCHANGED <<situation, crypto, matched, acks, log>>

\* A plain submessage: readers that want protection do not get it.
handle_plain_submessage(x, s) ==
    LET open(id) == x \in Secured => submessage_not_protected(x, <<rx[x].dest, id>>)
        targets == IF s.to = UNKNOWN THEN {id \in available_readers(x) : contains_writer(x, id, s.from)}
                   ELSE {s.to}
    IN  /\ log' = log \cup
               IF s.kind \in WriterKinds
               THEN UNION {handle_writer_submessage(x, id, s) : id \in {id \in targets : open(id)}}
               ELSE {}
        /\ IF s.kind \in ReaderKinds /\ open(s.to)
           THEN handle_reader_submessage(x, s) ELSE UNCHANGED acks

\* A decoded one: to the endpoint it names if the key was for it, else to the
\* first Reader of the Writer that the key was for; an interpreter submessage,
\* which nobody has to protect, is accepted here as it is unprotected.
handle_secure_submessage(x, header, body, postfix, rest) ==
    LET d == decode_submessage(x, rx[x].source, header, body, postfix)
        s == d.body
        first == SelectInSeq(EntityOrder, LAMBDA id :
                    id \in available_readers(x) /\ id \in d.approved
                    /\ contains_writer(x, id, s.from))
        target == IF s.to # UNKNOWN THEN s.to ELSE IF first = 0 THEN UNKNOWN ELSE EntityOrder[first]
    IN  /\ log' = log \cup
               IF d.ok /\ s.kind \in WriterKinds /\ target \in d.approved \cap ReaderIds
               THEN handle_writer_submessage(x, target, s) ELSE {}
        /\ IF d.ok /\ s.kind \in ReaderKinds /\ s.to \in d.approved
           THEN handle_reader_submessage(x, s) ELSE UNCHANGED acks
        /\ rx' = [rx EXCEPT ![x] = IF d.ok /\ s.kind \in InterpreterKinds
                                   THEN handle_interpreter_submessage(rest, s, x) ELSE rest]

\* One submessage: prefix, submessage and postfix in this order, or plain.
handle_submessage(x) ==
    LET s == Head(rx[x].queue)
        rest == [rx[x] EXCEPT !.queue = Tail(@), !.secure = <<>>]
    IN
    /\ rx[x].queue # <<>>
    /\ \/ /\ rx[x].secure = <<>>
          /\ \/ /\ s.kind \in InterpreterKinds
                /\ rx' = [rx EXCEPT ![x] = handle_interpreter_submessage(rest, s, x)]
                /\ UNCHANGED <<acks, log>>
             \/ /\ s.kind \in WriterKinds \cup ReaderKinds
                /\ handle_plain_submessage(x, s)
                /\ rx' = [rx EXCEPT ![x] = rest]
             \/ /\ s.kind \notin InterpreterKinds \cup WriterKinds \cup ReaderKinds
                /\ rx' = [rx EXCEPT ![x] = [rest EXCEPT !.secure =
                             IF IsForMe(x) /\ s.kind = "SEC_PREFIX" THEN <<s>> ELSE <<>>]]
                /\ UNCHANGED <<acks, log>>
       \/ /\ Len(rx[x].secure) = 1
          /\ rx' = [rx EXCEPT ![x] = [rest EXCEPT !.secure = Append(rx[x].secure, s)]]
          /\ UNCHANGED <<acks, log>>
       \/ /\ Len(rx[x].secure) = 2
          /\ IF s.kind = "SEC_POSTFIX" /\ x \in Secured
             THEN handle_secure_submessage(x, rx[x].secure[1], rx[x].secure[2], s, rest)
             ELSE rx' = [rx EXCEPT ![x] = rest] /\ UNCHANGED <<acks, log>>
    /\ UNCHANGED <<situation, crypto, matched>>

\* handle_writer_acknack_action of the event loop, between two messages.
handle_writer_acknack_action(x) ==
    /\ rx[x].queue = <<>> /\ acks[x] # <<>>
    /\ LET a == Head(acks[x])
           reader_guid == <<a.source, a.ack.from>>
       IN  log' = log \cup IF <<a.ack.to, reader_guid>> \in matched[x]
                           THEN {[at |-> <<x, a.ack.to>>, from |-> reader_guid, kind |-> "ACKNACK",
                                  timestamp |-> 0, content |-> a.ack.content]}
                           ELSE {}
    /\ acks' = [acks EXCEPT ![x] = Tail(@)]
    /\ UNCHANGED <<situation, crypto, matched, rx>>
=============================================================================
