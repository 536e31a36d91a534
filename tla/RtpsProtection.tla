--------------------------- MODULE RtpsProtection ---------------------------
(***************************************************************************)
(* How the cryptographic plugin (security/cryptographic/                   *)
(* cryptographic_builtin) protects messages, submessages and payloads.     *)
(* Keys, ciphertexts and MACs are symbolic: a ciphertext is opened, and a  *)
(* MAC is valid, under the key it was made with and no other.  Key         *)
(* material is [kind, id, key, rid]: the transformation, the key id sent   *)
(* in the crypto header, the sender's key and the id of the receiver-      *)
(* specific key.  The 128 and 256 bit variants of a transformation are     *)
(* one, and so are the session keys of a master key.                       *)
(***************************************************************************)
EXTENDS Naturals, FiniteSets, Sequences, SequencesExt

Transformations == {"NONE", "GMAC", "GCM"}

\* CryptoTransformKeyId::ZERO: no receiver-specific key, or the volatile topic.
Zero == [of |-> "zero"]
ParticipantKey(x)   == [participant |-> x]
EndpointKey(g)      == [endpoint |-> g]
PayloadKey(g)       == [payload_of |-> g]
SharedSecretKey(xs) == [secret_of |-> xs]
ReceiverKey(key, y) == [receiver |-> y, sender |-> key]

generate_key_material(kind, key) == [kind |-> kind, id |-> key, key |-> key, rid |-> Zero]

-----------------------------------------------------------------------------
(* KeyMaterial_AES_GCM_GMAC_seq: one for all, or a second one for payloads *)

select(materials, scope) ==
    IF Len(materials) = 2 /\ scope = "payload" THEN materials[2] ELSE materials[1]

\* register_local_participant, register_local_datareader and
\* register_local_datawriter, which reuses the key if the kinds agree.
participant_materials(x, kind) == <<generate_key_material(kind, ParticipantKey(x))>>
datareader_materials(g, kind)  == <<generate_key_material(kind, EndpointKey(g))>>
datawriter_materials(g, kind, payload_kind) ==
    IF kind = payload_kind THEN <<generate_key_material(kind, EndpointKey(g))>>
    ELSE <<generate_key_material(kind, EndpointKey(g)),
           generate_key_material(payload_kind, PayloadKey(g))>>

\* The keys of the volatile topic come from the secret of the handshake.
derive_volatile_key_materials(x, y) ==
    <<[kind |-> "GCM", id |-> Zero, key |-> SharedSecretKey({x, y}), rid |-> Zero],
      [kind |-> "NONE", id |-> Zero, key |-> Zero, rid |-> Zero]>>

\* What is kept for one receiver, and sent to it as its crypto tokens.
generate_receiver_specific_key(materials, y, origin_authentication) ==
    IF origin_authentication
    THEN [materials EXCEPT ![1].rid = ReceiverKey(materials[1].key, y)]
    ELSE materials

-----------------------------------------------------------------------------
(* encode_gmac, encode_gcm and their inverses                              *)

\* Fault: signs what it should encrypt.
protect_signed(prefix, postfix, m, rids, plain) ==
    <<[kind |-> prefix, transformation |-> m.kind, id |-> m.id]>> \o plain
    \o <<[kind |-> postfix, mac |-> [key |-> m.key, of |-> plain], receiver_macs |-> rids]>>

\* Prefix, the signed submessages or a SecureBody, postfix.
protect(prefix, postfix, m, rids, plain) ==
    <<[kind |-> prefix, transformation |-> m.kind, id |-> m.id]>>
    \o (IF m.kind = "GMAC" THEN plain
        ELSE <<[kind |-> "SEC_BODY", key |-> m.key, ciphertext_of |-> plain]>>)
    \o <<[kind |-> postfix, mac |-> [key |-> m.key, of |-> plain], receiver_macs |-> rids]>>

\* Fault: the receiver-specific MAC is not looked at.
validate_receiver_specific_mac_any(m, postfix) == TRUE

validate_receiver_specific_mac(m, postfix) ==
    m.rid # Zero => m.rid \in postfix.receiver_macs

\* The plain submessages, or <<>> if a check fails.
unprotect(m, header, body, postfix) ==
    LET plain == IF header.transformation = "GMAC" THEN body
                 ELSE IF Len(body) = 1 /\ body[1].kind = "SEC_BODY" /\ body[1].key = m.key
                      THEN body[1].ciphertext_of ELSE <<>>
    IN  IF /\ header.transformation = m.kind /\ header.id = m.id
           /\ postfix.mac = [key |-> m.key, of |-> plain]
        THEN plain ELSE <<>>

\* encode_submessage and encode_rtps_message of the plugin; the header of a
\* protected message goes along as INFO_SRC.
encode_secure_submessage(m, rids, s) == protect("SEC_PREFIX", "SEC_POSTFIX", m, rids, <<s>>)
encode_rtps_message(m, rids, source, subs) ==
    protect("SRTPS_PREFIX", "SRTPS_POSTFIX", m, rids, <<[kind |-> "INFO_SRC", prefix |-> source]>> \o subs)

\* decode_rtps_message of the plugin: the submessages, or <<>>.
decode_secure_message(m, source, subs) ==
    LET last == Len(subs)
        plain == unprotect(m, subs[1], SubSeq(subs, 2, last - 1), subs[last])
    IN  IF /\ subs[last].kind = "SRTPS_POSTFIX"
           /\ validate_receiver_specific_mac(m, subs[last])
           /\ plain # <<>> /\ plain[1] = [kind |-> "INFO_SRC", prefix |-> source]
        THEN Tail(plain) ELSE <<>>

\* The serialized payload is protected on its own, without receiver MACs.
Plain(content) == [content |-> content]
protect_payload(m, payload) ==
    IF m.kind = "NONE" THEN payload
    ELSE [transformation |-> m.kind, id |-> m.id, key |-> m.key, sealed |-> payload]
IsSealed(payload) == "sealed" \in DOMAIN payload

\* Whether the header, and then the ciphertext or MAC, fit the key material.
can_unprotect_payload(m, payload) ==
    /\ IsSealed(payload) /\ m.kind # "NONE"
    /\ payload.id = m.id /\ payload.transformation = m.kind /\ payload.key = m.key
=============================================================================
