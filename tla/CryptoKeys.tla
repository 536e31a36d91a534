----------------------------- MODULE CryptoKeys -----------------------------
(***************************************************************************)
(* The cryptographic plugin (security/cryptographic/cryptographic_builtin) *)
(* behind the handle caches of SecurityPlugins, as seen by one participant *)
(* about one remote participant.  The pairs of a local and a remote        *)
(* endpoint are the volatile built-in pair, whose key is derived from the  *)
(* shared secret, the other built-in pairs, taken as one, and one pair of  *)
(* user endpoints.                                                         *)
(***************************************************************************)
EXTENDS Authentication

BuiltinPairs == {"volatile", "builtin"}
Pairs        == BuiltinPairs \cup {"user"}

NoSecret == <<NoChallenge, NoChallenge>>

(***************************************************************************)
(* participant: remote_participant_crypto_handle_cache has the remote;     *)
(* handles: the pairs remote_endpoint_crypto_handle_cache has; info: those *)
(* participant_to_endpoint_info lists for the participant's present handle; *)
(* encode, decode: whose receiver-specific encode and decode key materials *)
(* the plugin holds; secret: what the key of the volatile pair was derived *)
(* from.                                                                   *)
(***************************************************************************)
NoCrypto == [participant |-> FALSE, handles |-> {}, info |-> {}, encode |-> {}, decode |-> {},
             secret |-> NoSecret]

\* The handle caches of SecurityPlugins.
get_remote_participant_crypto_handle(k)              == k.participant
remove_remote_participant_crypto_handle(k)           == [k EXCEPT !.participant = FALSE]
get_remote_endpoint_crypto_handle(k, pair)           == pair \in k.handles
has_remote_endpoint_been_registered_already(k, pair) == pair \in k.handles
store_remote_endpoint_crypto_handle(k, pair)         == [k EXCEPT !.handles = @ \cup {pair}]
remove_remote_endpoint_crypto_handles(k, pairs)      == [k EXCEPT !.handles = @ \ pairs]

\* A local operation on the keys of the remote needs its handle.
HasHandle(k, owner) ==
    IF owner = "participant" THEN get_remote_participant_crypto_handle(k)
    ELSE get_remote_endpoint_crypto_handle(k, owner)

-----------------------------------------------------------------------------
\* Always a new handle: nothing is known of it yet.
register_matched_remote_participant(k) ==
    [k EXCEPT !.participant = TRUE, !.info = {}, !.encode = @ \cup {"participant"},
              !.decode = @ \ {"participant"}]

\* Needs a completed handshake and the participant's handle; a pair whose
\* handle is still cached is left as it is, with or without its keys.
can_register(k, a, pair) ==
    /\ ~has_remote_endpoint_been_registered_already(k, pair)
    /\ get_identity_handle(a) /\ Completed(a.state)
    /\ get_remote_participant_crypto_handle(k)

register_matched_remote_endpoint_if_not_already(k, a, pair) ==
    IF can_register(k, a, pair)
    THEN [store_remote_endpoint_crypto_handle(k, pair) EXCEPT
             !.info   = @ \cup {pair},
             !.encode = @ \cup {pair},
             !.decode = IF pair = "volatile" THEN @ \cup {pair} ELSE @,
             !.secret = IF pair = "volatile" THEN SharedSecret(a) ELSE @]
    ELSE k

\* create_local_*_crypto_tokens: the encode key materials, if there are any.
can_create_tokens(k, owner) == owner \in k.encode /\ HasHandle(k, owner)

\* set_remote_*_crypto_tokens: key materials that are there are not replaced.
can_set_tokens(k, owner) == HasHandle(k, owner) /\ owner \notin k.decode

set_remote_crypto_tokens(k, owner) ==
    IF can_set_tokens(k, owner) THEN [k EXCEPT !.decode = @ \cup {owner}] ELSE k

unregister_remote_endpoints(k, pairs) ==
    [remove_remote_endpoint_crypto_handles(k, pairs) EXCEPT
        !.info = @ \ pairs, !.encode = @ \ pairs, !.decode = @ \ pairs]

\* Unregisters the keys of all the remote's endpoints too, not their handles.
unregister_remote_participant(k) ==
    LET gone == k.info \cup {"participant"} IN
    IF get_remote_participant_crypto_handle(k)
    THEN [remove_remote_participant_crypto_handle(k) EXCEPT
             !.info = {}, !.encode = @ \ gone, !.decode = @ \ gone]
    ELSE k

\* A submessage protected with the volatile pair's key can be decoded.
can_decode_volatile(k, sender) ==
    /\ k.participant /\ "volatile" \in k.info \cap k.decode
    /\ "volatile" \in sender.encode /\ k.secret = sender.secret

\* The same for the pairs whose keys travel as tokens.
can_decode(k, pair) == k.participant /\ pair \in k.info \cap k.decode
=============================================================================
