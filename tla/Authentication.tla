--------------------------- MODULE Authentication ---------------------------
(***************************************************************************)
(* The built-in authentication plugin (security/authentication/            *)
(* authentication_builtin/) behind the handle caches of SecurityPlugins    *)
(* (security/security_plugins.rs), as seen by one participant about one    *)
(* remote participant.  A challenge and the Diffie-Hellman key made with   *)
(* it are one number, never used twice by the same participant; the shared *)
(* secret of a handshake is the pair of both numbers.  Certificates,       *)
(* hashes and signatures are external: they verify or they do not.         *)
(***************************************************************************)
EXTENDS Naturals

NoChallenge == 0

\* What is kept about the remote: whether its identity handle, its handshake
\* handle and its permissions handle are cached, and BuiltinHandshakeState.
NoIdentity == [identity |-> FALSE, handshake |-> FALSE, permissions |-> FALSE, state |-> "None",
               c1 |-> NoChallenge, c2 |-> NoChallenge]

HandshakeStates == {"None", "PendingRequestSend", "PendingRequestMessage", "PendingReply",
                    "PendingFinal", "CompletedSent", "CompletedReceived"}

Completed(s) == s \in {"CompletedSent", "CompletedReceived"}

\* HandshakeMessageToken: a request carries c1, a reply and a final both.
Token(class, c1, c2) == [class |-> class, c1 |-> c1, c2 |-> c2]

SharedSecret(a) == <<a.c1, a.c2>>

-----------------------------------------------------------------------------
\* The handle caches of SecurityPlugins.
get_identity_handle(a)    == a.identity
get_handshake_handle(a)   == a.handshake
get_permissions_handle(a) == a.permissions

\* The participant with the smaller GUID prefix is to send the request.  A
\* handshake handle of an earlier validation leads to the earlier record.
validate_remote_identity(a, smaller) ==
    [NoIdentity EXCEPT !.identity = TRUE, !.permissions = a.permissions,
                       !.state = IF smaller THEN "PendingRequestSend" ELSE "PendingRequestMessage"]

can_begin_handshake_request(a) == get_identity_handle(a) /\ a.state = "PendingRequestSend"

begin_handshake_request(a, challenge) ==
    [a EXCEPT !.handshake = TRUE, !.state = "PendingReply", !.c1 = challenge]

\* A refused request changes nothing: the next one may be accepted.
can_begin_handshake_reply(a, token, trusted) ==
    /\ get_identity_handle(a) /\ a.state = "PendingRequestMessage"
    /\ token.class = "request" /\ trusted

begin_handshake_reply_unrecorded(a, token, challenge) ==
    [a EXCEPT !.handshake = TRUE, !.c1 = token.c1, !.c2 = challenge]

begin_handshake_reply(a, token, challenge) ==
    [a EXCEPT !.handshake = TRUE, !.state = "PendingFinal", !.c1 = token.c1, !.c2 = challenge]

\* The state is taken out before the token is looked at, and PendingRequestSend
\* is left in its place when the token is refused.
accepts(a, token, trusted) ==
    /\ get_handshake_handle(a) /\ trusted
    /\ \/ a.state = "PendingReply" /\ token.class = "reply" /\ token.c1 = a.c1
       \/ /\ a.state = "PendingFinal" /\ token.class = "final"
          /\ token.c1 = a.c1 /\ token.c2 = a.c2

process_handshake(a, token, trusted) ==
    IF accepts(a, token, trusted)
    THEN [a EXCEPT !.state = IF a.state = "PendingReply" THEN "CompletedSent"
                             ELSE "CompletedReceived",
                   !.c2 = token.c2]
    ELSE IF get_handshake_handle(a)
         THEN [a EXCEPT !.state = "PendingRequestSend", !.c1 = NoChallenge, !.c2 = NoChallenge]
         ELSE a

\* Needs the credentials the handshake brought and the identity they are for.
can_validate_permissions(a) == get_handshake_handle(a) /\ get_identity_handle(a)

\* SecurityPlugins::unregister_remote_participant, the authentication part.
forget_identity(a) == NoIdentity
=============================================================================
