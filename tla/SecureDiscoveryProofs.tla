----------------------- MODULE SecureDiscoveryProofs -----------------------
(***************************************************************************)
(* The safety of SecureDiscovery for any documents, faults and number of   *)
(* messages: the invariant IInv is inductive and implies the invariants    *)
(* that the run checks.                                                    *)
(***************************************************************************)
EXTENDS SecureDiscovery, SequenceTheorems, WellFoundedInduction, TLAPS

----------------------------------------------------------------------------
(***************************************************************************)
(* The inductive invariant behind the safety of SecureDiscovery.           *)
(*                                                                         *)
(* A challenge is the id of the message that carries it first, and ids are *)
(* never used twice.  So a reply names the request it answers and a final  *)
(* message the reply, and what happened before what can be read from the   *)
(* ids: a request that was made after a final message is answered after    *)
(* the reply which that final message completes.                           *)
(***************************************************************************)

Statuses == {"None", "Authenticating", "Authenticated", "Unauthenticated", "Rejected"}

Notes == {"StatusChanged", "Updated", "Endpoint", "Lost"}

Commands == {"KeyExchangeWithParticipant", "KeyExchangeWithEndpoint"}

AuthRecord ==
    [identity : BOOLEAN, handshake : BOOLEAN, permissions : BOOLEAN,
     state : HandshakeStates, c1 : Nat, c2 : Nat]

Message ==
    [to : Nodes, id : Nat, related : Nat,
     token : [class : {"request", "reply", "final"}, c1 : Nat, c2 : Nat]]

\* k has the fields of a record of the cryptographic plugin.
IsCryptoRecord(k) == DOMAIN k = DOMAIN NoCrypto

\* A function over the participants.
PerNode(f) == f = [n \in Nodes |-> f[n]]

TypeInv ==
    /\ situation \in Situations
    /\ losses \in Nat /\ outages \in Nat /\ turn \in Nodes
    /\ status \in [Nodes -> Statuses] /\ known \in [Nodes -> BOOLEAN]
    /\ announced \in [Nodes -> SUBSET {"read", "known", "attic"}]
    /\ hs \in [Nodes -> HandshakeStates]
    /\ stored \in [Nodes -> {NoMessage} \cup [message : Message, left : Nat]]
    /\ next \in [Nodes -> Nat \ {0}]
    /\ auth \in [Nodes -> AuthRecord]
    /\ PerNode(crypto) /\ \A n \in Nodes : IsCryptoRecord(crypto[n])
    /\ PerNode(cached) /\ PerNode(unsent) /\ keysSent \in [Nodes -> BOOLEAN] /\ PerNode(volatile)
    /\ notes \in [Nodes -> Seq(Notes)] /\ commands \in [Nodes -> Seq(Commands)]
    /\ out \in [Nodes -> Seq(Message)] /\ net \in SUBSET Message
    /\ loop \in [Nodes -> SUBSET {"stateless", "standard", "secure"}]
    /\ matched \in [Nodes -> BOOLEAN]

-----------------------------------------------------------------------------
(* The handshake *)

\* The messages of n that may still arrive or be sent again.
Messages(n) ==
    {m \in net : m.to = Peer(n)} \cup ToSet(out[n])
    \cup (IF stored[n] = NoMessage THEN {} ELSE {stored[n].message})

IsRequest(m) ==
    /\ m.token.class = "request" /\ m.related = 0
    /\ m.token.c1 = m.id /\ m.token.c2 = NoChallenge

IsReply(m) ==
    /\ m.token.class = "reply" /\ m.related \in 1 .. next[p] - 1
    /\ m.token.c1 = m.related /\ m.token.c2 = m.id

IsFinal(m) ==
    /\ m.token.class = "final" /\ m.related \in 1 .. next[q] - 1
    /\ m.token.c1 \in 1 .. next[p] - 1 /\ m.token.c2 = m.related

\* What p and q say to each other.
MessageInv ==
    /\ \A n \in Nodes : \A m \in Messages(n) : m.to = Peer(n) /\ m.id \in 1 .. next[n] - 1
    /\ \A m \in Messages(p) : IsRequest(m) \/ IsFinal(m)
    /\ \A m \in Messages(q) : IsReply(m)

\* p asks and q answers, in Secure Discovery and in the plugin.
RoleInv ==
    /\ hs[p] \in {"None", "PendingReply", "CompletedSent"}
    /\ hs[q] \in {"None", "PendingRequestMessage", "PendingFinal", "CompletedReceived"}
    /\ auth[p].state \in {"None", "PendingRequestSend", "PendingReply", "CompletedSent"}
    /\ auth[q].state \in {"None", "PendingRequestSend", "PendingRequestMessage", "PendingFinal",
                          "CompletedReceived"}

Asking    == auth[p].state \in {"PendingReply", "CompletedSent"}
Answering == auth[q].state \in {"PendingFinal", "CompletedReceived"}

\* p has made no request since the one it is asking with.
AskInv ==
    Asking =>
        /\ auth[p].c1 \in 1 .. next[p] - 1
        /\ \A m \in Messages(p) \cup Messages(q) : m.token.c1 <= auth[p].c1
        /\ Answering => auth[q].c1 <= auth[p].c1
        /\ auth[p].state = "CompletedSent" => auth[p].c2 \in 1 .. next[q] - 1
        /\ \A f \in Messages(p) :
              f.token.class = "final" /\ f.token.c1 = auth[p].c1
                  => auth[p].state = "CompletedSent" /\ f.token.c2 = auth[p].c2

\* q has made no reply since the one it is answering with.
AnswerInv ==
    Answering =>
        /\ auth[q].c1 \in 1 .. next[p] - 1 /\ auth[q].c2 \in 1 .. next[q] - 1
        /\ \A m \in Messages(q) : m.token.c2 <= auth[q].c2
        /\ auth[p].state = "CompletedSent" => auth[p].c2 <= auth[q].c2

\* A request made after a final message is answered after the reply the final
\* message was for.
OrderInv ==
    \A f \in Messages(p) : f.token.class = "final" =>
        /\ \A m \in Messages(q) : m.token.c1 > f.token.c1 => m.token.c2 > f.token.c2
        /\ auth[p].state = "CompletedSent" /\ auth[p].c1 > f.token.c1
              => auth[p].c2 > f.token.c2

\* Once q has completed, p has, with the same secret, or it asks anew and no
\* answer to that is around.
CompletedInv ==
    auth[q].state = "CompletedReceived" =>
        /\ \A m \in Messages(q) : m.token.c1 <= auth[q].c1
        /\ auth[p].state = "PendingReply" => auth[p].c1 > auth[q].c1
        /\ auth[p].state = "CompletedSent" => SharedSecret(auth[p]) = SharedSecret(auth[q])

HandshakeInv ==
    MessageInv /\ RoleInv /\ AskInv /\ AnswerInv /\ OrderInv /\ CompletedInv

\* While no lease expires there is only one handshake, with the first ids.
FirstHandshakeInv ==
    outages = 0 =>
        /\ \A n \in Nodes : ~Contains(notes[n], "Lost")
        /\ \A n \in Nodes : status[n] \in {"None", "Unauthenticated"} =>
              /\ hs[n] = "None" /\ auth[n].state = "None"
        /\ auth[p].state = "None" => next[p] = 1
        /\ auth[q].state \in {"None", "PendingRequestMessage"} => next[q] = 1
        /\ \A n \in Nodes : hs[n] = auth[n].state \/ ReplyRefused(n)
        /\ \A m \in Messages(p) : m.token.c1 = 1 /\ (m.token.class = "final" => m.token.c2 = 1)
        /\ \A m \in Messages(q) : m.token.c1 = 1 /\ m.token.c2 = 1 /\ Answering
        /\ Asking => auth[p].c1 = 1 /\ auth[p].handshake
        /\ Answering =>
              auth[q].c1 = 1 /\ auth[q].c2 = 1 /\ auth[q].handshake /\ q \in situation.trusted
        /\ auth[p].state = "CompletedSent" => auth[p].c2 = 1 /\ Answering

-----------------------------------------------------------------------------
(* Keys and matching *)

\* n does not accept the other participant.
Refuses(n) ==
    \/ n \notin situation.trusted
    \/ /\ situation.rules[n].enable_join_access_control
       /\ ~check_participant(Permissions(n, Peer(n)), Domain, Now)

\* No key is on its way to a participant that is not accepted.
KeysInv ==
    \A n \in Nodes : Refuses(n) =>
        /\ status[n] # "Authenticated" /\ "secure" \notin loop[n]
        /\ volatile[Peer(n)] = <<>> /\ cached[Peer(n)] = {}
        /\ crypto[Peer(n)].decode \subseteq {"volatile"}

\* The other participant's right to what its endpoint does.
Granted(m, action) ==
    LET g == find_grant(situation.grants[m], m, Now)
    IN  g # 0 /\ check_action(situation.grants[m][g], action, Domain, Topic)

Permitted(n) ==
    IF n = p
    THEN Attributes(p).is_read_protected => Granted(q, "Subscribe") \/ Granted(q, "Relay")
    ELSE Attributes(q).is_write_protected => Granted(p, "Publish")

MatchInv ==
    /\ \A n \in Nodes : EndpointInfo(n) # {}
    /\ \A n \in Nodes : status[n] = "Authenticated" => Completed(hs[n])
    /\ \A n \in Nodes :
          "secure" \in loop[n] => status[n] = "Authenticated" \/ Contains(notes[n], "Lost")
    /\ \A n \in Nodes : matched[n] \/ Contains(notes[n], "Endpoint") => Permitted(n)
    /\ matched[p] \/ matched[q] => Attributes(p) = Attributes(q)

\* The conjunction is inductive.
IInv ==
    /\ TypeInv
    /\ HandshakeInv
    /\ FirstHandshakeInv
    /\ KeysInv
    /\ MatchInv

-----------------------------------------------------------------------------
(* Participants, sequences, records *)

\* There are two participants.
LEMMA TwoNodes ==
    /\ p \in Nodes /\ q \in Nodes /\ p # q /\ Peer(p) = q /\ Peer(q) = p
    /\ \A n \in Nodes : n = p \/ n = q
    /\ \A n \in Nodes : Peer(n) \in Nodes /\ Peer(n) # n /\ Peer(Peer(n)) = n
BY SecurityAssumption DEF Nodes, Peer

\* What is kept about the one participant is replaced, the rest stays.
LEMMA UpdateOfOne ==
    ASSUME NEW f, PerNode(f), NEW n \in Nodes, NEW e, NEW g, g = [f EXCEPT ![n] = e]
    PROVE  PerNode(g) /\ g[n] = e /\ g[Peer(n)] = f[Peer(n)]
BY TwoNodes DEF PerNode

\* What is added to a queue is in it, besides what was there.
LEMMA AppendToQueue ==
    ASSUME NEW S, NEW s \in Seq(S), NEW e \in S
    PROVE  /\ Append(s, e) \in Seq(S)
           /\ ToSet(Append(s, e)) = ToSet(s) \cup {e}
           /\ \A x : Contains(Append(s, e), x) <=> Contains(s, x) \/ x = e
<1>1. /\ Append(s, e) \in Seq(S)
      /\ Len(s) \in Nat /\ DOMAIN s = 1 .. Len(s)
      /\ Len(Append(s, e)) = Len(s) + 1
      /\ DOMAIN Append(s, e) = 1 .. Len(s) + 1
      /\ \A i \in 1 .. Len(s) : Append(s, e)[i] = s[i]
      /\ Append(s, e)[Len(s) + 1] = e
      BY AppendProperties, LenProperties
<1>2. \A i \in 1 .. Len(s) + 1 : i \in 1 .. Len(s) \/ i = Len(s) + 1  BY <1>1
<1>3. Len(s) + 1 \in 1 .. Len(s) + 1 /\ 1 .. Len(s) \subseteq 1 .. Len(s) + 1  BY <1>1
<1>4. ToSet(Append(s, e)) = ToSet(s) \cup {e}
      BY <1>1, <1>2, <1>3 DEF ToSet
<1>5. ASSUME NEW x PROVE Contains(Append(s, e), x) <=> Contains(s, x) \/ x = e
      BY <1>1, <1>2, <1>3 DEF Contains
<1> QED  BY <1>1, <1>4, <1>5

\* What is taken from a queue was in it, as is what is left.
LEMMA TakeFromQueue ==
    ASSUME NEW S, NEW s \in Seq(S), s # <<>>
    PROVE  /\ Tail(s) \in Seq(S) /\ Head(s) \in S
           /\ Head(s) \in ToSet(s) /\ ToSet(Tail(s)) \subseteq ToSet(s)
           /\ Contains(s, Head(s))
           /\ \A x : Contains(s, x) <=> Contains(Tail(s), x) \/ x = Head(s)
<1>1. /\ Tail(s) \in Seq(S)
      /\ Len(s) \in Nat \ {0} /\ DOMAIN s = 1 .. Len(s)
      /\ Len(Tail(s)) = Len(s) - 1
      /\ DOMAIN Tail(s) = 1 .. Len(s) - 1
      /\ \A i \in 1 .. Len(s) - 1 : Tail(s)[i] = s[i + 1]
      /\ Head(s) = s[1] /\ s[1] \in S
      BY HeadTailProperties, LenProperties, EmptySeq, ElementOfSeq
<1>2. 1 \in 1 .. Len(s) /\ \A i \in 1 .. Len(s) - 1 : i + 1 \in 1 .. Len(s)  BY <1>1
<1>3. \A i \in 1 .. Len(s) : i = 1 \/ (i - 1 \in 1 .. Len(s) - 1 /\ (i - 1) + 1 = i)  BY <1>1
<1>4. Head(s) \in ToSet(s) /\ ToSet(Tail(s)) \subseteq ToSet(s)
      BY <1>1, <1>2 DEF ToSet
<1>5. ASSUME NEW x PROVE Contains(s, x) <=> Contains(Tail(s), x) \/ x = Head(s)
      <2>1. Contains(Tail(s), x) => Contains(s, x)  BY <1>1, <1>2 DEF Contains
      <2>2. x = Head(s) => Contains(s, x)  BY <1>1, <1>2 DEF Contains
      <2>3. Contains(s, x) => Contains(Tail(s), x) \/ x = Head(s)
            BY <1>1, <1>3 DEF Contains
      <2> QED  BY <2>1, <2>2, <2>3
<1> QED  BY <1>1, <1>4, <1>5

\* The operations of the cryptographic plugin keep its record a record, and the
\* decode key materials become more only by tokens and by the derived key.
LEMMA CryptoRecords ==
    ASSUME NEW k, IsCryptoRecord(k)
    PROVE  /\ IsCryptoRecord(register_matched_remote_participant(k))
           /\ \A a, pair :
                 IsCryptoRecord(register_matched_remote_endpoint_if_not_already(k, a, pair))
           /\ \A owner : IsCryptoRecord(set_remote_crypto_tokens(k, owner))
           /\ \A pairs : IsCryptoRecord(unregister_remote_endpoints(k, pairs))
           /\ IsCryptoRecord(unregister_remote_participant(k))
<1> USE DEF IsCryptoRecord
<1>1. IsCryptoRecord(register_matched_remote_participant(k))
      BY DEF register_matched_remote_participant
<1>2. ASSUME NEW a, NEW pair
      PROVE  IsCryptoRecord(register_matched_remote_endpoint_if_not_already(k, a, pair))
      BY DEF register_matched_remote_endpoint_if_not_already, store_remote_endpoint_crypto_handle
<1>3. ASSUME NEW owner PROVE IsCryptoRecord(set_remote_crypto_tokens(k, owner))
      BY DEF set_remote_crypto_tokens
<1>4. ASSUME NEW pairs PROVE IsCryptoRecord(unregister_remote_endpoints(k, pairs))
      BY DEF unregister_remote_endpoints, remove_remote_endpoint_crypto_handles
<1>5. IsCryptoRecord(unregister_remote_participant(k))
      BY DEF unregister_remote_participant, remove_remote_participant_crypto_handle
<1> QED  BY <1>1, <1>2, <1>3, <1>4, <1>5

LEMMA DecodeKeys ==
    ASSUME NEW k, IsCryptoRecord(k)
    PROVE  /\ register_matched_remote_participant(k).decode \subseteq k.decode
           /\ \A a, pair :
                 register_matched_remote_endpoint_if_not_already(k, a, pair).decode
                     \subseteq k.decode \cup {"volatile"}
           /\ \A pairs : unregister_remote_endpoints(k, pairs).decode \subseteq k.decode
           /\ unregister_remote_participant(k).decode \subseteq k.decode
<1>1. DOMAIN k = {"participant", "handles", "info", "encode", "decode", "secret"}
      BY DEF IsCryptoRecord, NoCrypto
<1>2. register_matched_remote_participant(k).decode \subseteq k.decode
      BY <1>1 DEF register_matched_remote_participant
<1>3. ASSUME NEW a, NEW pair
      PROVE  register_matched_remote_endpoint_if_not_already(k, a, pair).decode
                 \subseteq k.decode \cup {"volatile"}
      BY <1>1 DEF register_matched_remote_endpoint_if_not_already, store_remote_endpoint_crypto_handle
<1>4. ASSUME NEW pairs PROVE unregister_remote_endpoints(k, pairs).decode \subseteq k.decode
      BY <1>1 DEF unregister_remote_endpoints, remove_remote_endpoint_crypto_handles
<1>5. unregister_remote_participant(k).decode \subseteq k.decode
      BY <1>1 DEF unregister_remote_participant, remove_remote_participant_crypto_handle
<1> QED  BY <1>2, <1>3, <1>4, <1>5

-----------------------------------------------------------------------------
(* The handshake *)

\* Ids and challenges are numbers.
LEMMA MessageTypes ==
    ASSUME TypeInv
    PROVE  /\ \A n \in Nodes : Messages(n) \subseteq Message
           /\ \A n \in Nodes : \A m \in Messages(n) :
                 /\ m.id \in Nat /\ m.related \in Nat
                 /\ m.token.c1 \in Nat /\ m.token.c2 \in Nat
           /\ \A n \in Nodes : auth[n].c1 \in Nat /\ auth[n].c2 \in Nat /\ next[n] \in Nat \ {0}
<1>1. ASSUME NEW n \in Nodes PROVE Messages(n) \subseteq Message
      <2>1. ToSet(out[n]) \subseteq Message
            <3>1. out[n] \in Seq(Message)  BY DEF TypeInv
            <3> QED  BY <3>1, ElementOfSeq, LenProperties DEF ToSet
      <2>2. net \subseteq Message  BY DEF TypeInv
      <2>3. stored[n] # NoMessage => stored[n].message \in Message
            <3>1. stored[n] \in {NoMessage} \cup [message : Message, left : Nat]  BY DEF TypeInv
            <3> QED  BY <3>1
      <2> QED  BY <2>1, <2>2, <2>3 DEF Messages
<1>2. ASSUME NEW m \in Message
      PROVE  m.id \in Nat /\ m.related \in Nat /\ m.token.c1 \in Nat /\ m.token.c2 \in Nat
      BY DEF Message
<1>3. ASSUME NEW n \in Nodes
      PROVE  auth[n].c1 \in Nat /\ auth[n].c2 \in Nat /\ next[n] \in Nat \ {0}
      BY DEF TypeInv, AuthRecord
<1> QED  BY <1>1, <1>2, <1>3

\* A step that sends nothing new and leaves each side where it is, or out of the
\* handshake, keeps what the handshake relies on.
LEMMA NothingNew ==
    ASSUME TypeInv, HandshakeInv, RoleInv', next' = next,
           Messages(p)' \subseteq Messages(p), Messages(q)' \subseteq Messages(q),
           auth'[p] = auth[p] \/ ~Asking', auth'[q] = auth[q] \/ ~Answering'
    PROVE  HandshakeInv'
<1> USE TwoNodes
<1>1. MessageInv'
      <2>1. MessageInv  BY DEF HandshakeInv
      <2>2. ASSUME NEW n \in Nodes
            PROVE  \A m \in Messages(n)' : m.to = Peer(n) /\ m.id \in 1 .. next'[n] - 1
            BY <2>1 DEF MessageInv
      <2>3. \A m \in Messages(p)' : IsRequest(m)' \/ IsFinal(m)'
            BY <2>1 DEF MessageInv, IsRequest, IsFinal
      <2>4. \A m \in Messages(q)' : IsReply(m)'
            BY <2>1 DEF MessageInv, IsReply
      <2> QED  BY <2>2, <2>3, <2>4 DEF MessageInv, Peer, Nodes
<1>2. AskInv'
      BY DEF HandshakeInv, AskInv, Asking, Answering
<1>3. AnswerInv'
      BY DEF HandshakeInv, AnswerInv, Asking, Answering
<1>4. OrderInv'
      BY DEF HandshakeInv, OrderInv, Asking
<1>5. CompletedInv'
      BY DEF HandshakeInv, CompletedInv, Asking, Answering, SharedSecret
<1> QED  BY <1>1, <1>2, <1>3, <1>4, <1>5 DEF HandshakeInv

\* p sends a request, whose id is larger than any challenge that is around.
LEMMA RequestSent ==
    ASSUME TypeInv, HandshakeInv, RoleInv', NEW r,
           next'[p] = next[p] + 1, next'[q] = next[q],
           r.to = q, r.id = next[p], r.related = 0, r.token = Token("request", next[p], NoChallenge),
           Messages(p)' \subseteq Messages(p) \cup {r}, Messages(q)' \subseteq Messages(q),
           auth'[p].state = "PendingReply", auth'[p].c1 = next[p], auth'[q] = auth[q]
    PROVE  HandshakeInv'
<1> USE TwoNodes, MessageTypes
<1>0. MessageInv /\ AskInv /\ AnswerInv /\ OrderInv /\ CompletedInv  BY DEF HandshakeInv
<1>1. r.token.class = "request" /\ r.token.c1 = next[p] /\ r.token.c2 = 0
      BY DEF Token, NoChallenge
<1>2. MessageInv'
      <2>1. \A m \in Messages(p)' : m.to = q /\ m.id \in 1 .. next'[p] - 1
            BY <1>0, <1>1 DEF MessageInv
      <2>2. \A m \in Messages(q)' : m.to = p /\ m.id \in 1 .. next'[q] - 1
            BY <1>0 DEF MessageInv
      <2>3. \A m \in Messages(p)' : IsRequest(m)' \/ IsFinal(m)'
            BY <1>0, <1>1 DEF MessageInv, IsRequest, IsFinal, NoChallenge
      <2>4. \A m \in Messages(q)' : IsReply(m)'
            BY <1>0 DEF MessageInv, IsReply
      <2> QED  BY <2>1, <2>2, <2>3, <2>4 DEF MessageInv, Peer, Nodes
<1>3. /\ \A m \in Messages(p) : m.token.c1 < next[p]
      /\ \A m \in Messages(q) : m.token.c1 < next[p]
      /\ Answering => auth[q].c1 < next[p]
      BY <1>0 DEF MessageInv, IsRequest, IsFinal, IsReply, AnswerInv
<1>4. AskInv'
      BY <1>1, <1>3 DEF AskInv, Asking, Answering
<1>5. AnswerInv'
      BY <1>0, <1>3 DEF AnswerInv, Answering
<1>6. OrderInv'
      BY <1>0, <1>1 DEF OrderInv
<1>7. CompletedInv'
      BY <1>0, <1>3 DEF CompletedInv, Answering
<1> QED  BY <1>2, <1>4, <1>5, <1>6, <1>7 DEF HandshakeInv

\* q answers a request with a reply, whose id is larger than any of the
\* challenges it made before.
LEMMA ReplySent ==
    ASSUME TypeInv, HandshakeInv, RoleInv', NEW m \in Messages(p), m.token.class = "request", NEW r,
           next'[p] = next[p], next'[q] = next[q] + 1,
           r.to = p, r.id = next[q], r.related = m.id, r.token = Token("reply", m.token.c1, next[q]),
           Messages(p)' \subseteq Messages(p), Messages(q)' \subseteq Messages(q) \cup {r},
           auth'[p] = auth[p], auth'[q].state = "PendingFinal",
           auth'[q].c1 = m.token.c1, auth'[q].c2 = next[q]
    PROVE  HandshakeInv'
<1> USE TwoNodes, MessageTypes
<1>0. MessageInv /\ AskInv /\ AnswerInv /\ OrderInv /\ CompletedInv  BY DEF HandshakeInv
<1>1. r.token.class = "reply" /\ r.token.c1 = m.token.c1 /\ r.token.c2 = next[q]
      BY DEF Token
<1>2. m.token.c1 = m.id /\ m.id \in 1 .. next[p] - 1
      BY <1>0 DEF MessageInv, IsRequest, IsFinal
<1>3. MessageInv'
      <2>1. \A x \in Messages(p)' : x.to = q /\ x.id \in 1 .. next'[p] - 1
            BY <1>0 DEF MessageInv
      <2>2. \A x \in Messages(q)' : x.to = p /\ x.id \in 1 .. next'[q] - 1
            BY <1>0, <1>1 DEF MessageInv
      <2>3. \A x \in Messages(p)' : IsRequest(x)' \/ IsFinal(x)'
            BY <1>0 DEF MessageInv, IsRequest, IsFinal
      <2>4. \A x \in Messages(q)' : IsReply(x)'
            BY <1>0, <1>1, <1>2 DEF MessageInv, IsReply
      <2> QED  BY <2>1, <2>2, <2>3, <2>4 DEF MessageInv, Peer, Nodes
<1>4. AskInv'
      BY <1>0, <1>1, <1>2 DEF AskInv, Asking, Answering
<1>5. AnswerInv'
      <2>1. \A x \in Messages(q) : x.token.c2 < next[q]  BY <1>0 DEF MessageInv, IsReply
      <2>2. auth[p].state = "CompletedSent" => auth[p].c2 < next[q]  BY <1>0 DEF AskInv, Asking
      <2> QED  BY <1>1, <1>2, <2>1, <2>2 DEF AnswerInv, Answering
<1>6. OrderInv'
      <2>1. \A f \in Messages(p) : f.token.class = "final" => f.token.c2 < next[q]
            BY <1>0 DEF MessageInv, IsRequest, IsFinal
      <2> QED  BY <1>0, <1>1, <2>1 DEF OrderInv
<1>7. CompletedInv'
      BY DEF CompletedInv
<1> QED  BY <1>3, <1>4, <1>5, <1>6, <1>7 DEF HandshakeInv

\* p takes the reply to its request and sends the final message.
LEMMA FinalSent ==
    ASSUME TypeInv, HandshakeInv, RoleInv', NEW m \in Messages(q), NEW f,
           auth[p].state = "PendingReply", m.token.c1 = auth[p].c1,
           next'[p] = next[p] + 1, next'[q] = next[q],
           f.to = q, f.id = next[p], f.related = m.id,
           f.token = Token("final", auth[p].c1, m.token.c2),
           Messages(p)' \subseteq Messages(p) \cup {f}, Messages(q)' \subseteq Messages(q),
           auth'[q] = auth[q], auth'[p].state = "CompletedSent",
           auth'[p].c1 = auth[p].c1, auth'[p].c2 = m.token.c2
    PROVE  HandshakeInv'
<1> USE TwoNodes, MessageTypes
<1>0. MessageInv /\ AskInv /\ AnswerInv /\ OrderInv /\ CompletedInv  BY DEF HandshakeInv
<1>1. f.token.class = "final" /\ f.token.c1 = auth[p].c1 /\ f.token.c2 = m.token.c2
      BY DEF Token
<1>2. m.token.c2 = m.id /\ m.id \in 1 .. next[q] - 1
      BY <1>0 DEF MessageInv, IsReply
<1>3. auth[p].c1 \in 1 .. next[p] - 1
      BY <1>0 DEF AskInv, Asking
<1>4. MessageInv'
      <2>1. \A x \in Messages(p)' : x.to = q /\ x.id \in 1 .. next'[p] - 1
            BY <1>0, <1>1 DEF MessageInv
      <2>2. \A x \in Messages(q)' : x.to = p /\ x.id \in 1 .. next'[q] - 1
            BY <1>0 DEF MessageInv
      <2>3. \A x \in Messages(p)' : IsRequest(x)' \/ IsFinal(x)'
            BY <1>0, <1>1, <1>2, <1>3 DEF MessageInv, IsRequest, IsFinal
      <2>4. \A x \in Messages(q)' : IsReply(x)'
            BY <1>0 DEF MessageInv, IsReply
      <2> QED  BY <2>1, <2>2, <2>3, <2>4 DEF MessageInv, Peer, Nodes
<1>5. AskInv'
      BY <1>0, <1>1, <1>2, <1>3 DEF AskInv, Asking, Answering
<1>6. AnswerInv'
      BY <1>0 DEF AnswerInv, Answering
<1>7. OrderInv'
      BY <1>0, <1>1 DEF OrderInv, AskInv, Asking
<1>8. auth[q].state # "CompletedReceived"
      BY <1>0 DEF CompletedInv
<1>9. CompletedInv'
      BY <1>8 DEF CompletedInv
<1> QED  BY <1>4, <1>5, <1>6, <1>7, <1>9 DEF HandshakeInv

\* q takes the final message to its reply.
LEMMA FinalTaken ==
    ASSUME TypeInv, HandshakeInv, RoleInv', NEW f \in Messages(p), f.token.class = "final",
           auth[q].state = "PendingFinal", f.token.c1 = auth[q].c1, f.token.c2 = auth[q].c2,
           next' = next, Messages(p)' \subseteq Messages(p), Messages(q)' \subseteq Messages(q),
           auth'[p] = auth[p], auth'[q].state = "CompletedReceived",
           auth'[q].c1 = auth[q].c1, auth'[q].c2 = auth[q].c2
    PROVE  HandshakeInv'
<1> USE TwoNodes, MessageTypes
<1>0. MessageInv /\ AskInv /\ AnswerInv /\ OrderInv /\ CompletedInv  BY DEF HandshakeInv
<1>1. MessageInv'
      <2>1. \A x \in Messages(p)' : x.to = q /\ x.id \in 1 .. next'[p] - 1
            BY <1>0 DEF MessageInv
      <2>2. \A x \in Messages(q)' : x.to = p /\ x.id \in 1 .. next'[q] - 1
            BY <1>0 DEF MessageInv
      <2>3. \A x \in Messages(p)' : IsRequest(x)' \/ IsFinal(x)'
            BY <1>0 DEF MessageInv, IsRequest, IsFinal
      <2>4. \A x \in Messages(q)' : IsReply(x)'
            BY <1>0 DEF MessageInv, IsReply
      <2> QED  BY <2>1, <2>2, <2>3, <2>4 DEF MessageInv, Peer, Nodes
<1>2. AskInv' /\ AnswerInv' /\ OrderInv'
      BY <1>0 DEF AskInv, AnswerInv, OrderInv, Asking, Answering
<1>3. \A m \in Messages(q) : m.token.c1 <= auth[q].c1
      BY <1>0 DEF OrderInv, AnswerInv, Answering
<1>4. auth[p].state = "PendingReply" => auth[p].c1 > auth[q].c1
      BY <1>0 DEF AskInv, Asking, Answering
<1>5. auth[p].state = "CompletedSent" => auth[p].c1 = auth[q].c1 /\ auth[p].c2 = auth[q].c2
      BY <1>0 DEF AskInv, AnswerInv, OrderInv, Asking, Answering
<1>6. CompletedInv'
      BY <1>3, <1>4, <1>5 DEF CompletedInv, SharedSecret
<1> QED  BY <1>1, <1>2, <1>6 DEF HandshakeInv

-----------------------------------------------------------------------------
(* What the steps do to the messages *)

\* Messages that are read, lost or given up.
LEMMA MessagesShrink ==
    ASSUME TypeInv, NEW n \in Nodes, net' \subseteq net, out' = out,
           \/ stored'[n] = NoMessage \/ stored'[n] = stored[n]
           \/ stored[n] # NoMessage /\ stored'[n].message = stored[n].message
    PROVE  Messages(n)' \subseteq Messages(n)
BY DEF Messages

\* A message that is written, new or again.
LEMMA MessagesGrow ==
    ASSUME TypeInv, NEW n \in Nodes, NEW m \in Message, net' \subseteq net,
           out' = [out EXCEPT ![n] = Append(@, m)], NEW s,
           s = NoMessage \/ s.message = m \/ s = stored[n], stored' = [stored EXCEPT ![n] = s]
    PROVE  /\ Messages(n)' \subseteq Messages(n) \cup {m}
           /\ Messages(Peer(n))' \subseteq Messages(Peer(n))
           /\ out' \in [Nodes -> Seq(Message)]
<1> USE TwoNodes
<1>1. out[n] \in Seq(Message) /\ out \in [Nodes -> Seq(Message)]  BY DEF TypeInv
<1>2. Append(out[n], m) \in Seq(Message) /\ ToSet(Append(out[n], m)) = ToSet(out[n]) \cup {m}
      BY <1>1, AppendToQueue
<1>3. out'[n] = Append(out[n], m) /\ out'[Peer(n)] = out[Peer(n)]
      BY <1>1
<1>4. stored'[n] = s /\ stored'[Peer(n)] = stored[Peer(n)]
      BY DEF TypeInv
<1>5. Messages(n)' \subseteq Messages(n) \cup {m}
      BY <1>2, <1>3, <1>4 DEF Messages
<1>6. Messages(Peer(n))' \subseteq Messages(Peer(n))
      BY <1>3, <1>4 DEF Messages
<1> QED  BY <1>1, <1>2, <1>5, <1>6

\* A message that goes from the Writer to the network.
LEMMA MessagesSent ==
    ASSUME TypeInv, MessageInv, NEW n \in Nodes, out[n] # <<>>,
           out' = [out EXCEPT ![n] = Tail(@)], net' \subseteq net \cup {Head(out[n])},
           stored' = stored
    PROVE  /\ Messages(n)' \subseteq Messages(n)
           /\ Messages(Peer(n))' \subseteq Messages(Peer(n))
           /\ out' \in [Nodes -> Seq(Message)] /\ net' \in SUBSET Message
<1> USE TwoNodes
<1>1. out[n] \in Seq(Message) /\ out \in [Nodes -> Seq(Message)] /\ net \subseteq Message
      BY DEF TypeInv
<1>2. /\ Tail(out[n]) \in Seq(Message) /\ Head(out[n]) \in Message
      /\ Head(out[n]) \in ToSet(out[n]) /\ ToSet(Tail(out[n])) \subseteq ToSet(out[n])
      BY <1>1, TakeFromQueue
<1>3. out'[n] = Tail(out[n]) /\ out'[Peer(n)] = out[Peer(n)]
      BY <1>1
<1>4. Head(out[n]).to = Peer(n)
      BY <1>2 DEF MessageInv, Messages
<1>5. Messages(n)' \subseteq Messages(n)
      BY <1>2, <1>3 DEF Messages
<1>6. Messages(Peer(n))' \subseteq Messages(Peer(n))
      BY <1>3, <1>4 DEF Messages
<1> QED  BY <1>1, <1>2, <1>5, <1>6

\* What a message in the network is.
LEMMA NetworkMessage ==
    ASSUME TypeInv, NEW n \in Nodes, NEW m \in net, m.to = n
    PROVE  m \in Messages(Peer(n)) /\ m \in Message
BY TwoNodes DEF Messages, TypeInv

-----------------------------------------------------------------------------
(* Steps that leave a part of the invariant alone *)

\* No lease has expired, and nothing of the handshake changes.
LEMMA FirstHandshakeKept ==
    ASSUME FirstHandshakeInv, outages' = outages,
           UNCHANGED <<situation, auth, hs, next>>,
           Messages(p)' \subseteq Messages(p), Messages(q)' \subseteq Messages(q),
           \A n \in Nodes : status'[n] \in {"None", "Unauthenticated"}
                               => status[n] \in {"None", "Unauthenticated"},
           \A n \in Nodes : Contains(notes'[n], "Lost") => Contains(notes[n], "Lost")
    PROVE  FirstHandshakeInv'
BY DEF FirstHandshakeInv, ReplyRefused, Asking, Answering

LEMMA KeysKept ==
    ASSUME KeysInv, UNCHANGED <<situation, loop, volatile, cached>>,
           \A n \in Nodes : status'[n] = "Authenticated" => status[n] = "Authenticated" \/ ~Refuses(n),
           \A n \in Nodes : crypto'[n].decode \subseteq crypto[n].decode \cup {"volatile"}
    PROVE  KeysInv'
<1>1. ASSUME NEW n \in Nodes PROVE Refuses(n)' <=> Refuses(n)
      BY DEF Refuses, Permissions
<1> QED  BY <1>1, TwoNodes DEF KeysInv

\* What the documents say stays the same.
LEMMA DocumentsStay ==
    ASSUME situation' = situation
    PROVE  \A n \in Nodes : /\ EndpointInfo(n)' = EndpointInfo(n) /\ Attributes(n)' = Attributes(n)
                            /\ Permitted(n)' <=> Permitted(n)
                            /\ Refuses(n)' <=> Refuses(n)
<1>1. ASSUME NEW n \in Nodes
      PROVE  EndpointInfo(n)' = EndpointInfo(n) /\ Attributes(n)' = Attributes(n)
      BY DEF EndpointInfo, Attributes
<1>2. ASSUME NEW n \in Nodes PROVE Refuses(n)' <=> Refuses(n)
      BY DEF Refuses, Permissions
<1>3. ASSUME NEW n \in Nodes PROVE Permitted(n)' <=> Permitted(n)
      BY DEF Permitted, Attributes, Granted
<1> QED  BY <1>1, <1>2, <1>3

LEMMA MatchKept ==
    ASSUME MatchInv, UNCHANGED <<situation, loop, matched>>,
           \A n \in Nodes : status'[n] = "Authenticated" => Completed(hs'[n]),
           \A n \in Nodes : status[n] = "Authenticated"
                               => status'[n] = "Authenticated" \/ Contains(notes'[n], "Lost"),
           \A n \in Nodes : Contains(notes[n], "Lost") => Contains(notes'[n], "Lost"),
           \A n \in Nodes : Contains(notes'[n], "Endpoint") => Contains(notes[n], "Endpoint")
    PROVE  MatchInv'
<1> USE DocumentsStay, TwoNodes
<1>1. \A n \in Nodes : EndpointInfo(n)' # {}  BY DEF MatchInv
<1>2. \A n \in Nodes : "secure" \in loop'[n] => status'[n] = "Authenticated" \/ Contains(notes'[n], "Lost")
      BY DEF MatchInv
<1>3. \A n \in Nodes : matched'[n] \/ Contains(notes'[n], "Endpoint") => Permitted(n)'
      BY DEF MatchInv
<1>4. matched'[p] \/ matched'[q] => Attributes(p)' = Attributes(q)'
      BY DEF MatchInv
<1> QED  BY <1>1, <1>2, <1>3, <1>4 DEF MatchInv

-----------------------------------------------------------------------------
(* The steps *)

LEMMA LoseMessageStep ==
    ASSUME IInv, LoseMessage
    PROVE  IInv'
<1> USE TwoNodes
<1>0. /\ UNCHANGED <<situation, outages, turn, status, known, announced, hs, stored, next, cached,
                     unsent, keysSent, auth, crypto, notes, commands, out, loop, matched, volatile>>
      /\ net' \subseteq net /\ losses' = losses + 1
      BY DEF LoseMessage, discovery, plugins, eventLoop
<1>1. TypeInv'
      BY <1>0 DEF IInv, TypeInv, PerNode
<1>2. Messages(p)' \subseteq Messages(p) /\ Messages(q)' \subseteq Messages(q)
      BY <1>0, MessagesShrink DEF IInv
<1>3. HandshakeInv'
      BY <1>0, <1>2, NothingNew DEF IInv, HandshakeInv, RoleInv
<1>4. FirstHandshakeInv'
      BY <1>0, <1>2, FirstHandshakeKept DEF IInv
<1>5. KeysInv'
      BY <1>0, KeysKept DEF IInv
<1>6. MatchInv'
      BY <1>0, MatchKept DEF IInv, MatchInv
<1> QED  BY <1>1, <1>3, <1>4, <1>5, <1>6 DEF IInv

LEMMA WriterSendStep ==
    ASSUME IInv, NEW n \in Nodes, WriterSend(n)
    PROVE  IInv'
<1> USE TwoNodes
<1>0. /\ UNCHANGED <<situation, losses, outages, turn, status, known, announced, hs, stored, next,
                     cached, unsent, keysSent, auth, crypto, notes, commands, loop, matched, volatile>>
      /\ out[n] # <<>> /\ out' = [out EXCEPT ![n] = Tail(@)] /\ net' \subseteq net \cup {Head(out[n])}
      BY DEF WriterSend, discovery, plugins, eventLoop, faults
<1>1. /\ Messages(p)' \subseteq Messages(p) /\ Messages(q)' \subseteq Messages(q)
      /\ out' \in [Nodes -> Seq(Message)] /\ net' \in SUBSET Message
      BY <1>0, MessagesSent DEF IInv, HandshakeInv
<1>2. TypeInv'
      BY <1>0, <1>1 DEF IInv, TypeInv, PerNode
<1>3. HandshakeInv'
      BY <1>0, <1>1, NothingNew DEF IInv, HandshakeInv, RoleInv
<1>4. FirstHandshakeInv'
      BY <1>0, <1>1, FirstHandshakeKept DEF IInv
<1>5. KeysInv'
      BY <1>0, KeysKept DEF IInv
<1>6. MatchInv'
      BY <1>0, MatchKept DEF IInv, MatchInv
<1> QED  BY <1>2, <1>3, <1>4, <1>5, <1>6 DEF IInv

\* Keys that are written go to a matched remote.
LEMMA KeysWritten ==
    ASSUME TypeInv, NEW n \in Nodes, NEW owners, NEW kept,
           send_key_exchange_messages(n, owners, kept)
    PROVE  /\ losses' \in Nat /\ PerNode(unsent') /\ PerNode(volatile')
           /\ volatile'[n] = volatile[n]
           /\ "secure" \notin loop[n] => volatile'[Peer(n)] = volatile[Peer(n)]
<1> USE TwoNodes
<1>0. PICK failed \in SUBSET ToSet(owners) :
         /\ losses' = IF failed = {} THEN losses ELSE losses + 1
         /\ unsent' = [unsent EXCEPT ![n] = kept \cup failed]
         /\ volatile' = IF "secure" \in loop[n]
                        THEN [volatile EXCEPT ![Peer(n)] = volatile[Peer(n)] \o Without(owners, failed)]
                        ELSE volatile
      BY DEF send_key_exchange_messages
<1>1. PICK u, v :
         /\ unsent' = [unsent EXCEPT ![n] = u]
         /\ volatile' = IF "secure" \in loop[n] THEN [volatile EXCEPT ![Peer(n)] = v] ELSE volatile
      <2>1. PICK u, v : u = kept \cup failed /\ v = volatile[Peer(n)] \o Without(owners, failed)
            OBVIOUS
      <2> QED  BY <1>0, <2>1
<1>2. losses \in Nat /\ PerNode(unsent) /\ PerNode(volatile)  BY DEF TypeInv
<1>3. losses' \in Nat  BY <1>0, <1>2
<1>4. PerNode(unsent')  BY <1>1, <1>2, UpdateOfOne DEF PerNode
<1>5. CASE "secure" \in loop[n]
      <2>1. PerNode(volatile') /\ volatile'[n] = volatile[n]
            BY <1>1, <1>2, <1>5, UpdateOfOne DEF PerNode
      <2> QED  BY <1>3, <1>4, <1>5, <2>1
<1>6. CASE "secure" \notin loop[n]
      <2>1. volatile' = volatile  BY <1>1, <1>6
      <2> QED  BY <1>2, <1>3, <1>4, <2>1 DEF PerNode
<1> QED  BY <1>5, <1>6

LEMMA ResendStep ==
    ASSUME IInv, NEW n \in Nodes, resend_cached_secure_discovery_messages(n)
    PROVE  IInv'
<1> USE TwoNodes
<1>0. /\ UNCHANGED <<situation, outages, status, known, announced, hs, next, cached,
                     keysSent, auth, crypto, notes, commands, loop, matched, net>>
      /\ turn' \in Nodes
      BY DEF resend_cached_secure_discovery_messages, plugins, eventLoop, faults, IInv, TypeInv
<1>1. /\ Messages(p)' \subseteq Messages(p) /\ Messages(q)' \subseteq Messages(q)
      /\ out' \in [Nodes -> Seq(Message)]
      /\ stored' \in [Nodes -> {NoMessage} \cup [message : Message, left : Nat]]
      <2>1. CASE stored[n] = NoMessage \/ hs[n] = "CompletedSent"
            <3>1. UNCHANGED <<stored, out>>
                  BY <2>1 DEF resend_cached_secure_discovery_messages
            <3> QED  BY <1>0, <3>1, MessagesShrink DEF IInv, TypeInv
      <2>2. CASE ~(stored[n] = NoMessage \/ hs[n] = "CompletedSent")
            <3>1. /\ out' = [out EXCEPT ![n] = Append(@, stored[n].message)]
                  /\ stored' = [stored EXCEPT ![n] = resent(stored[n])]
                  BY <2>2 DEF resend_cached_secure_discovery_messages
            <3>2. /\ stored[n] \in [message : Message, left : Nat]
                  /\ stored \in [Nodes -> {NoMessage} \cup [message : Message, left : Nat]]
                  BY <2>2 DEF IInv, TypeInv
            <3>3. /\ resent(stored[n]) \in {NoMessage} \cup [message : Message, left : Nat]
                  /\ resent(stored[n]) = NoMessage \/ resent(stored[n]).message = stored[n].message
                  BY <3>2 DEF resent
            <3>4. stored[n].message \in Message /\ stored[n].message \in Messages(n)
                  BY <2>2, <3>2 DEF Messages
            <3>5. /\ Messages(n)' \subseteq Messages(n) \cup {stored[n].message}
                  /\ Messages(Peer(n))' \subseteq Messages(Peer(n))
                  /\ out' \in [Nodes -> Seq(Message)]
                  BY <1>0, <3>1, <3>3, <3>4, MessagesGrow DEF IInv
            <3> QED  BY <3>1, <3>2, <3>3, <3>4, <3>5
      <2> QED  BY <2>1, <2>2
<1>a. /\ losses' \in Nat /\ PerNode(unsent') /\ PerNode(volatile')
      /\ volatile'[n] = volatile[n]
      /\ "secure" \notin loop[n] => volatile'[Peer(n)] = volatile[Peer(n)]
      <2>1. PICK owners : send_key_exchange_messages(n, owners, {})
            BY DEF resend_cached_secure_discovery_messages
      <2> QED  BY <2>1, KeysWritten DEF IInv
<1>2. TypeInv'
      BY <1>0, <1>1, <1>a DEF IInv, TypeInv, PerNode
<1>3. HandshakeInv'
      BY <1>0, <1>1, NothingNew DEF IInv, HandshakeInv, RoleInv
<1>4. FirstHandshakeInv'
      BY <1>0, <1>1, FirstHandshakeKept DEF IInv
<1>5. KeysInv'
      BY <1>0, <1>a, DocumentsStay DEF IInv, KeysInv
<1>6. MatchInv'
      BY <1>0, MatchKept DEF IInv, MatchInv
<1> QED  BY <1>2, <1>3, <1>4, <1>5, <1>6 DEF IInv

\* A note that is sent is added to those there are.
LEMMA NoteSent ==
    ASSUME TypeInv, NEW n \in Nodes, NEW note \in Notes, send_discovery_notification(n, note)
    PROVE  /\ notes' \in [Nodes -> Seq(Notes)]
           /\ \A x : Contains(notes'[n], x) <=> Contains(notes[n], x) \/ x = note
           /\ notes'[Peer(n)] = notes[Peer(n)]
<1>1. notes \in [Nodes -> Seq(Notes)] /\ notes[n] \in Seq(Notes)  BY DEF TypeInv
<1>2. /\ Append(notes[n], note) \in Seq(Notes)
      /\ \A x : Contains(Append(notes[n], note), x) <=> Contains(notes[n], x) \/ x = note
      BY <1>1, AppendToQueue
<1>3. notes' = [notes EXCEPT ![n] = Append(notes[n], note)]
      BY DEF send_discovery_notification
<1> QED  BY <1>1, <1>2, <1>3, TwoNodes

LEMMA CleanupStep ==
    ASSUME IInv, NEW n \in Nodes, participant_cleanup(n)
    PROVE  IInv'
<1> USE TwoNodes
<1>0. /\ UNCHANGED <<situation, losses, turn, hs, stored, next, cached, unsent, keysSent, auth, crypto,
                     commands, out, loop, matched, net, volatile>>
      /\ outages' = outages + 1 /\ outages \in Nat
      /\ status' = [status EXCEPT ![n] = "None"] /\ known' = [known EXCEPT ![n] = FALSE]
      /\ announced' = [announced EXCEPT ![n] = IF "known" \in @ THEN (@ \ {"known"}) \cup {"attic"}
                                               ELSE @]
      /\ send_discovery_notification(n, "Lost")
      BY DEF participant_cleanup, plugins, eventLoop, IInv, TypeInv
<1>1. /\ notes' \in [Nodes -> Seq(Notes)]
      /\ \A x : Contains(notes'[n], x) <=> Contains(notes[n], x) \/ x = "Lost"
      /\ notes'[Peer(n)] = notes[Peer(n)]
      BY <1>0, NoteSent DEF IInv, Notes
<1>s. status'[n] = "None" /\ status'[Peer(n)] = status[Peer(n)]
      BY <1>0 DEF IInv, TypeInv
<1>2. TypeInv'
      <2>1. status' \in [Nodes -> Statuses] /\ known' \in [Nodes -> BOOLEAN]
            BY <1>0 DEF IInv, TypeInv, Statuses
      <2>2. announced' \in [Nodes -> SUBSET {"read", "known", "attic"}]
            BY <1>0 DEF IInv, TypeInv
      <2>3. outages' \in Nat  BY <1>0
      <2> QED  BY <1>0, <1>1, <2>1, <2>2, <2>3 DEF IInv, TypeInv, PerNode
<1>3. Messages(p)' \subseteq Messages(p) /\ Messages(q)' \subseteq Messages(q)
      BY <1>0, MessagesShrink DEF IInv
<1>4. HandshakeInv'
      BY <1>0, <1>3, NothingNew DEF IInv, HandshakeInv, RoleInv
<1>5. FirstHandshakeInv'
      BY <1>0 DEF FirstHandshakeInv
<1>6. KeysInv'
      <2>1. \A k \in Nodes : status'[k] = "Authenticated" => status[k] = "Authenticated"
            BY <1>s
      <2> QED  BY <1>0, <2>1, KeysKept DEF IInv
<1>7. MatchInv'
      <2>1. \A k \in Nodes : status'[k] = "Authenticated" => Completed(hs'[k])
            BY <1>0, <1>s DEF IInv, MatchInv
      <2>2. \A k \in Nodes : status[k] = "Authenticated"
                               => status'[k] = "Authenticated" \/ Contains(notes'[k], "Lost")
            BY <1>1, <1>s
      <2>3. \A k \in Nodes : /\ Contains(notes[k], "Lost") => Contains(notes'[k], "Lost")
                             /\ Contains(notes'[k], "Endpoint") => Contains(notes[k], "Endpoint")
            BY <1>1
      <2> QED  BY <1>0, <2>1, <2>2, <2>3, MatchKept DEF IInv
<1> QED  BY <1>2, <1>4, <1>5, <1>6, <1>7 DEF IInv

\* The checks of an announcement pass only what Permitted says.
LEMMA ChecksPermit ==
    ASSUME TypeInv
    PROVE  /\ MayRead(p) => Permitted(p)
           /\ MayWrite(q) => Permitted(q)
           /\ check_nonsecure_subscription_read(p) \/ check_secure_subscription_read(p) => Permitted(p)
           /\ check_nonsecure_publication_read(q) \/ check_secure_publication_read(q) => Permitted(q)
<1> USE TwoNodes
<1>1. Topic \notin BuiltinTopics /\ Topic \notin SecureDiscoveryTopics
      /\ Topic # "DCPSParticipantMessageSecure" /\ Topic # "DCPSParticipantVolatileMessageSecure"
      /\ Topic \notin OpenBuiltinTopics
      BY DEF Topic, BuiltinTopics, SecureDiscoveryTopics, OpenBuiltinTopics
<1>2. ASSUME NEW n \in Nodes
      PROVE  LET rule == situation.rules[n]
                 t == rule.topic_access_rules[find_topic_rule(rule, Topic)]
             IN  /\ Attributes(n).is_read_protected = t.enable_read_access_control
                 /\ Attributes(n).is_write_protected = t.enable_write_access_control
      BY <1>1 DEF Attributes, get_endpoint_security_attributes, EndpointAttributes
<1>3. ASSUME MayRead(p), Attributes(p).is_read_protected
      PROVE  Granted(q, "Subscribe") \/ Granted(q, "Relay")
      <2>1. check_remote_datareader(Permissions(p, q), Domain, Topic, Now).check_passed
            BY <1>3 DEF MayRead
      <2>2. situation.rules[p].topic_access_rules[find_topic_rule(situation.rules[p], Topic)]
               .enable_read_access_control
            BY <1>2, <1>3
      <2> QED  BY <2>1, <2>2 DEF check_remote_datareader, Permissions, Granted
<1>4. ASSUME MayWrite(q), Attributes(q).is_write_protected
      PROVE  Granted(p, "Publish")
      <2>1. check_entity(Permissions(q, p), Domain, Topic, "writer", Now)
            BY <1>4 DEF MayWrite
      <2>2. situation.rules[q].topic_access_rules[find_topic_rule(situation.rules[q], Topic)]
               .enable_write_access_control
            BY <1>2, <1>4
      <2> QED  BY <1>1, <2>1, <2>2 DEF check_entity, Permissions, Granted
<1>5. (MayRead(p) => Permitted(p)) /\ (MayWrite(q) => Permitted(q))
      BY <1>3, <1>4 DEF Permitted
<1>6. check_nonsecure_subscription_read(p) \/ check_secure_subscription_read(p) => Permitted(p)
      BY <1>5 DEF check_nonsecure_subscription_read, check_secure_subscription_read, Permitted
<1>7. check_nonsecure_publication_read(q) \/ check_secure_publication_read(q) => Permitted(q)
      BY <1>5 DEF check_nonsecure_publication_read, check_secure_publication_read, Permitted
<1> QED  BY <1>5, <1>6, <1>7

LEMMA EndpointReadStep ==
    ASSUME IInv, NEW n \in Nodes, endpoint_read(n)
    PROVE  IInv'
<1> USE TwoNodes
<1>0. UNCHANGED <<situation, losses, outages, turn, status, known, hs, stored, next, cached, unsent, keysSent,
                  auth, crypto, commands, out, loop, matched, net, volatile>>
      BY DEF endpoint_read, faults, plugins, eventLoop
<1>1. PICK permission \in BOOLEAN : Decide(n, permission) /\ (permission => Permitted(n))
      <2>1. \/ Decide(n, check_secure_subscription_read(n)) /\ n = p
            \/ Decide(n, check_secure_publication_read(n)) /\ n = q
            \/ Decide(n, check_nonsecure_subscription_read(n)) /\ n = p
            \/ Decide(n, check_nonsecure_publication_read(n)) /\ n = q
            BY DEF endpoint_read, handle_secure_subscription_reader, handle_secure_publication_reader,
               handle_subscription_reader, handle_publication_reader
      <2>2. /\ check_secure_subscription_read(n) \in BOOLEAN
            /\ check_secure_publication_read(n) \in BOOLEAN
            /\ check_nonsecure_subscription_read(n) \in BOOLEAN
            /\ check_nonsecure_publication_read(n) \in BOOLEAN
            BY DEF check_secure_subscription_read, check_secure_publication_read,
               check_nonsecure_subscription_read, check_nonsecure_publication_read
      <2> QED  BY <2>1, <2>2, ChecksPermit DEF IInv
<1>2. /\ announced' \in [Nodes -> SUBSET {"read", "known", "attic"}]
      /\ notes' \in [Nodes -> Seq(Notes)]
      /\ \A k \in Nodes : Contains(notes'[k], "Lost") <=> Contains(notes[k], "Lost")
      /\ \A k \in Nodes : Contains(notes'[k], "Endpoint") => Contains(notes[k], "Endpoint") \/ Permitted(k)
      <2>1. CASE permission
            <3>1. /\ announced' = [announced EXCEPT ![n] = @ \cup {"read", "known"}]
                  /\ send_discovery_notification(n, "Endpoint")
                  BY <1>1, <2>1 DEF Decide
            <3>2. /\ notes' \in [Nodes -> Seq(Notes)]
                  /\ \A x : Contains(notes'[n], x) <=> Contains(notes[n], x) \/ x = "Endpoint"
                  /\ notes'[Peer(n)] = notes[Peer(n)]
                  BY <3>1, NoteSent DEF IInv, Notes
            <3>3. announced' \in [Nodes -> SUBSET {"read", "known", "attic"}]
                  BY <3>1 DEF IInv, TypeInv
            <3> QED  BY <1>1, <2>1, <3>2, <3>3
      <2>2. CASE ~permission
            <3>1. announced' = [announced EXCEPT ![n] = @ \cup {"read"}] /\ UNCHANGED notes
                  BY <1>1, <2>2 DEF Decide
            <3> QED  BY <3>1 DEF IInv, TypeInv
      <2> QED  BY <2>1, <2>2
<1>3. TypeInv'
      BY <1>0, <1>2 DEF IInv, TypeInv, PerNode
<1>4. Messages(p)' \subseteq Messages(p) /\ Messages(q)' \subseteq Messages(q)
      BY <1>0, MessagesShrink DEF IInv
<1>5. HandshakeInv'
      BY <1>0, <1>4, NothingNew DEF IInv, HandshakeInv, RoleInv
<1>6. FirstHandshakeInv'
      BY <1>0, <1>2, <1>4, FirstHandshakeKept DEF IInv
<1>7. KeysInv'
      BY <1>0, KeysKept DEF IInv
<1>8. MatchInv'
      BY <1>0, <1>2, DocumentsStay DEF IInv, MatchInv
<1> QED  BY <1>3, <1>5, <1>6, <1>7, <1>8 DEF IInv

LEMMA VolatileReadStep ==
    ASSUME IInv, NEW n \in Nodes, volatile_message_secure_read(n)
    PROVE  IInv'
<1> USE TwoNodes
<1>0. /\ UNCHANGED <<situation, losses, outages, turn, status, known, announced, hs, stored, next,
                     unsent, keysSent, auth, notes, commands, out, loop, matched, net>>
      /\ volatile[n] # <<>>
      BY DEF volatile_message_secure_read, faults, eventLoop
<1>a. /\ PerNode(volatile)' /\ volatile'[Peer(n)] = volatile[Peer(n)]
      /\ PerNode(crypto)' /\ crypto'[Peer(n)] = crypto[Peer(n)]
      /\ PerNode(cached)' /\ cached'[Peer(n)] = cached[Peer(n)]
      /\ crypto'[n] = set_remote_crypto_tokens(crypto[n], Head(volatile[n]))
      <2>1. PICK v, k, c :
               /\ volatile' = [volatile EXCEPT ![n] = v]
               /\ crypto' = [crypto EXCEPT ![n] = k] /\ cached' = [cached EXCEPT ![n] = c]
               /\ k = set_remote_crypto_tokens(crypto[n], Head(volatile[n]))
            BY DEF volatile_message_secure_read
      <2>2. PerNode(volatile) /\ PerNode(crypto) /\ PerNode(cached)
            BY DEF IInv, TypeInv
      <2> QED  BY <2>1, <2>2, UpdateOfOne DEF PerNode
<1>1. \A k \in Nodes : IsCryptoRecord(crypto'[k])
      <2>1. IsCryptoRecord(crypto[n]) /\ IsCryptoRecord(crypto[Peer(n)])
            BY DEF IInv, TypeInv
      <2>2. IsCryptoRecord(set_remote_crypto_tokens(crypto[n], Head(volatile[n])))
            BY <2>1, CryptoRecords
      <2> QED  BY <1>a, <2>1, <2>2
<1>2. TypeInv'
      BY <1>0, <1>a, <1>1 DEF IInv, TypeInv, PerNode
<1>3. Messages(p)' \subseteq Messages(p) /\ Messages(q)' \subseteq Messages(q)
      BY <1>0, MessagesShrink DEF IInv
<1>4. HandshakeInv'
      BY <1>0, <1>3, NothingNew DEF IInv, HandshakeInv, RoleInv
<1>5. FirstHandshakeInv'
      BY <1>0, <1>3, FirstHandshakeKept DEF IInv
<1>6. KeysInv'
      <2>1. ~Refuses(Peer(n))  BY <1>0 DEF IInv, KeysInv
      <2> QED  BY <1>0, <1>a, <2>1, DocumentsStay DEF IInv, KeysInv
<1>7. MatchInv'
      BY <1>0, MatchKept DEF IInv, MatchInv
<1> QED  BY <1>2, <1>4, <1>5, <1>6, <1>7 DEF IInv

LEMMA CommandStep ==
    ASSUME IInv, NEW n \in Nodes, handle_command(n)
    PROVE  IInv'
<1> USE TwoNodes
<1>0. /\ UNCHANGED <<situation, outages, turn, status, known, announced, hs, stored, next,
                     auth, notes, out, loop, matched, net>>
      /\ commands[n] # <<>> /\ commands' = [commands EXCEPT ![n] = Tail(@)]
      BY DEF handle_command, faults, eventLoop
<1>1. commands' \in [Nodes -> Seq(Commands)]
      <2>1. commands \in [Nodes -> Seq(Commands)]  BY DEF IInv, TypeInv
      <2>2. Tail(commands[n]) \in Seq(Commands)  BY <1>0, <2>1, TakeFromQueue
      <2> QED  BY <1>0, <2>1, <2>2
<1>2. PerNode(crypto) /\ PerNode(cached) /\ PerNode(volatile) /\ PerNode(unsent) /\ losses \in Nat
      /\ keysSent \in [Nodes -> BOOLEAN] /\ \A k \in Nodes : IsCryptoRecord(crypto[k])
      BY DEF IInv, TypeInv
<1>3. /\ PerNode(crypto') /\ \A k \in Nodes : IsCryptoRecord(crypto'[k])
      /\ PerNode(cached') /\ PerNode(volatile') /\ keysSent' \in [Nodes -> BOOLEAN]
      /\ cached'[n] \subseteq cached[n] /\ cached'[Peer(n)] = cached[Peer(n)]
      /\ volatile'[n] = volatile[n]
      /\ "secure" \notin loop[n] => volatile'[Peer(n)] = volatile[Peer(n)]
      /\ crypto'[Peer(n)] = crypto[Peer(n)]
      /\ cached[n] = {} => crypto'[n].decode \subseteq crypto[n].decode \cup {"volatile"}
      /\ PerNode(unsent') /\ losses' \in Nat
      <2>1. CASE start_key_exchange_with_remote_participant(n)
            <3>1. UNCHANGED <<cached, keysSent, crypto>>
                  BY <2>1 DEF start_key_exchange_with_remote_participant
            <3>2. PICK owners : \/ UNCHANGED <<losses, unsent, volatile>>
                                \/ send_key_exchange_messages(n, owners, unsent[n])
                  BY <2>1 DEF start_key_exchange_with_remote_participant
            <3>3. /\ PerNode(volatile') /\ volatile'[n] = volatile[n] /\ PerNode(unsent')
                  /\ "secure" \notin loop[n] => volatile'[Peer(n)] = volatile[Peer(n)]
                  /\ losses' \in Nat
                  BY <1>2, <3>2, KeysWritten DEF IInv, PerNode
            <3> QED  BY <1>2, <3>1, <3>3
      <2>2. CASE start_key_exchange_with_remote_endpoint(n)
            <3> DEFINE k == register_matched_remote_endpoint_if_not_already(crypto[n], auth[n], "user")
                       r == register_and_use_cached(n)
            <3>1. /\ crypto' = [crypto EXCEPT ![n] = r.crypto]
                  /\ cached' = [cached EXCEPT ![n] = r.cached]
                  /\ send_endpoint_keys(n, r.crypto)
                  BY <2>2 DEF start_key_exchange_with_remote_endpoint
            <3>2. /\ r.crypto = k \/ (r.crypto = set_remote_crypto_tokens(k, "user") /\ "user" \in cached[n])
                  /\ r.cached \subseteq cached[n]
                  BY DEF register_and_use_cached
            <3>3. IsCryptoRecord(k) /\ k.decode \subseteq crypto[n].decode \cup {"volatile"}
                  BY <1>2, CryptoRecords, DecodeKeys
            <3>4. IsCryptoRecord(r.crypto)
                  BY <3>2, <3>3, CryptoRecords
            <3>5. \/ UNCHANGED <<losses, unsent, volatile>>
                  \/ send_key_exchange_messages(n, <<"user">>, unsent[n])
                  BY <3>1 DEF send_endpoint_keys
            <3>6. /\ PerNode(volatile') /\ volatile'[n] = volatile[n] /\ PerNode(unsent')
                  /\ "secure" \notin loop[n] => volatile'[Peer(n)] = volatile[Peer(n)]
                  /\ losses' \in Nat
                  BY <1>2, <3>5, KeysWritten DEF IInv, PerNode
            <3>7. keysSent' \in [Nodes -> BOOLEAN]
                  BY <1>2, <3>1 DEF send_endpoint_keys
            <3>8. /\ PerNode(crypto') /\ crypto'[n] = r.crypto /\ crypto'[Peer(n)] = crypto[Peer(n)]
                  /\ PerNode(cached') /\ cached'[n] = r.cached /\ cached'[Peer(n)] = cached[Peer(n)]
                  <4> HIDE DEF r
                  <4>1. PICK x, y : /\ crypto' = [crypto EXCEPT ![n] = x] /\ x = r.crypto
                                    /\ cached' = [cached EXCEPT ![n] = y] /\ y = r.cached
                        BY <3>1
                  <4>2. PerNode(crypto') /\ crypto'[n] = x /\ crypto'[Peer(n)] = crypto[Peer(n)]
                        BY <1>2, <4>1, UpdateOfOne DEF PerNode
                  <4>3. PerNode(cached') /\ cached'[n] = y /\ cached'[Peer(n)] = cached[Peer(n)]
                        BY <1>2, <4>1, UpdateOfOne DEF PerNode
                  <4> QED  BY <4>1, <4>2, <4>3
            <3>9. cached[n] = {} => r.crypto.decode \subseteq crypto[n].decode \cup {"volatile"}
                  BY <3>2, <3>3
            <3> HIDE DEF k, r
            <3> QED  BY <1>2, <3>2, <3>4, <3>6, <3>7, <3>8, <3>9
      <2>3. Head(commands[n]) \in Commands
            BY <1>0, TakeFromQueue DEF IInv, TypeInv
      <2> QED  BY <2>1, <2>2, <2>3 DEF handle_command, Commands
<1>4. TypeInv'
      BY <1>0, <1>1, <1>3 DEF IInv, TypeInv, PerNode
<1>5. Messages(p)' \subseteq Messages(p) /\ Messages(q)' \subseteq Messages(q)
      BY <1>0, MessagesShrink DEF IInv
<1>6. HandshakeInv'
      BY <1>0, <1>5, NothingNew DEF IInv, HandshakeInv, RoleInv
<1>7. FirstHandshakeInv'
      BY <1>0, <1>5, FirstHandshakeKept DEF IInv
<1>8. KeysInv'
      BY <1>0, <1>3, DocumentsStay DEF IInv, KeysInv
<1>9. MatchInv'
      BY <1>0, MatchKept DEF IInv, MatchInv
<1> QED  BY <1>4, <1>6, <1>7, <1>8, <1>9 DEF IInv

\* The records of the authentication plugin.
LEMMA NoIdentityRecord == NoIdentity \in AuthRecord /\ NoIdentity.state = "None"
BY DEF NoIdentity, AuthRecord, HandshakeStates, NoChallenge

LEMMA ValidateRecord ==
    ASSUME NEW a \in AuthRecord, NEW smaller \in BOOLEAN, NEW v,
           v = validate_remote_identity(a, smaller)
    PROVE  /\ v \in AuthRecord /\ v.identity
           /\ v.state = IF smaller THEN "PendingRequestSend" ELSE "PendingRequestMessage"
BY DEF validate_remote_identity, NoIdentity, AuthRecord, HandshakeStates, NoChallenge

LEMMA RequestRecord ==
    ASSUME NEW a \in AuthRecord, NEW c \in Nat, NEW b, b = begin_handshake_request(a, c)
    PROVE  b \in AuthRecord /\ b.state = "PendingReply" /\ b.c1 = c /\ b.handshake
BY DEF begin_handshake_request, AuthRecord, HandshakeStates

LEMMA PermissionsRecord ==
    ASSUME NEW a \in AuthRecord, NEW v \in BOOLEAN, NEW b, b = [a EXCEPT !.permissions = v]
    PROVE  /\ b \in AuthRecord /\ b.state = a.state /\ b.c1 = a.c1 /\ b.c2 = a.c2
           /\ b.handshake = a.handshake
BY DEF AuthRecord

\* A note is taken, and nothing of the handshake or the keys changes.
LEMMA MatchingNoteStep ==
    ASSUME IInv, NEW n \in Nodes, NEW note \in Notes, notes' \in [Nodes -> Seq(Notes)],
           \A x : Contains(notes[n], x) <=> Contains(notes'[n], x) \/ x = note,
           notes'[Peer(n)] = notes[Peer(n)], note # "Lost",
           UNCHANGED <<situation, losses, outages, turn, status, known, announced, hs, stored, next,
                       cached, unsent, keysSent, auth, crypto, out, net, volatile>>,
           commands' \in [Nodes -> Seq(Commands)], NEW l, loop' = [loop EXCEPT ![n] = l],
           l = loop[n] \/ l = loop[n] \cup groups(status[n]),
           \/ UNCHANGED matched
           \/ /\ matched' = [matched EXCEPT ![n] = TRUE] /\ note = "Endpoint"
              /\ EndpointInfo(n) = EndpointInfo(Peer(n))
    PROVE  IInv'
<1> USE TwoNodes
<1>1. \A k \in Nodes : Contains(notes'[k], "Lost") <=> Contains(notes[k], "Lost")
      OBVIOUS
<1>2. /\ groups(status[n]) \subseteq {"stateless", "standard", "secure"}
      /\ "secure" \in groups(status[n]) => status[n] = "Authenticated"
      BY DEF groups
<1>3. /\ loop' \in [Nodes -> SUBSET {"stateless", "standard", "secure"}]
      /\ matched' \in [Nodes -> BOOLEAN]
      /\ \A k \in Nodes : "secure" \in loop'[k] => "secure" \in loop[k] \/ status[k] = "Authenticated"
      BY <1>2 DEF IInv, TypeInv
<1>4. TypeInv'
      BY <1>3 DEF IInv, TypeInv, PerNode
<1>5. Messages(p)' \subseteq Messages(p) /\ Messages(q)' \subseteq Messages(q)
      BY MessagesShrink DEF IInv
<1>6. HandshakeInv'
      BY <1>5, NothingNew DEF IInv, HandshakeInv, RoleInv
<1>7. FirstHandshakeInv'
      BY <1>1, <1>5, FirstHandshakeKept DEF IInv
<1>8. KeysInv'
      BY <1>3, DocumentsStay DEF IInv, KeysInv
<1>9. MatchInv'
      <2>1. \A k \in Nodes : matched'[k] => matched[k] \/ Contains(notes[k], "Endpoint")
            BY DEF IInv, TypeInv
      <2>2. \A k \in Nodes : matched'[k] \/ Contains(notes'[k], "Endpoint") => Permitted(k)'
            BY <2>1, DocumentsStay DEF IInv, MatchInv
      <2>3. matched'[p] \/ matched'[q] => Attributes(p) = Attributes(q)
            <3>1. CASE UNCHANGED matched
                  BY <3>1 DEF IInv, MatchInv
            <3>2. CASE EndpointInfo(n) = EndpointInfo(Peer(n))
                  <4>1. EndpointInfo(p) = EndpointInfo(q) /\ EndpointInfo(p) # {}
                        BY <3>2 DEF IInv, MatchInv
                  <4>2. ASSUME NEW k \in Nodes
                        PROVE  \A x \in EndpointInfo(k) : x.attributes = Attributes(k)
                        BY DEF EndpointInfo, EndpointSecurityInfo, Attributes
                  <4> QED  BY <4>1, <4>2
            <3> QED  BY <3>1, <3>2
      <2>4. \A k \in Nodes : EndpointInfo(k)' # {} /\ (status'[k] = "Authenticated" => Completed(hs'[k]))
            BY DocumentsStay DEF IInv, MatchInv
      <2>5. \A k \in Nodes :
               "secure" \in loop'[k] => status'[k] = "Authenticated" \/ Contains(notes'[k], "Lost")
            BY <1>1, <1>3 DEF IInv, MatchInv
      <2> QED  BY <2>2, <2>3, <2>4, <2>5, DocumentsStay DEF MatchInv
<1> QED  BY <1>4, <1>6, <1>7, <1>8, <1>9 DEF IInv

\* The event loop hears that the remote is lost, which only happens after its
\* lease has expired.
LEMMA LostStep ==
    ASSUME IInv, NEW n \in Nodes, notes' \in [Nodes -> Seq(Notes)],
           \A x : Contains(notes[n], x) <=> Contains(notes'[n], x) \/ x = "Lost",
           notes'[Peer(n)] = notes[Peer(n)],
           UNCHANGED <<situation, losses, outages, turn, status, known, hs, stored, next,
                       cached, unsent, keysSent, out, net>>,
           remote_participant_lost(n)
    PROVE  IInv'
<1> USE TwoNodes
<1>0. PICK pairs :
         /\ loop' = [loop EXCEPT ![n] = {}] /\ matched' = [matched EXCEPT ![n] = FALSE]
         /\ auth' = [auth EXCEPT ![n] = NoIdentity]
         /\ crypto' = [crypto EXCEPT ![n] =
                          unregister_remote_participant(unregister_remote_endpoints(crypto[n], pairs))]
         /\ announced' = [announced EXCEPT ![n] = @ \ {"read"}]
         /\ volatile' = [volatile EXCEPT ![Peer(n)] = <<>>]
         /\ UNCHANGED commands
      BY DEF remote_participant_lost, forget_identity
<1>1. PerNode(crypto) /\ PerNode(volatile) /\ \A k \in Nodes : IsCryptoRecord(crypto[k])
      BY DEF IInv, TypeInv
<1>2. /\ PerNode(crypto') /\ crypto'[Peer(n)] = crypto[Peer(n)]
      /\ IsCryptoRecord(crypto'[n]) /\ crypto'[n].decode \subseteq crypto[n].decode
      <2>1. PICK k : k = unregister_remote_endpoints(crypto[n], pairs)  OBVIOUS
      <2>2. IsCryptoRecord(k) /\ k.decode \subseteq crypto[n].decode
            BY <1>1, <2>1, CryptoRecords, DecodeKeys
      <2>3. PICK x : x = unregister_remote_participant(k)  OBVIOUS
      <2>4. IsCryptoRecord(x) /\ x.decode \subseteq k.decode
            BY <2>2, <2>3, CryptoRecords, DecodeKeys
      <2>5. crypto' = [crypto EXCEPT ![n] = x]  BY <1>0, <2>1, <2>3
      <2>6. PerNode(crypto') /\ crypto'[n] = x /\ crypto'[Peer(n)] = crypto[Peer(n)]
            BY <1>1, <2>5, UpdateOfOne DEF PerNode
      <2> QED  BY <2>2, <2>4, <2>6
<1>3. PerNode(volatile') /\ volatile'[Peer(n)] = <<>> /\ volatile'[n] = volatile[n]
      BY <1>0, <1>1, UpdateOfOne DEF PerNode
<1>4. /\ loop' \in [Nodes -> SUBSET {"stateless", "standard", "secure"}] /\ loop'[n] = {}
      /\ loop'[Peer(n)] = loop[Peer(n)]
      /\ matched' \in [Nodes -> BOOLEAN] /\ ~matched'[n] /\ matched'[Peer(n)] = matched[Peer(n)]
      BY <1>0 DEF IInv, TypeInv
<1>5. announced' \in [Nodes -> SUBSET {"read", "known", "attic"}]
      BY <1>0 DEF IInv, TypeInv
<1>6. /\ auth' \in [Nodes -> AuthRecord] /\ auth'[n].state = "None" /\ auth'[Peer(n)] = auth[Peer(n)]
      <2>1. NoIdentity \in AuthRecord /\ NoIdentity.state = "None"  BY NoIdentityRecord
      <2>2. auth \in [Nodes -> AuthRecord]  BY DEF IInv, TypeInv
      <2> QED  BY <1>0, <2>1, <2>2
<1>7. TypeInv'
      <2>1. commands' = commands  BY <1>0
      <2>2. \A k \in Nodes : IsCryptoRecord(crypto'[k])  BY <1>1, <1>2
      <2> QED  BY <1>2, <1>3, <1>4, <1>5, <1>6, <2>1, <2>2 DEF IInv, TypeInv, PerNode
<1>8. Messages(p)' \subseteq Messages(p) /\ Messages(q)' \subseteq Messages(q)
      BY MessagesShrink DEF IInv
<1>9. HandshakeInv'
      <2>1. RoleInv'
            BY <1>6 DEF IInv, HandshakeInv, RoleInv
      <2>2. auth'[p] = auth[p] \/ ~Asking'
            BY <1>6 DEF Asking
      <2>3. auth'[q] = auth[q] \/ ~Answering'
            BY <1>6 DEF Answering
      <2> QED  BY <1>8, <2>1, <2>2, <2>3, NothingNew DEF IInv
<1>10. FirstHandshakeInv'
      <2>1. outages # 0  BY DEF IInv, FirstHandshakeInv
      <2> QED  BY <2>1 DEF FirstHandshakeInv
<1>11. KeysInv'
      <2>1. ASSUME NEW k \in Nodes, Refuses(k)
            PROVE  /\ status'[k] # "Authenticated" /\ "secure" \notin loop'[k]
                   /\ volatile'[Peer(k)] = <<>> /\ cached'[Peer(k)] = {}
                   /\ crypto'[Peer(k)].decode \subseteq {"volatile"}
            <3>1. /\ status[k] # "Authenticated" /\ "secure" \notin loop[k]
                  /\ volatile[Peer(k)] = <<>> /\ cached[Peer(k)] = {}
                  /\ crypto[Peer(k)].decode \subseteq {"volatile"}
                  BY <2>1 DEF IInv, KeysInv
            <3>2. k = n \/ k = Peer(n)  OBVIOUS
            <3> QED  BY <1>2, <1>3, <1>4, <3>1, <3>2
      <2> QED  BY <2>1, DocumentsStay DEF KeysInv
<1>12. MatchInv'
      BY <1>4, DocumentsStay DEF IInv, MatchInv
<1> QED  BY <1>7, <1>9, <1>10, <1>11, <1>12 DEF IInv

LEMMA NotificationStep ==
    ASSUME IInv, NEW n \in Nodes, handle_notification(n)
    PROVE  IInv'
<1> USE TwoNodes
<1>0. /\ UNCHANGED <<situation, losses, outages, turn, status, known, hs, stored, next, cached,
                     unsent, keysSent, out, net>>
      /\ notes[n] # <<>> /\ notes' = [notes EXCEPT ![n] = Tail(@)]
      BY DEF handle_notification, faults
<1>1. PICK note : note = Head(notes[n])  OBVIOUS
<1>2. /\ note \in Notes /\ notes' \in [Nodes -> Seq(Notes)]
      /\ \A x : Contains(notes[n], x) <=> Contains(notes'[n], x) \/ x = note
      /\ notes'[Peer(n)] = notes[Peer(n)]
      <2>1. notes \in [Nodes -> Seq(Notes)] /\ notes[n] \in Seq(Notes)  BY DEF IInv, TypeInv
      <2>2. /\ Tail(notes[n]) \in Seq(Notes) /\ note \in Notes
            /\ \A x : Contains(notes[n], x) <=> Contains(Tail(notes[n]), x) \/ x = note
            BY <1>0, <1>1, <2>1, TakeFromQueue
      <2> QED  BY <1>0, <2>1, <2>2
<1>3. /\ loop \in [Nodes -> SUBSET {"stateless", "standard", "secure"}]
      /\ commands \in [Nodes -> Seq(Commands)]
      BY DEF IInv, TypeInv
<1>4. loop = [loop EXCEPT ![n] = loop[n]]  BY <1>3
<1>5. ASSUME NEW c \in Commands PROVE [commands EXCEPT ![n] = Append(@, c)] \in [Nodes -> Seq(Commands)]
      BY <1>3, AppendToQueue
<1>6. CASE note = "StatusChanged"
      <2>1. on_remote_participant_authentication_status_changed(n)
            BY <1>1, <1>6 DEF handle_notification
      <2>2. UNCHANGED <<matched, auth, crypto, announced, volatile>>
            BY <2>1 DEF on_remote_participant_authentication_status_changed, plugins
      <2>3. commands' \in [Nodes -> Seq(Commands)]
            <3>1. "KeyExchangeWithParticipant" \in Commands  BY DEF Commands
            <3> QED  BY <1>3, <1>5, <2>1, <3>1 DEF on_remote_participant_authentication_status_changed
      <2>4. PICK l : /\ loop' = [loop EXCEPT ![n] = l]
                     /\ l = loop[n] \/ l = loop[n] \cup groups(status[n])
            BY <1>4, <2>1 DEF on_remote_participant_authentication_status_changed, update_participant
      <2> QED  BY <1>0, <1>2, <1>6, <2>2, <2>3, <2>4, MatchingNoteStep
<1>7. CASE note = "Updated"
      <2>1. update_participant(n) /\ UNCHANGED <<matched, auth, crypto, announced, volatile, commands>>
            BY <1>1, <1>7 DEF handle_notification, plugins
      <2>2. PICK l : /\ loop' = [loop EXCEPT ![n] = l]
                     /\ l = loop[n] \/ l = loop[n] \cup groups(status[n])
            BY <2>1 DEF update_participant
      <2> QED  BY <1>0, <1>2, <1>3, <1>7, <2>1, <2>2, MatchingNoteStep
<1>8. CASE note = "Endpoint"
      <2>1. remote_endpoint_discovered(n)
            BY <1>1, <1>8 DEF handle_notification
      <2>2. UNCHANGED <<loop, auth, crypto, announced, volatile>>
            BY <2>1 DEF remote_endpoint_discovered, plugins
      <2>3. \/ UNCHANGED <<matched, commands>>
            \/ /\ matched' = [matched EXCEPT ![n] = TRUE]
               /\ commands' = [commands EXCEPT ![n] = Append(@, "KeyExchangeWithEndpoint")]
               /\ EndpointInfo(n) = EndpointInfo(Peer(n))
            BY <2>1 DEF remote_endpoint_discovered, check_are_endpoints_securities_compatible
      <2>4. commands' \in [Nodes -> Seq(Commands)]
            <3>1. "KeyExchangeWithEndpoint" \in Commands  BY DEF Commands
            <3> QED  BY <1>3, <1>5, <2>3, <3>1
      <2> QED  BY <1>0, <1>2, <1>4, <1>8, <2>2, <2>3, <2>4, MatchingNoteStep
<1>9. CASE note = "Lost"
      <2>1. remote_participant_lost(n)
            BY <1>1, <1>9 DEF handle_notification
      <2> QED  BY <1>0, <1>2, <1>9, <2>1, LostStep
<1> QED  BY <1>2, <1>6, <1>7, <1>8, <1>9 DEF Notes

\* A new message is stored, written and counted.
LEMMA NewMessage ==
    ASSUME TypeInv, NEW n \in Nodes, NEW m \in Message, net' \subseteq net, SendNew(n, m)
    PROVE  /\ Messages(n)' \subseteq Messages(n) \cup {m}
           /\ Messages(Peer(n))' \subseteq Messages(Peer(n))
           /\ out' \in [Nodes -> Seq(Message)]
           /\ stored' \in [Nodes -> {NoMessage} \cup [message : Message, left : Nat]]
           /\ next' \in [Nodes -> Nat \ {0}]
           /\ next'[n] = next[n] + 1 /\ next'[Peer(n)] = next[Peer(n)]
<1>1. PICK s : s = StoredAuthenticationMessage(m)  OBVIOUS
<1>2. s \in [message : Message, left : Nat] /\ s.message = m
      <2>1. situation.resends \in Nat  BY SecurityAssumption DEF TypeInv
      <2> QED  BY <1>1, <2>1 DEF StoredAuthenticationMessage
<1>3. /\ stored' = [stored EXCEPT ![n] = s] /\ out' = [out EXCEPT ![n] = Append(@, m)]
      /\ next' = [next EXCEPT ![n] = @ + 1]
      BY <1>1 DEF SendNew
<1>4. /\ Messages(n)' \subseteq Messages(n) \cup {m}
      /\ Messages(Peer(n))' \subseteq Messages(Peer(n))
      /\ out' \in [Nodes -> Seq(Message)]
      BY <1>2, <1>3, MessagesGrow
<1>5. stored' \in [Nodes -> {NoMessage} \cup [message : Message, left : Nat]]
      BY <1>2, <1>3 DEF TypeInv
<1>6. next \in [Nodes -> Nat \ {0}]  BY DEF TypeInv
<1>7. /\ next' \in [Nodes -> Nat \ {0}]
      /\ next'[n] = next[n] + 1 /\ next'[Peer(n)] = next[Peer(n)]
      BY <1>3, <1>6, TwoNodes
<1> QED  BY <1>4, <1>5, <1>7

\* A participant enters the database.
LEMMA ParticipantEntered ==
    ASSUME TypeInv, NEW n \in Nodes, UpdateDB(n)
    PROVE  known' \in [Nodes -> BOOLEAN] /\ announced' \in [Nodes -> SUBSET {"read", "known", "attic"}]
BY DEF TypeInv, UpdateDB

\* SPDP data of a new participant starts the authentication.
LEMMA StartStep ==
    ASSUME IInv, NEW n \in Nodes, status[n] = "None", start_authentication_with_remote(n),
           UNCHANGED <<situation, losses, outages, turn, cached, unsent, keysSent, crypto, commands,
                       loop, matched, net, volatile>>
    PROVE  IInv'
<1> USE TwoNodes
<1>0. /\ UpdateDB(n) /\ status' = [status EXCEPT ![n] = "Authenticating"]
      /\ send_discovery_notification(n, "StatusChanged")
      BY DEF start_authentication_with_remote
<1>1. /\ notes' \in [Nodes -> Seq(Notes)]
      /\ \A x : Contains(notes'[n], x) <=> Contains(notes[n], x) \/ x = "StatusChanged"
      /\ notes'[Peer(n)] = notes[Peer(n)]
      BY <1>0, NoteSent DEF IInv, Notes
<1>2. /\ status \in [Nodes -> Statuses] /\ status' \in [Nodes -> Statuses]
      /\ status'[n] = "Authenticating" /\ status'[Peer(n)] = status[Peer(n)]
      /\ known' \in [Nodes -> BOOLEAN] /\ announced' \in [Nodes -> SUBSET {"read", "known", "attic"}]
      BY <1>0, ParticipantEntered DEF IInv, TypeInv, Statuses
<1>3. /\ auth \in [Nodes -> AuthRecord] /\ hs \in [Nodes -> HandshakeStates]
      /\ next \in [Nodes -> Nat \ {0}]
      BY DEF IInv, TypeInv
<1>4. PICK v : v = validate_remote_identity(auth[n], n = p)  OBVIOUS
<1>5. /\ v \in AuthRecord /\ v.identity
      /\ v.state = IF n = p THEN "PendingRequestSend" ELSE "PendingRequestMessage"
      BY <1>3, <1>4, ValidateRecord
<1>6. KeysInv'
      BY <1>2, KeysKept DEF IInv
<1>7. ASSUME \A k \in Nodes : k # n => hs'[k] = hs[k] PROVE MatchInv'
      <2>1. \A k \in Nodes : status'[k] = "Authenticated" => Completed(hs'[k])
            BY <1>2, <1>7 DEF IInv, MatchInv
      <2>2. \A k \in Nodes : status[k] = "Authenticated" => status'[k] = "Authenticated"
            BY <1>2
      <2>3. \A k \in Nodes : /\ Contains(notes[k], "Lost") => Contains(notes'[k], "Lost")
                             /\ Contains(notes'[k], "Endpoint") => Contains(notes[k], "Endpoint")
            BY <1>1
      <2> QED  BY <2>1, <2>2, <2>3, MatchKept DEF IInv
<1>8. \A k \in Nodes : Contains(notes'[k], "Lost") => Contains(notes[k], "Lost")
      BY <1>1
<1>9. CASE n = p
      <2>1. PICK r, b : /\ r = new_stateless_message(p, 0, Token("request", next[p], NoChallenge))
                        /\ b = begin_handshake_request(v, next[p])
            OBVIOUS
      <2>2. /\ auth' = [auth EXCEPT ![p] = b] /\ SendNew(p, r) /\ hs' = [hs EXCEPT ![p] = "PendingReply"]
            BY <1>4, <1>5, <1>9, <2>1 DEF start_authentication_with_remote,
               try_sending_new_handshake_request_message, can_begin_handshake_request, get_identity_handle
      <2>3. b \in AuthRecord /\ b.state = "PendingReply" /\ b.c1 = next[p] /\ b.handshake
            <3>1. next[p] \in Nat  BY <1>3
            <3>2. b = begin_handshake_request(v, next[p])  BY <2>1
            <3> QED  BY <1>5, <3>1, <3>2, RequestRecord
      <2>4. /\ r \in Message /\ r.to = q /\ r.id = next[p] /\ r.related = 0
            /\ r.token = Token("request", next[p], NoChallenge)
            /\ r.token.c1 = next[p] /\ r.token.class = "request"
            BY <1>3, <2>1 DEF new_stateless_message, Token, NoChallenge, Message
      <2>5. /\ Messages(p)' \subseteq Messages(p) \cup {r} /\ Messages(q)' \subseteq Messages(q)
            /\ out' \in [Nodes -> Seq(Message)]
            /\ stored' \in [Nodes -> {NoMessage} \cup [message : Message, left : Nat]]
            /\ next' \in [Nodes -> Nat \ {0}]
            /\ next'[p] = next[p] + 1 /\ next'[q] = next[q]
            BY <2>2, <2>4, NewMessage DEF IInv
      <2>6. /\ auth' \in [Nodes -> AuthRecord] /\ auth'[p] = b /\ auth'[q] = auth[q]
            /\ hs' \in [Nodes -> HandshakeStates] /\ hs'[p] = "PendingReply" /\ hs'[q] = hs[q]
            BY <1>3, <2>2, <2>3 DEF HandshakeStates
      <2>7. TypeInv'
            BY <1>1, <1>2, <2>5, <2>6 DEF IInv, TypeInv, PerNode
      <2>8. HandshakeInv'
            <3>1. RoleInv'
                  BY <2>3, <2>6 DEF IInv, HandshakeInv, RoleInv
            <3> QED  BY <2>3, <2>4, <2>5, <2>6, <3>1, RequestSent DEF IInv
      <2>9. FirstHandshakeInv'
            <3>1. SUFFICES ASSUME outages = 0 PROVE FirstHandshakeInv'
                  BY DEF FirstHandshakeInv
            <3>2. next[p] = 1
                  BY <1>9, <3>1 DEF IInv, FirstHandshakeInv
            <3>3. Answering' <=> Answering  BY <2>6 DEF Answering
            <3>4. \A k \in Nodes : hs'[k] = auth'[k].state \/ ReplyRefused(k)'
                  BY <2>3, <2>6, <3>1 DEF IInv, FirstHandshakeInv, ReplyRefused
            <3>5. /\ \A m \in Messages(p)' : m.token.c1 = 1 /\ (m.token.class = "final" => m.token.c2 = 1)
                  /\ \A m \in Messages(q)' : m.token.c1 = 1 /\ m.token.c2 = 1 /\ Answering'
                  BY <2>4, <2>5, <3>1, <3>2, <3>3 DEF IInv, FirstHandshakeInv
            <3>6. \A k \in Nodes : status'[k] \in {"None", "Unauthenticated"} =>
                     hs'[k] = "None" /\ auth'[k].state = "None"
                  BY <1>2, <1>9, <2>6, <3>1 DEF IInv, FirstHandshakeInv
            <3> QED  BY <1>8, <2>3, <2>5, <2>6, <3>1, <3>2, <3>3, <3>4, <3>5, <3>6
                     DEF IInv, FirstHandshakeInv, Asking
      <2> QED  BY <1>6, <1>7, <1>9, <2>6, <2>7, <2>8, <2>9 DEF IInv
<1>10. CASE n = q
      <2>1. /\ auth' = [auth EXCEPT ![q] = v] /\ hs' = [hs EXCEPT ![q] = "PendingRequestMessage"]
            /\ UNCHANGED <<stored, out, next>>
            BY <1>4, <1>10 DEF start_authentication_with_remote
      <2>2. v.state = "PendingRequestMessage"  BY <1>5, <1>10
      <2>3. Messages(p)' \subseteq Messages(p) /\ Messages(q)' \subseteq Messages(q)
            BY <2>1, MessagesShrink DEF IInv
      <2>4. /\ auth' \in [Nodes -> AuthRecord] /\ auth'[q] = v /\ auth'[p] = auth[p]
            /\ hs' \in [Nodes -> HandshakeStates] /\ hs'[q] = "PendingRequestMessage" /\ hs'[p] = hs[p]
            BY <1>3, <1>5, <2>1 DEF HandshakeStates
      <2>5. TypeInv'
            BY <1>1, <1>2, <2>1, <2>4 DEF IInv, TypeInv, PerNode
      <2>6. HandshakeInv'
            <3>1. RoleInv'
                  BY <2>2, <2>4 DEF IInv, HandshakeInv, RoleInv
            <3>2. ~Answering'  BY <2>2, <2>4 DEF Answering
            <3> QED  BY <2>1, <2>3, <2>4, <3>1, <3>2, NothingNew DEF IInv
      <2>7. FirstHandshakeInv'
            <3>1. SUFFICES ASSUME outages = 0 PROVE FirstHandshakeInv'
                  BY DEF FirstHandshakeInv
            <3>2. auth[q].state = "None" /\ next[q] = 1 /\ ~Answering
                  BY <1>10, <3>1 DEF IInv, FirstHandshakeInv, Answering
            <3>3. auth[p].state # "CompletedSent"
                  BY <3>1, <3>2 DEF IInv, FirstHandshakeInv
            <3>4. \A k \in Nodes : hs'[k] = auth'[k].state \/ ReplyRefused(k)'
                  BY <2>2, <2>4, <3>1 DEF IInv, FirstHandshakeInv, ReplyRefused
            <3>5. /\ \A m \in Messages(p)' : m.token.c1 = 1 /\ (m.token.class = "final" => m.token.c2 = 1)
                  /\ Messages(q)' = {}
                  BY <2>3, <3>1, <3>2 DEF IInv, FirstHandshakeInv
            <3>6. \A k \in Nodes : status'[k] \in {"None", "Unauthenticated"} =>
                     hs'[k] = "None" /\ auth'[k].state = "None"
                  BY <1>2, <1>10, <2>4, <3>1 DEF IInv, FirstHandshakeInv
            <3> QED  BY <1>8, <2>1, <2>2, <2>4, <3>1, <3>2, <3>3, <3>4, <3>5, <3>6
                     DEF IInv, FirstHandshakeInv, Asking, Answering
      <2> QED  BY <1>6, <1>7, <1>10, <2>4, <2>5, <2>6, <2>7 DEF IInv
<1> QED  BY <1>9, <1>10

LEMMA DataReadStep ==
    ASSUME IInv, NEW n \in Nodes, participant_data_read(n)
    PROVE  IInv'
<1> USE TwoNodes
<1>0. UNCHANGED <<situation, losses, outages, turn, cached, unsent, keysSent, crypto, commands,
                  loop, matched, net, volatile>>
      BY DEF participant_data_read, faults, eventLoop
<1>1. CASE status[n] = "None" /\ start_authentication_with_remote(n)
      BY <1>0, <1>1, StartStep
<1>2. ASSUME UNCHANGED <<hs, stored, out, next, auth>>, known' \in [Nodes -> BOOLEAN],
             announced' \in [Nodes -> SUBSET {"read", "known", "attic"}],
             notes' \in [Nodes -> Seq(Notes)],
             \A k \in Nodes : /\ Contains(notes'[k], "Lost") <=> Contains(notes[k], "Lost")
                              /\ Contains(notes'[k], "Endpoint") => Contains(notes[k], "Endpoint"),
             NEW s \in {"Unauthenticated", "Rejected"}, status' = [status EXCEPT ![n] = s],
             status[n] \in {"None", "Unauthenticated"}
      PROVE  IInv'
      <2>1. /\ status' \in [Nodes -> Statuses] /\ status'[n] = s /\ status'[Peer(n)] = status[Peer(n)]
            BY <1>2 DEF IInv, TypeInv, Statuses
      <2>2. TypeInv'
            BY <1>0, <1>2, <2>1 DEF IInv, TypeInv, PerNode
      <2>3. Messages(p)' \subseteq Messages(p) /\ Messages(q)' \subseteq Messages(q)
            BY <1>0, <1>2, MessagesShrink DEF IInv
      <2>4. HandshakeInv'
            BY <1>2, <2>3, NothingNew DEF IInv, HandshakeInv, RoleInv
      <2>5. FirstHandshakeInv'
            <3>1. \A k \in Nodes : status'[k] \in {"None", "Unauthenticated"}
                                      => status[k] \in {"None", "Unauthenticated"}
                  BY <1>2, <2>1
            <3> QED  BY <1>0, <1>2, <2>3, <3>1, FirstHandshakeKept DEF IInv
      <2>6. \A k \in Nodes : status'[k] = "Authenticated" <=> status[k] = "Authenticated"
            BY <1>2, <2>1
      <2>7. KeysInv'
            BY <1>0, <2>6, KeysKept DEF IInv
      <2>8. MatchInv'
            BY <1>0, <1>2, <2>6, MatchKept DEF IInv, MatchInv
      <2> QED  BY <2>2, <2>4, <2>5, <2>7, <2>8 DEF IInv
<1>3. CASE status[n] \in {"None", "Unauthenticated"} /\ ProcessUnauthenticated(n)
      <2>1. /\ send_discovery_notification(n, "Updated") /\ UpdateDB(n)
            /\ status' = [status EXCEPT ![n] = "Unauthenticated"]
            /\ UNCHANGED <<hs, stored, out, next, auth>>
            BY <1>3 DEF ProcessUnauthenticated
      <2>2. /\ notes' \in [Nodes -> Seq(Notes)]
            /\ \A x : Contains(notes'[n], x) <=> Contains(notes[n], x) \/ x = "Updated"
            /\ notes'[Peer(n)] = notes[Peer(n)]
            BY <2>1, NoteSent DEF IInv, Notes
      <2>3. \A k \in Nodes : /\ Contains(notes'[k], "Lost") <=> Contains(notes[k], "Lost")
                             /\ Contains(notes'[k], "Endpoint") => Contains(notes[k], "Endpoint")
            BY <2>2
      <2>4. known' \in [Nodes -> BOOLEAN] /\ announced' \in [Nodes -> SUBSET {"read", "known", "attic"}]
            BY <2>1, ParticipantEntered DEF IInv
      <2> QED  BY <1>2, <1>3, <2>1, <2>2, <2>3, <2>4
<1>4. CASE /\ status[n] = "None" /\ status' = [status EXCEPT ![n] = "Rejected"]
           /\ UNCHANGED <<known, announced, notes, hs, stored, out, next, auth>>
      <2>1. /\ known \in [Nodes -> BOOLEAN] /\ notes \in [Nodes -> Seq(Notes)]
            /\ announced \in [Nodes -> SUBSET {"read", "known", "attic"}]
            BY DEF IInv, TypeInv
      <2> QED  BY <1>2, <1>4, <2>1
<1>5. hs[n] # "PendingRequestSend"
      BY DEF IInv, HandshakeInv, RoleInv
<1> QED  BY <1>1, <1>3, <1>4, <1>5 DEF participant_data_read

\* What a completed handshake does besides: keys only for whom n accepts.
LEMMA AuthenticatedEffect ==
    ASSUME TypeInv, NEW n \in Nodes, NEW a \in AuthRecord, on_remote_participant_authenticated(n, a)
    PROVE  /\ auth' \in [Nodes -> AuthRecord] /\ auth'[Peer(n)] = auth[Peer(n)]
           /\ auth'[n].state = a.state /\ auth'[n].handshake = a.handshake
           /\ auth'[n].c1 = a.c1 /\ auth'[n].c2 = a.c2
           /\ PerNode(crypto') /\ \A k \in Nodes : IsCryptoRecord(crypto'[k])
           /\ \A k \in Nodes : crypto'[k].decode \subseteq crypto[k].decode \cup {"volatile"}
           /\ status' \in [Nodes -> Statuses] /\ status'[Peer(n)] = status[Peer(n)]
           /\ status'[n] \in {"Authenticated", "Rejected"}
           /\ status'[n] = "Authenticated" /\ n \in situation.trusted => ~Refuses(n)
           /\ notes' \in [Nodes -> Seq(Notes)]
           /\ \A k \in Nodes : /\ Contains(notes'[k], "Lost") <=> Contains(notes[k], "Lost")
                               /\ Contains(notes'[k], "Endpoint") => Contains(notes[k], "Endpoint")
<1> USE TwoNodes
<1>1. PICK valid \in BOOLEAN, admitted \in BOOLEAN :
         /\ admitted <=> (situation.rules[n].enable_join_access_control =>
                             check_participant(Permissions(n, Peer(n)), Domain, Now))
         /\ auth' = [auth EXCEPT ![n] = [a EXCEPT !.permissions = valid \/ a.permissions]]
         /\ \/ /\ admitted /\ update_status_and_notify(n, "Authenticated")
               /\ crypto' = [crypto EXCEPT ![n] = register_remote_to_crypto(crypto[n], a)]
            \/ /\ update_status_and_notify(n, "Rejected")
               /\ \E k \in RegisteredInPart(crypto[n], a) : crypto' = [crypto EXCEPT ![n] = k]
            \/ update_status_and_notify(n, "Rejected") /\ UNCHANGED crypto
      BY DEF on_remote_participant_authenticated
<1>2. /\ auth' \in [Nodes -> AuthRecord] /\ auth'[Peer(n)] = auth[Peer(n)]
      /\ auth'[n].state = a.state /\ auth'[n].handshake = a.handshake
      /\ auth'[n].c1 = a.c1 /\ auth'[n].c2 = a.c2
      <2>1. PICK w \in BOOLEAN : w = (valid \/ a.permissions)  OBVIOUS
      <2>2. PICK b : b = [a EXCEPT !.permissions = w]  OBVIOUS
      <2>3. /\ b \in AuthRecord /\ b.state = a.state /\ b.c1 = a.c1 /\ b.c2 = a.c2
            /\ b.handshake = a.handshake
            BY <2>2, PermissionsRecord
      <2>4. auth' = [auth EXCEPT ![n] = b]  BY <1>1, <2>1, <2>2
      <2>5. auth \in [Nodes -> AuthRecord]  BY DEF TypeInv
      <2> QED  BY <2>3, <2>4, <2>5
<1>3. /\ PerNode(crypto') /\ \A k \in Nodes : IsCryptoRecord(crypto'[k])
      /\ \A k \in Nodes : crypto'[k].decode \subseteq crypto[k].decode \cup {"volatile"}
      <2>1. PerNode(crypto) /\ \A k \in Nodes : IsCryptoRecord(crypto[k])  BY DEF TypeInv
      <2>2. PICK x : x = register_matched_remote_participant(crypto[n])  OBVIOUS
      <2>3. PICK y : y = register_matched_remote_endpoint_if_not_already(x, a, "volatile")  OBVIOUS
      <2>4. PICK z : z = register_matched_remote_endpoint_if_not_already(y, a, "builtin")  OBVIOUS
      <2>5. IsCryptoRecord(x) /\ x.decode \subseteq crypto[n].decode
            BY <2>1, <2>2, CryptoRecords, DecodeKeys
      <2>6. IsCryptoRecord(y) /\ y.decode \subseteq x.decode \cup {"volatile"}
            BY <2>3, <2>5, CryptoRecords, DecodeKeys
      <2>7. IsCryptoRecord(z) /\ z.decode \subseteq y.decode \cup {"volatile"}
            BY <2>4, <2>6, CryptoRecords, DecodeKeys
      <2>8. crypto' = crypto \/ \E k \in {crypto[n], x, y, z} : crypto' = [crypto EXCEPT ![n] = k]
            BY <1>1, <2>2, <2>3, <2>4 DEF register_remote_to_crypto, RegisteredInPart
      <2>9. ASSUME NEW k \in {crypto[n], x, y, z}, crypto' = [crypto EXCEPT ![n] = k]
            PROVE  /\ PerNode(crypto') /\ \A i \in Nodes : IsCryptoRecord(crypto'[i])
                   /\ \A i \in Nodes : crypto'[i].decode \subseteq crypto[i].decode \cup {"volatile"}
            <3>1. PerNode(crypto') /\ crypto'[n] = k /\ crypto'[Peer(n)] = crypto[Peer(n)]
                  BY <2>1, <2>9, UpdateOfOne DEF PerNode
            <3> QED  BY <2>1, <2>5, <2>6, <2>7, <2>9, <3>1
      <2> QED  BY <2>1, <2>8, <2>9
<1>4. PICK s \in {"Authenticated", "Rejected"} :
         update_status_and_notify(n, s) /\ (s = "Authenticated" => admitted)
      BY <1>1
<1>5. /\ status' \in [Nodes -> Statuses] /\ status'[Peer(n)] = status[Peer(n)] /\ status'[n] = s
      BY <1>4 DEF update_status_and_notify, TypeInv, Statuses
<1>6. send_discovery_notification(n, "StatusChanged")
      BY <1>4 DEF update_status_and_notify
<1>7. /\ notes' \in [Nodes -> Seq(Notes)]
      /\ \A x : Contains(notes'[n], x) <=> Contains(notes[n], x) \/ x = "StatusChanged"
      /\ notes'[Peer(n)] = notes[Peer(n)]
      BY <1>6, NoteSent DEF Notes
<1>8. \A k \in Nodes : /\ Contains(notes'[k], "Lost") <=> Contains(notes[k], "Lost")
                       /\ Contains(notes'[k], "Endpoint") => Contains(notes[k], "Endpoint")
      BY <1>7
<1>9. s = "Authenticated" /\ n \in situation.trusted => ~Refuses(n)
      BY <1>1, <1>4 DEF Refuses
<1> QED  BY <1>2, <1>3, <1>4, <1>5, <1>7, <1>8, <1>9

\* A handshake message is read and changes nothing of the handshake.
LEMMA MessageIgnored ==
    ASSUME IInv,
           UNCHANGED <<situation, losses, outages, turn, known, announced, cached, unsent, keysSent, commands,
                       loop, matched, volatile, auth, next, hs, status, notes, crypto>>,
           net' \subseteq net, out' \in [Nodes -> Seq(Message)],
           stored' \in [Nodes -> {NoMessage} \cup [message : Message, left : Nat]],
           Messages(p)' \subseteq Messages(p), Messages(q)' \subseteq Messages(q)
    PROVE  IInv'
<1>1. TypeInv'
      BY DEF IInv, TypeInv, PerNode
<1>2. HandshakeInv'
      BY NothingNew DEF IInv, HandshakeInv, RoleInv
<1>3. FirstHandshakeInv'
      BY FirstHandshakeKept DEF IInv
<1>4. KeysInv'
      BY KeysKept DEF IInv
<1>5. MatchInv'
      BY MatchKept DEF IInv, MatchInv
<1> QED  BY <1>1, <1>2, <1>3, <1>4, <1>5 DEF IInv

\* q answers a request.
LEMMA ReplyStep ==
    ASSUME IInv, NEW m \in net, m.to = q, net' \subseteq net, hs[q] = "PendingRequestMessage",
           can_begin_handshake_reply(auth[q], m.token, q \in situation.trusted),
           auth' = [auth EXCEPT ![q] = begin_handshake_reply(@, m.token, next[q])],
           SendNew(q, new_stateless_message(q, m.id, Token("reply", m.token.c1, next[q]))),
           hs' = [hs EXCEPT ![q] = "PendingFinal"],
           UNCHANGED <<situation, losses, outages, turn, known, announced, cached, unsent, keysSent, commands,
                       loop, matched, volatile, status, notes, crypto>>
    PROVE  IInv'
<1> USE TwoNodes
<1>1. m \in Messages(p) /\ m \in Message
      BY NetworkMessage DEF IInv
<1>2. m.id \in Nat /\ m.token.c1 \in Nat /\ m.token.class = "request" /\ q \in situation.trusted
      BY <1>1 DEF Message, can_begin_handshake_reply
<1>3. /\ auth \in [Nodes -> AuthRecord] /\ hs \in [Nodes -> HandshakeStates] /\ next[q] \in Nat
      BY DEF IInv, TypeInv
<1>4. PICK r, b : /\ r = new_stateless_message(q, m.id, Token("reply", m.token.c1, next[q]))
                  /\ b = begin_handshake_reply(auth[q], m.token, next[q])
      OBVIOUS
<1>5. /\ r \in Message /\ r.to = p /\ r.id = next[q] /\ r.related = m.id
      /\ r.token = Token("reply", m.token.c1, next[q])
      /\ r.token.c1 = m.token.c1 /\ r.token.c2 = next[q]
      BY <1>2, <1>3, <1>4 DEF new_stateless_message, Token, Message
<1>6. b \in AuthRecord /\ b.state = "PendingFinal" /\ b.c1 = m.token.c1 /\ b.c2 = next[q] /\ b.handshake
      <2>1. auth[q] \in AuthRecord /\ b = begin_handshake_reply(auth[q], m.token, next[q])  BY <1>3, <1>4
      <2>2. m.token.c1 \in Nat /\ next[q] \in Nat  BY <1>2, <1>3
      <2> QED  BY <2>1, <2>2 DEF begin_handshake_reply, AuthRecord, HandshakeStates
<1>7. /\ Messages(q)' \subseteq Messages(q) \cup {r} /\ Messages(p)' \subseteq Messages(p)
      /\ out' \in [Nodes -> Seq(Message)]
      /\ stored' \in [Nodes -> {NoMessage} \cup [message : Message, left : Nat]]
      /\ next' \in [Nodes -> Nat \ {0}]
      /\ next'[q] = next[q] + 1 /\ next'[p] = next[p]
      <2>1. SendNew(q, r)  BY <1>4
      <2> QED  BY <1>5, <2>1, NewMessage DEF IInv
<1>8. /\ auth' \in [Nodes -> AuthRecord] /\ auth'[q] = b /\ auth'[p] = auth[p]
      /\ hs' \in [Nodes -> HandshakeStates] /\ hs'[q] = "PendingFinal" /\ hs'[p] = hs[p]
      BY <1>3, <1>4, <1>6 DEF HandshakeStates
<1>9. TypeInv'
      <2>1. net' \in SUBSET Message  BY DEF IInv, TypeInv
      <2> QED  BY <1>7, <1>8, <2>1 DEF IInv, TypeInv, PerNode
<1>10. HandshakeInv'
      <2>1. RoleInv'
            BY <1>6, <1>8 DEF IInv, HandshakeInv, RoleInv
      <2> QED  BY <1>1, <1>2, <1>5, <1>6, <1>7, <1>8, <2>1, ReplySent DEF IInv
<1>11. FirstHandshakeInv'
      <2>1. SUFFICES ASSUME outages = 0 PROVE FirstHandshakeInv'
            BY DEF FirstHandshakeInv
      <2>2. auth[q].state = "PendingRequestMessage" /\ next[q] = 1 /\ m.token.c1 = 1
            BY <1>1, <2>1 DEF IInv, FirstHandshakeInv, ReplyRefused
      <2>3. Answering'  BY <1>6, <1>8 DEF Answering
      <2>4. \A k \in Nodes : hs'[k] = auth'[k].state \/ ReplyRefused(k)'
            BY <1>6, <1>8, <2>1 DEF IInv, FirstHandshakeInv, ReplyRefused
      <2>5. /\ \A x \in Messages(p)' : x.token.c1 = 1 /\ (x.token.class = "final" => x.token.c2 = 1)
            /\ \A x \in Messages(q)' : x.token.c1 = 1 /\ x.token.c2 = 1
            BY <1>5, <1>7, <2>1, <2>2 DEF IInv, FirstHandshakeInv
      <2>6. \A k \in Nodes : status'[k] \in {"None", "Unauthenticated"} =>
                hs'[k] = "None" /\ auth'[k].state = "None"
            BY <1>8, <2>1 DEF IInv, FirstHandshakeInv
      <2> QED  BY <1>2, <1>6, <1>7, <1>8, <2>1, <2>2, <2>3, <2>4, <2>5, <2>6
               DEF IInv, FirstHandshakeInv, Asking
<1>12. KeysInv'
      BY KeysKept DEF IInv
<1>13. MatchInv'
      <2>1. status[q] # "Authenticated"  BY DEF IInv, MatchInv, Completed
      <2>2. \A k \in Nodes : status'[k] = "Authenticated" => Completed(hs'[k])
            BY <1>8, <2>1 DEF IInv, MatchInv
      <2> QED  BY <2>2, MatchKept DEF IInv, MatchInv
<1> QED  BY <1>9, <1>10, <1>11, <1>12, <1>13 DEF IInv

\* What accepting the other's token means for keys and matching.
LEMMA AcceptedKeysAndMatching ==
    ASSUME IInv, NEW n \in Nodes, NEW a \in AuthRecord, on_remote_participant_authenticated(n, a),
           n \in situation.trusted, ~Completed(hs[n]), Completed(hs'[n]), hs'[Peer(n)] = hs[Peer(n)],
           UNCHANGED <<situation, loop, matched, volatile, cached>>
    PROVE  KeysInv' /\ MatchInv'
<1> USE TwoNodes
<1>1. /\ \A k \in Nodes : crypto'[k].decode \subseteq crypto[k].decode \cup {"volatile"}
      /\ status'[Peer(n)] = status[Peer(n)]
      /\ status'[n] = "Authenticated" => ~Refuses(n)
      /\ \A k \in Nodes : /\ Contains(notes'[k], "Lost") <=> Contains(notes[k], "Lost")
                          /\ Contains(notes'[k], "Endpoint") => Contains(notes[k], "Endpoint")
      BY AuthenticatedEffect DEF IInv
<1>2. KeysInv'
      BY <1>1, KeysKept DEF IInv
<1>3. status[n] # "Authenticated"  BY DEF IInv, MatchInv
<1>4. \A k \in Nodes : /\ status'[k] = "Authenticated" => Completed(hs'[k])
                       /\ status[k] = "Authenticated" => status'[k] = "Authenticated"
      BY <1>1, <1>3 DEF IInv, MatchInv
<1>5. MatchInv'
      BY <1>1, <1>4, MatchKept DEF IInv
<1> QED  BY <1>2, <1>5

\* p takes the reply to its request.
LEMMA TakeReplyStep ==
    ASSUME IInv, NEW m \in net, m.to = p, net' \subseteq net, hs[p] = "PendingReply",
           accepts(auth[p], m.token, p \in situation.trusted), NEW a,
           a = process_handshake(auth[p], m.token, p \in situation.trusted),
           SendNew(p, new_stateless_message(p, m.id, Token("final", a.c1, a.c2))),
           hs' = [hs EXCEPT ![p] = "CompletedSent"],
           on_remote_participant_authenticated(p, a),
           UNCHANGED <<situation, losses, outages, turn, known, announced, cached, unsent, keysSent, commands,
                       loop, matched, volatile>>
    PROVE  IInv'
<1> USE TwoNodes
<1>1. m \in Messages(q) /\ m \in Message
      BY NetworkMessage DEF IInv
<1>2. m.id \in Nat /\ m.token.c1 \in Nat /\ m.token.c2 \in Nat
      BY <1>1 DEF Message
<1>3. /\ auth \in [Nodes -> AuthRecord] /\ auth[p] \in AuthRecord
      /\ hs \in [Nodes -> HandshakeStates] /\ next[p] \in Nat
      BY DEF IInv, TypeInv
<1>4. auth[p].state = "PendingReply" /\ m.token.c1 = auth[p].c1 /\ p \in situation.trusted
      BY DEF accepts, IInv, HandshakeInv, RoleInv
<1>5. /\ a \in AuthRecord /\ a.state = "CompletedSent" /\ a.c1 = auth[p].c1 /\ a.c2 = m.token.c2
      /\ a.handshake = auth[p].handshake
      BY <1>2, <1>3, <1>4 DEF process_handshake, AuthRecord, HandshakeStates
<1>6. PICK f : f = new_stateless_message(p, m.id, Token("final", a.c1, a.c2))  OBVIOUS
<1>7. /\ f \in Message /\ f.to = q /\ f.id = next[p] /\ f.related = m.id
      /\ f.token = Token("final", auth[p].c1, m.token.c2)
      /\ f.token.c1 = auth[p].c1 /\ f.token.c2 = m.token.c2
      <2>1. auth[p].c1 \in Nat  BY <1>3 DEF AuthRecord
      <2> QED  BY <1>2, <1>3, <1>5, <1>6, <2>1 DEF new_stateless_message, Token, Message
<1>8. /\ Messages(p)' \subseteq Messages(p) \cup {f} /\ Messages(q)' \subseteq Messages(q)
      /\ out' \in [Nodes -> Seq(Message)]
      /\ stored' \in [Nodes -> {NoMessage} \cup [message : Message, left : Nat]]
      /\ next' \in [Nodes -> Nat \ {0}]
      /\ next'[p] = next[p] + 1 /\ next'[q] = next[q]
      <2>1. SendNew(p, f)  BY <1>6
      <2> QED  BY <1>7, <2>1, NewMessage DEF IInv
<1>9. /\ auth' \in [Nodes -> AuthRecord] /\ auth'[q] = auth[q]
      /\ auth'[p].state = "CompletedSent" /\ auth'[p].handshake = auth[p].handshake
      /\ auth'[p].c1 = auth[p].c1 /\ auth'[p].c2 = m.token.c2
      /\ PerNode(crypto') /\ \A k \in Nodes : IsCryptoRecord(crypto'[k])
      /\ status' \in [Nodes -> Statuses] /\ status'[q] = status[q]
      /\ status'[p] \in {"Authenticated", "Rejected"}
      /\ notes' \in [Nodes -> Seq(Notes)]
      /\ \A k \in Nodes : Contains(notes'[k], "Lost") <=> Contains(notes[k], "Lost")
      BY <1>5, AuthenticatedEffect DEF IInv
<1>10. hs' \in [Nodes -> HandshakeStates] /\ hs'[p] = "CompletedSent" /\ hs'[q] = hs[q]
      BY <1>3 DEF HandshakeStates
<1>11. TypeInv'
      <2>1. net' \in SUBSET Message  BY DEF IInv, TypeInv
      <2> QED  BY <1>8, <1>9, <1>10, <2>1 DEF IInv, TypeInv, PerNode
<1>12. HandshakeInv'
      <2>1. RoleInv'
            BY <1>9, <1>10 DEF IInv, HandshakeInv, RoleInv
      <2> QED  BY <1>1, <1>4, <1>7, <1>8, <1>9, <2>1, FinalSent DEF IInv
<1>13. FirstHandshakeInv'
      <2>1. SUFFICES ASSUME outages = 0 PROVE FirstHandshakeInv'
            BY DEF FirstHandshakeInv
      <2>2. /\ m.token.c1 = 1 /\ m.token.c2 = 1 /\ Answering
            /\ auth[p].c1 = 1 /\ auth[p].handshake
            BY <1>1, <1>4, <2>1 DEF IInv, FirstHandshakeInv, Asking
      <2>3. Answering'  BY <1>9, <2>2 DEF Answering
      <2>4. \A k \in Nodes : hs'[k] = auth'[k].state \/ ReplyRefused(k)'
            BY <1>9, <1>10, <2>1 DEF IInv, FirstHandshakeInv, ReplyRefused
      <2>5. /\ \A x \in Messages(p)' : x.token.c1 = 1 /\ (x.token.class = "final" => x.token.c2 = 1)
            /\ \A x \in Messages(q)' : x.token.c1 = 1 /\ x.token.c2 = 1
            BY <1>7, <1>8, <2>1, <2>2 DEF IInv, FirstHandshakeInv
      <2>6. \A k \in Nodes : status'[k] \in {"None", "Unauthenticated"} =>
                hs'[k] = "None" /\ auth'[k].state = "None"
            BY <1>9, <1>10, <2>1 DEF IInv, FirstHandshakeInv
      <2> QED  BY <1>8, <1>9, <1>10, <2>1, <2>2, <2>3, <2>4, <2>5, <2>6
               DEF IInv, FirstHandshakeInv, Asking, Answering
<1>14. KeysInv' /\ MatchInv'
      <2>1. ~Completed(hs[p]) /\ Completed(hs'[p])  BY <1>10 DEF Completed
      <2> QED  BY <1>4, <1>5, <1>10, <2>1, AcceptedKeysAndMatching
<1> QED  BY <1>11, <1>12, <1>13, <1>14 DEF IInv

\* q takes the final message to its reply.
LEMMA TakeFinalStep ==
    ASSUME IInv, NEW m \in net, m.to = q, net' \subseteq net, hs[q] = "PendingFinal",
           accepts(auth[q], m.token, q \in situation.trusted), NEW a,
           a = process_handshake(auth[q], m.token, q \in situation.trusted),
           hs' = [hs EXCEPT ![q] = "CompletedReceived"], stored' = [stored EXCEPT ![q] = NoMessage],
           on_remote_participant_authenticated(q, a),
           UNCHANGED <<situation, losses, outages, turn, known, announced, cached, unsent, keysSent, commands,
                       loop, matched, volatile, out, next>>
    PROVE  IInv'
<1> USE TwoNodes
<1>1. m \in Messages(p) /\ m \in Message
      BY NetworkMessage DEF IInv
<1>2. m.token.c2 \in Nat
      BY <1>1 DEF Message
<1>3. /\ auth[q] \in AuthRecord /\ hs \in [Nodes -> HandshakeStates]
      /\ stored \in [Nodes -> {NoMessage} \cup [message : Message, left : Nat]]
      BY DEF IInv, TypeInv
<1>4. /\ auth[q].state = "PendingFinal" /\ m.token.class = "final" /\ q \in situation.trusted
      /\ m.token.c1 = auth[q].c1 /\ m.token.c2 = auth[q].c2
      BY DEF accepts, IInv, HandshakeInv, RoleInv
<1>5. /\ a \in AuthRecord /\ a.state = "CompletedReceived" /\ a.c1 = auth[q].c1 /\ a.c2 = auth[q].c2
      /\ a.handshake = auth[q].handshake
      BY <1>2, <1>3, <1>4 DEF process_handshake, AuthRecord, HandshakeStates
<1>6. /\ stored' \in [Nodes -> {NoMessage} \cup [message : Message, left : Nat]]
      /\ stored'[q] = NoMessage /\ stored'[p] = stored[p]
      BY <1>3
<1>7. Messages(p)' \subseteq Messages(p) /\ Messages(q)' \subseteq Messages(q)
      BY <1>6, MessagesShrink DEF IInv
<1>8. /\ auth' \in [Nodes -> AuthRecord] /\ auth'[p] = auth[p]
      /\ auth'[q].state = "CompletedReceived" /\ auth'[q].handshake = auth[q].handshake
      /\ auth'[q].c1 = auth[q].c1 /\ auth'[q].c2 = auth[q].c2
      /\ PerNode(crypto') /\ \A k \in Nodes : IsCryptoRecord(crypto'[k])
      /\ status' \in [Nodes -> Statuses] /\ status'[p] = status[p]
      /\ status'[q] \in {"Authenticated", "Rejected"}
      /\ notes' \in [Nodes -> Seq(Notes)]
      /\ \A k \in Nodes : Contains(notes'[k], "Lost") <=> Contains(notes[k], "Lost")
      BY <1>5, AuthenticatedEffect DEF IInv
<1>9. hs' \in [Nodes -> HandshakeStates] /\ hs'[q] = "CompletedReceived" /\ hs'[p] = hs[p]
      BY <1>3 DEF HandshakeStates
<1>10. TypeInv'
      <2>1. net' \in SUBSET Message  BY DEF IInv, TypeInv
      <2> QED  BY <1>6, <1>8, <1>9, <2>1 DEF IInv, TypeInv, PerNode
<1>11. HandshakeInv'
      <2>1. RoleInv'
            BY <1>8, <1>9 DEF IInv, HandshakeInv, RoleInv
      <2> QED  BY <1>1, <1>4, <1>7, <1>8, <2>1, FinalTaken DEF IInv
<1>12. FirstHandshakeInv'
      <2>1. SUFFICES ASSUME outages = 0 PROVE FirstHandshakeInv'
            BY DEF FirstHandshakeInv
      <2>2. Answering /\ Answering'  BY <1>4, <1>8 DEF Answering
      <2>3. \A k \in Nodes : hs'[k] = auth'[k].state \/ ReplyRefused(k)'
            BY <1>8, <1>9, <2>1 DEF IInv, FirstHandshakeInv, ReplyRefused
      <2>4. \A k \in Nodes : status'[k] \in {"None", "Unauthenticated"} =>
                hs'[k] = "None" /\ auth'[k].state = "None"
            BY <1>8, <1>9, <2>1 DEF IInv, FirstHandshakeInv
      <2> QED  BY <1>7, <1>8, <1>9, <2>1, <2>2, <2>3, <2>4 DEF IInv, FirstHandshakeInv, Asking
<1>13. KeysInv' /\ MatchInv'
      <2>1. ~Completed(hs[q]) /\ Completed(hs'[q])  BY <1>9 DEF Completed
      <2> QED  BY <1>4, <1>5, <1>9, <2>1, AcceptedKeysAndMatching
<1> QED  BY <1>10, <1>11, <1>12, <1>13 DEF IInv

\* A token the plugin refuses.  While no lease expires this is only ever the
\* reply of a participant whose certificate is not good.
LEMMA RefusedStep ==
    ASSUME IInv, NEW n \in Nodes, NEW m \in net, m.to = n, net' \subseteq net,
           hs[n] \in {"PendingReply", "PendingFinal"},
           check_is_stateless_msg_related_to_our_msg(n, m),
           ~accepts(auth[n], m.token, n \in situation.trusted), NEW a,
           a = process_handshake(auth[n], m.token, n \in situation.trusted), Refused(n, a),
           UNCHANGED <<situation, losses, outages, turn, known, announced, cached, unsent, keysSent, commands,
                       loop, matched, volatile>>
    PROVE  IInv'
<1> USE TwoNodes
<1>0. /\ auth' = [auth EXCEPT ![n] = a]
      /\ stored' = [stored EXCEPT ![n] = StoredAuthenticationMessage(stored[n].message)]
      /\ UNCHANGED <<out, next, hs, status, notes, crypto>>
      /\ stored[n] # NoMessage /\ m.related = stored[n].message.id
      BY DEF Refused, check_is_stateless_msg_related_to_our_msg
<1>a. (n = p /\ hs[n] = "PendingReply") \/ (n = q /\ hs[n] = "PendingFinal")
      BY DEF IInv, HandshakeInv, RoleInv
<1>1. m \in Messages(Peer(n)) /\ m \in Message /\ m.token.c2 \in Nat
      BY NetworkMessage DEF IInv, Message
<1>2. /\ auth \in [Nodes -> AuthRecord] /\ auth[n] \in AuthRecord
      /\ stored \in [Nodes -> {NoMessage} \cup [message : Message, left : Nat]]
      /\ stored[n].message \in Message /\ stored[n].message \in Messages(n)
      BY <1>0 DEF IInv, TypeInv, Messages
<1>3. /\ a \in AuthRecord
      /\ a.state = "PendingRequestSend" \/ a = auth[n]
      /\ auth[n].handshake => a.state = "PendingRequestSend"
      BY <1>2 DEF process_handshake, get_handshake_handle, AuthRecord, HandshakeStates, NoChallenge
<1>4. PICK s : s = StoredAuthenticationMessage(stored[n].message)  OBVIOUS
<1>5. s \in [message : Message, left : Nat] /\ s.message = stored[n].message
      <2>1. situation.resends \in Nat  BY SecurityAssumption DEF IInv, TypeInv
      <2> QED  BY <1>2, <1>4, <2>1 DEF StoredAuthenticationMessage
<1>6. /\ stored' \in [Nodes -> {NoMessage} \cup [message : Message, left : Nat]]
      /\ stored'[n] = s /\ stored'[Peer(n)] = stored[Peer(n)]
      BY <1>0, <1>2, <1>4, <1>5
<1>7. Messages(p)' \subseteq Messages(p) /\ Messages(q)' \subseteq Messages(q)
      BY <1>0, <1>5, <1>6, MessagesShrink DEF IInv
<1>8. auth' \in [Nodes -> AuthRecord] /\ auth'[n] = a /\ auth'[Peer(n)] = auth[Peer(n)]
      BY <1>0, <1>2, <1>3
<1>9. TypeInv'
      <2>1. net' \in SUBSET Message  BY DEF IInv, TypeInv
      <2> QED  BY <1>0, <1>6, <1>8, <2>1 DEF IInv, TypeInv, PerNode
<1>10. HandshakeInv'
      <2>1. RoleInv'
            BY <1>0, <1>3, <1>8 DEF IInv, HandshakeInv, RoleInv
      <2>2. auth'[p] = auth[p] \/ ~Asking'
            BY <1>3, <1>8 DEF Asking
      <2>3. auth'[q] = auth[q] \/ ~Answering'
            BY <1>3, <1>8 DEF Answering
      <2> QED  BY <1>0, <1>7, <2>1, <2>2, <2>3, NothingNew DEF IInv
<1>11. FirstHandshakeInv'
      <2>1. SUFFICES ASSUME outages = 0 PROVE FirstHandshakeInv'
            BY DEF FirstHandshakeInv
      <2>2. ASSUME n = q PROVE FALSE
            <3>1. hs[q] = "PendingFinal" /\ auth[q].state = "PendingFinal"
                  BY <1>a, <2>1, <2>2 DEF IInv, FirstHandshakeInv, ReplyRefused
            <3>2. auth[q].c1 = 1 /\ auth[q].c2 = 1 /\ auth[q].handshake /\ q \in situation.trusted
                  BY <2>1, <3>1 DEF IInv, FirstHandshakeInv, Answering
            <3>3. m.related = 1
                  <4>1. stored[q].message.token.c2 = 1
                        BY <1>2, <2>1, <2>2 DEF IInv, FirstHandshakeInv
                  <4>2. stored[q].message.token.c2 = stored[q].message.id
                        BY <1>2, <2>2 DEF IInv, HandshakeInv, MessageInv, IsReply
                  <4> QED  BY <1>0, <2>2, <4>1, <4>2
            <3>4. m.token.class = "final" /\ m.token.c1 = 1 /\ m.token.c2 = 1
                  <4>1. m \in Messages(p)  BY <1>1, <2>2
                  <4>2. IsRequest(m) \/ IsFinal(m)
                        BY <4>1 DEF IInv, HandshakeInv, MessageInv
                  <4>3. m.token.class = "final"
                        BY <3>3, <4>2 DEF IsRequest, IsFinal
                  <4> QED  BY <2>1, <4>1, <4>3 DEF IInv, FirstHandshakeInv
            <3> QED  BY <2>2, <3>1, <3>2, <3>4 DEF accepts, get_handshake_handle
      <2>3. n = p /\ hs[p] = "PendingReply"  BY <1>a, <2>2
      <2>4. a.state = "PendingRequestSend" /\ p \notin situation.trusted
            <3>1. CASE auth[p].state = "PendingReply"
                  <4>1. auth[p].handshake /\ auth[p].c1 = 1
                        BY <2>1, <3>1 DEF IInv, FirstHandshakeInv, Asking
                  <4>2. m \in Messages(q)  BY <1>1, <2>3
                  <4>3. m.token.c1 = 1 /\ m.token.class = "reply"
                        BY <2>1, <4>2 DEF IInv, FirstHandshakeInv, HandshakeInv, MessageInv, IsReply
                  <4> QED  BY <1>3, <2>3, <3>1, <4>1, <4>3 DEF accepts, get_handshake_handle
            <3>2. CASE ReplyRefused(p)
                  BY <1>3, <2>3, <3>2 DEF ReplyRefused
            <3> QED  BY <2>1, <2>3, <3>1, <3>2 DEF IInv, FirstHandshakeInv
      <2>5. auth'[p].state = "PendingRequestSend" /\ auth'[q] = auth[q] /\ ~Asking'
            BY <1>8, <2>3, <2>4 DEF Asking
      <2>6. Answering' <=> Answering  BY <2>5 DEF Answering
      <2>7. \A k \in Nodes : hs'[k] = auth'[k].state \/ ReplyRefused(k)'
            BY <1>0, <2>1, <2>3, <2>4, <2>5 DEF IInv, FirstHandshakeInv, ReplyRefused
      <2>8. \A k \in Nodes : status'[k] \in {"None", "Unauthenticated"} =>
                hs'[k] = "None" /\ auth'[k].state = "None"
            BY <1>0, <2>1, <2>3, <2>5 DEF IInv, FirstHandshakeInv
      <2> QED  BY <1>0, <1>7, <2>1, <2>5, <2>6, <2>7, <2>8 DEF IInv, FirstHandshakeInv
<1>12. KeysInv'
      BY <1>0, KeysKept DEF IInv
<1>13. MatchInv'
      BY <1>0, MatchKept DEF IInv, MatchInv
<1> QED  BY <1>9, <1>10, <1>11, <1>12, <1>13 DEF IInv

LEMMA StatelessReadStep ==
    ASSUME IInv, NEW n \in Nodes, StatelessRead(n)
    PROVE  IInv'
<1> USE TwoNodes
<1>0. PICK m \in net : participant_stateless_message_read(n, m) /\ net' \subseteq net
                       /\ UNCHANGED <<situation, losses, outages, turn>>
      BY DEF StatelessRead, faults
<1>1. m.to = n /\ UNCHANGED <<known, announced, cached, unsent, keysSent, commands, loop, matched, volatile>>
      BY <1>0 DEF participant_stateless_message_read, eventLoop
<1>2. CASE Ignored
      <2>1. UNCHANGED <<auth, stored, out, next, hs, status, notes, crypto>>
            BY <1>2 DEF Ignored
      <2>2. Messages(p)' \subseteq Messages(p) /\ Messages(q)' \subseteq Messages(q)
            BY <1>0, <2>1, MessagesShrink DEF IInv
      <2>3. /\ out \in [Nodes -> Seq(Message)]
            /\ stored \in [Nodes -> {NoMessage} \cup [message : Message, left : Nat]]
            BY DEF IInv, TypeInv
      <2> QED  BY <1>0, <1>1, <2>1, <2>2, <2>3, MessageIgnored
<1>3. CASE hs[n] = "PendingRequestMessage"
      <2>1. handshake_on_pending_request_message(n, m) /\ n = q
            BY <1>0, <1>3 DEF participant_stateless_message_read, IInv, HandshakeInv, RoleInv
      <2> QED  BY <1>0, <1>1, <1>2, <1>3, <2>1, ReplyStep DEF handshake_on_pending_request_message
<1>4. CASE hs[n] = "PendingReply"
      <2>1. handshake_on_pending_reply_message(n, m) /\ n = p
            BY <1>0, <1>4 DEF participant_stateless_message_read, IInv, HandshakeInv, RoleInv
      <2>2. PICK a : a = process_handshake(auth[p], m.token, p \in situation.trusted)  OBVIOUS
      <2>3. \/ Ignored
            \/ /\ check_is_stateless_msg_related_to_our_msg(p, m)
               /\ accepts(auth[p], m.token, p \in situation.trusted)
               /\ SendNew(p, new_stateless_message(p, m.id, Token("final", a.c1, a.c2)))
               /\ hs' = [hs EXCEPT ![p] = "CompletedSent"]
               /\ on_remote_participant_authenticated(p, a)
            \/ /\ check_is_stateless_msg_related_to_our_msg(p, m)
               /\ ~accepts(auth[p], m.token, p \in situation.trusted) /\ Refused(p, a)
            BY <2>1, <2>2 DEF handshake_on_pending_reply_message
      <2>a. m \in net /\ m.to = p /\ net' \subseteq net /\ hs[p] = "PendingReply"
            BY <1>0, <1>1, <1>4, <2>1
      <2>b. UNCHANGED <<situation, losses, outages, turn, known, announced, cached, unsent, keysSent,
                        commands, loop, matched, volatile>>
            BY <1>0, <1>1
      <2>4. CASE /\ accepts(auth[p], m.token, p \in situation.trusted)
                 /\ SendNew(p, new_stateless_message(p, m.id, Token("final", a.c1, a.c2)))
                 /\ hs' = [hs EXCEPT ![p] = "CompletedSent"]
                 /\ on_remote_participant_authenticated(p, a)
            BY <2>2, <2>4, <2>a, <2>b, TakeReplyStep
      <2>5. CASE /\ check_is_stateless_msg_related_to_our_msg(p, m)
                 /\ ~accepts(auth[p], m.token, p \in situation.trusted) /\ Refused(p, a)
            BY <2>2, <2>5, <2>a, <2>b, RefusedStep
      <2> QED  BY <1>2, <2>3, <2>4, <2>5
<1>5. CASE hs[n] = "PendingFinal"
      <2>1. handshake_on_pending_final_message(n, m) /\ n = q
            BY <1>0, <1>5 DEF participant_stateless_message_read, IInv, HandshakeInv, RoleInv
      <2>2. PICK a : a = process_handshake(auth[q], m.token, q \in situation.trusted)  OBVIOUS
      <2>3. \/ Ignored
            \/ /\ check_is_stateless_msg_related_to_our_msg(q, m)
               /\ accepts(auth[q], m.token, q \in situation.trusted)
               /\ hs' = [hs EXCEPT ![q] = "CompletedReceived"]
               /\ stored' = [stored EXCEPT ![q] = NoMessage]
               /\ on_remote_participant_authenticated(q, a)
               /\ UNCHANGED <<out, next>>
            \/ /\ check_is_stateless_msg_related_to_our_msg(q, m)
               /\ ~accepts(auth[q], m.token, q \in situation.trusted) /\ Refused(q, a)
            BY <2>1, <2>2 DEF handshake_on_pending_final_message
      <2> QED  BY <1>0, <1>1, <1>2, <1>5, <2>1, <2>2, <2>3, TakeFinalStep, RefusedStep
<1>6. CASE hs[n] = "CompletedSent"
      <2>1. resend_final_handshake_message(n)
            BY <1>0, <1>6 DEF participant_stateless_message_read
      <2>2. UNCHANGED <<stored, next, hs, auth, status, notes, crypto>>
            BY <2>1 DEF resend_final_handshake_message
      <2>3. stored \in [Nodes -> {NoMessage} \cup [message : Message, left : Nat]]
            BY DEF IInv, TypeInv
      <2>4. CASE stored[n] = NoMessage
            <3>1. out' = out  BY <2>1, <2>4 DEF resend_final_handshake_message
            <3> QED  BY <1>2, <2>2, <3>1 DEF Ignored
      <2>5. CASE stored[n] # NoMessage
            <3>1. PICK f : f = stored[n].message  OBVIOUS
            <3>2. out' = [out EXCEPT ![n] = Append(@, f)]
                  BY <2>1, <2>5, <3>1 DEF resend_final_handshake_message
            <3>3. f \in Message /\ f \in Messages(n)
                  BY <2>3, <2>5, <3>1 DEF Messages
            <3>4. stored' = [stored EXCEPT ![n] = stored[n]]  BY <2>2, <2>3
            <3>5. /\ Messages(n)' \subseteq Messages(n) \cup {f}
                  /\ Messages(Peer(n))' \subseteq Messages(Peer(n))
                  /\ out' \in [Nodes -> Seq(Message)]
                  BY <1>0, <3>2, <3>3, <3>4, MessagesGrow DEF IInv
            <3> QED  BY <1>0, <1>1, <2>2, <2>3, <3>3, <3>5, MessageIgnored
      <2> QED  BY <2>4, <2>5
<1>7. CASE hs[n] \notin {"PendingRequestMessage", "PendingReply", "PendingFinal", "CompletedSent"}
      <2>1. hs[n] # "PendingRequestSend"
            BY DEF IInv, HandshakeInv, RoleInv
      <2> QED  BY <1>0, <1>2, <1>7, <2>1 DEF participant_stateless_message_read
<1> QED  BY <1>3, <1>4, <1>5, <1>6, <1>7

-----------------------------------------------------------------------------
(* The theorems *)

LEMMA InitialState ==
    ASSUME Init
    PROVE  IInv
<1> USE TwoNodes
<1>0. \A k \in Nodes :
         /\ status[k] = "None" /\ hs[k] = "None" /\ auth[k] = NoIdentity /\ next[k] = 1
         /\ stored[k] = NoMessage /\ out[k] = <<>> /\ notes[k] = <<>> /\ loop[k] = {}
         /\ ~matched[k] /\ volatile[k] = <<>> /\ cached[k] = {} /\ crypto[k] = NoCrypto
      BY DEF Init
<1>1. auth[p].state = "None" /\ auth[q].state = "None" /\ NoCrypto.decode = {}
      BY <1>0, NoIdentityRecord DEF NoCrypto
<1>2. \A k \in Nodes : Messages(k) = {} /\ \A x : ~Contains(notes[k], x)
      <2>1. net = {}  BY DEF Init
      <2>2. ToSet(<<>>) = {} /\ \A x : ~Contains(<<>>, x)  BY DEF ToSet, Contains
      <2> QED  BY <1>0, <2>1, <2>2 DEF Messages
<1>3. TypeInv
      <2>1. /\ status \in [Nodes -> Statuses] /\ known \in [Nodes -> BOOLEAN]
            /\ announced \in [Nodes -> SUBSET {"read", "known", "attic"}]
            /\ hs \in [Nodes -> HandshakeStates]
            /\ stored \in [Nodes -> {NoMessage} \cup [message : Message, left : Nat]]
            /\ next \in [Nodes -> Nat \ {0}]
            BY DEF Init, Statuses, HandshakeStates
      <2>2. auth \in [Nodes -> AuthRecord]
            BY NoIdentityRecord DEF Init
      <2>3. PerNode(crypto) /\ (\A n \in Nodes : IsCryptoRecord(crypto[n]))
            /\ PerNode(cached) /\ PerNode(unsent) /\ keysSent \in [Nodes -> BOOLEAN] /\ PerNode(volatile)
            BY DEF Init, PerNode, IsCryptoRecord
      <2>4. notes \in [Nodes -> Seq(Notes)] /\ commands \in [Nodes -> Seq(Commands)]
            /\ out \in [Nodes -> Seq(Message)] /\ net \in SUBSET Message
            BY DEF Init
      <2>5. loop \in [Nodes -> SUBSET {"stateless", "standard", "secure"}]
            /\ matched \in [Nodes -> BOOLEAN]
            BY DEF Init
      <2>6. situation \in Situations /\ losses \in Nat /\ outages \in Nat /\ turn \in Nodes
            BY DEF Init
      <2> QED  BY <2>1, <2>2, <2>3, <2>4, <2>5, <2>6 DEF TypeInv
<1>4. HandshakeInv
      BY <1>0, <1>1, <1>2 DEF HandshakeInv, MessageInv, RoleInv, AskInv, AnswerInv, OrderInv,
         CompletedInv, Asking, Answering
<1>5. FirstHandshakeInv
      BY <1>0, <1>1, <1>2, NoIdentityRecord DEF FirstHandshakeInv, Asking, Answering
<1>6. KeysInv
      BY <1>0, <1>1 DEF KeysInv
<1>7. MatchInv
      <2>1. \A n \in Nodes : EndpointInfo(n) # {}  BY DEF Init, Created
      <2> QED  BY <1>0, <1>2, <2>1 DEF MatchInv
<1> QED  BY <1>3, <1>4, <1>5, <1>6, <1>7 DEF IInv

LEMMA StutteringStep ==
    ASSUME IInv, UNCHANGED vars
    PROVE  IInv'
<1>1. /\ UNCHANGED <<situation, losses, outages, turn, known, announced, cached, unsent, keysSent, commands,
                     loop, matched, volatile, auth, next, hs, status, notes, crypto>>
      /\ UNCHANGED <<stored, out, net>>
      BY DEF vars, faults, discovery, plugins, eventLoop
<1>2. Messages(p)' \subseteq Messages(p) /\ Messages(q)' \subseteq Messages(q)
      BY <1>1 DEF Messages
<1>3. /\ out \in [Nodes -> Seq(Message)]
      /\ stored \in [Nodes -> {NoMessage} \cup [message : Message, left : Nat]]
      BY DEF IInv, TypeInv
<1> QED  BY <1>1, <1>2, <1>3, MessageIgnored

\* The invariant holds whatever the documents and the certificates say, however
\* often leases expire, and however messages are lost, late and repeated
\* (secure_discovery.rs: the handshake and the key exchange).
THEOREM InvariantHolds == Spec => []IInv
<1>1. Init => IInv  BY InitialState
<1>2. IInv /\ [Next]_vars => IInv'
      <2> SUFFICES ASSUME IInv, [Next]_vars PROVE IInv'  OBVIOUS
      <2>1. CASE LoseMessage  BY <2>1, LoseMessageStep
      <2>2. ASSUME NEW n \in Nodes, Step(n) PROVE IInv'
            BY <2>2, DataReadStep, StatelessReadStep, CommandStep, VolatileReadStep, EndpointReadStep,
               WriterSendStep, NotificationStep, ResendStep DEF Step
      <2>3. ASSUME NEW n \in Nodes, participant_cleanup(n) PROVE IInv'
            BY <2>3, CleanupStep
      <2>4. CASE UNCHANGED vars  BY <2>4, StutteringStep
      <2> QED  BY <2>1, <2>2, <2>3, <2>4 DEF Next
<1> QED  BY <1>1, <1>2, PTL DEF Spec

\* Secure Discovery and the authentication plugin agree on where the handshake
\* is while no lease expires, unless a certificate was refused.
THEOREM HandshakeIsMirrored == Spec => []HandshakeMirrored
<1>1. IInv => HandshakeMirrored
      BY DEF IInv, FirstHandshakeInv, HandshakeMirrored
<1> QED  BY <1>1, InvariantHolds, PTL

\* Both ends of a completed handshake have the same secret, also after leases
\* have expired and with old messages around.
THEOREM SecretsDoAgree == Spec => []SecretsAgree
<1>1. ASSUME IInv PROVE SecretsAgree
      <2>1. Completed(auth[p].state) => auth[p].state = "CompletedSent"
            BY <1>1 DEF IInv, HandshakeInv, RoleInv, Completed
      <2>2. Completed(auth[q].state) => auth[q].state = "CompletedReceived"
            BY <1>1 DEF IInv, HandshakeInv, RoleInv, Completed
      <2>3. Completed(auth[p].state) /\ Completed(auth[q].state) =>
                SharedSecret(auth[p]) = SharedSecret(auth[q])
            BY <1>1, <2>1, <2>2 DEF IInv, HandshakeInv, CompletedInv
      <2>4. ASSUME outages = 0, Completed(auth[p].state)
            PROVE  /\ auth[q].state \in {"PendingFinal", "CompletedReceived"}
                   /\ SharedSecret(auth[p]) = SharedSecret(auth[q])
            <3>1. Answering /\ auth[p].c2 = 1 /\ auth[p].c1 = 1 /\ auth[q].c1 = 1 /\ auth[q].c2 = 1
                  BY <1>1, <2>1, <2>4 DEF IInv, FirstHandshakeInv, Asking
            <3> QED  BY <3>1 DEF Answering, SharedSecret
      <2> QED  BY <2>3, <2>4 DEF SecretsAgree
<1> QED  BY <1>1, InvariantHolds, PTL

\* Whoever is refused, by its certificate or its permissions, is sent no keys
\* and has none to decode with but the one derived from the secret.
THEOREM RefusedGetNoKeys == Spec => []RefusedGetsNoKeys
<1>1. IInv => RefusedGetsNoKeys
      BY DEF IInv, KeysInv, Refuses, RefusedGetsNoKeys
<1> QED  BY <1>1, InvariantHolds, PTL

\* What is matched is authenticated and permitted, and both sides protect it
\* alike, whatever the documents say.
THEOREM MatchedArePermitted == Spec => []MatchedIsPermitted
<1>1. IInv => MatchedIsPermitted
      BY TwoNodes DEF IInv, MatchInv, Permitted, Granted, MatchedIsPermitted
<1> QED  BY <1>1, InvariantHolds, PTL

-----------------------------------------------------------------------------
(* The decisions of access control *)

\* Every non-empty set of positions has a first.
LEMMA LeastNumber ==
    ASSUME NEW n \in Nat, NEW T, T \subseteq 1 .. n, T # {}
    PROVE  Min(T) \in T /\ \A y \in T : Min(T) <= y
<1>1. T \subseteq Nat
      OBVIOUS
<1>2. \E x \in T : \A y \in T : ~(<<y, x>> \in OpToRel(<, Nat))
      BY <1>1, NatLessThanWellFounded, WFMin, Zenon
<1>3. PICK x \in T : \A y \in T : ~(<<y, x>> \in OpToRel(<, Nat))
      BY <1>2
<1>4. ASSUME NEW y \in T PROVE x <= y
      <2>1. <<y, x>> \notin OpToRel(<, Nat)
            BY <1>3
      <2>2. y \in Nat /\ x \in Nat
            BY <1>1
      <2>3. ~(y < x)
            BY <2>1, <2>2, Zenon DEF OpToRel
      <2> QED  BY <2>2, <2>3, SMT
<1> QED  BY <1>4 DEF Min

\* The rule whose verdict counts, if there is one, applies.
LEMMA FirstApplicable ==
    ASSUME NEW Rules, NEW grant, grant.rules \in Seq(Rules),
           NEW action \in Actions, NEW domain_id, NEW topic,
           check_action(grant, action, domain_id, topic)
    PROVE  check_participant_join(grant, domain_id)
<1> DEFINE I == {i \in 1 .. Len(grant.rules) :
                    is_applicable(grant.rules[i], action, domain_id, topic)}
           i == IF I # {} THEN Min(I) ELSE 0
<1>1. IF i = 0 THEN grant.default = "Allow" ELSE grant.rules[i].verdict = "Allow"
      BY Zenon DEF check_action, SelectInSeq
<1>2. Len(grant.rules) \in Nat
      OBVIOUS
<1>3. I # {} => Min(I) \in I
      <2> HIDE DEF I
      <2>1. I \subseteq 1 .. Len(grant.rules)
            BY DEF I
      <2> QED  BY <1>2, <2>1, LeastNumber
<1>4. CASE i = 0
      BY <1>1, <1>4 DEF check_participant_join
<1>5. CASE i # 0
      <2>1. i \in 1 .. Len(grant.rules) /\ is_applicable(grant.rules[i], action, domain_id, topic)
            BY <1>3, <1>5
      <2>2. grant.rules[i].verdict = "Allow"
            BY <1>1, <1>5
      <2> HIDE DEF i, I
      <2>3. grant.rules[i] \in ToSet(grant.rules)
            BY <2>1 DEF ToSet
      <2> QED  BY <2>1, <2>2, <2>3, Zenon DEF check_participant_join, is_applicable
<1> QED  BY <1>4, <1>5

\* What find_grant and find_topic_rule return is in the document.
LEMMA GrantFound ==
    ASSUME NEW Grants, NEW grants \in Seq(Grants), NEW subject, NEW now,
           find_grant(grants, subject, now) # 0
    PROVE  grants[find_grant(grants, subject, now)] \in Grants
<1> DEFINE I == {i \in 1 .. Len(grants) :
                    /\ grants[i].subject = subject
                    /\ grants[i].not_before <= now /\ now < grants[i].not_after}
<1>1. find_grant(grants, subject, now) = IF I # {} THEN Min(I) ELSE 0
      BY Zenon DEF find_grant, SelectInSeq
<1>2. I \subseteq 1 .. Len(grants) /\ Len(grants) \in Nat
      OBVIOUS
<1> HIDE DEF I
<1>3. I # {} /\ Min(I) \in I
      BY <1>1, <1>2, LeastNumber
<1>4. find_grant(grants, subject, now) \in 1 .. Len(grants)
      BY <1>1, <1>2, <1>3
<1> QED  BY <1>4

LEMMA TopicRuleFound ==
    ASSUME NEW T, NEW rule, rule.topic_access_rules \in Seq(T), NEW topic,
           find_topic_rule(rule, topic) # 0
    PROVE  rule.topic_access_rules[find_topic_rule(rule, topic)]
              \in ToSet(rule.topic_access_rules)
<1> DEFINE I == {i \in 1 .. Len(rule.topic_access_rules) :
                    topic \in rule.topic_access_rules[i].topic_expression}
<1>1. find_topic_rule(rule, topic) = IF I # {} THEN Min(I) ELSE 0
      BY Zenon DEF find_topic_rule, SelectInSeq
<1>2. I \subseteq 1 .. Len(rule.topic_access_rules) /\ Len(rule.topic_access_rules) \in Nat
      OBVIOUS
<1> HIDE DEF I
<1>3. find_topic_rule(rule, topic) \in 1 .. Len(rule.topic_access_rules)
      BY <1>1, <1>2, LeastNumber
<1> QED  BY <1>3 DEF ToSet

\* The decisions of access control agree for all documents: any number of
\* grants and rules in any order, any topic and any time (check_entity,
\* check_remote_datareader, check_participant).
THEOREM DecisionsDoAgree ==
    ASSUME NEW Grants, NEW TopicRules,
           NEW perm, perm.grants \in Seq(Grants),
           \A grant \in Grants : grant.rules \in Seq(ToSet(grant.rules)),
           perm.rule.topic_access_rules \in Seq(TopicRules),
           NEW domain_id, NEW now, NEW topic, topic \notin BuiltinTopics
    PROVE  DecisionsAgreeOn(perm, domain_id, topic, now)
<1> DEFINE g == find_grant(perm.grants, perm.subject, now)
           may(action) == check_action(perm.grants[g], action, domain_id, topic)
           t == find_topic_rule(perm.rule, topic)
           read == perm.rule.topic_access_rules[t].enable_read_access_control
           write == perm.rule.topic_access_rules[t].enable_write_access_control
           passed == g # 0 /\ (((t # 0 /\ ~read) \/ may("Subscribe")) \/ may("Relay"))
           relay == g # 0 /\ ~((t # 0 /\ ~read) \/ may("Subscribe")) /\ may("Relay")
           remote == check_remote_datareader(perm, domain_id, topic, now)
<1>1. check_entity(perm, domain_id, topic, "writer", now)
         <=> g # 0 /\ ((t # 0 /\ ~write) \/ may("Publish"))
      BY DEF check_entity
<1>2. check_entity(perm, domain_id, topic, "reader", now)
         <=> g # 0 /\ ((t # 0 /\ ~read) \/ may("Subscribe"))
      BY DEF check_entity
<1>3. check_entity(perm, domain_id, topic, "topic", now)
         <=> g # 0 /\ ((t # 0 /\ ~(read /\ write)) \/ may("Publish") \/ may("Subscribe"))
      BY DEF check_entity
<1>4. remote = [check_passed |-> passed, relay_only |-> relay]
      BY Zenon DEF check_remote_datareader
<1>5. ASSUME g # 0, \E a \in Actions : may(a)
      PROVE  check_participant(perm, domain_id, now)
      <2>1. perm.grants[g] \in Grants
            BY <1>5, GrantFound
      <2>2. check_participant_join(perm.grants[g], domain_id)
            <3> PICK a \in Actions : may(a)
                BY <1>5
            <3> HIDE DEF g
            <3> QED  BY <2>1, FirstApplicable
      <2> QED  BY <1>5, <2>2, Zenon DEF check_participant
<1>6. ASSUME g # 0, t # 0, ~(read /\ write)
      PROVE  check_participant(perm, domain_id, now)
      <2>1. perm.rule.topic_access_rules[t] \in ToSet(perm.rule.topic_access_rules)
            BY <1>6, TopicRuleFound
      <2> QED  BY <1>6, <2>1, Zenon DEF check_participant
<1> HIDE DEF g, may, t, read, write
<1>7. remote.check_passed = passed /\ remote.relay_only = relay
      <2> HIDE DEF passed, relay, remote
      <2> QED  BY <1>4, Zenon
<1> HIDE DEF remote
<1>8. check_entity(perm, domain_id, topic, "topic", now) \/ remote.check_passed
         => check_participant(perm, domain_id, now)
      BY <1>3, <1>5, <1>6, <1>7, Zenon DEF Actions
<1>9. check_entity(perm, domain_id, topic, "topic", now)
         <=> \/ check_entity(perm, domain_id, topic, "writer", now)
             \/ check_entity(perm, domain_id, topic, "reader", now)
      BY <1>1, <1>2, <1>3, Zenon
<1>10. check_entity(perm, domain_id, topic, "reader", now)
         <=> remote.check_passed /\ ~remote.relay_only
      BY <1>2, <1>7, Zenon
<1> QED  BY <1>8, <1>9, <1>10, Zenon DEF DecisionsAgreeOn, remote

\* Leading counts the elements of one kind at the front.
LEMMA LeadingCounts ==
    ASSUME NEW S, NEW elems \in Seq(S), NEW action
    PROVE  LET k == Leading(elems, action) IN
           /\ k \in 0 .. Len(elems)
           /\ \A i \in 1 .. k : elems[i].action = action
           /\ k < Len(elems) => elems[k + 1].action # action
<1> DEFINE I == {i \in 1 .. Len(elems) : elems[i].action # action}
           other == IF I # {} THEN Min(I) ELSE 0
           k == Leading(elems, action)
<1>1. k = IF other = 0 THEN Len(elems) ELSE other - 1
      BY Zenon DEF Leading, SelectInSeq
<1>2. Len(elems) \in Nat /\ I \subseteq 1 .. Len(elems)
      OBVIOUS
<1>3. ASSUME I = {} PROVE k = Len(elems) /\ \A i \in 1 .. Len(elems) : elems[i].action = action
      BY <1>1, <1>3
<1>4. ASSUME I # {}
      PROVE  /\ k = Min(I) - 1 /\ Min(I) \in 1 .. Len(elems) /\ elems[Min(I)].action # action
             /\ \A i \in 1 .. Len(elems) : i < Min(I) => elems[i].action = action
      <2> HIDE DEF I
      <2>1. Min(I) \in I
            BY <1>2, <1>4, LeastNumber
      <2>2. \A i \in I : Min(I) <= i
            BY <1>2, <1>4, LeastNumber
      <2>3. Min(I) \in 1 .. Len(elems) /\ Min(I) # 0
            <3>1. Min(I) \in 1 .. Len(elems)
                  BY <1>2, <2>1, Zenon
            <3> DEFINE m == Min(I)
            <3> HIDE DEF m
            <3>2. m \in 1 .. Len(elems) => m # 0
                  BY <1>2
            <3> QED  BY <3>1, <3>2 DEF m
      <2>4. k = Min(I) - 1
            BY <1>1, <1>4, <2>3
      <2>5. \A i \in 1 .. Len(elems) : i < Min(I) => i \notin I
            BY <1>2, <2>2, <2>3
      <2> QED  BY <2>1, <2>3, <2>4, <2>5 DEF I
<1> HIDE DEF I, k
<1>5. CASE I = {}
      BY <1>2, <1>3, <1>5 DEF k
<1>6. CASE I # {}
      <2> DEFINE m == Min(I)
      <2>1. k = m - 1 /\ m \in 1 .. Len(elems) /\ elems[m].action # action
            /\ \A i \in 1 .. Len(elems) : i < m => elems[i].action = action
            BY <1>4, <1>6
      <2> HIDE DEF m
      <2>2. k \in 0 .. Len(elems) /\ k + 1 = m
            BY <1>2, <2>1
      <2>3. \A i \in 1 .. k : elems[i].action = action
            BY <1>2, <2>1
      <2> QED  BY <2>1, <2>2, <2>3 DEF k
<1> QED  BY <1>5, <1>6

\* The elements of a part of a sequence.
LEMMA PartElements ==
    ASSUME NEW S, NEW elems \in Seq(S), NEW m \in Nat, m > 0, NEW b \in 0 .. Len(elems), m <= b + 1
    PROVE  /\ SubSeq(elems, m, b) \in Seq(S)
           /\ Len(SubSeq(elems, m, b)) = b - m + 1
           /\ \A i \in 1 .. b - m + 1 : SubSeq(elems, m, b)[i] = elems[m + i - 1]
           /\ ToSet(SubSeq(elems, m, b)) = {elems[i] : i \in m .. b}
<1> DEFINE part == SubSeq(elems, m, b)
<1>1. Len(elems) \in Nat /\ b \in Int /\ \A i \in m .. b : elems[i] \in S
      OBVIOUS
<1>2. /\ part \in Seq(S)
      /\ Len(part) = IF m <= b THEN b - m + 1 ELSE 0
      /\ \A i \in 1 .. b - m + 1 : part[i] = elems[m + i - 1]
      BY <1>1, SubSeqProperties
<1> HIDE DEF part
<1>3. Len(part) = b - m + 1
      BY <1>1, <1>2
<1>4. DOMAIN part = 1 .. b - m + 1
      BY <1>2, <1>3
<1>5. ToSet(part) = {elems[i] : i \in m .. b}
      <2>1. ASSUME NEW i \in m .. b PROVE \E j \in 1 .. b - m + 1 : part[j] = elems[i]
            <3>1. i - m + 1 \in 1 .. b - m + 1 /\ m + (i - m + 1) - 1 = i
                  BY <1>1
            <3> QED  BY <1>2, <3>1
      <2>2. ASSUME NEW j \in 1 .. b - m + 1 PROVE \E i \in m .. b : part[j] = elems[i]
            <3>1. m + j - 1 \in m .. b
                  BY <1>1
            <3> QED  BY <1>2, <3>1
      <2> DEFINE J == 1 .. b - m + 1
                 K == m .. b
      <2>3. ToSet(part) = {part[j] : j \in J}
            BY <1>4, Zenon DEF ToSet
      <2>4. \A i \in K : \E j \in J : part[j] = elems[i]
            BY <2>1
      <2>5. \A j \in J : \E i \in K : part[j] = elems[i]
            BY <2>2
      <2> HIDE DEF J, K
      <2>6. ToSet(part) = {elems[i] : i \in K}
            BY <2>3, <2>4, <2>5
      <2> QED  BY <2>6 DEF K
<1> QED  BY <1>2, <1>3, <1>5 DEF part

\* A rule in the order of the schema keeps all of its elements: what is counted
\* at the front are all publish elements, and so on.
LEMMA RuleKeepsAll ==
    ASSUME NEW elems \in RuleTexts, NEW action \in Actions, NEW verdict, NEW domains
    PROVE  rule_from_xml(verdict, domains, elems).criteria[action]
              = {c \in ToSet(elems) : c.action = action}
<1> DEFINE S == ToSet(elems)
           n == Len(elems)
           u == Leading(elems, "Publish")
           rest == SubSeq(elems, u + 1, n)
           s == u + Leading(rest, "Subscribe")
           left == SubSeq(elems, s + 1, n)
           r == s + Leading(left, "Relay")
           criteria == rule_from_xml(verdict, domains, elems).criteria
<1>1. /\ elems \in Seq(S) /\ InSchemaOrder(elems)
      /\ \A i \in 1 .. n : elems[i].action \in Actions
      <2>1. elems \in Seq(S) /\ InSchemaOrder(elems) /\ \A e \in S : e.action \in Actions
            BY RuleTextsAssumption
      <2> QED  BY <2>1
<1>2. n \in Nat /\ DOMAIN elems = 1 .. n /\ S = {elems[i] : i \in 1 .. n}
      BY <1>1 DEF ToSet
<1> HIDE DEF S, n
<1>3. /\ u \in 0 .. n /\ \A i \in 1 .. u : elems[i].action = "Publish"
      /\ u < n => elems[u + 1].action # "Publish"
      BY <1>1, LeadingCounts DEF n
<1> HIDE DEF u
<1>4. rest \in Seq(S) /\ Len(rest) = n - u /\ \A i \in 1 .. n - u : rest[i] = elems[u + i]
      <2>1. u + 1 \in Nat /\ u + 1 > 0 /\ n \in 0 .. n /\ u + 1 <= n + 1
            BY <1>2, <1>3
      <2>2. /\ rest \in Seq(S) /\ Len(rest) = n - (u + 1) + 1
            /\ \A i \in 1 .. n - (u + 1) + 1 : rest[i] = elems[(u + 1) + i - 1]
            BY <1>1, <2>1, PartElements DEF n
      <2>3. n - (u + 1) + 1 = n - u /\ \A i \in Int : (u + 1) + i - 1 = u + i
            BY <1>2, <1>3
      <2> HIDE DEF rest
      <2>4. ASSUME NEW i \in 1 .. n - u PROVE rest[i] = elems[u + i]
            <3>1. i \in 1 .. n - (u + 1) + 1 /\ (u + 1) + i - 1 = u + i
                  BY <1>2, <1>3
            <3> QED  BY <2>2, <3>1
      <2> QED  BY <2>2, <2>3, <2>4
<1> DEFINE ls == Leading(rest, "Subscribe")
           lr == Leading(left, "Relay")
<1> HIDE DEF rest
<1>5. /\ ls \in 0 .. n - u /\ \A i \in 1 .. ls : rest[i].action = "Subscribe"
      /\ ls < n - u => rest[ls + 1].action # "Subscribe"
      BY <1>4, LeadingCounts
<1> HIDE DEF ls
<1>6. s = u + ls
      BY DEF ls
<1>7. /\ s \in u .. n /\ \A i \in u + 1 .. s : elems[i].action = "Subscribe"
      /\ s < n => elems[s + 1].action # "Subscribe"
      <2>1. s \in u .. n
            BY <1>2, <1>3, <1>5, <1>6
      <2>2. ASSUME NEW i \in u + 1 .. s PROVE elems[i].action = "Subscribe"
            <3>1. i - u \in 1 .. ls /\ i - u \in 1 .. n - u /\ u + (i - u) = i
                  BY <1>2, <1>3, <1>5, <1>6
            <3> QED  BY <1>4, <1>5, <3>1
      <2>3. ASSUME s < n PROVE elems[s + 1].action # "Subscribe"
            <3>1. ls < n - u /\ ls + 1 \in 1 .. n - u /\ u + (ls + 1) = s + 1
                  BY <1>2, <1>3, <1>5, <1>6, <2>3
            <3> QED  BY <1>4, <1>5, <3>1
      <2> QED  BY <2>1, <2>2, <2>3
<1> HIDE DEF s
<1>8. left \in Seq(S) /\ Len(left) = n - s /\ \A i \in 1 .. n - s : left[i] = elems[s + i]
      <2>1. s + 1 \in Nat /\ s + 1 > 0 /\ n \in 0 .. n /\ s + 1 <= n + 1
            BY <1>2, <1>3, <1>7
      <2>2. /\ left \in Seq(S) /\ Len(left) = n - (s + 1) + 1
            /\ \A i \in 1 .. n - (s + 1) + 1 : left[i] = elems[(s + 1) + i - 1]
            BY <1>1, <2>1, PartElements DEF n
      <2>3. n - (s + 1) + 1 = n - s /\ \A i \in Int : (s + 1) + i - 1 = s + i
            BY <1>2, <1>3, <1>7
      <2> HIDE DEF left
      <2>4. ASSUME NEW i \in 1 .. n - s PROVE left[i] = elems[s + i]
            <3>1. i \in 1 .. n - (s + 1) + 1 /\ (s + 1) + i - 1 = s + i
                  BY <1>2, <1>3, <1>7
            <3> QED  BY <2>2, <3>1
      <2> QED  BY <2>2, <2>3, <2>4
<1> HIDE DEF left
<1>9. /\ lr \in 0 .. n - s
      /\ lr < n - s => left[lr + 1].action # "Relay"
      BY <1>8, LeadingCounts
<1>10. r = s + lr
      OBVIOUS
<1> HIDE DEF lr, r
<1>11. \A i, j \in 1 .. n : i < j =>
          /\ elems[j].action = "Publish" => elems[i].action = "Publish"
          /\ elems[i].action = "Relay" => elems[j].action = "Relay"
      BY <1>1, <1>2, Zenon DEF InSchemaOrder
<1>12. \A i \in u + 1 .. n : elems[i].action # "Publish"
      <2> SUFFICES ASSUME NEW i \in u + 1 .. n, elems[i].action = "Publish" PROVE FALSE
          OBVIOUS
      <2>1. u < n /\ u + 1 \in 1 .. n /\ i \in 1 .. n /\ (u + 1 < i \/ u + 1 = i)
            BY <1>2, <1>3
      <2> QED  BY <1>3, <1>11, <2>1
<1>13. \A i \in s + 1 .. n : elems[i].action = "Relay"
      <2> SUFFICES ASSUME NEW i \in s + 1 .. n PROVE elems[i].action = "Relay"
          OBVIOUS
      <2>1. s < n /\ s + 1 \in 1 .. n /\ s + 1 \in u + 1 .. n /\ i \in 1 .. n
               /\ (s + 1 < i \/ s + 1 = i)
            BY <1>2, <1>3, <1>7
      <2>2. elems[s + 1].action = "Relay"
            BY <1>1, <1>7, <1>12, <2>1 DEF Actions
      <2> QED  BY <1>11, <2>1, <2>2
<1>14. r = n
      <2> SUFFICES ASSUME lr < n - s PROVE FALSE
          BY <1>2, <1>3, <1>7, <1>9, <1>10
      <2>1. lr + 1 \in 1 .. n - s /\ s + (lr + 1) \in s + 1 .. n
            BY <1>2, <1>3, <1>7, <1>9
      <2> QED  BY <1>8, <1>9, <1>13, <2>1
<1>15. criteria = [Publish   |-> ToSet(SubSeq(elems, 1, u)),
                   Subscribe |-> ToSet(SubSeq(elems, u + 1, s)),
                   Relay     |-> ToSet(SubSeq(elems, s + 1, r))]
      <2> DEFINE c == [Publish   |-> ToSet(SubSeq(elems, 1, u)),
                       Subscribe |-> ToSet(SubSeq(elems, u + 1, s)),
                       Relay     |-> ToSet(SubSeq(elems, s + 1, r))]
      <2>1. rule_from_xml(verdict, domains, elems)
               = [verdict |-> verdict, domains |-> domains, criteria |-> c]
            BY Zenon DEF rule_from_xml, r, lr, left, s, rest, u, n
      <2> HIDE DEF c
      <2>2. criteria = c
            BY <2>1
      <2> QED  BY <2>2 DEF c
<1>16. /\ ToSet(SubSeq(elems, 1, u)) = {elems[i] : i \in 1 .. u}
       /\ ToSet(SubSeq(elems, u + 1, s)) = {elems[i] : i \in u + 1 .. s}
       /\ ToSet(SubSeq(elems, s + 1, n)) = {elems[i] : i \in s + 1 .. n}
      <2>1. /\ 1 \in Nat /\ 1 > 0 /\ u \in 0 .. n /\ 1 <= u + 1
            /\ u + 1 \in Nat /\ u + 1 > 0 /\ s \in 0 .. n /\ u + 1 <= s + 1
            /\ s + 1 \in Nat /\ s + 1 > 0 /\ n \in 0 .. n /\ s + 1 <= n + 1
            BY <1>2, <1>3, <1>7
      <2>2. ToSet(SubSeq(elems, 1, u)) = {elems[i] : i \in 1 .. u}
            BY <1>1, <2>1, PartElements DEF n
      <2>3. ToSet(SubSeq(elems, u + 1, s)) = {elems[i] : i \in u + 1 .. s}
            BY <1>1, <2>1, PartElements DEF n
      <2>4. ToSet(SubSeq(elems, s + 1, n)) = {elems[i] : i \in s + 1 .. n}
            BY <1>1, <2>1, PartElements DEF n
      <2> QED  BY <2>2, <2>3, <2>4
<1> HIDE DEF criteria
<1>17. /\ criteria["Publish"] = {elems[i] : i \in 1 .. u}
       /\ criteria["Subscribe"] = {elems[i] : i \in u + 1 .. s}
       /\ criteria["Relay"] = {elems[i] : i \in s + 1 .. n}
      BY <1>14, <1>15, <1>16
<1>18. \A i \in 1 .. n : i \in 1 .. u \/ i \in u + 1 .. s \/ i \in s + 1 .. n
      BY <1>2, <1>3, <1>7
<1>19. 1 .. u \subseteq 1 .. n /\ u + 1 .. s \subseteq 1 .. n /\ s + 1 .. n \subseteq 1 .. n
      BY <1>2, <1>3, <1>7
<1>20. CASE action = "Publish"
      BY <1>2, <1>3, <1>7, <1>13, <1>17, <1>18, <1>19, <1>20 DEF criteria, S
<1>21. CASE action = "Subscribe"
      BY <1>2, <1>3, <1>7, <1>13, <1>17, <1>18, <1>19, <1>21 DEF criteria, S
<1>22. CASE action = "Relay"
      BY <1>2, <1>3, <1>7, <1>13, <1>17, <1>18, <1>19, <1>22 DEF criteria, S
<1> QED  BY <1>20, <1>21, <1>22 DEF Actions

\* The decisions of access control agree, and rules written in the order of the
\* schema are read completely, whatever the documents say.
THEOREM AccessDecisionsAgree == Spec => []DecisionsAgree
<1>1. ASSUME NEW perm \in Handles PROVE DecisionsAgreeOn(perm, Domain, Topic, Now)
      <2>1. Topic \notin BuiltinTopics
            BY DEF Topic, BuiltinTopics, SecureDiscoveryTopics, OpenBuiltinTopics
      <2> QED  BY <2>1, HandlesAssumption, DecisionsDoAgree
<1>2. DecisionsAgree
      BY <1>1, RuleKeepsAll DEF DecisionsAgree
<1> QED  BY <1>2, PTL
=============================================================================
