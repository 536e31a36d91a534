---------------------------- MODULE MCDiscovery ----------------------------
(* Instances of Discovery for TLC. *)
EXTENDS Discovery, MCMatching

CONSTANTS me, p, r, lw, w, t

OwnerP == [e \in {w} |-> p]
KindRW == (r :> "reader") @@ (w :> "writer") @@ (lw :> "writer")
OneTopic == [e \in {r, w, lw} |-> t]
Flaky == [q \in {me, p} |-> IF q = me THEN 0 ELSE 4]
All(l, e) == TRUE

\* A Reader waits for a peer; the Reader is made while the peer is there; a
\* Reader and a Writer come and go on their own.
PeerComes == [app |-> (r :> "live") @@ (lw :> "gone"), up |-> (p :> "absent")]
ReaderComes == [app |-> (r :> "none") @@ (lw :> "gone"), up |-> (p :> "absent")]
OwnPair == [app |-> (r :> "none") @@ (lw :> "none"), up |-> (p :> "gone")]
AllStarts == {PeerComes, ReaderComes, OwnPair}
Rediscovery == {PeerComes}

\* While there is a peer, the application starts to create an endpoint when all
\* work is done, and drops nothing.
Alone == \A q \in Remote : up[q] = "gone" /\ q \notin db.proxies /\ spdp[q] = "none"
MayBegin == Alone \/ Served
MCNext ==
    \/ Network \/ DiscoveryThread \/ EventLoopThread
    \/ \E l \in LocalEndpoint :
          \/ MayBegin /\ (CreateReaderBegin(l) \/ CreateWriterBegin(l))
          \/ CreateReaderEnd(l) \/ CreateWriterEnd(l)
          \/ Alone /\ (DropBegin(l) \/ DropEnd(l))
    \/ Alone /\ DropParticipant
MCSpec == Init /\ [][MCNext]_vars
=============================================================================
