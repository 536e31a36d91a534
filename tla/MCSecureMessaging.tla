------------------------- MODULE MCSecureMessaging -------------------------
(***************************************************************************)
(* A has a Writer with a Reader at B and one at D; C has a Writer and no   *)
(* security plugins.                                                       *)
(***************************************************************************)
EXTENDS SecureMessaging

CONSTANTS A, B, C, D

AWriter == <<A, "w">>
Usual == {<<AWriter, <<B, "r1">>>>, <<AWriter, <<D, "r1">>>>, <<<<C, "w">>, <<B, "r1">>>>}

\* With a timestamp and a GAP, or without them.
Whole == {[fragmented |-> FALSE, stamped |-> b, gaps |-> b] : b \in BOOLEAN}
Fragments == {[fragmented |-> TRUE, stamped |-> TRUE, gaps |-> TRUE]}

\* Nobody protects anything: C's Writer is matched as well.
Open == [rtps |-> "NONE", rtps_origin |-> FALSE, submessage |-> "NONE", submessage_origin |-> FALSE,
         payload |-> "NONE", options |-> Whole, leaves |-> FALSE, MaxSent |-> 2, settled |-> TRUE, readers |-> {"r1", "r2"},
         pairs |-> {<<AWriter, <<B, "r1">>>>, <<AWriter, <<B, "r2">>>>, <<<<C, "w">>, <<B, "r1">>>>},
         peers |-> {<<A, B>>, <<B, A>>}, writers |-> {AWriter, <<C, "w">>}, acking |-> {<<B, "r1">>}]

\* Whole messages only, for a topic that is open, while Readers leave.
Messages == [Open EXCEPT !.rtps = "GCM", !.rtps_origin = TRUE, !.leaves = TRUE, !.readers = {"r1"},
                         !.pairs = Usual, !.peers = @ \cup {<<A, D>>}]

\* Submessages and payloads under one key.
Submessages == [Messages EXCEPT !.rtps = "NONE", !.submessage = "GCM", !.submessage_origin = TRUE,
                                !.payload = "GCM", !.MaxSent = 1, !.settled = FALSE]

\* Signed messages, encrypted submessages, payloads signed with a key of their
\* own; and signed submessages.
Signed == [Submessages EXCEPT !.rtps = "GMAC", !.payload = "GMAC", !.leaves = FALSE,
                              !.options = Fragments]
SignedSubmessages == [Submessages EXCEPT !.submessage = "GMAC", !.leaves = FALSE, !.settled = TRUE]

\* Payloads only, two Readers at B and one at D.
Payloads == [Open EXCEPT !.payload = "GCM", !.MaxSent = 1, !.options = Fragments,
                         !.pairs = @ \cup {<<AWriter, <<D, "r1">>>>}, !.peers = @ \cup {<<A, D>>}]

\* Encrypted submessages for two Readers at B.
TwoReaders == [Open EXCEPT !.submessage = "GCM", !.MaxSent = 1, !.settled = FALSE,
                           !.pairs = {<<AWriter, <<B, "r1">>>>, <<AWriter, <<B, "r2">>>>},
                           !.writers = {AWriter}]

\* The topic of the keys.
Volatile == [Messages EXCEPT !.submessage = "GCM", !.leaves = FALSE, !.settled = FALSE, !.pairs = {},
                             !.writers = {<<A, "volatile_w">>}, !.acking = {<<B, "volatile_r">>}]

SomeSituations == {Open, Messages, Submessages, Signed, SignedSubmessages, Payloads,
                   TwoReaders, Volatile}
=============================================================================
