---------------------------- MODULE RtpsMessages ----------------------------
(***************************************************************************)
(* The RTPS submessages of the reliability protocol and the network that   *)
(* carries them (rtps/message.rs, messages/submessages/).                  *)
(*                                                                         *)
(* Each kind of submessage is a set of everything sent so far.  Receiving  *)
(* removes nothing and nobody has to receive: UDP may lose, duplicate,     *)
(* delay and reorder.  A datagram with several submessages (GAP, DATA,     *)
(* HEARTBEAT) is their separate sending: its receiver handles them one     *)
(* after the other, which is one of the orders allowed here.               *)
(***************************************************************************)
EXTENDS SequenceNumber

CONSTANTS
    Readers,   \* the remote Readers, each in a participant of its own
    UNKNOWN,   \* EntityId::UNKNOWN as a destination: any Reader may listen
    Window     \* the span of a NumberSet, 256 in the code

ASSUME ReadersAssumption == UNKNOWN \notin Readers
ASSUME WindowAssumption == Window \in Nat \ {0}

VARIABLES
    data_net,      \* DATA sent:      [to, sn]
    hb_net,        \* HEARTBEAT sent: [to, first_sn, last_sn, count]
    gap_net,       \* GAP sent:       [to, gap_start, base, list]
    acknack_net    \* ACKNACK sent:   [from, base, set]

netVars == <<data_net, hb_net, gap_net, acknack_net>>

Destination == Readers \cup {UNKNOWN}

DataMsg    == [to : Destination, sn : SN]
HbMsg      == [to : Destination, first_sn : 1 .. MaxSN + 1,
               last_sn : 0 .. MaxSN, count : Nat]
GapMsg     == [to : Readers, gap_start : SN, base : 1 .. MaxSN + 1,
               list : SUBSET SN]
AckNackMsg == [from : Readers, base : 1 .. MaxSN + 1, set : SUBSET SN]

NetTypeOK ==
    /\ data_net \subseteq DataMsg
    /\ hb_net \subseteq HbMsg
    /\ gap_net \subseteq GapMsg
    /\ acknack_net \subseteq AckNackMsg

NetInit ==
    /\ data_net = {}
    /\ hb_net = {}
    /\ gap_net = {}
    /\ acknack_net = {}

\* A submessage reaches a Reader when it names it or names nobody.
Reaches(m, r) == m.to = r \/ m.to = UNKNOWN

\* NumberSet::from_base_and_set: members beyond the window are cut off.
from_base_and_set(base, set) == {s \in set : base <= s /\ s < base + Window}

\* gap_msg: the leading run of consecutive numbers as a range, the others as
\* a list.  An empty set produces no submessage.
gap_msg(r, irrelevant_sns) ==
    IF irrelevant_sns = {} THEN {}
    ELSE LET gap_start == First(irrelevant_sns)
             base      == FirstUnknown(irrelevant_sns, gap_start)
         IN  {[to |-> r, gap_start |-> gap_start, base |-> base,
               list |-> from_base_and_set(base, irrelevant_sns)]}

\* Fault: the first number still available is gapped as well.
gap_msg_before_inclusive(r, irrelevant_sns_before) ==
    {[to |-> r, gap_start |-> 1, base |-> irrelevant_sns_before + 1, list |-> {}]}

\* gap_msg_before: the range 1 .. irrelevant_sns_before - 1.
gap_msg_before(r, irrelevant_sns_before) ==
    {[to |-> r, gap_start |-> 1, base |-> irrelevant_sns_before, list |-> {}]}

\* The numbers a GAP declares irrelevant.
GapSet(m) == {s \in SN : (m.gap_start <= s /\ s < m.base) \/ s \in m.list}

=============================================================================
