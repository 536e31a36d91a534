--------------------------- MODULE SequenceNumber ---------------------------
(***************************************************************************)
(* Sequence numbers (structure/sequence_number.rs): 64-bit counters that   *)
(* start at 1.  MaxSN bounds the numbers an instance writes; the width is  *)
(* out of reach, so no operation here can overflow.                        *)
(***************************************************************************)
EXTENDS Integers

CONSTANT MaxSN     \* bound: the largest sequence number ever written

ASSUME MaxSNAssumption == MaxSN \in Nat \ {0}

\* Sequence numbering starts at 1.
SN == 1 .. MaxSN

\* The first number at or above base that is not among the known ones: the
\* loops of advance_ack_base and of gap_msg walk over consecutive members.
FirstUnknown(known, base) ==
    CHOOSE s \in base .. MaxSN + 1 :
        /\ s \notin known
        /\ \A t \in base .. s - 1 : t \in known

\* The least member of a set of sequence numbers (BTreeSet::first).
First(S) == CHOOSE s \in S : \A t \in S : s <= t

=============================================================================
