------------------------ MODULE WriterProxyTracking ------------------------
(***************************************************************************)
(* One RtpsWriterProxy driven by any remote Writer: every operation with   *)
(* every argument in range, in any order, duplicates and contradictions    *)
(* included.  The ghost sets say what the Reader was told, in the four     *)
(* per-number states of the comment at rtps_writer_proxy.rs:40-60.         *)
(***************************************************************************)
EXTENDS RtpsWriterProxy

VARIABLES
    tracked,        \* the proxy
    received,       \* ghost: numbers accepted as DATA
    not_available   \* ghost: numbers declared unavailable by GAP or HEARTBEAT

trackingVars == <<tracked, received, not_available>>

TrackingTypeOK ==
    /\ tracked \in WriterProxyType
    /\ received \subseteq SN
    /\ not_available \subseteq SN

TrackingInit ==
    /\ tracked = NewWriterProxy
    /\ received = {}
    /\ not_available = {}

TrackData(sn) ==
    /\ ~should_ignore_change(tracked, sn)
    /\ tracked' = received_changes_add(tracked, sn)
    /\ received' = received \cup {sn}
    /\ UNCHANGED not_available

\* A GAP: the range gap_start .. base-1 and the listed numbers (all >= base).
TrackGap(gap_start, base, list) ==
    /\ tracked' = set_irrelevant_changes(
                      irrelevant_changes_range(tracked, gap_start, base), list)
    /\ not_available' = not_available \cup (gap_start .. base - 1) \cup list
    /\ UNCHANGED received

\* A HEARTBEAT's first_sn.
TrackHeartbeat(first_sn) ==
    /\ tracked' = irrelevant_changes_up_to(tracked, first_sn)
    /\ not_available' = not_available \cup (1 .. first_sn - 1)
    /\ UNCHANGED received

TrackingNext ==
    \/ \E sn \in SN : TrackData(sn)
    \/ \E gap_start \in SN, base \in SN \cup {MaxSN + 1}, list \in SUBSET SN :
          (\A s \in list : s >= base) /\ TrackGap(gap_start, base, list)
    \/ \E first_sn \in 1 .. MaxSN + 1 : TrackHeartbeat(first_sn)

TrackingSpec == TrackingInit /\ [][TrackingNext]_trackingVars

\* The numbers accounted for, one way or the other.
Resolved == received \cup not_available

\* ack_base is exact (comment at rtps_writer_proxy.rs:58-60, 100-103): every
\* number below it was received or declared not available, and it is itself
\* unresolved, so an ACKNACK with that base claims all the Reader may claim
\* and nothing more.
AckBaseExact ==
    /\ \A s \in SN : s < tracked.ack_base => s \in Resolved
    /\ tracked.ack_base \notin Resolved

\* The proxy forgets no resolved number and invents none, although it prunes
\* "changes": the numbers it refuses (should_ignore_change) are exactly the
\* resolved ones, so nothing is requested twice or never.
KnownIsResolved == Known(tracked) = Resolved

\* The closed form of handle_gap_msg's loop (reader.rs:1112-1119) agrees with
\* the loop in every reachable proxy, which it would not if set_irrelevant_change
\* left ack_base on a number that is known.
GapListLoop ==
    \A list \in SUBSET SN :
        gap_list_loop(tracked, list) = set_irrelevant_changes(tracked, list)

\* ack_base never moves backwards, whatever order messages arrive in.
AckBaseMonotone == [][tracked'.ack_base >= tracked.ack_base]_trackingVars

=============================================================================
