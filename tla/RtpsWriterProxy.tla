-------------------------- MODULE RtpsWriterProxy --------------------------
(***************************************************************************)
(* What an RTPS Reader remembers of one matched remote Writer              *)
(* (rtps/rtps_writer_proxy.rs).  The proxy is a record                     *)
(*                                                                         *)
(*   changes    the keys of the BTreeMap "changes".  The map's values      *)
(*              (reception time, or None for not_available) are never read *)
(*              back, so the set of keys is all that behaviour depends on; *)
(*   ack_base   everything below it may be acknowledged;                   *)
(*   received_heartbeat_count   the newest HEARTBEAT processed.            *)
(*                                                                         *)
(* sent_ack_nack_count is left out: it only numbers outgoing ACKNACKs, and *)
(* no Writer of this code base reads that number.                          *)
(***************************************************************************)
EXTENDS SequenceNumber

WriterProxyType ==
    [changes : SUBSET SN, ack_base : 1 .. MaxSN + 1,
     received_heartbeat_count : Nat]

\* RtpsWriterProxy::new: numbers below 1 can be acknowledged from the start.
NewWriterProxy ==
    [changes |-> {}, ack_base |-> 1, received_heartbeat_count |-> 0]

\* Fault for mutation testing: ack_base runs one past the known numbers.
advance_ack_base_past(wp) ==
    [wp EXCEPT !.ack_base = FirstUnknown(wp.changes, @) + 1]

\* Skip over the consecutive known numbers from ack_base on.
advance_ack_base(wp) ==
    [wp EXCEPT !.ack_base = FirstUnknown(wp.changes, @)]

\* The SNs of a HEARTBEAT's range that are neither received nor not_available.
missing_seqnums(wp, hb_first_sn, hb_last_sn) ==
    {s \in hb_first_sn .. hb_last_sn : s >= wp.ack_base /\ s \notin wp.changes}

should_ignore_change(wp, sn) == sn < wp.ack_base \/ sn \in wp.changes

\* Fault: ack_base is left behind.
received_changes_add_stuck(wp, sn) == [wp EXCEPT !.changes = @ \cup {sn}]

received_changes_add(wp, sn) ==
    LET added == [wp EXCEPT !.changes = @ \cup {sn}]
    IN  IF sn = wp.ack_base THEN advance_ack_base(added) ELSE added

\* Fault: ack_base stays on a number that is now known.
set_irrelevant_change_stuck(wp, sn) ==
    IF sn >= wp.ack_base THEN [wp EXCEPT !.changes = @ \cup {sn}] ELSE wp

\* One not_available number out of a GAP's list.
set_irrelevant_change(wp, sn) ==
    LET marked == IF sn >= wp.ack_base
                  THEN [wp EXCEPT !.changes = @ \cup {sn}] ELSE wp
    IN  IF sn = wp.ack_base THEN advance_ack_base(marked) ELSE marked

\* handle_gap_msg's loop over a GAP's list: NumberSetIter walks over the bits
\* in ascending order, and set_irrelevant_change is called for those set.
gap_list_loop(wp, list) ==
    LET walk[n \in 0 .. MaxSN] ==
            IF n = 0 THEN wp
            ELSE IF n \in list THEN set_irrelevant_change(walk[n - 1], n)
            ELSE walk[n - 1]
    IN  walk[MaxSN]

\* Its closed form (GapListLoop of WriterProxyTracking).
set_irrelevant_changes(wp, list) ==
    advance_ack_base(
        [wp EXCEPT !.changes = @ \cup {s \in list : s >= wp.ack_base}])

\* Fault: the end of the range is taken as inclusive.
irrelevant_changes_range_inclusive(wp, remove_from, remove_until_before) ==
    LET range == remove_from .. remove_until_before
    IN  IF remove_from <= wp.ack_base
        THEN advance_ack_base([wp EXCEPT !.changes = @ \cup (range \cap SN)])
        ELSE [wp EXCEPT !.changes = @ \cup (range \cap SN)]

\* Fault: ack_base is moved without asking whether that is forward.
irrelevant_changes_range_unguarded(wp, remove_from, remove_until_before) ==
    IF remove_from <= wp.ack_base /\ remove_from <= remove_until_before
    THEN advance_ack_base([wp EXCEPT !.ack_base = remove_until_before])
    ELSE wp

\* The numbers remove_from .. remove_until_before - 1 will never be available.
irrelevant_changes_range(wp, remove_from, remove_until_before) ==
    LET range   == remove_from .. remove_until_before - 1
        cleared == [wp EXCEPT !.changes = @ \ range]
    IN  CASE remove_from > remove_until_before -> wp
          [] /\ remove_from <= remove_until_before
             /\ remove_from <= wp.ack_base ->
                 IF remove_until_before > wp.ack_base
                 THEN advance_ack_base(
                          [cleared EXCEPT !.ack_base = remove_until_before])
                 ELSE cleared
          [] OTHER -> [wp EXCEPT !.changes = @ \cup range]

\* A HEARTBEAT's first_sn: nothing below it is available any more.
irrelevant_changes_up_to(wp, smallest_seqnum) ==
    irrelevant_changes_range(wp, 0, smallest_seqnum)

\* The numbers the Reader will never ask for again.
Known(wp) == {s \in SN : should_ignore_change(wp, s)}

\* The proxy's own invariant: the next number to acknowledge is unknown.
Consistent(wp) == wp \in WriterProxyType /\ wp.ack_base \notin wp.changes

=============================================================================
