-------------------------- MODULE RtpsReaderProxy --------------------------
(***************************************************************************)
(* What an RTPS Writer remembers of one matched Reader                     *)
(* (rtps/rtps_reader_proxy.rs), without the locators and the fragment      *)
(* requests.                                                               *)
(***************************************************************************)
EXTENDS SequenceNumber

ReaderProxyType ==
    [all_acked_before : 0 .. MaxSN + 1,  \* acknowledged: everything below
     unsent_changes   : SUBSET SN,       \* to be sent (or sent again)
     pending_gap      : SUBSET SN,       \* to be declared irrelevant
     repair_mode      : BOOLEAN]         \* repair timer keeps running

NewReaderProxy ==
    [all_acked_before |-> 0, unsent_changes |-> {}, pending_gap |-> {},
     repair_mode |-> FALSE]

\* Fault: base itself counts as acknowledged.
handle_ack_nack_inclusive(rp, base, set, last_available) ==
    [rp EXCEPT !.all_acked_before = IF base <= MaxSN THEN base + 1 ELSE base,
               !.unsent_changes = {s \in @ \cup set : s <= last_available}]

\* An ACKNACK: everything below base is acknowledged, the members of set are
\* requested.  The base replaces the old bound even when it is smaller, and
\* requests beyond the last written number are dropped.
handle_ack_nack(rp, base, set, last_available) ==
    [rp EXCEPT
        !.all_acked_before = base,
        !.unsent_changes   = {s \in {u \in @ : u >= base} \cup set :
                                s <= last_available},
        !.pending_gap      = {s \in @ : s >= base}]

\* Fault: the number after the last one is gapped too.
set_pending_gap_past_last(rp, last_gap_sn) ==
    [rp EXCEPT !.pending_gap = @ \cup (1 .. last_gap_sn + 1)]

set_pending_gap_up_to(rp, last_gap_sn) ==
    [rp EXCEPT !.pending_gap = @ \cup (1 .. last_gap_sn)]

insert_pending_gap(rp, sn) == [rp EXCEPT !.pending_gap = @ \cup {sn}]

notify_new_cache_change(rp, sn) == [rp EXCEPT !.unsent_changes = @ \cup {sn}]

mark_change_sent(rp, sns) == [rp EXCEPT !.unsent_changes = @ \ sns]

remove_from_unsent_set_all_before(rp, before_seq_num) ==
    [rp EXCEPT !.unsent_changes = {s \in @ : s >= before_seq_num}]

=============================================================================
