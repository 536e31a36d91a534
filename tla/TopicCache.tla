----------------------------- MODULE TopicCache -----------------------------
(***************************************************************************)
(* The samples of one topic (structure/dds_cache.rs), shared by the RTPS   *)
(* Readers of a participant that fill it and the DataReaders that empty    *)
(* it.  A cache is a record                                                *)
(*                                                                         *)
(*   changes           timestamp of reception -> [writer, sn]              *)
(*   sequence_numbers  the index <<writer, sn>> -> timestamp               *)
(*   received_reliably_before   Writer -> marker                           *)
(*   max_keep_samples  what garbage collection leaves                      *)
(*                                                                         *)
(* Writers are numbers, in the order of their GUIDs.  Timestamps are       *)
(* unique, as the code assumes (dds_cache.rs:128).  Every caller of        *)
(* remove_changes_before passes Timestamp::ZERO, so min_keep_samples never *)
(* has an effect and is left out, as is the reallocation of buffers.       *)
(***************************************************************************)
EXTENDS SequenceNumber, FiniteSets, Functions

CONSTANTS
    Writers,       \* the remote Writers, in the order of their GUIDs
    GcModulus      \* collect when a multiple of it is added, 64 in the code

ASSUME WritersAssumption == Writers \subseteq Nat
ASSUME GcModulusAssumption == GcModulus \in Nat \ {0}

\* add_new_topic for a topic that is new.  max_keep_samples is the larger of
\* the resource limit and the history depth (update_keep_limits).
NewTopicCache(max_samples, depth) ==
    [changes |-> << >>, sequence_numbers |-> << >>,
     received_reliably_before |-> [w \in Writers |-> 1],
     max_keep_samples |-> IF depth > max_samples THEN depth ELSE max_samples]

\* mark_reliably_received_before: overwrites whatever marker was there.
mark_reliably_received_before(tc, w, sn) ==
    [tc EXCEPT !.received_reliably_before[w] = sn]

\* remove_changes_before(ZERO) keeps the newest max_keep_samples changes, and
\* takes the others out of the index too (remove_sn).
remove_changes_before(tc) ==
    LET retained == {ts \in DOMAIN tc.changes :
                        Cardinality({u \in DOMAIN tc.changes : u >= ts})
                            <= tc.max_keep_samples}
        indexed  == {i \in DOMAIN tc.sequence_numbers :
                        tc.sequence_numbers[i] \in retained}
    IN  [tc EXCEPT !.changes = Restrict(@, retained),
                   !.sequence_numbers = Restrict(@, indexed)]

\* add_change: collect now and then, discard a number that is still stored,
\* else store it and index it.
add_change(tc, ts, w, sn) ==
    LET c == IF sn % GcModulus = 0 THEN remove_changes_before(tc) ELSE tc
        i == <<w, sn>>
    IN  IF i \in DOMAIN c.sequence_numbers THEN c
        ELSE [c EXCEPT
                !.changes = [t \in DOMAIN @ \cup {ts} |->
                    IF t = ts THEN [writer |-> w, sn |-> sn] ELSE @[t]],
                !.sequence_numbers = [j \in DOMAIN @ \cup {i} |->
                    IF j = i THEN ts ELSE @[j]]]

\* get_changes_in_range_best_effort(latest_instant, now): what arrived after
\* the read pointer.
in_range_best_effort(tc, latest_instant) ==
    {ts \in DOMAIN tc.changes : ts > latest_instant}

\* Fault: the marker is not looked at.
in_range_reliable_unmarked(tc, last_read_sn) ==
    {tc.sequence_numbers[i] : i \in {j \in DOMAIN tc.sequence_numbers :
        j[2] > last_read_sn[j[1]]}}

\* get_changes_in_range_reliable: per Writer what lies between its read
\* pointer and its marker.
in_range_reliable(tc, last_read_sn) ==
    {tc.sequence_numbers[i] : i \in {j \in DOMAIN tc.sequence_numbers :
        /\ j[2] > last_read_sn[j[1]]
        /\ j[2] < tc.received_reliably_before[j[1]]}}

\* The first change of the iterators above: by time for best effort, by
\* Writer and number for reliable.
Before(tc, reliable, a, b) ==
    LET x == tc.changes[a]
        y == tc.changes[b]
    IN  IF ~reliable THEN a < b
        ELSE x.writer < y.writer \/ (x.writer = y.writer /\ x.sn < y.sn)

=============================================================================
