--------------------------- MODULE StatefulWriter ---------------------------
(***************************************************************************)
(* The reliable, stateful RTPS Writer of the event loop thread             *)
(* (rtps/writer.rs): history buffer, one proxy per matched Reader, push of *)
(* new samples, HEARTBEATs, repair of what ACKNACKs request, cache         *)
(* cleaning and the single waiter for acknowledgments.  Samples are small  *)
(* enough for one DATA.  push_mode is always true (writer.rs:383).         *)
(***************************************************************************)
EXTENDS RtpsMessages, RtpsReaderProxy

CONSTANTS
    Reliable,    \* the Readers that requested RELIABLE
    Volatile,    \* the Writer's DURABILITY: VOLATILE or TRANSIENT_LOCAL
    Depth,       \* samples handle_cache_cleaning keeps (1, 32 or min(d, 32))
    Targets,     \* destinations the application writes to
    MaxHB,       \* bound: HEARTBEATs an instance sends
    MaxTimers    \* bound: repair timers counted per Reader

ASSUME WriterAssumption ==
    /\ Reliable \subseteq Readers
    /\ Volatile \in BOOLEAN
    /\ Depth \in Nat
    /\ Targets \subseteq Destination
    /\ MaxHB \in Nat
    /\ MaxTimers \in Nat \ {0}

VARIABLES
    history,        \* HistoryBuffer: first_seq, last_seq, the SNs stored
    target,         \* to_single_reader of each stored change, or UNKNOWN
    matched,        \* keys of the map "readers"
    rp,             \* values of the map "readers"
    hb_count,       \* heartbeat_message_counter: the next count
    repair_timers,  \* SendRepairData timers pending, per Reader
    ack_waiter,     \* AckWaiter; None is the one without pending readers
    wait_for,       \* ghost: Readers the current wait began with, less lost
    told,           \* what the application was told is acknowledged by r
    owed            \* ghost: SNs promised to r since it was matched

writerVars == <<history, target, matched, rp, hb_count, repair_timers,
                ack_waiter, wait_for, told, owed>>

NoWaiter == [wait_until |-> 0, readers_pending |-> {}]

HistoryType ==
    [first_seq : SN, last_seq : 0 .. MaxSN, samples : SUBSET SN]

WriterTypeOK ==
    /\ history \in HistoryType
    /\ target \in [SN -> Destination]
    /\ matched \subseteq Readers
    /\ rp \in [Readers -> ReaderProxyType]
    /\ hb_count \in Nat
    /\ repair_timers \in [Readers -> Nat]
    /\ ack_waiter \in [wait_until : 0 .. MaxSN, readers_pending : SUBSET Readers]
    /\ wait_for \subseteq Readers
    /\ told \in [Readers -> 0 .. MaxSN]
    /\ owed \in [Readers -> SUBSET SN]

WriterInit ==
    /\ history = [first_seq |-> 1, last_seq |-> 0, samples |-> {}]
    /\ target = [s \in SN |-> UNKNOWN]
    /\ matched = {}
    /\ rp = [r \in Readers |-> NewReaderProxy]
    /\ hb_count = 1
    /\ repair_timers = [r \in Readers |-> 0]
    /\ ack_waiter = NoWaiter
    /\ wait_for = {}
    /\ told = [r \in Readers |-> 0]
    /\ owed = [r \in Readers |-> {}]

-----------------------------------------------------------------------------
(* HistoryBuffer *)

add_change(h, sn) ==
    [h EXCEPT !.samples = @ \cup {sn}, !.last_seq = IF sn > @ THEN sn ELSE @]

\* Nothing happens unless remove_before is itself stored.
remove_changes_before(h, remove_before) ==
    IF remove_before \in h.samples
    THEN [h EXCEPT !.samples = {s \in @ : s >= remove_before},
                   !.first_seq = remove_before]
    ELSE h

\* Fault: the Reader that is furthest ahead decides.
acked_by_some_reader ==
    IF matched = {} THEN 0
    ELSE CHOOSE a \in {rp[r].all_acked_before : r \in matched} :
            \A r \in matched : rp[r].all_acked_before <= a

\* all_acked_before over all matched Readers, 0 when there are none.
acked_by_all_readers ==
    IF matched = {} THEN 0 ELSE First({rp[r].all_acked_before : r \in matched})

\* What is addressed to r: to everyone, or to r alone.
IsFor(tgt, r) == tgt = UNKNOWN \/ tgt = r

heartbeat_msg(to, h) ==
    [to |-> to, first_sn |-> h.first_seq, last_sn |-> h.last_seq,
     count |-> hb_count]

-----------------------------------------------------------------------------
(* Commands of the DataWriter: process_writer_command *)

\* A new sample for one Reader or for all.  Numbers may be skipped: a timed
\* out asynchronous write never returns the number it took.  The DATA and the
\* HEARTBEAT go to the matched Readers, or to the single target with its
\* pending GAP; a target that is not matched gets nothing.
Write(sn, to) ==
    LET h      == add_change(history, sn)
        sent   == matched # {} /\ (to = UNKNOWN \/ to \in matched)
        pushed == to = UNKNOWN \/ to \in matched   \* a heartbeat is counted
    IN  /\ sn > history.last_seq
        /\ hb_count <= MaxHB
        /\ history' = h
        /\ target' = [target EXCEPT ![sn] = to]
        /\ rp' = [r \in Readers |->
                    IF r \notin matched THEN rp[r]
                    ELSE LET n == notify_new_cache_change(rp[r], sn)
                         IN  IF IsFor(to, r) THEN n
                             ELSE insert_pending_gap(n, sn)]
        /\ hb_count' = IF pushed THEN hb_count + 1 ELSE hb_count
        /\ data_net' = data_net \cup IF sent THEN {[to |-> to, sn |-> sn]} ELSE {}
        /\ hb_net' = hb_net \cup IF sent THEN {heartbeat_msg(to, h)} ELSE {}
        /\ gap_net' = gap_net \cup
               IF sent /\ to # UNKNOWN THEN gap_msg(to, rp[to].pending_gap) ELSE {}
        /\ owed' = [r \in Readers |-> IF r \in matched /\ IsFor(to, r)
                                      THEN owed[r] \cup {sn} ELSE owed[r]]
        /\ UNCHANGED <<matched, repair_timers, ack_waiter, wait_for, told,
                       acknack_net>>

\* Fault: all_acked_before is read as the last acknowledged number.
WaitForAcknowledgmentsOffByOne ==
    LET wait_until == history.last_seq
        pending == {r \in matched \cap Reliable :
                      rp[r].all_acked_before < wait_until}
    IN  /\ pending = {}
        /\ told' = [r \in Readers |-> IF r \in matched \cap Reliable
                                       THEN wait_until ELSE told[r]]
        /\ UNCHANGED <<history, target, matched, rp, hb_count, repair_timers,
                       ack_waiter, wait_for, owed, netVars>>

\* The application waits until everything written so far is acknowledged.
\* A waiter that is still pending is replaced without being notified.
WaitForAcknowledgments ==
    LET wait_until == history.last_seq
        reliable   == matched \cap Reliable
        pending    == {r \in reliable : rp[r].all_acked_before <= wait_until}
    IN  /\ IF pending = {}
           THEN /\ ack_waiter' = NoWaiter
                /\ wait_for' = {}
                /\ told' = [r \in Readers |-> IF r \in reliable
                                              THEN wait_until ELSE told[r]]
           ELSE /\ ack_waiter' = [wait_until |-> wait_until,
                                  readers_pending |-> pending]
                /\ wait_for' = reliable
                /\ UNCHANGED told
        /\ UNCHANGED <<history, target, matched, rp, hb_count, repair_timers,
                       owed, netVars>>

\* update_ack_waiters: r is done when it acknowledged past wait_until or was
\* lost; when no Reader is left the application is notified.  remaining is
\* the set of Readers the notification is about.
update_ack_waiters(r, done, remaining) ==
    LET left == IF done THEN ack_waiter.readers_pending \ {r}
                ELSE ack_waiter.readers_pending
    IN  IF left = {}
        THEN /\ ack_waiter' = NoWaiter
             /\ wait_for' = {}
             /\ told' = [q \in Readers |->
                           IF ack_waiter # NoWaiter /\ q \in remaining
                           THEN ack_waiter.wait_until ELSE told[q]]
        ELSE /\ ack_waiter' = [ack_waiter EXCEPT !.readers_pending = left]
             /\ wait_for' = remaining
             /\ UNCHANGED told

-----------------------------------------------------------------------------
(* Timers: handle_timed_event *)

\* A HEARTBEAT unless every matched Reader acknowledged everything.
HeartbeatTick ==
    /\ hb_count <= MaxHB
    /\ \E r \in matched : history.last_seq >= rp[r].all_acked_before
    /\ hb_net' = hb_net \cup {heartbeat_msg(UNKNOWN, history)}
    /\ hb_count' = hb_count + 1
    /\ UNCHANGED <<history, target, matched, rp, repair_timers, ack_waiter,
                   wait_for, told, owed, data_net, gap_net, acknack_net>>

\* The samples to keep: Depth below what all Readers acknowledged.
first_keeper ==
    LET k == acked_by_all_readers - Depth
    IN  IF k > history.first_seq THEN k ELSE history.first_seq

\* remove_all_acked_changes_but_keep_depth
CacheCleaning ==
    /\ history' = remove_changes_before(history, first_keeper)
    /\ UNCHANGED <<target, matched, rp, hb_count, repair_timers, ack_waiter,
                   wait_for, told, owed, netVars>>

ArmTimer(n) == IF n < MaxTimers THEN n + 1 ELSE n

\* handle_repair_data_send_worker: what is sent to r for its first unsent
\* change, and the proxy afterwards.
RepairStep(r) ==
    LET p      == rp[r]
        sn     == First(p.unsent_changes)
        first  == history.first_seq
        nothing == {}
    IN  CASE p.unsent_changes = {} ->
                 [proxy |-> [p EXCEPT !.repair_mode = FALSE],
                  gaps |-> nothing, data |-> nothing]
          [] p.unsent_changes # {} /\ sn < first ->
                 [proxy |-> mark_change_sent(
                                remove_from_unsent_set_all_before(p, first),
                                p.pending_gap),
                  gaps |-> gap_msg_before(r, first) \cup gap_msg(r, p.pending_gap),
                  data |-> nothing]
          [] p.unsent_changes # {} /\ sn >= first /\ sn \in p.pending_gap ->
                 [proxy |-> mark_change_sent(p, p.pending_gap),
                  gaps |-> gap_msg(r, p.pending_gap), data |-> nothing]
          [] p.unsent_changes # {} /\ sn >= first /\ sn \notin p.pending_gap
             /\ sn \in history.samples ->
                 [proxy |-> mark_change_sent(p, {sn}),
                  gaps |-> IF IsFor(target[sn], r)
                           THEN gap_msg(r, p.pending_gap) ELSE nothing,
                  data |-> IF IsFor(target[sn], r)
                           THEN {[to |-> r, sn |-> sn]} ELSE nothing]
          [] OTHER ->
                 [proxy |-> mark_change_sent(p, {sn}),
                  gaps |-> gap_msg(r, {sn}), data |-> nothing]

\* A SendRepairData timer fires; it is set again while in repair mode.  A
\* timer outlives its Reader and then does nothing.
RepairDataSend(r) ==
    LET step == RepairStep(r)
    IN  /\ repair_timers[r] > 0
        /\ IF r \in matched
           THEN /\ rp' = [rp EXCEPT ![r] = step.proxy]
                /\ gap_net' = gap_net \cup step.gaps
                /\ data_net' = data_net \cup step.data
                /\ repair_timers' = [repair_timers EXCEPT ![r] =
                       IF step.proxy.repair_mode THEN @ ELSE @ - 1]
           ELSE /\ repair_timers' = [repair_timers EXCEPT ![r] = @ - 1]
                /\ UNCHANGED <<rp, gap_net, data_net>>
        /\ UNCHANGED <<history, target, matched, hb_count, ack_waiter, wait_for,
                       told, owed, hb_net, acknack_net>>

-----------------------------------------------------------------------------
(* ACKNACK: handle_ack_nack.  The count of the ACKNACK is not looked at. *)

HandleAckNack(m) ==
    LET r       == m.from
        last    == history.last_seq
        p       == handle_ack_nack(rp[r], m.base, m.set, last)
        repair  == ~(p.all_acked_before > last)
    IN  /\ m \in acknack_net
        /\ update_ack_waiters(r, ack_waiter.wait_until < m.base, wait_for)
        /\ IF r \in matched
           THEN /\ rp' = [rp EXCEPT ![r] = [p EXCEPT !.repair_mode = repair]]
                /\ repair_timers' = [repair_timers EXCEPT ![r] =
                       IF repair THEN ArmTimer(@) ELSE @]
                /\ gap_net' = gap_net \cup gap_msg(r, p.pending_gap)
           ELSE UNCHANGED <<rp, repair_timers, gap_net>>
        /\ UNCHANGED <<history, target, matched, hb_count, owed, data_net,
                       hb_net, acknack_net>>

-----------------------------------------------------------------------------
(* Discovery: readers come and go *)

\* matched_reader_update for a new Reader: a VOLATILE Writer owes it nothing
\* written before.
MatchReader(r) ==
    /\ r \notin matched
    /\ matched' = matched \cup {r}
    /\ rp' = [rp EXCEPT ![r] =
                IF Volatile
                THEN set_pending_gap_up_to(NewReaderProxy, history.last_seq)
                ELSE NewReaderProxy]
    /\ owed' = [owed EXCEPT ![r] =
                  IF Volatile THEN {}
                  ELSE {s \in history.samples : IsFor(target[s], r)}]
    /\ told' = [told EXCEPT ![r] = 0]
    /\ UNCHANGED <<history, target, hb_count, repair_timers, ack_waiter,
                   wait_for, netVars>>

\* reader_lost: its proxy goes, and no wait depends on it any more.
ReaderLost(r) ==
    /\ r \in matched
    /\ matched' = matched \ {r}
    /\ rp' = [rp EXCEPT ![r] = NewReaderProxy]
    /\ owed' = [owed EXCEPT ![r] = {}]
    /\ update_ack_waiters(r, TRUE, wait_for \ {r})
    /\ UNCHANGED <<history, target, hb_count, repair_timers, netVars>>

=============================================================================
