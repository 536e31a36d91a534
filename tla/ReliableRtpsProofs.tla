------------------------- MODULE ReliableRtpsProofs -------------------------
(***************************************************************************)
(* The safety of ReliableRtps for any number of Readers, any bounds and    *)
(* both durabilities: IInv of ReliableRtps is inductive and                *)
(* implies the invariants that the runs check.                             *)
(***************************************************************************)
EXTENDS ReliableRtps, WriterProxyProofs

-----------------------------------------------------------------------------
(* Operators *)

\* First finds the least member of a non-empty set of naturals.
LEMMA FirstIsLeast ==
    ASSUME NEW S \in SUBSET Nat, S # {}
    PROVE  First(S) \in S /\ \A t \in S : First(S) <= t
<1>1. PICK m \in S : \A n \in S : m <= n  BY LeastNatural
<1> QED  BY <1>1 DEF First

\* gap_msg declares nothing irrelevant that it was not asked to.
LEMMA GapMsgSound ==
    ASSUME NEW r \in Readers, NEW S \in SUBSET SN
    PROVE  /\ gap_msg(r, S) \subseteq GapMsg
           /\ \A m \in gap_msg(r, S) : m.to = r /\ GapSet(m) \subseteq S
<1>1. CASE S = {}  BY <1>1 DEF gap_msg
<1>2. CASE S # {}
      <2> DEFINE start == First(S)
                 base  == FirstUnknown(S, start)
                 list  == from_base_and_set(base, S)
                 m     == [to |-> r, gap_start |-> start, base |-> base, list |-> list]
      <2>1. S \in SUBSET Nat  BY MaxSNAssumption DEF SN
      <2>2. start \in S  BY <1>2, <2>1, FirstIsLeast
      <2>3. gap_msg(r, S) = {m}  BY <1>2 DEF gap_msg
      <2> HIDE DEF start
      <2>4. start \in SN /\ start \in 1 .. MaxSN + 1
            BY <2>2, MaxSNAssumption DEF SN
      <2>5. base \in start .. MaxSN + 1 /\ \A t \in start .. base - 1 : t \in S
            BY <2>4, FirstUnknownIsFirst
      <2> HIDE DEF base
      <2>6. list \subseteq S  BY DEF from_base_and_set
      <2> HIDE DEF list
      <2>7. base \in 1 .. MaxSN + 1  BY <2>4, <2>5, MaxSNAssumption DEF SN
      <2>8. m \in GapMsg  BY <2>4, <2>6, <2>7 DEF GapMsg
      <2>9. ASSUME NEW s \in GapSet(m) PROVE s \in S
            BY <2>4, <2>5, <2>6, MaxSNAssumption DEF GapSet, SN
      <2> QED  BY <2>3, <2>8, <2>9
<1> QED  BY <1>1, <1>2

\* gap_msg_before declares irrelevant what is below the given number.
LEMMA GapMsgBeforeSound ==
    ASSUME NEW r \in Readers, NEW n \in SN
    PROVE  /\ gap_msg_before(r, n) \subseteq GapMsg
           /\ \A m \in gap_msg_before(r, n) :
                 m.to = r /\ \A s \in GapSet(m) : s \in SN /\ s < n
BY MaxSNAssumption DEF gap_msg_before, GapMsg, GapSet, SN

\* The numbers due to a Reader, before and after a step.
LEMMA DueMembership ==
    ASSUME NEW r, NEW s
    PROVE  /\ s \in Due(r) <=> \/ s \in owed[r]
                               \/ /\ ~Volatile
                                  /\ s \in history.samples
                                  /\ IsFor(target[s], r)
           /\ (s \in Due(r))' <=> \/ s \in owed'[r]
                                  \/ /\ ~Volatile
                                     /\ s \in history'.samples
                                     /\ IsFor(target'[s], r)
BY WriterAssumption DEF Due, IsFor

\* An ACKNACK sets the bound and leaves nothing unsent that was not written.
LEMMA HandleAckNackOp ==
    ASSUME NEW p \in ReaderProxyType, NEW base \in 1 .. MaxSN + 1,
           NEW set \in SUBSET SN, NEW n \in 0 .. MaxSN
    PROVE  LET q == handle_ack_nack(p, base, set, n)
           IN  /\ q \in ReaderProxyType
               /\ q.all_acked_before = base
               /\ \A s \in q.unsent_changes : s <= n
               /\ q.pending_gap \subseteq p.pending_gap
<1> DEFINE u == {s \in {v \in p.unsent_changes : v >= base} \cup set : s <= n}
           g == {s \in p.pending_gap : s >= base}
<1>1. p.unsent_changes \in SUBSET SN /\ p.pending_gap \in SUBSET SN
      BY DEF ReaderProxyType
<1>2. u \in SUBSET SN /\ \A s \in u : s <= n  BY <1>1
<1>3. g \in SUBSET SN /\ g \subseteq p.pending_gap  BY <1>1
<1>4. handle_ack_nack(p, base, set, n) =
          [p EXCEPT !.all_acked_before = base, !.unsent_changes = u, !.pending_gap = g]
      BY DEF handle_ack_nack
<1> HIDE DEF u, g
<1>5. base \in 0 .. MaxSN + 1  BY MaxSNAssumption
<1> DEFINE q == handle_ack_nack(p, base, set, n)
<1>6. q.all_acked_before = base /\ q.unsent_changes = u /\ q.pending_gap = g
      BY <1>4 DEF ReaderProxyType
<1>7. q \in ReaderProxyType
      BY <1>2, <1>3, <1>4, <1>5 DEF ReaderProxyType
<1> QED  BY <1>2, <1>3, <1>6, <1>7

\* A new sample becomes unsent, and pending GAP unless the Reader is meant.
LEMMA NewChangeOps ==
    ASSUME NEW p \in ReaderProxyType, NEW sn \in SN
    PROVE  /\ LET q == insert_pending_gap(p, sn)
              IN  /\ q \in ReaderProxyType
                  /\ q.all_acked_before = p.all_acked_before
                  /\ q.unsent_changes = p.unsent_changes
                  /\ q.pending_gap = p.pending_gap \cup {sn}
           /\ LET q == notify_new_cache_change(p, sn)
              IN  /\ q \in ReaderProxyType
                  /\ q.all_acked_before = p.all_acked_before
                  /\ q.unsent_changes = p.unsent_changes \cup {sn}
                  /\ q.pending_gap = p.pending_gap
BY DEF insert_pending_gap, notify_new_cache_change, ReaderProxyType

\* A new Reader of a VOLATILE Writer is pending GAP for all that was written.
LEMMA PendingGapUpTo ==
    ASSUME NEW p \in ReaderProxyType, NEW n \in 0 .. MaxSN
    PROVE  LET q == set_pending_gap_up_to(p, n)
           IN  /\ q \in ReaderProxyType
               /\ q.all_acked_before = p.all_acked_before
               /\ q.unsent_changes = p.unsent_changes
               /\ q.pending_gap = p.pending_gap \cup (1 .. n)
<1>1. 1 .. n \in SUBSET SN  BY MaxSNAssumption DEF SN
<1> QED  BY <1>1 DEF set_pending_gap_up_to, ReaderProxyType

\* Marking as sent only removes unsent changes.
LEMMA MarkSent ==
    ASSUME NEW p \in ReaderProxyType, NEW sns
    PROVE  LET q == mark_change_sent(p, sns)
           IN  /\ q \in ReaderProxyType
               /\ q.all_acked_before = p.all_acked_before
               /\ q.unsent_changes \subseteq p.unsent_changes
               /\ q.pending_gap = p.pending_gap
BY DEF mark_change_sent, ReaderProxyType

\* So does dropping everything below the history.
LEMMA RemoveFromUnsent ==
    ASSUME NEW p \in ReaderProxyType, NEW n
    PROVE  LET q == remove_from_unsent_set_all_before(p, n)
           IN  /\ q \in ReaderProxyType
               /\ q.all_acked_before = p.all_acked_before
               /\ q.unsent_changes \subseteq p.unsent_changes
               /\ q.pending_gap = p.pending_gap
<1> DEFINE u == {s \in p.unsent_changes : s >= n}
<1>1. u \in SUBSET SN /\ u \subseteq p.unsent_changes  BY DEF ReaderProxyType
<1>2. remove_from_unsent_set_all_before(p, n) = [p EXCEPT !.unsent_changes = u]
      BY DEF remove_from_unsent_set_all_before
<1> HIDE DEF u
<1> QED  BY <1>1, <1>2 DEF ReaderProxyType

\* A repair step only forgets what it sends, sends only stored samples, and
\* gaps only what is pending, below the history or missing from it.
LEMMA RepairStepSound ==
    ASSUME NEW r \in Readers, rp[r] \in ReaderProxyType, history \in HistoryType
    PROVE  LET st == RepairStep(r)
           IN  /\ st.proxy \in ReaderProxyType
               /\ st.proxy.all_acked_before = rp[r].all_acked_before
               /\ st.proxy.pending_gap = rp[r].pending_gap
               /\ st.proxy.unsent_changes \subseteq rp[r].unsent_changes
               /\ st.data \subseteq DataMsg
               /\ \A m \in st.data : m.sn \in history.samples
               /\ st.gaps \subseteq GapMsg
               /\ \A m \in st.gaps :
                     /\ m.to = r
                     /\ \A s \in GapSet(m) :
                           \/ s \in rp[r].pending_gap
                           \/ s \in SN /\ s < history.first_seq
                           \/ s \in rp[r].unsent_changes \ history.samples
<1> DEFINE p     == rp[r]
           sn    == First(p.unsent_changes)
           first == history.first_seq
<1>1. /\ p.unsent_changes \in SUBSET SN
      /\ p.pending_gap \in SUBSET SN
      /\ first \in SN
      BY DEF ReaderProxyType, HistoryType
<1>2. p.unsent_changes # {} => sn \in p.unsent_changes
      BY <1>1, FirstIsLeast, MaxSNAssumption DEF SN
<1>3. CASE p.unsent_changes = {}
      <2> DEFINE q == [p EXCEPT !.repair_mode = FALSE]
      <2>1. RepairStep(r) = [proxy |-> q, gaps |-> {}, data |-> {}]
            BY <1>3 DEF RepairStep
      <2>2. q \in ReaderProxyType  BY DEF ReaderProxyType
      <2> QED  BY <2>1, <2>2 DEF ReaderProxyType
<1>4. CASE p.unsent_changes # {} /\ sn < first
      <2> DEFINE a == remove_from_unsent_set_all_before(p, first)
                 q == mark_change_sent(a, p.pending_gap)
                 g == gap_msg_before(r, first) \cup gap_msg(r, p.pending_gap)
      <2>1. RepairStep(r) = [proxy |-> q, gaps |-> g, data |-> {}]
            BY <1>1, <1>2, <1>4, MaxSNAssumption DEF RepairStep, SN
      <2>2. /\ a \in ReaderProxyType
            /\ a.all_acked_before = p.all_acked_before
            /\ a.unsent_changes \subseteq p.unsent_changes
            /\ a.pending_gap = p.pending_gap
            BY RemoveFromUnsent
      <2> HIDE DEF a
      <2>3. /\ q \in ReaderProxyType
            /\ q.all_acked_before = a.all_acked_before
            /\ q.unsent_changes \subseteq a.unsent_changes
            /\ q.pending_gap = a.pending_gap
            BY <2>2, MarkSent
      <2> HIDE DEF q
      <2>4. g \subseteq GapMsg
            BY <1>1, GapMsgSound, GapMsgBeforeSound
      <2>5. ASSUME NEW m \in g
            PROVE  /\ m.to = r
                   /\ \A s \in GapSet(m) :
                         s \in p.pending_gap \/ (s \in SN /\ s < first)
            <3>1. CASE m \in gap_msg_before(r, first)
                  BY <1>1, <3>1, GapMsgBeforeSound
            <3>2. CASE m \in gap_msg(r, p.pending_gap)
                  BY <1>1, <3>2, GapMsgSound
            <3> QED  BY <3>1, <3>2
      <2> HIDE DEF g
      <2> QED  BY <2>1, <2>2, <2>3, <2>4, <2>5
<1> DEFINE Marked(sns) == mark_change_sent(p, sns)
<1>5. ASSUME NEW sns
      PROVE  /\ Marked(sns) \in ReaderProxyType
             /\ Marked(sns).all_acked_before = p.all_acked_before
             /\ Marked(sns).unsent_changes \subseteq p.unsent_changes
             /\ Marked(sns).pending_gap = p.pending_gap
      BY MarkSent
<1>6. CASE p.unsent_changes # {} /\ sn >= first /\ sn \in p.pending_gap
      <2>1. RepairStep(r) = [proxy |-> Marked(p.pending_gap),
                             gaps |-> gap_msg(r, p.pending_gap), data |-> {}]
            BY <1>1, <1>2, <1>6, MaxSNAssumption DEF RepairStep, SN
      <2> HIDE DEF Marked
      <2> QED  BY <1>1, <1>5, <2>1, GapMsgSound
<1>7. CASE /\ p.unsent_changes # {} /\ sn >= first /\ sn \notin p.pending_gap
           /\ sn \in history.samples
      <2> DEFINE for == IsFor(target[sn], r)
                 g   == IF for THEN gap_msg(r, p.pending_gap) ELSE {}
                 d   == IF for THEN {[to |-> r, sn |-> sn]} ELSE {}
      <2>1. RepairStep(r) = [proxy |-> Marked({sn}), gaps |-> g, data |-> d]
            BY <1>1, <1>2, <1>7, MaxSNAssumption DEF RepairStep, SN
      <2>2. sn \in SN  BY <1>1, <1>2, <1>7
      <2> HIDE DEF Marked, sn
      <2>3. d \subseteq DataMsg /\ \A m \in d : m.sn \in history.samples
            BY <1>7, <2>2 DEF DataMsg, Destination
      <2>4. g \subseteq GapMsg /\ \A m \in g : m.to = r /\ GapSet(m) \subseteq p.pending_gap
            BY <1>1, GapMsgSound
      <2> HIDE DEF g, d
      <2> QED  BY <1>5, <2>1, <2>2, <2>3, <2>4
<1>8. CASE /\ p.unsent_changes # {} /\ sn >= first /\ sn \notin p.pending_gap
           /\ sn \notin history.samples
      <2>1. RepairStep(r) = [proxy |-> Marked({sn}), gaps |-> gap_msg(r, {sn}),
                             data |-> {}]
            BY <1>1, <1>2, <1>8, MaxSNAssumption DEF RepairStep, SN
      <2>2. sn \in p.unsent_changes /\ {sn} \in SUBSET SN  BY <1>1, <1>2, <1>8
      <2> HIDE DEF Marked, sn
      <2>3. gap_msg(r, {sn}) \subseteq GapMsg
            /\ \A m \in gap_msg(r, {sn}) : m.to = r /\ GapSet(m) \subseteq {sn}
            BY <2>2, GapMsgSound
      <2> QED  BY <1>5, <1>8, <2>1, <2>2, <2>3
<1> QED  BY <1>1, <1>2, <1>3, <1>4, <1>6, <1>7, <1>8, MaxSNAssumption DEF SN

-----------------------------------------------------------------------------
(* Types *)

\* The initial state has the right type.
LEMMA TypeInit == Init => TypeOK
<1> SUFFICES ASSUME Init PROVE TypeOK  OBVIOUS
<1> USE MaxSNAssumption DEF Init
<1>1. NetTypeOK  BY DEF NetInit, NetTypeOK
<1>2. NewReaderProxy \in ReaderProxyType /\ NewWriterProxy \in WriterProxyType
      BY DEF NewReaderProxy, ReaderProxyType, NewWriterProxy, WriterProxyType
<1>3. WriterTypeOK
      BY <1>2 DEF WriterInit, WriterTypeOK, HistoryType, SN, Destination, NoWaiter
<1>4. ReaderTypeOK  BY <1>2 DEF ReaderInit, ReaderTypeOK
<1> QED  BY <1>1, <1>3, <1>4 DEF TypeOK

-----------------------------------------------------------------------------
(***************************************************************************)
(* A step is stable when no number written before it becomes due and no    *)
(* cached sample is forgotten.  Every step is; what a stable step leaves   *)
(* alone keeps its part of the invariant.                                  *)
(***************************************************************************)
Stable ==
    /\ history'.last_seq >= history.last_seq
    /\ \A r \in Readers, s \in SN :
          s <= history.last_seq =>
              /\ (s \in Due(r))' => s \in Due(r)
              /\ s \in cache[r] => s \in cache'[r]

\* Settled numbers stay settled.
LEMMA SettledStable ==
    ASSUME TypeOK, TypeOK', Stable, NEW r \in Readers, NEW s \in SN, Settled(r, s)
    PROVE  Settled(r, s)'
<1>1. history.last_seq \in Int /\ history'.last_seq \in Int /\ s \in Int
      BY MaxSNAssumption DEF TypeOK, WriterTypeOK, HistoryType, SN
<1>2. (s \in Due(r))' => s \in cache'[r]  BY DEF Stable, Settled
<1> QED  BY <1>1, <1>2 DEF Stable, Settled

\* So do initial segments.
LEMMA SettledUpToStable ==
    ASSUME TypeOK, TypeOK', Stable, NEW r \in Readers, NEW n \in Int, n <= MaxSN,
           SettledUpTo(r, n)
    PROVE  SettledUpTo(r, n)'
<1> SUFFICES ASSUME NEW s \in 1 .. n PROVE Settled(r, s)'  BY DEF SettledUpTo
<1>1. s \in SN  BY MaxSNAssumption DEF SN
<1> QED  BY <1>1, SettledStable DEF SettledUpTo

\* Proxies that do not change keep their invariant.
LEMMA KeepReaderProxyInv ==
    ASSUME IInv, TypeOK', Stable, NEW r \in Readers, rp'[r] = rp[r]
    PROVE  /\ SettledUpTo(r, rp[r].all_acked_before - 1)'
           /\ \A s \in rp'[r].unsent_changes : s <= history'.last_seq
           /\ \A s \in rp'[r].pending_gap : Settled(r, s)'
<1>1. /\ rp[r] \in ReaderProxyType
      /\ history.last_seq \in 0 .. MaxSN /\ history'.last_seq \in 0 .. MaxSN
      BY DEF IInv, TypeOK, WriterTypeOK, HistoryType
<1>2. SettledUpTo(r, rp[r].all_acked_before - 1)  BY DEF IInv, ReaderProxyInv
<1> DEFINE n == rp[r].all_acked_before - 1
<1>3. n \in Int /\ n <= MaxSN  BY <1>1, MaxSNAssumption DEF ReaderProxyType
<1>4. n' = n  OBVIOUS
<1> HIDE DEF n
<1>5. SettledUpTo(r, n)  BY <1>2 DEF n
<1>6. \A s \in 1 .. n : Settled(r, s)'
      <2> TAKE s \in 1 .. n
      <2>1. s \in SN  BY <1>3, MaxSNAssumption DEF SN
      <2> QED  BY <1>5, <2>1, SettledStable DEF SettledUpTo, IInv
<1>7. SettledUpTo(r, n)'  BY <1>4, <1>6 DEF SettledUpTo
<1>8. \A s \in rp[r].unsent_changes : s <= history'.last_seq
      BY <1>1, MaxSNAssumption DEF IInv, ReaderProxyInv, ReaderProxyType, Stable, SN
<1>9. \A s \in rp[r].pending_gap : Settled(r, s)'
      BY <1>1, SettledStable DEF IInv, ReaderProxyInv, ReaderProxyType
<1> QED  BY <1>7, <1>8, <1>9 DEF n

\* So does a wait that is not touched.
LEMMA KeepWaitInv ==
    ASSUME IInv, TypeOK', Stable, UNCHANGED <<ack_waiter, wait_for, told>>
    PROVE  WaitInv'
<1>1. /\ ack_waiter.wait_until \in 0 .. MaxSN
      /\ wait_for \subseteq Readers
      /\ told \in [Readers -> 0 .. MaxSN]
      /\ history.last_seq \in 0 .. MaxSN /\ history'.last_seq \in 0 .. MaxSN
      BY DEF IInv, TypeOK, WriterTypeOK, HistoryType
<1>2. ack_waiter.wait_until <= history'.last_seq
      BY <1>1, MaxSNAssumption DEF IInv, WaitInv, Stable
<1>3. ASSUME NEW r \in wait_for \ ack_waiter.readers_pending
      PROVE  SettledUpTo(r, ack_waiter.wait_until)'
      <2> DEFINE n == ack_waiter.wait_until
      <2>1. ASSUME NEW s \in 1 .. n PROVE Settled(r, s)'
            <3>1. r \in Readers /\ s \in SN  BY <1>1, MaxSNAssumption DEF SN
            <3>2. Settled(r, s)  BY DEF IInv, WaitInv, SettledUpTo
            <3> QED  BY <3>1, <3>2, SettledStable DEF IInv
      <2> QED  BY <2>1 DEF SettledUpTo
<1>4. ASSUME NEW r \in Readers PROVE SettledUpTo(r, told[r])'
      <2>1. ASSUME NEW s \in 1 .. told[r] PROVE Settled(r, s)'
            <3>1. s \in SN  BY <1>1, MaxSNAssumption DEF SN
            <3>2. Settled(r, s)  BY DEF IInv, WaitInv, SettledUpTo
            <3> QED  BY <3>1, <3>2, SettledStable DEF IInv
      <2> QED  BY <2>1 DEF SettledUpTo
<1> QED  BY <1>2, <1>3, <1>4 DEF WaitInv

\* So does a Reader's marker.
LEMMA KeepMarker ==
    ASSUME IInv, TypeOK', Stable, NEW r \in Readers, marker'[r] = marker[r]
    PROVE  SettledUpTo(r, marker[r] - 1)'
<1>1. ASSUME NEW s \in 1 .. marker[r] - 1 PROVE Settled(r, s)'
      <2>1. s \in SN  BY MaxSNAssumption DEF IInv, TypeOK, ReaderTypeOK, SN
      <2>2. Settled(r, s)  BY DEF IInv, WriterProxyInv, SettledUpTo
      <2> QED  BY <2>1, <2>2, SettledStable DEF IInv
<1> QED  BY <1>1 DEF SettledUpTo

\* So does its DataReader.
LEMMA KeepLastRead ==
    ASSUME IInv, TypeOK', Stable, NEW r \in Readers,
           last_read'[r] = last_read[r], taken'[r] = taken[r]
    PROVE  /\ last_read'[r] <= history'.last_seq
           /\ \A s \in Due(r)' : s <= last_read'[r] => s \in taken'[r]
<1>1. /\ last_read[r] \in 0 .. MaxSN
      /\ history.last_seq \in 0 .. MaxSN /\ history'.last_seq \in 0 .. MaxSN
      /\ last_read[r] <= history.last_seq
      BY DEF IInv, TypeOK, WriterTypeOK, HistoryType, ReaderTypeOK, WriterProxyInv
<1>2. last_read'[r] <= history'.last_seq  BY <1>1, MaxSNAssumption DEF Stable
<1>3. ASSUME NEW s, (s \in Due(r))', s <= last_read[r] PROVE s \in taken[r]
      <2>1. s \in SN
            BY <1>3, DueMembership DEF TypeOK, WriterTypeOK, HistoryType
      <2>2. s <= history.last_seq  BY <1>1, <1>3, <2>1, MaxSNAssumption DEF SN
      <2>3. s \in Due(r)  BY <1>3, <2>1, <2>2 DEF Stable
      <2> QED  BY <1>3, <2>3 DEF IInv, WriterProxyInv
<1> QED  BY <1>2, <1>3

\* So does a Reader of which nothing changes.
LEMMA KeepWriterProxyInv ==
    ASSUME IInv, TypeOK', Stable, NEW r \in Readers, wp'[r] = wp[r],
           marker'[r] = marker[r], last_read'[r] = last_read[r],
           taken'[r] = taken[r]
    PROVE  /\ Consistent(wp'[r])
           /\ \A s \in Known(wp'[r]) : Settled(r, s)'
           /\ SettledUpTo(r, marker[r] - 1)'
           /\ last_read'[r] <= history'.last_seq
           /\ \A s \in Due(r)' : s <= last_read'[r] => s \in taken'[r]
<1>1. \A s \in Known(wp[r]) : s \in SN /\ Settled(r, s)
      BY DEF IInv, WriterProxyInv, Known
<1>2. \A s \in Known(wp[r]) : Settled(r, s)'  BY <1>1, SettledStable DEF IInv
<1> QED  BY <1>2, KeepMarker, KeepLastRead DEF IInv, WriterProxyInv

\* So do the submessages already sent.
LEMMA KeepNetInv ==
    ASSUME IInv, TypeOK', Stable
    PROVE  /\ \A m \in data_net : m.sn <= history'.last_seq
           /\ \A m \in hb_net : \A r \in Readers : SettledUpTo(r, m.first_sn - 1)'
           /\ \A m \in gap_net : \A s \in GapSet(m) : Settled(m.to, s)'
           /\ \A m \in acknack_net : SettledUpTo(m.from, m.base - 1)'
<1>1. history.last_seq \in 0 .. MaxSN /\ history'.last_seq \in 0 .. MaxSN
      BY DEF IInv, TypeOK, WriterTypeOK, HistoryType
<1>2. NetTypeOK  BY DEF IInv, TypeOK
<1>3. ASSUME NEW m \in data_net PROVE m.sn <= history'.last_seq
      BY <1>1, <1>2, MaxSNAssumption
      DEF NetTypeOK, DataMsg, IInv, NetInv, Stable, SN
<1>4. ASSUME NEW m \in hb_net, NEW r \in Readers
      PROVE  SettledUpTo(r, m.first_sn - 1)'
      <2>1. m.first_sn - 1 \in Int /\ m.first_sn - 1 <= MaxSN
            BY <1>2, MaxSNAssumption DEF NetTypeOK, HbMsg
      <2> QED  BY <2>1, SettledUpToStable DEF IInv, NetInv
<1>5. ASSUME NEW m \in gap_net, NEW s \in GapSet(m) PROVE Settled(m.to, s)'
      <2>1. m.to \in Readers /\ s \in SN  BY <1>2 DEF NetTypeOK, GapMsg, GapSet
      <2> QED  BY <2>1, SettledStable DEF IInv, NetInv
<1>6. ASSUME NEW m \in acknack_net PROVE SettledUpTo(m.from, m.base - 1)'
      <2>1. m.from \in Readers /\ m.base - 1 \in Int /\ m.base - 1 <= MaxSN
            BY <1>2, MaxSNAssumption DEF NetTypeOK, AckNackMsg
      <2> QED  BY <2>1, SettledUpToStable DEF IInv, NetInv
<1> QED  BY <1>3, <1>4, <1>5, <1>6

\* A number below the history, or missing from it, is settled for everyone.
LEMMA NotStoredIsSettled ==
    ASSUME IInv, NEW r \in Readers, NEW s \in SN, s \notin history.samples,
           s <= history.last_seq
    PROVE  Settled(r, s)
BY DueMembership DEF IInv, HistoryInv, Settled

\* In particular what is below first_seq.
LEMMA BelowHistoryIsSettled ==
    ASSUME IInv, NEW r \in Readers, NEW s \in SN, s < history.first_seq
    PROVE  Settled(r, s)
<1>1. history.first_seq \in SN /\ history.last_seq \in 0 .. MaxSN
      BY DEF IInv, TypeOK, WriterTypeOK, HistoryType
<1>2. s <= history.last_seq
      BY <1>1, MaxSNAssumption DEF IInv, HistoryInv, SN
<1>3. s \notin history.samples
      BY <1>1, MaxSNAssumption DEF IInv, HistoryInv, SN
<1> QED  BY <1>2, <1>3, NotStoredIsSettled

\* So a HEARTBEAT that starts at first_seq announces a settled prefix.
LEMMA NewHeartbeat ==
    ASSUME IInv, TypeOK', Stable, NEW m \in HbMsg, m.first_sn = history.first_seq,
           NEW r \in Readers
    PROVE  SettledUpTo(r, m.first_sn - 1)'
<1>1. m.first_sn \in 1 .. MaxSN + 1  BY DEF HbMsg
<1>2. ASSUME NEW s \in 1 .. m.first_sn - 1 PROVE Settled(r, s)
      <2>1. s \in SN /\ s < history.first_seq  BY <1>1, MaxSNAssumption DEF SN
      <2> QED  BY <2>1, BelowHistoryIsSettled
<1>3. SettledUpTo(r, m.first_sn - 1)  BY <1>2 DEF SettledUpTo
<1>4. m.first_sn - 1 \in Int /\ m.first_sn - 1 <= MaxSN  BY <1>1, MaxSNAssumption
<1> QED  BY <1>3, <1>4, SettledUpToStable DEF IInv

-----------------------------------------------------------------------------
(* The steps of the Writer *)

\* Every HEARTBEAT is about a settled prefix.
LEMMA HeartbeatTickInv ==
    ASSUME IInv, HeartbeatTick, UNCHANGED <<readerVars, losses, waits>>
    PROVE  IInv'
<1> USE DEF HeartbeatTick, readerVars
<1> DEFINE hb == heartbeat_msg(UNKNOWN, history)
<1>1. /\ history \in HistoryType /\ hb_count \in Nat
      /\ history.first_seq \in SN /\ history.last_seq \in 0 .. MaxSN
      BY DEF IInv, TypeOK, WriterTypeOK, HistoryType
<1>2. hb \in HbMsg /\ hb.first_sn = history.first_seq
      BY <1>1, MaxSNAssumption DEF heartbeat_msg, HbMsg, Destination, SN
<1>3. hb_net' = hb_net \cup {hb}  OBVIOUS
<1> HIDE DEF hb
<1>4. TypeOK'
      <2>1. NetTypeOK'  BY <1>2, <1>3 DEF IInv, TypeOK, NetTypeOK
      <2>2. WriterTypeOK'  BY <1>1 DEF IInv, TypeOK, WriterTypeOK
      <2>3. ReaderTypeOK'  BY DEF IInv, TypeOK, ReaderTypeOK
      <2> QED  BY <2>1, <2>2, <2>3 DEF IInv, TypeOK
<1>5. Stable  BY <1>1, DueMembership DEF Stable
<1>6. HistoryInv'  BY DEF IInv, HistoryInv
<1>7. ReaderProxyInv'  BY <1>4, <1>5, KeepReaderProxyInv DEF ReaderProxyInv
<1>8. WaitInv'  BY <1>4, <1>5, KeepWaitInv
<1>9. WriterProxyInv'  BY <1>4, <1>5, KeepWriterProxyInv DEF WriterProxyInv
<1>10. NetInv'
      <2>1. ASSUME NEW m \in hb_net', m \notin hb_net, NEW r \in Readers
            PROVE  SettledUpTo(r, m.first_sn - 1)'
            BY <1>2, <1>3, <1>4, <1>5, <2>1, NewHeartbeat
      <2> QED  BY <1>3, <1>4, <1>5, <2>1, KeepNetInv DEF NetInv
<1> QED  BY <1>4, <1>6, <1>7, <1>8, <1>9, <1>10 DEF IInv

\* Cleaning removes nothing that a matched Reader still needs: what is below
\* the keeper is below every all_acked_before.
LEMMA CacheCleaningInv ==
    ASSUME IInv, CacheCleaning, UNCHANGED <<readerVars, losses, waits>>
    PROVE  IInv'
<1> USE DEF CacheCleaning, readerVars, netVars
<1> DEFINE k == first_keeper
<1>1. /\ history \in HistoryType
      /\ history.first_seq \in SN /\ history.last_seq \in 0 .. MaxSN
      /\ history.samples \in SUBSET SN
      /\ rp \in [Readers -> ReaderProxyType] /\ matched \subseteq Readers
      BY DEF IInv, TypeOK, WriterTypeOK, HistoryType
<1>2. ASSUME NEW r \in matched PROVE acked_by_all_readers <= rp[r].all_acked_before
                                     /\ acked_by_all_readers \in Int
      <2> DEFINE A == {rp[q].all_acked_before : q \in matched}
      <2>1. A \in SUBSET Nat /\ A # {} /\ rp[r].all_acked_before \in A
            BY <1>1, MaxSNAssumption DEF ReaderProxyType
      <2>2. First(A) \in A /\ First(A) <= rp[r].all_acked_before
            BY <2>1, FirstIsLeast
      <2> QED  BY <2>1, <2>2 DEF acked_by_all_readers
<1>3. acked_by_all_readers \in Int
      <2>1. CASE matched = {}  BY <2>1 DEF acked_by_all_readers
      <2>2. CASE matched # {}  BY <1>2, <2>2
      <2> QED  BY <2>1, <2>2
<1>4. ASSUME NEW r \in matched, NEW s \in owed[r], s \in history.samples, s < k
      PROVE  s \in cache[r]
      <2>1. s \in SN /\ s >= history.first_seq
            BY <1>1, <1>4, MaxSNAssumption DEF IInv, HistoryInv, SN
      <2>2. s < acked_by_all_readers
            BY <1>1, <1>3, <1>4, <2>1, WriterAssumption, MaxSNAssumption
            DEF first_keeper, SN
      <2>3. s \in 1 .. rp[r].all_acked_before - 1
            BY <1>1, <1>2, <2>1, <2>2, MaxSNAssumption DEF ReaderProxyType, SN
      <2>4. Settled(r, s)
            BY <1>1, <2>3 DEF IInv, ReaderProxyInv, SettledUpTo
      <2> QED  BY <2>4, DueMembership DEF Settled
<1> HIDE DEF k
<1>5. /\ history'.last_seq = history.last_seq
      /\ history'.samples \subseteq history.samples
      /\ history' \in HistoryType
      /\ \/ history' = history
         \/ /\ k \in history.samples /\ history'.first_seq = k
            /\ history'.samples = {s \in history.samples : s >= k}
      <2>1. history' = remove_changes_before(history, k)  BY DEF k
      <2>2. CASE k \notin history.samples
            BY <1>1, <2>1, <2>2 DEF remove_changes_before
      <2>3. CASE k \in history.samples
            <3> DEFINE S == {s \in history.samples : s >= k}
            <3>1. history' = [history EXCEPT !.samples = S, !.first_seq = k]
                  BY <2>1, <2>3 DEF remove_changes_before
            <3>2. S \in SUBSET SN /\ S \subseteq history.samples /\ k \in SN
                  BY <1>1, <2>3
            <3> HIDE DEF S
            <3>3. history' \in HistoryType /\ history'.samples = S
                  /\ history'.first_seq = k /\ history'.last_seq = history.last_seq
                  BY <1>1, <3>1, <3>2 DEF HistoryType
            <3> QED  BY <2>3, <3>2, <3>3 DEF S
      <2> QED  BY <2>2, <2>3
<1>6. TypeOK'
      <2>1. NetTypeOK'  BY DEF IInv, TypeOK, NetTypeOK
      <2>2. WriterTypeOK'  BY <1>5 DEF IInv, TypeOK, WriterTypeOK
      <2>3. ReaderTypeOK'  BY DEF IInv, TypeOK, ReaderTypeOK
      <2> QED  BY <2>1, <2>2, <2>3 DEF IInv, TypeOK
<1>7. Stable  BY <1>1, <1>5, DueMembership DEF Stable
<1>8. HistoryInv'
      <2>1. CASE history' = history  BY <2>1 DEF IInv, HistoryInv
      <2>2. CASE /\ k \in history.samples /\ history'.first_seq = k
                 /\ history'.samples = {s \in history.samples : s >= k}
            <3>1. k \in SN /\ k <= history.last_seq
                  BY <1>1, <2>2 DEF IInv, HistoryInv
            <3>2. history'.first_seq <= history'.last_seq + 1
                  BY <1>1, <1>5, <2>2, <3>1, MaxSNAssumption DEF SN
            <3>3. \A s \in history'.samples :
                     history'.first_seq <= s /\ s <= history'.last_seq
                  BY <1>1, <1>5, <2>2, <3>1, MaxSNAssumption DEF IInv, HistoryInv, SN
            <3>4. ASSUME NEW r \in Readers, NEW s \in owed[r]
                  PROVE  s <= history.last_seq /\ (s \in cache[r] \/ s \in history'.samples)
                  <4>1. r \in matched /\ s <= history.last_seq
                        /\ (s \in cache[r] \/ s \in history.samples)
                        BY DEF IInv, HistoryInv
                  <4>2. s \in history.samples => s \in SN  BY <1>1
                  <4> QED  BY <1>4, <2>2, <3>1, <4>1, <4>2, MaxSNAssumption DEF SN
            <3> QED  BY <1>5, <3>2, <3>3, <3>4 DEF IInv, HistoryInv
      <2> QED  BY <1>5, <2>1, <2>2
<1>9. ReaderProxyInv'  BY <1>6, <1>7, KeepReaderProxyInv DEF ReaderProxyInv
<1>10. WaitInv'  BY <1>6, <1>7, KeepWaitInv
<1>11. WriterProxyInv'  BY <1>6, <1>7, KeepWriterProxyInv DEF WriterProxyInv
<1>12. NetInv'  BY <1>6, <1>7, KeepNetInv DEF NetInv
<1> QED  BY <1>6, <1>8, <1>9, <1>10, <1>11, <1>12 DEF IInv

\* A repair sends stored samples and GAPs for settled numbers.
LEMMA RepairDataSendInv ==
    ASSUME IInv, NEW r \in Readers, RepairDataSend(r),
           UNCHANGED <<readerVars, losses, waits>>
    PROVE  IInv'
<1> USE DEF readerVars
<1> DEFINE st == RepairStep(r)
<1>1. /\ history \in HistoryType
      /\ history.first_seq \in SN /\ history.last_seq \in 0 .. MaxSN
      /\ history.samples \in SUBSET SN
      /\ rp \in [Readers -> ReaderProxyType] /\ matched \subseteq Readers
      /\ repair_timers \in [Readers -> Nat] /\ repair_timers[r] > 0
      BY DEF IInv, TypeOK, WriterTypeOK, HistoryType, RepairDataSend
<1>2. /\ st.proxy \in ReaderProxyType
      /\ st.proxy.all_acked_before = rp[r].all_acked_before
      /\ st.proxy.pending_gap = rp[r].pending_gap
      /\ st.proxy.unsent_changes \subseteq rp[r].unsent_changes
      /\ st.data \subseteq DataMsg
      /\ \A m \in st.data : m.sn \in history.samples
      /\ st.gaps \subseteq GapMsg
      /\ \A m \in st.gaps :
            /\ m.to = r
            /\ \A s \in GapSet(m) : \/ s \in rp[r].pending_gap
                                    \/ s \in SN /\ s < history.first_seq
                                    \/ s \in rp[r].unsent_changes \ history.samples
      BY <1>1, RepairStepSound
<1>3. /\ UNCHANGED <<history, target, matched, hb_count, ack_waiter, wait_for,
                     told, owed, hb_net, acknack_net>>
      /\ \/ /\ rp' = [rp EXCEPT ![r] = st.proxy]
            /\ gap_net' = gap_net \cup st.gaps
            /\ data_net' = data_net \cup st.data
         \/ UNCHANGED <<rp, gap_net, data_net>>
      /\ repair_timers' \in [Readers -> Nat]
      <2> HIDE DEF st
      <2>1. st = RepairStep(r)  BY DEF st
      <2> QED  BY <1>1, <2>1 DEF RepairDataSend
<1> HIDE DEF st
<1>4. TypeOK'
      <2>1. NetTypeOK'  BY <1>2, <1>3 DEF IInv, TypeOK, NetTypeOK
      <2>2. WriterTypeOK'  BY <1>1, <1>2, <1>3 DEF IInv, TypeOK, WriterTypeOK
      <2>3. ReaderTypeOK'  BY DEF IInv, TypeOK, ReaderTypeOK
      <2> QED  BY <2>1, <2>2, <2>3 DEF IInv, TypeOK
<1>5. Stable  BY <1>1, <1>3, DueMembership DEF Stable
<1>6. HistoryInv'  BY <1>3 DEF IInv, HistoryInv
<1>7. ReaderProxyInv'
      <2> SUFFICES ASSUME NEW q \in Readers
                   PROVE  /\ SettledUpTo(q, rp[q].all_acked_before - 1)'
                          /\ \A s \in rp'[q].unsent_changes : s <= history'.last_seq
                          /\ \A s \in rp'[q].pending_gap : Settled(q, s)'
          BY DEF ReaderProxyInv
      <2>1. CASE rp'[q] = rp[q]  BY <1>4, <1>5, <2>1, KeepReaderProxyInv
      <2>2. CASE rp'[q] # rp[q]
            <3>1. q = r /\ rp'[q] = st.proxy  BY <1>1, <1>3, <2>2
            <3>2. rp[q] \in ReaderProxyType  BY <1>1
            <3>3. ASSUME NEW s \in 1 .. rp[q].all_acked_before - 1 PROVE Settled(q, s)'
                  <4>1. s \in SN  BY <3>2, MaxSNAssumption DEF ReaderProxyType, SN
                  <4>2. Settled(q, s)  BY DEF IInv, ReaderProxyInv, SettledUpTo
                  <4> QED  BY <1>4, <1>5, <4>1, <4>2, SettledStable DEF IInv
            <3>4. rp'[q].all_acked_before = rp[q].all_acked_before
                  BY <1>2, <3>1
            <3>5. SettledUpTo(q, rp[q].all_acked_before - 1)'
                  BY <3>3, <3>4 DEF SettledUpTo
            <3>6. \A s \in rp'[q].unsent_changes : s <= history'.last_seq
                  BY <1>2, <1>3, <3>1 DEF IInv, ReaderProxyInv
            <3>7. \A s \in rp[q].pending_gap : s \in SN /\ Settled(q, s)
                  BY <3>2 DEF IInv, ReaderProxyInv, ReaderProxyType
            <3>8. \A s \in rp'[q].pending_gap : Settled(q, s)'
                  BY <1>2, <1>4, <1>5, <3>1, <3>7, SettledStable DEF IInv
            <3> QED  BY <3>5, <3>6, <3>8
      <2> QED  BY <2>1, <2>2
<1>8. WaitInv'  BY <1>3, <1>4, <1>5, KeepWaitInv
<1>9. WriterProxyInv'  BY <1>4, <1>5, KeepWriterProxyInv DEF WriterProxyInv
<1>10. NetInv'
      <2>1. ASSUME NEW m \in data_net', m \notin data_net
            PROVE  m.sn <= history'.last_seq
            BY <1>2, <1>3, <2>1 DEF IInv, HistoryInv
      <2>2. ASSUME NEW m \in gap_net', m \notin gap_net, NEW s \in GapSet(m)
            PROVE  Settled(m.to, s)'
            <3>1. m \in st.gaps /\ m.to = r  BY <1>2, <1>3, <2>2
            <3>2. s \in SN  BY DEF GapSet
            <3>3. Settled(r, s)
                  <4>1. CASE s \in rp[r].pending_gap
                        BY <4>1 DEF IInv, ReaderProxyInv
                  <4>2. CASE s < history.first_seq
                        BY <3>2, <4>2, BelowHistoryIsSettled
                  <4>3. CASE s \in rp[r].unsent_changes \ history.samples
                        BY <3>2, <4>3, NotStoredIsSettled DEF IInv, ReaderProxyInv
                  <4> QED  BY <1>2, <3>1, <4>1, <4>2, <4>3
            <3> QED  BY <1>4, <1>5, <3>1, <3>2, <3>3, SettledStable DEF IInv
      <2> QED  BY <1>3, <1>4, <1>5, <2>1, <2>2, KeepNetInv DEF NetInv
<1> QED  BY <1>4, <1>6, <1>7, <1>8, <1>9, <1>10 DEF IInv

\* update_ack_waiters keeps the types.
LEMMA UpdateAckWaitersType ==
    ASSUME TypeOK, NEW r \in Readers, NEW done, NEW remaining \in SUBSET Readers,
           update_ack_waiters(r, done, remaining)
    PROVE  /\ ack_waiter' \in [wait_until : 0 .. MaxSN, readers_pending : SUBSET Readers]
           /\ wait_for' \subseteq Readers
           /\ told' \in [Readers -> 0 .. MaxSN]
<1>1. /\ ack_waiter \in [wait_until : 0 .. MaxSN, readers_pending : SUBSET Readers]
      /\ told \in [Readers -> 0 .. MaxSN]
      BY DEF TypeOK, WriterTypeOK
<1> DEFINE left == IF done THEN ack_waiter.readers_pending \ {r}
                   ELSE ack_waiter.readers_pending
<1>2. left \in SUBSET Readers  BY <1>1
<1>3. CASE left = {}
      <2>1. /\ ack_waiter' = NoWaiter
            /\ wait_for' = {}
            /\ told' = [q \in Readers |->
                          IF ack_waiter # NoWaiter /\ q \in remaining
                          THEN ack_waiter.wait_until ELSE told[q]]
            BY <1>3 DEF update_ack_waiters
      <2> QED  BY <1>1, <2>1, MaxSNAssumption DEF NoWaiter
<1>4. CASE left # {}
      <2>1. /\ ack_waiter' = [ack_waiter EXCEPT !.readers_pending = left]
            /\ wait_for' = remaining
            /\ told' = told
            BY <1>4 DEF update_ack_waiters
      <2> HIDE DEF left
      <2> QED  BY <1>1, <1>2, <2>1
<1> QED  BY <1>3, <1>4

\* A Reader leaves the wait only when it is lost or has what is waited for.
LEMMA UpdateAckWaitersInv ==
    ASSUME IInv, TypeOK', Stable, NEW r \in Readers, NEW done \in BOOLEAN,
           NEW remaining \in SUBSET Readers, remaining \subseteq wait_for,
           update_ack_waiters(r, done, remaining),
           r \in remaining /\ done => SettledUpTo(r, ack_waiter.wait_until)
    PROVE  WaitInv'
<1>1. /\ ack_waiter \in [wait_until : 0 .. MaxSN, readers_pending : SUBSET Readers]
      /\ told \in [Readers -> 0 .. MaxSN]
      /\ history.last_seq \in 0 .. MaxSN /\ history'.last_seq \in 0 .. MaxSN
      BY DEF IInv, TypeOK, WriterTypeOK, HistoryType
<1> DEFINE left == IF done THEN ack_waiter.readers_pending \ {r}
                   ELSE ack_waiter.readers_pending
<1>2. ASSUME NEW q \in remaining \ left, NEW s \in 1 .. ack_waiter.wait_until
      PROVE  Settled(q, s)'
      <2>1. s \in SN /\ q \in Readers  BY <1>1, MaxSNAssumption DEF SN
      <2>2. q \notin ack_waiter.readers_pending \/ (q = r /\ done)  OBVIOUS
      <2>3. Settled(q, s)
            BY <2>2 DEF IInv, WaitInv, SettledUpTo
      <2> QED  BY <2>1, <2>3, SettledStable DEF IInv
<1>3. ASSUME NEW q \in Readers, NEW s \in 1 .. told[q] PROVE Settled(q, s)'
      <2>1. s \in SN  BY <1>1, MaxSNAssumption DEF SN
      <2>2. Settled(q, s)  BY DEF IInv, WaitInv, SettledUpTo
      <2> QED  BY <2>1, <2>2, SettledStable DEF IInv
<1>4. ack_waiter.wait_until <= history'.last_seq
      BY <1>1, MaxSNAssumption DEF IInv, WaitInv, Stable
<1>5. CASE left = {}
      <2>1. /\ ack_waiter' = NoWaiter
            /\ wait_for' = {}
            /\ told' = [q \in Readers |->
                          IF ack_waiter # NoWaiter /\ q \in remaining
                          THEN ack_waiter.wait_until ELSE told[q]]
            BY <1>5 DEF update_ack_waiters
      <2>2. ASSUME NEW q \in Readers PROVE SettledUpTo(q, told[q])'
            <3>1. ASSUME NEW s \in 1 .. told'[q] PROVE Settled(q, s)'
                  <4>1. CASE ack_waiter # NoWaiter /\ q \in remaining
                        BY <1>2, <1>5, <2>1, <4>1
                  <4>2. CASE ~(ack_waiter # NoWaiter /\ q \in remaining)
                        BY <1>3, <2>1, <4>2
                  <4> QED  BY <4>1, <4>2
            <3> QED  BY <3>1 DEF SettledUpTo
      <2>3. ack_waiter'.wait_until <= history'.last_seq
            BY <1>1, <2>1 DEF NoWaiter
      <2> QED  BY <2>1, <2>2, <2>3 DEF WaitInv
<1>6. CASE left # {}
      <2>1. /\ ack_waiter' = [ack_waiter EXCEPT !.readers_pending = left]
            /\ wait_for' = remaining
            /\ told' = told
            BY <1>6 DEF update_ack_waiters
      <2> HIDE DEF left
      <2>2. /\ ack_waiter'.wait_until = ack_waiter.wait_until
            /\ ack_waiter'.readers_pending = left
            BY <1>1, <2>1
      <2>3. ASSUME NEW q \in remaining \ left
            PROVE  SettledUpTo(q, ack_waiter.wait_until)'
            BY <1>2, <2>2 DEF SettledUpTo
      <2>4. ASSUME NEW q \in Readers PROVE SettledUpTo(q, told[q])'
            BY <1>3, <2>1 DEF SettledUpTo
      <2> QED  BY <1>4, <2>1, <2>2, <2>3, <2>4 DEF WaitInv
<1> QED  BY <1>5, <1>6

\* An ACKNACK is believed, and may be: what it acknowledges is settled.
LEMMA HandleAckNackInv ==
    ASSUME IInv, NEW m \in acknack_net, HandleAckNack(m),
           UNCHANGED <<readerVars, losses, waits>>
    PROVE  IInv'
<1> USE DEF readerVars
<1> DEFINE r == m.from
           p == handle_ack_nack(rp[r], m.base, m.set, history.last_seq)
<1>1. /\ history.last_seq \in 0 .. MaxSN
      /\ rp \in [Readers -> ReaderProxyType] /\ matched \subseteq Readers
      /\ wait_for \in SUBSET Readers
      /\ ack_waiter.wait_until \in 0 .. MaxSN
      BY DEF IInv, TypeOK, WriterTypeOK, HistoryType
<1>2. /\ r \in Readers /\ m.base \in 1 .. MaxSN + 1 /\ m.set \in SUBSET SN
      BY DEF IInv, TypeOK, NetTypeOK, AckNackMsg
<1>3. /\ p \in ReaderProxyType
      /\ p.all_acked_before = m.base
      /\ \A s \in p.unsent_changes : s <= history.last_seq
      /\ p.pending_gap \subseteq rp[r].pending_gap
      BY <1>1, <1>2, HandleAckNackOp
<1> DEFINE repair == ~(p.all_acked_before > history.last_seq)
           q      == [p EXCEPT !.repair_mode = repair]
           g      == gap_msg(r, p.pending_gap)
<1>4. /\ q \in ReaderProxyType
      /\ q.all_acked_before = m.base
      /\ \A s \in q.unsent_changes : s <= history.last_seq
      /\ q.pending_gap \subseteq rp[r].pending_gap
      <2> HIDE DEF p, repair
      <2>1. repair \in BOOLEAN  BY DEF repair
      <2> QED  BY <1>3, <2>1 DEF ReaderProxyType
<1>5. /\ g \subseteq GapMsg
      /\ \A k \in g : k.to = r /\ GapSet(k) \subseteq rp[r].pending_gap
      <2> HIDE DEF p
      <2>1. p.pending_gap \in SUBSET SN  BY <1>3 DEF ReaderProxyType
      <2> QED  BY <1>2, <1>3, <2>1, GapMsgSound
<1>6. /\ UNCHANGED <<history, target, matched, hb_count, owed, data_net, hb_net,
                     acknack_net>>
      /\ update_ack_waiters(r, ack_waiter.wait_until < m.base, wait_for)
      /\ \/ /\ rp' = [rp EXCEPT ![r] = q]
            /\ gap_net' = gap_net \cup g
         \/ UNCHANGED <<rp, gap_net>>
      /\ repair_timers' \in [Readers -> Nat]
      <2>1. repair_timers \in [Readers -> Nat]  BY DEF IInv, TypeOK, WriterTypeOK
      <2> HIDE DEF p, repair, q, g
      <2> QED  BY <1>2, <2>1, WriterAssumption DEF HandleAckNack, ArmTimer, p, repair, q, g
<1> HIDE DEF p, repair, q, g
<1>7. TypeOK'
      <2>1. NetTypeOK'  BY <1>5, <1>6 DEF IInv, TypeOK, NetTypeOK
      <2>2. PICK done, rem : /\ done = (ack_waiter.wait_until < m.base)
                             /\ rem = wait_for
            OBVIOUS
      <2>3. /\ ack_waiter' \in [wait_until : 0 .. MaxSN, readers_pending : SUBSET Readers]
            /\ wait_for' \subseteq Readers
            /\ told' \in [Readers -> 0 .. MaxSN]
            BY <1>1, <1>2, <1>6, <2>2, UpdateAckWaitersType DEF IInv
      <2>4. rp' \in [Readers -> ReaderProxyType]  BY <1>1, <1>4, <1>6
      <2>5. WriterTypeOK'  BY <1>6, <2>3, <2>4 DEF IInv, TypeOK, WriterTypeOK
      <2>6. ReaderTypeOK'  BY DEF IInv, TypeOK, ReaderTypeOK
      <2> QED  BY <2>1, <2>5, <2>6 DEF IInv, TypeOK
<1>8. Stable  BY <1>1, <1>6, DueMembership DEF Stable
<1>9. HistoryInv'  BY <1>6 DEF IInv, HistoryInv
<1>10. SettledUpTo(r, m.base - 1)  BY DEF IInv, NetInv
<1>11. ReaderProxyInv'
      <2> SUFFICES ASSUME NEW x \in Readers
                   PROVE  /\ SettledUpTo(x, rp[x].all_acked_before - 1)'
                          /\ \A s \in rp'[x].unsent_changes : s <= history'.last_seq
                          /\ \A s \in rp'[x].pending_gap : Settled(x, s)'
          BY DEF ReaderProxyInv
      <2>1. CASE rp'[x] = rp[x]  BY <1>7, <1>8, <2>1, KeepReaderProxyInv
      <2>2. CASE rp'[x] # rp[x]
            <3>1. x = r /\ rp'[x] = q  BY <1>1, <1>2, <1>6, <2>2
            <3>2. rp[x] \in ReaderProxyType  BY <1>1
            <3>3. m.base - 1 \in Int /\ m.base - 1 <= MaxSN
                  BY <1>2, MaxSNAssumption
            <3>4. SettledUpTo(x, m.base - 1)'
                  BY <1>7, <1>8, <1>10, <3>1, <3>3, SettledUpToStable DEF IInv
            <3>5. rp'[x].all_acked_before = m.base  BY <1>4, <3>1
            <3>6. SettledUpTo(x, rp[x].all_acked_before - 1)'
                  BY <3>4, <3>5 DEF SettledUpTo
            <3>7. \A s \in rp'[x].unsent_changes : s <= history'.last_seq
                  BY <1>4, <1>6, <3>1
            <3>8. \A s \in rp[x].pending_gap : s \in SN /\ Settled(x, s)
                  BY <3>2 DEF IInv, ReaderProxyInv, ReaderProxyType
            <3>9. \A s \in rp'[x].pending_gap : Settled(x, s)'
                  BY <1>4, <1>7, <1>8, <3>1, <3>8, SettledStable DEF IInv
            <3> QED  BY <3>6, <3>7, <3>9
      <2> QED  BY <2>1, <2>2
<1>12. WaitInv'
      <2>1. PICK done, rem : /\ done = (ack_waiter.wait_until < m.base)
                             /\ rem = wait_for
            OBVIOUS
      <2>2. done \in BOOLEAN /\ rem \in SUBSET Readers  BY <1>1, <2>1
      <2>3. ASSUME ack_waiter.wait_until < m.base,
                   NEW s \in 1 .. ack_waiter.wait_until
            PROVE  Settled(r, s)
            <3>1. s \in 1 .. m.base - 1  BY <1>1, <1>2, <2>3, MaxSNAssumption
            <3> QED  BY <1>10, <3>1 DEF SettledUpTo
      <2>4. done => SettledUpTo(r, ack_waiter.wait_until)
            BY <2>1, <2>3 DEF SettledUpTo
      <2> QED  BY <1>2, <1>6, <1>7, <1>8, <2>1, <2>2, <2>4, UpdateAckWaitersInv
<1>13. WriterProxyInv'  BY <1>7, <1>8, KeepWriterProxyInv DEF WriterProxyInv
<1>14. NetInv'
      <2>1. ASSUME NEW k \in gap_net', k \notin gap_net, NEW s \in GapSet(k)
            PROVE  Settled(k.to, s)'
            <3>1. k.to = r /\ s \in rp[r].pending_gap  BY <1>5, <1>6, <2>1
            <3>2. s \in SN /\ Settled(r, s)
                  BY <1>2, <3>1 DEF GapSet, IInv, ReaderProxyInv
            <3> QED  BY <1>2, <1>7, <1>8, <3>1, <3>2, SettledStable DEF IInv
      <2> QED  BY <1>6, <1>7, <1>8, <2>1, KeepNetInv DEF NetInv
<1> QED  BY <1>7, <1>9, <1>11, <1>12, <1>13, <1>14 DEF IInv

\* A new Reader is owed nothing that was not due to it already, and a VOLATILE
\* Writer gaps only what it does not owe.
LEMMA MatchReaderInv ==
    ASSUME IInv, NEW r \in Readers, MatchReader(r),
           UNCHANGED <<readerVars, losses, waits>>
    PROVE  IInv'
<1> USE DEF readerVars, netVars
<1> DEFINE q == IF Volatile
                THEN set_pending_gap_up_to(NewReaderProxy, history.last_seq)
                ELSE NewReaderProxy
           o == IF Volatile THEN {}
                ELSE {s \in history.samples : IsFor(target[s], r)}
<1>1. /\ history.last_seq \in 0 .. MaxSN /\ history.samples \in SUBSET SN
      /\ rp \in [Readers -> ReaderProxyType] /\ matched \subseteq Readers
      /\ owed \in [Readers -> SUBSET SN] /\ told \in [Readers -> 0 .. MaxSN]
      BY DEF IInv, TypeOK, WriterTypeOK, HistoryType
<1>2. /\ NewReaderProxy \in ReaderProxyType
      /\ NewReaderProxy.all_acked_before = 0
      /\ NewReaderProxy.unsent_changes = {} /\ NewReaderProxy.pending_gap = {}
      BY MaxSNAssumption DEF NewReaderProxy, ReaderProxyType
<1>3. /\ q \in ReaderProxyType
      /\ q.all_acked_before = 0
      /\ q.unsent_changes = {}
      /\ q.pending_gap = IF Volatile THEN 1 .. history.last_seq ELSE {}
      <2>1. CASE Volatile
            <3>1. q = set_pending_gap_up_to(NewReaderProxy, history.last_seq)
                  BY <2>1
            <3> HIDE DEF q
            <3>2. /\ q \in ReaderProxyType
                  /\ q.all_acked_before = NewReaderProxy.all_acked_before
                  /\ q.unsent_changes = NewReaderProxy.unsent_changes
                  /\ q.pending_gap = NewReaderProxy.pending_gap \cup (1 .. history.last_seq)
                  BY <1>1, <1>2, <3>1, PendingGapUpTo
            <3> QED  BY <1>2, <2>1, <3>2
      <2>2. CASE ~Volatile  BY <1>2, <2>2
      <2> QED  BY <2>1, <2>2
<1>4. o \in SUBSET SN  BY <1>1
<1>5. /\ UNCHANGED <<history, target, hb_count, repair_timers, ack_waiter,
                     wait_for, netVars>>
      /\ matched' = matched \cup {r}
      /\ rp' = [rp EXCEPT ![r] = q]
      /\ owed' = [owed EXCEPT ![r] = o]
      /\ told' = [told EXCEPT ![r] = 0]
      BY DEF MatchReader
<1> HIDE DEF q, o
<1>6. TypeOK'
      <2>1. NetTypeOK'  BY <1>5 DEF IInv, TypeOK, NetTypeOK
      <2>2. WriterTypeOK'
            BY <1>1, <1>3, <1>4, <1>5, MaxSNAssumption DEF IInv, TypeOK, WriterTypeOK
      <2>3. ReaderTypeOK'  BY DEF IInv, TypeOK, ReaderTypeOK
      <2> QED  BY <2>1, <2>2, <2>3 DEF IInv, TypeOK
<1>7. ASSUME NEW x \in Readers, NEW s, (s \in Due(x))' PROVE s \in Due(x)
      <2>1. CASE x = r  BY <1>1, <1>5, <1>7, <2>1, DueMembership DEF o
      <2>2. CASE x # r  BY <1>1, <1>5, <1>7, <2>2, DueMembership
      <2> QED  BY <2>1, <2>2
<1>8. Stable  BY <1>1, <1>5, <1>7 DEF Stable
<1>9. HistoryInv'
      <2>1. ASSUME NEW x \in Readers, NEW s \in owed'[x]
            PROVE  s <= history.last_seq /\ (s \in cache[x] \/ s \in history.samples)
            <3>1. CASE x = r
                  BY <1>1, <1>5, <3>1 DEF o, IInv, HistoryInv
            <3>2. CASE x # r  BY <1>1, <1>5, <3>2 DEF IInv, HistoryInv
            <3> QED  BY <3>1, <3>2
      <2>2. \A x \in Readers \ matched' : owed'[x] = {}
            BY <1>1, <1>5 DEF IInv, HistoryInv
      <2> QED  BY <1>5, <2>1, <2>2 DEF IInv, HistoryInv
<1>10. ReaderProxyInv'
      <2> SUFFICES ASSUME NEW x \in Readers
                   PROVE  /\ SettledUpTo(x, rp[x].all_acked_before - 1)'
                          /\ \A s \in rp'[x].unsent_changes : s <= history'.last_seq
                          /\ \A s \in rp'[x].pending_gap : Settled(x, s)'
          BY DEF ReaderProxyInv
      <2>1. CASE x # r
            <3>1. rp'[x] = rp[x]  BY <1>1, <1>5, <2>1
            <3> QED  BY <1>6, <1>8, <3>1, KeepReaderProxyInv
      <2>2. CASE x = r
            <3>1. rp'[x] = q  BY <1>1, <1>5, <2>2
            <3>2. rp'[x].all_acked_before - 1 = -1  BY <1>3, <3>1
            <3>3. SettledUpTo(x, rp[x].all_acked_before - 1)'
                  BY <3>2 DEF SettledUpTo
            <3>4. ASSUME NEW s \in rp'[x].pending_gap PROVE Settled(x, s)'
                  <4>1. Volatile /\ s \in 1 .. history.last_seq
                        BY <1>3, <3>1, WriterAssumption
                  <4>2. ~(s \in Due(x))'
                        BY <1>1, <1>5, <2>2, <4>1, DueMembership DEF o
                  <4>3. s <= history'.last_seq  BY <1>1, <1>5, <4>1
                  <4> QED  BY <4>2, <4>3 DEF Settled
            <3> QED  BY <1>3, <3>1, <3>3, <3>4
      <2> QED  BY <2>1, <2>2
<1>11. WaitInv'
      <2>1. /\ ack_waiter.wait_until \in 0 .. MaxSN /\ wait_for \subseteq Readers
            BY DEF IInv, TypeOK, WriterTypeOK
      <2>2. ASSUME NEW x \in wait_for \ ack_waiter.readers_pending
            PROVE  SettledUpTo(x, ack_waiter.wait_until)'
            <3>1. ASSUME NEW s \in 1 .. ack_waiter.wait_until PROVE Settled(x, s)'
                  <4>1. x \in Readers /\ s \in SN  BY <2>1, MaxSNAssumption DEF SN
                  <4>2. Settled(x, s)  BY DEF IInv, WaitInv, SettledUpTo
                  <4> QED  BY <1>6, <1>8, <4>1, <4>2, SettledStable DEF IInv
            <3> QED  BY <1>5, <3>1 DEF SettledUpTo
      <2>3. ASSUME NEW x \in Readers PROVE SettledUpTo(x, told[x])'
            <3>1. ASSUME NEW s \in 1 .. told'[x] PROVE Settled(x, s)'
                  <4>1. s \in 1 .. told[x]  BY <1>1, <1>5, MaxSNAssumption
                  <4>2. s \in SN  BY <1>1, <4>1, MaxSNAssumption DEF SN
                  <4>3. Settled(x, s)  BY <4>1 DEF IInv, WaitInv, SettledUpTo
                  <4> QED  BY <1>6, <1>8, <4>2, <4>3, SettledStable DEF IInv
            <3> QED  BY <3>1 DEF SettledUpTo
      <2> QED  BY <1>5, <2>2, <2>3 DEF IInv, WaitInv
<1>12. WriterProxyInv'  BY <1>6, <1>8, KeepWriterProxyInv DEF WriterProxyInv
<1>13. NetInv'  BY <1>5, <1>6, <1>8, KeepNetInv DEF NetInv
<1> QED  BY <1>6, <1>9, <1>10, <1>11, <1>12, <1>13 DEF IInv

\* A lost Reader is owed nothing, and no wait is about it.
LEMMA ReaderLostInv ==
    ASSUME IInv, NEW r \in Readers, ReaderLost(r), UNCHANGED <<readerVars, waits>>,
           losses' \in Nat
    PROVE  IInv'
<1> USE DEF readerVars, netVars
<1>1. /\ history.last_seq \in 0 .. MaxSN /\ history.samples \in SUBSET SN
      /\ rp \in [Readers -> ReaderProxyType] /\ matched \subseteq Readers
      /\ owed \in [Readers -> SUBSET SN] /\ wait_for \in SUBSET Readers
      BY DEF IInv, TypeOK, WriterTypeOK, HistoryType
<1>2. /\ NewReaderProxy \in ReaderProxyType
      /\ NewReaderProxy.all_acked_before = 0
      /\ NewReaderProxy.unsent_changes = {} /\ NewReaderProxy.pending_gap = {}
      BY MaxSNAssumption DEF NewReaderProxy, ReaderProxyType
<1>3. /\ UNCHANGED <<history, target, hb_count, repair_timers, netVars>>
      /\ matched' = matched \ {r}
      /\ rp' = [rp EXCEPT ![r] = NewReaderProxy]
      /\ owed' = [owed EXCEPT ![r] = {}]
      /\ update_ack_waiters(r, TRUE, wait_for \ {r})
      BY DEF ReaderLost
<1>4. PICK rem : rem = wait_for \ {r}  OBVIOUS
<1>5. update_ack_waiters(r, TRUE, rem) /\ rem \in SUBSET Readers
      BY <1>1, <1>3, <1>4
<1>6. TypeOK'
      <2>1. NetTypeOK'  BY <1>3 DEF IInv, TypeOK, NetTypeOK
      <2>2. /\ ack_waiter' \in [wait_until : 0 .. MaxSN, readers_pending : SUBSET Readers]
            /\ wait_for' \subseteq Readers
            /\ told' \in [Readers -> 0 .. MaxSN]
            BY <1>5, UpdateAckWaitersType DEF IInv
      <2>3. WriterTypeOK'
            BY <1>1, <1>2, <1>3, <2>2 DEF IInv, TypeOK, WriterTypeOK
      <2>4. ReaderTypeOK'  BY DEF IInv, TypeOK, ReaderTypeOK
      <2> QED  BY <2>1, <2>3, <2>4 DEF IInv, TypeOK
<1>7. Stable  BY <1>1, <1>3, DueMembership DEF Stable
<1>8. HistoryInv'  BY <1>1, <1>3 DEF IInv, HistoryInv
<1>9. ReaderProxyInv'
      <2> SUFFICES ASSUME NEW x \in Readers
                   PROVE  /\ SettledUpTo(x, rp[x].all_acked_before - 1)'
                          /\ \A s \in rp'[x].unsent_changes : s <= history'.last_seq
                          /\ \A s \in rp'[x].pending_gap : Settled(x, s)'
          BY DEF ReaderProxyInv
      <2>1. CASE x # r
            <3>1. rp'[x] = rp[x]  BY <1>1, <1>3, <2>1
            <3> QED  BY <1>6, <1>7, <3>1, KeepReaderProxyInv
      <2>2. CASE x = r
            <3>1. rp'[x] = NewReaderProxy  BY <1>1, <1>3, <2>2
            <3>2. rp'[x].all_acked_before - 1 = -1  BY <1>2, <3>1
            <3>3. SettledUpTo(x, rp[x].all_acked_before - 1)'
                  BY <3>2 DEF SettledUpTo
            <3> QED  BY <1>2, <3>1, <3>3
      <2> QED  BY <2>1, <2>2
<1>10. WaitInv'
      BY <1>4, <1>5, <1>6, <1>7, UpdateAckWaitersInv
<1>11. WriterProxyInv'  BY <1>6, <1>7, KeepWriterProxyInv DEF WriterProxyInv
<1>12. NetInv'  BY <1>3, <1>6, <1>7, KeepNetInv DEF NetInv
<1> QED  BY <1>6, <1>8, <1>9, <1>10, <1>11, <1>12 DEF IInv

\* A wait that is over, or that a Reader need not join, is about Readers that
\* acknowledged everything written so far.
LEMMA WaitStepInv ==
    ASSUME IInv, Wait, UNCHANGED <<readerVars, losses>>
    PROVE  IInv'
<1> USE DEF readerVars, netVars
<1> DEFINE n        == history.last_seq
           reliable == matched \cap Reliable
           pending  == {r \in reliable : rp[r].all_acked_before <= n}
<1>1. /\ n \in 0 .. MaxSN
      /\ rp \in [Readers -> ReaderProxyType] /\ matched \subseteq Readers
      /\ told \in [Readers -> 0 .. MaxSN] /\ waits \in Nat
      BY DEF IInv, TypeOK, WriterTypeOK, HistoryType
<1>2. /\ UNCHANGED <<history, target, matched, rp, hb_count, repair_timers,
                     owed, netVars>>
      /\ waits' = waits + 1
      BY DEF Wait, WaitForAcknowledgments
<1>3. \/ /\ pending = {} /\ ack_waiter' = NoWaiter /\ wait_for' = {}
         /\ told' = [r \in Readers |-> IF r \in reliable THEN n ELSE told[r]]
      \/ /\ ack_waiter' = [wait_until |-> n, readers_pending |-> pending]
         /\ wait_for' = reliable
         /\ told' = told
      BY DEF Wait, WaitForAcknowledgments
<1>4. reliable \subseteq Readers /\ pending \in SUBSET Readers  BY <1>1
<1>5. ASSUME NEW r \in reliable, r \notin pending, NEW s \in 1 .. n
      PROVE  Settled(r, s)
      <2>1. r \in Readers /\ rp[r] \in ReaderProxyType  BY <1>1, <1>4
      <2>2. s \in 1 .. rp[r].all_acked_before - 1
            BY <1>1, <1>5, <2>1, MaxSNAssumption DEF ReaderProxyType
      <2> QED  BY <2>1, <2>2 DEF IInv, ReaderProxyInv, SettledUpTo
<1> HIDE DEF reliable, pending
<1>6. TypeOK'
      <2>1. NetTypeOK'  BY <1>2 DEF IInv, TypeOK, NetTypeOK
      <2>2. /\ ack_waiter' \in [wait_until : 0 .. MaxSN, readers_pending : SUBSET Readers]
            /\ wait_for' \subseteq Readers
            /\ told' \in [Readers -> 0 .. MaxSN]
            BY <1>1, <1>3, <1>4, MaxSNAssumption DEF NoWaiter
      <2>3. WriterTypeOK'  BY <1>2, <2>2 DEF IInv, TypeOK, WriterTypeOK
      <2>4. ReaderTypeOK'  BY DEF IInv, TypeOK, ReaderTypeOK
      <2> QED  BY <1>1, <1>2, <2>1, <2>3, <2>4 DEF IInv, TypeOK
<1>7. Stable  BY <1>1, <1>2, DueMembership DEF Stable
<1>8. HistoryInv'  BY <1>2 DEF IInv, HistoryInv
<1>9. ReaderProxyInv'  BY <1>2, <1>6, <1>7, KeepReaderProxyInv DEF ReaderProxyInv
<1>10. WaitInv'
      <2>1. ack_waiter'.wait_until <= history'.last_seq
            BY <1>1, <1>2, <1>3 DEF NoWaiter
      <2>2. ASSUME NEW r \in wait_for', r \notin ack_waiter'.readers_pending,
                   NEW s \in 1 .. ack_waiter'.wait_until
            PROVE  Settled(r, s)'
            <3>1. r \in reliable /\ r \notin pending /\ s \in 1 .. n
                  BY <1>3, <2>2
            <3>2. r \in Readers /\ s \in SN /\ Settled(r, s)
                  BY <1>1, <1>4, <1>5, <3>1, MaxSNAssumption DEF SN
            <3> QED  BY <1>6, <1>7, <3>2, SettledStable DEF IInv
      <2>3. ASSUME NEW r \in Readers, NEW s \in 1 .. told'[r]
            PROVE  Settled(r, s)'
            <3>1. s \in SN  BY <1>1, <1>3, MaxSNAssumption DEF SN
            <3>2. Settled(r, s)
                  <4>1. CASE s \in 1 .. told[r]
                        BY <4>1 DEF IInv, WaitInv, SettledUpTo
                  <4>2. CASE s \notin 1 .. told[r]
                        <5>1. r \in reliable /\ r \notin pending /\ s \in 1 .. n
                              BY <1>3, <2>3, <4>2
                        <5> QED  BY <1>5, <5>1
                  <4> QED  BY <4>1, <4>2
            <3> QED  BY <1>6, <1>7, <3>1, <3>2, SettledStable DEF IInv
      <2> QED  BY <2>1, <2>2, <2>3 DEF WaitInv, SettledUpTo
<1>11. WriterProxyInv'  BY <1>6, <1>7, KeepWriterProxyInv DEF WriterProxyInv
<1>12. NetInv'  BY <1>2, <1>6, <1>7, KeepNetInv DEF NetInv
<1> QED  BY <1>6, <1>8, <1>9, <1>10, <1>11, <1>12 DEF IInv

\* A new sample takes a number above all others, so nothing settled speaks of
\* it; the GAP that goes with it is about settled numbers.
LEMMA WriteInv ==
    ASSUME IInv, NEW sn \in SN, NEW to \in Targets, Write(sn, to),
           UNCHANGED <<readerVars, losses, waits>>
    PROVE  IInv'
<1> USE DEF readerVars
<1>1. /\ history \in HistoryType
      /\ history.last_seq \in 0 .. MaxSN /\ history.samples \in SUBSET SN
      /\ history.first_seq \in SN
      /\ rp \in [Readers -> ReaderProxyType] /\ matched \subseteq Readers
      /\ owed \in [Readers -> SUBSET SN] /\ target \in [SN -> Destination]
      /\ hb_count \in Nat
      BY DEF IInv, TypeOK, WriterTypeOK, HistoryType
<1>2. /\ sn > history.last_seq
      /\ history' = add_change(history, sn)
      /\ target' = [target EXCEPT ![sn] = to]
      /\ UNCHANGED <<matched, repair_timers, ack_waiter, wait_for, told, acknack_net>>
      /\ hb_count' \in Nat
      /\ owed' = [r \in Readers |-> IF r \in matched /\ IsFor(to, r)
                                    THEN owed[r] \cup {sn} ELSE owed[r]]
      BY <1>1 DEF Write
<1>3. /\ history' \in HistoryType
      /\ history'.first_seq = history.first_seq
      /\ history'.last_seq = sn
      /\ history'.samples = history.samples \cup {sn}
      <2>1. history' = [history EXCEPT !.samples = history.samples \cup {sn},
                                       !.last_seq = sn]
            BY <1>2 DEF add_change
      <2>2. sn \in 0 .. MaxSN  BY MaxSNAssumption DEF SN
      <2> QED  BY <1>1, <2>1, <2>2 DEF HistoryType
<1>4. to \in Destination  BY WriterAssumption
<1>5. ASSUME NEW r \in Readers
      PROVE  /\ rp'[r] \in ReaderProxyType
             /\ rp'[r].all_acked_before = rp[r].all_acked_before
             /\ rp'[r].unsent_changes \subseteq rp[r].unsent_changes \cup {sn}
             /\ \/ rp'[r].pending_gap = rp[r].pending_gap
                \/ /\ rp'[r].pending_gap = rp[r].pending_gap \cup {sn}
                   /\ ~IsFor(to, r)
      <2> DEFINE n == notify_new_cache_change(rp[r], sn)
                 i == insert_pending_gap(n, sn)
      <2>1. rp'[r] = IF r \notin matched THEN rp[r]
                     ELSE IF IsFor(to, r) THEN n ELSE i
            BY DEF Write
      <2>2. /\ n \in ReaderProxyType
            /\ n.all_acked_before = rp[r].all_acked_before
            /\ n.unsent_changes = rp[r].unsent_changes \cup {sn}
            /\ n.pending_gap = rp[r].pending_gap
            BY <1>1, NewChangeOps
      <2> HIDE DEF n
      <2>3. /\ i \in ReaderProxyType
            /\ i.all_acked_before = n.all_acked_before
            /\ i.unsent_changes = n.unsent_changes
            /\ i.pending_gap = n.pending_gap \cup {sn}
            BY <2>2, NewChangeOps
      <2> HIDE DEF i
      <2> QED  BY <1>1, <2>1, <2>2, <2>3
<1>6. rp' = [r \in Readers |-> rp'[r]]  BY DEF Write
<1>7. ASSUME NEW m \in data_net', m \notin data_net
      PROVE  m \in DataMsg /\ m.sn = sn
      BY <1>4, <1>7 DEF Write, DataMsg
<1>8. ASSUME NEW m \in hb_net', m \notin hb_net
      PROVE  m \in HbMsg /\ m.first_sn = history.first_seq
      <2>1. m = heartbeat_msg(to, history')  BY <1>2, <1>8 DEF Write
      <2> QED  BY <1>1, <1>3, <1>4, <2>1, MaxSNAssumption
               DEF heartbeat_msg, HbMsg, SN
<1>9. ASSUME NEW m \in gap_net', m \notin gap_net
      PROVE  /\ m \in GapMsg /\ m.to = to /\ to \in Readers
             /\ GapSet(m) \subseteq rp[to].pending_gap
      <2>1. to \in matched /\ m \in gap_msg(to, rp[to].pending_gap)
            BY <1>9 DEF Write
      <2>2. to \in Readers /\ rp[to].pending_gap \in SUBSET SN
            BY <1>1, <2>1 DEF ReaderProxyType
      <2> QED  BY <2>1, <2>2, GapMsgSound
<1>10. data_net \subseteq data_net' /\ hb_net \subseteq hb_net' /\ gap_net \subseteq gap_net'
      BY DEF Write
<1>11. TypeOK'
      <2>1. NetTypeOK'
            BY <1>2, <1>7, <1>8, <1>9 DEF IInv, TypeOK, NetTypeOK
      <2>2. rp' \in [Readers -> ReaderProxyType]  BY <1>5, <1>6
      <2>3. target' \in [SN -> Destination] /\ owed' \in [Readers -> SUBSET SN]
            BY <1>1, <1>2, <1>4
      <2>4. WriterTypeOK'
            BY <1>2, <1>3, <2>2, <2>3 DEF IInv, TypeOK, WriterTypeOK
      <2>5. ReaderTypeOK'  BY DEF IInv, TypeOK, ReaderTypeOK
      <2> QED  BY <2>1, <2>4, <2>5 DEF IInv, TypeOK
<1>12. ASSUME NEW r \in Readers, NEW s \in SN, s # sn, (s \in Due(r))'
       PROVE  s \in Due(r)
      <2>1. target'[s] = target[s]  BY <1>1, <1>2, <1>12
      <2> QED  BY <1>1, <1>2, <1>3, <1>12, <2>1, DueMembership
<1>13. Stable
      <2>1. history'.last_seq >= history.last_seq
            BY <1>1, <1>2, <1>3, MaxSNAssumption DEF SN
      <2>2. ASSUME NEW s \in SN, s <= history.last_seq PROVE s # sn
            BY <1>1, <1>2, <2>2, MaxSNAssumption DEF SN
      <2> QED  BY <1>12, <2>1, <2>2 DEF Stable
<1>14. HistoryInv'
      <2>1. history'.first_seq <= history'.last_seq + 1
            BY <1>1, <1>2, <1>3, MaxSNAssumption DEF IInv, HistoryInv, SN
      <2>2. \A s \in history'.samples :
               history'.first_seq <= s /\ s <= history'.last_seq
            BY <1>1, <1>2, <1>3, MaxSNAssumption DEF IInv, HistoryInv, SN
      <2>3. ASSUME NEW r \in Readers, NEW s \in owed'[r]
            PROVE  s <= history'.last_seq /\ (s \in cache[r] \/ s \in history'.samples)
            <3>1. CASE s = sn  BY <1>3, <3>1, MaxSNAssumption DEF SN
            <3>2. CASE s # sn
                  <4>1. s \in owed[r] /\ s \in SN  BY <1>1, <1>2, <3>2
                  <4> QED  BY <1>1, <1>2, <1>3, <4>1, MaxSNAssumption
                           DEF IInv, HistoryInv, SN
            <3> QED  BY <3>1, <3>2
      <2>4. \A r \in Readers \ matched' : owed'[r] = {}
            BY <1>2 DEF IInv, HistoryInv
      <2> QED  BY <2>1, <2>2, <2>3, <2>4 DEF HistoryInv
<1>15. ReaderProxyInv'
      <2> SUFFICES ASSUME NEW r \in Readers
                   PROVE  /\ SettledUpTo(r, rp[r].all_acked_before - 1)'
                          /\ \A s \in rp'[r].unsent_changes : s <= history'.last_seq
                          /\ \A s \in rp'[r].pending_gap : Settled(r, s)'
          BY DEF ReaderProxyInv
      <2>1. rp[r] \in ReaderProxyType  BY <1>1
      <2>2. ASSUME NEW s \in 1 .. rp'[r].all_acked_before - 1 PROVE Settled(r, s)'
            <3>1. s \in 1 .. rp[r].all_acked_before - 1  BY <1>5
            <3>2. s \in SN  BY <2>1, <3>1, MaxSNAssumption DEF ReaderProxyType, SN
            <3>3. Settled(r, s)  BY <3>1 DEF IInv, ReaderProxyInv, SettledUpTo
            <3> QED  BY <1>11, <1>13, <3>2, <3>3, SettledStable DEF IInv
      <2>3. SettledUpTo(r, rp[r].all_acked_before - 1)'  BY <2>2 DEF SettledUpTo
      <2>4. ASSUME NEW s \in rp'[r].unsent_changes PROVE s <= history'.last_seq
            <3>1. CASE s = sn  BY <1>3, <3>1, MaxSNAssumption DEF SN
            <3>2. CASE s # sn
                  <4>1. s \in rp[r].unsent_changes  BY <1>5, <3>2
                  <4>2. s \in SN /\ s <= history.last_seq
                        BY <2>1, <4>1 DEF IInv, ReaderProxyInv, ReaderProxyType
                  <4> QED  BY <1>1, <1>2, <1>3, <4>2, MaxSNAssumption DEF SN
            <3> QED  BY <3>1, <3>2
      <2>5. ASSUME NEW s \in rp'[r].pending_gap PROVE Settled(r, s)'
            <3>1. CASE s \in rp[r].pending_gap
                  <4>1. s \in SN /\ Settled(r, s)
                        BY <2>1, <3>1 DEF IInv, ReaderProxyInv, ReaderProxyType
                  <4> QED  BY <1>11, <1>13, <4>1, SettledStable DEF IInv
            <3>2. CASE s \notin rp[r].pending_gap
                  <4>1. s = sn /\ ~IsFor(to, r)  BY <1>5, <3>2
                  <4>2. sn \notin owed[r]
                        BY <1>1, <1>2, MaxSNAssumption DEF IInv, HistoryInv, SN
                  <4>3. ~(s \in Due(r))'
                        BY <1>1, <1>2, <4>1, <4>2, DueMembership
                  <4>4. s <= history'.last_seq  BY <1>3, <4>1, MaxSNAssumption DEF SN
                  <4> QED  BY <4>3, <4>4 DEF Settled
            <3> QED  BY <3>1, <3>2
      <2> QED  BY <2>3, <2>4, <2>5
<1>16. WaitInv'  BY <1>2, <1>11, <1>13, KeepWaitInv
<1>17. WriterProxyInv'  BY <1>11, <1>13, KeepWriterProxyInv DEF WriterProxyInv
<1>18. NetInv'
      <2>1. ASSUME NEW m \in data_net', m \notin data_net
            PROVE  m.sn <= history'.last_seq
            BY <1>3, <1>7, <2>1, MaxSNAssumption DEF SN
      <2>2. ASSUME NEW m \in hb_net', m \notin hb_net, NEW r \in Readers
            PROVE  SettledUpTo(r, m.first_sn - 1)'
            BY <1>8, <1>11, <1>13, <2>2, NewHeartbeat
      <2>3. ASSUME NEW m \in gap_net', m \notin gap_net, NEW s \in GapSet(m)
            PROVE  Settled(m.to, s)'
            <3>1. m.to \in Readers /\ s \in rp[m.to].pending_gap /\ s \in SN
                  BY <1>9, <2>3 DEF GapSet
            <3>2. Settled(m.to, s)  BY <3>1 DEF IInv, ReaderProxyInv
            <3> QED  BY <1>11, <1>13, <3>1, <3>2, SettledStable DEF IInv
      <2> QED  BY <1>2, <1>11, <1>13, <2>1, <2>2, <2>3, KeepNetInv DEF NetInv
<1> QED  BY <1>11, <1>14, <1>15, <1>16, <1>17, <1>18 DEF IInv

-----------------------------------------------------------------------------
(* The steps of a Reader *)

\* When one Reader's proxy changes and learns only settled numbers, the
\* invariant is kept: SetProxy moves the marker to the new ack_base.
LEMMA NewProxyInv ==
    ASSUME IInv, TypeOK', Stable, NEW r \in Readers,
           SetProxy(r, wp'[r]), Consistent(wp'[r]),
           \A s \in Known(wp'[r]) : Settled(r, s)',
           UNCHANGED <<last_read, taken>>
    PROVE  WriterProxyInv'
<1>1. /\ wp \in [Readers -> WriterProxyType]
      /\ marker \in [Readers -> 1 .. MaxSN + 1]
      BY DEF IInv, TypeOK, ReaderTypeOK
<1>2. /\ wp' = [wp EXCEPT ![r] = wp'[r]]
      /\ marker' = [marker EXCEPT ![r] = wp'[r].ack_base]
      BY DEF SetProxy
<1> SUFFICES ASSUME NEW x \in Readers
             PROVE  /\ Consistent(wp'[x])
                    /\ \A s \in Known(wp'[x]) : Settled(x, s)'
                    /\ SettledUpTo(x, marker[x] - 1)'
                    /\ last_read'[x] <= history'.last_seq
                    /\ \A s \in Due(x)' : s <= last_read'[x] => s \in taken'[x]
    BY DEF WriterProxyInv
<1>3. CASE x # r
      <2>1. wp'[x] = wp[x] /\ marker'[x] = marker[x]  BY <1>1, <1>2, <1>3
      <2> QED  BY <2>1, KeepWriterProxyInv
<1>4. CASE x = r
      <2>1. marker'[x] = wp'[x].ack_base  BY <1>1, <1>2, <1>4
      <2>2. ASSUME NEW s \in 1 .. marker'[x] - 1 PROVE Settled(x, s)'
            <3>1. wp'[x].ack_base \in 1 .. MaxSN + 1
                  BY <1>4 DEF Consistent, WriterProxyType
            <3>2. s \in SN /\ s < wp'[x].ack_base
                  BY <2>1, <3>1, MaxSNAssumption DEF SN
            <3>3. s \in Known(wp'[x])  BY <3>2 DEF Known, should_ignore_change
            <3> QED  BY <1>4, <3>3
      <2>3. SettledUpTo(x, marker[x] - 1)'  BY <2>2 DEF SettledUpTo
      <2> QED  BY <1>4, <2>3, KeepLastRead
<1> QED  BY <1>3, <1>4

\* Types after a change of one proxy.
LEMMA NewProxyType ==
    ASSUME TypeOK, NEW r \in Readers, NEW p, SetProxy(r, p), Consistent(p)
    PROVE  /\ wp' \in [Readers -> WriterProxyType] /\ wp'[r] = p
           /\ marker' \in [Readers -> 1 .. MaxSN + 1]
<1>1. p \in WriterProxyType /\ p.ack_base \in 1 .. MaxSN + 1
      BY DEF Consistent, WriterProxyType
<1> QED  BY <1>1 DEF SetProxy, TypeOK, ReaderTypeOK

\* Received DATA makes a number known together with its sample.
LEMMA HandleDataInv ==
    ASSUME IInv, NEW r \in Readers, NEW m \in data_net, HandleData(r, m),
           UNCHANGED <<writerVars, losses, waits>>
    PROVE  IInv'
<1> USE DEF writerVars, netVars
<1>1. /\ m.sn \in SN
      /\ wp \in [Readers -> WriterProxyType] /\ Consistent(wp[r])
      /\ cache \in [Readers -> SUBSET SN] /\ history.last_seq \in 0 .. MaxSN
      BY DEF IInv, TypeOK, NetTypeOK, DataMsg, ReaderTypeOK, WriterProxyInv,
             WriterTypeOK, HistoryType
<1>2. PICK p : p = received_changes_add(wp[r], m.sn)  OBVIOUS
<1>3. /\ SetProxy(r, p)
      /\ cache' = [cache EXCEPT ![r] = @ \cup {m.sn}]
      /\ UNCHANGED <<wmatched, last_read, taken, netVars>>
      BY <1>2 DEF HandleData
<1>4. Consistent(p) /\ Known(p) = Known(wp[r]) \cup {m.sn}
      BY <1>1, <1>2, ReceivedChangesAdd DEF HandleData
<1>5. /\ wp' \in [Readers -> WriterProxyType] /\ wp'[r] = p
      /\ marker' \in [Readers -> 1 .. MaxSN + 1]
      BY <1>3, <1>4, NewProxyType DEF IInv
<1>6. TypeOK'
      <2>1. NetTypeOK'  BY <1>3 DEF IInv, TypeOK, NetTypeOK
      <2>2. WriterTypeOK'  BY DEF IInv, TypeOK, WriterTypeOK
      <2>3. ReaderTypeOK'  BY <1>1, <1>3, <1>5 DEF IInv, TypeOK, ReaderTypeOK
      <2> QED  BY <2>1, <2>2, <2>3 DEF IInv, TypeOK
<1>7. Stable  BY <1>1, <1>3, DueMembership DEF Stable
<1>8. HistoryInv'  BY <1>1, <1>3 DEF IInv, HistoryInv
<1>9. ReaderProxyInv'  BY <1>6, <1>7, KeepReaderProxyInv DEF ReaderProxyInv
<1>10. WaitInv'  BY <1>6, <1>7, KeepWaitInv
<1>11. ASSUME NEW s \in Known(p) PROVE Settled(r, s)'
      <2>1. CASE s = m.sn
            <3>1. s <= history'.last_seq /\ s \in cache'[r]
                  BY <1>1, <1>3, <2>1 DEF IInv, NetInv
            <3> QED  BY <3>1 DEF Settled
      <2>2. CASE s # m.sn
            <3>1. s \in Known(wp[r]) /\ s \in SN  BY <1>4, <2>2 DEF Known
            <3>2. Settled(r, s)  BY <3>1 DEF IInv, WriterProxyInv
            <3> QED  BY <1>6, <1>7, <3>1, <3>2, SettledStable DEF IInv
      <2> QED  BY <2>1, <2>2
<1>12. WriterProxyInv'
      BY <1>3, <1>4, <1>5, <1>6, <1>7, <1>11, NewProxyInv
<1>13. NetInv'  BY <1>3, <1>6, <1>7, KeepNetInv DEF NetInv
<1> QED  BY <1>6, <1>8, <1>9, <1>10, <1>12, <1>13 DEF IInv

\* A GAP only makes settled numbers known.
LEMMA HandleGapInv ==
    ASSUME IInv, NEW r \in Readers, NEW m \in gap_net, HandleGap(r, m),
           UNCHANGED <<writerVars, losses, waits>>
    PROVE  IInv'
<1> USE DEF writerVars, netVars
<1>1. /\ m.to \in Readers /\ m.gap_start \in SN /\ m.base \in 1 .. MaxSN + 1
      /\ m.list \in SUBSET SN
      /\ wp \in [Readers -> WriterProxyType] /\ Consistent(wp[r])
      /\ history.last_seq \in 0 .. MaxSN
      BY DEF IInv, TypeOK, NetTypeOK, GapMsg, ReaderTypeOK, WriterProxyInv,
             WriterTypeOK, HistoryType
<1>2. m.to = r
      BY <1>1, ReadersAssumption DEF HandleGap, Reaches
<1> DEFINE q == irrelevant_changes_range(wp[r], m.gap_start, m.base)
<1>3. PICK p : p = set_irrelevant_changes(q, m.list)  OBVIOUS
<1>4. SetProxy(r, p) /\ UNCHANGED <<wmatched, cache, last_read, taken, netVars>>
      BY <1>3 DEF HandleGap
<1>5. /\ Consistent(q)
      /\ Known(q) = Known(wp[r]) \cup {s \in SN : m.gap_start <= s /\ s < m.base}
      <2>1. m.gap_start \in 0 .. MaxSN + 1  BY <1>1, MaxSNAssumption DEF SN
      <2> QED  BY <1>1, <2>1, IrrelevantChangesRange
<1> HIDE DEF q
<1>6. Consistent(p) /\ Known(p) = Known(q) \cup m.list
      BY <1>1, <1>3, <1>5, SetIrrelevantChanges
<1>7. /\ wp' \in [Readers -> WriterProxyType] /\ wp'[r] = p
      /\ marker' \in [Readers -> 1 .. MaxSN + 1]
      BY <1>4, <1>6, NewProxyType DEF IInv
<1>8. TypeOK'
      <2>1. NetTypeOK'  BY <1>4 DEF IInv, TypeOK, NetTypeOK
      <2>2. WriterTypeOK'  BY DEF IInv, TypeOK, WriterTypeOK
      <2>3. ReaderTypeOK'  BY <1>4, <1>7 DEF IInv, TypeOK, ReaderTypeOK
      <2> QED  BY <2>1, <2>2, <2>3 DEF IInv, TypeOK
<1>9. Stable  BY <1>1, <1>4, DueMembership DEF Stable
<1>10. HistoryInv'  BY <1>4 DEF IInv, HistoryInv
<1>11. ReaderProxyInv'  BY <1>8, <1>9, KeepReaderProxyInv DEF ReaderProxyInv
<1>12. WaitInv'  BY <1>8, <1>9, KeepWaitInv
<1>13. ASSUME NEW s \in Known(p) PROVE Settled(r, s)'
      <2>1. s \in SN  BY DEF Known
      <2>2. s \in Known(wp[r]) \/ s \in GapSet(m)
            BY <1>5, <1>6, <2>1 DEF GapSet
      <2>3. Settled(r, s)  BY <1>2, <2>2 DEF IInv, WriterProxyInv, NetInv
      <2> QED  BY <1>8, <1>9, <2>1, <2>3, SettledStable DEF IInv
<1>14. WriterProxyInv'
      BY <1>4, <1>6, <1>7, <1>8, <1>9, <1>13, NewProxyInv
<1>15. NetInv'  BY <1>4, <1>8, <1>9, KeepNetInv DEF NetInv
<1> QED  BY <1>8, <1>10, <1>11, <1>12, <1>14, <1>15 DEF IInv

\* An ACKNACK acknowledges only numbers that the proxy knows.
LEMMA AckNackForSound ==
    ASSUME NEW r \in Readers, NEW p, Consistent(p), NEW m \in HbMsg,
           \A s \in SN : s < m.first_sn => s \in Known(p)
    PROVE  /\ AckNackFor(r, p, m) \in AckNackMsg
           /\ AckNackFor(r, p, m).from = r
           /\ \A s \in 1 .. AckNackFor(r, p, m).base - 1 : s \in Known(p)
<1> DEFINE missing == missing_seqnums(p, m.first_sn, m.last_sn)
           base    == IF missing = {} THEN p.ack_base ELSE First(missing)
           set     == from_base_and_set(base, missing)
<1>1. /\ p.ack_base \in 1 .. MaxSN + 1 /\ p.changes \in SUBSET SN
      /\ m.first_sn \in 1 .. MaxSN + 1 /\ m.last_sn \in 0 .. MaxSN
      BY DEF Consistent, WriterProxyType, HbMsg
<1>2. AckNackFor(r, p, m) = [from |-> r, base |-> base, set |-> set]
      BY DEF AckNackFor
<1>3. missing \in SUBSET SN
      BY <1>1, MaxSNAssumption DEF missing_seqnums, SN
<1>4. ASSUME NEW s \in SN, s \notin missing, s <= m.last_sn PROVE s \in Known(p)
      BY <1>1, <1>4, KnownMembership, MaxSNAssumption DEF missing_seqnums, SN
<1> HIDE DEF missing
<1>5. /\ base \in 1 .. MaxSN + 1
      /\ \A s \in 1 .. base - 1 : s \in Known(p)
      <2>1. CASE missing = {}
            <3>1. base = p.ack_base  BY <2>1
            <3> HIDE DEF base
            <3> QED  BY <1>1, <3>1, KnownMembership, MaxSNAssumption DEF SN
      <2>2. CASE missing # {}
            <3>1. base = First(missing)  BY <2>2
            <3>2. missing \in SUBSET Nat  BY <1>3, MaxSNAssumption DEF SN
            <3> HIDE DEF base
            <3>3. base \in missing /\ \A t \in missing : base <= t
                  BY <2>2, <3>1, <3>2, FirstIsLeast
            <3>4. base \in SN /\ base <= m.last_sn
                  BY <1>1, <1>3, <3>3, MaxSNAssumption DEF missing, missing_seqnums, SN
            <3>5. ASSUME NEW s \in 1 .. base - 1 PROVE s \in Known(p)
                  <4>1. s \in SN /\ s < base  BY <3>4, MaxSNAssumption DEF SN
                  <4>2. s \notin missing /\ s <= m.last_sn
                        BY <1>1, <3>3, <3>4, <4>1, MaxSNAssumption DEF SN
                  <4> QED  BY <1>4, <4>1, <4>2
            <3> QED  BY <3>4, <3>5, MaxSNAssumption DEF SN
      <2> QED  BY <2>1, <2>2
<1>6. set \in SUBSET SN  BY <1>3 DEF from_base_and_set
<1> HIDE DEF base, set
<1> QED  BY <1>2, <1>5, <1>6 DEF AckNackMsg

\* A HEARTBEAT makes a settled prefix known, and its answer is truthful.
LEMMA HandleHeartbeatInv ==
    ASSUME IInv, NEW r \in Readers, NEW m \in hb_net, HandleHeartbeat(r, m),
           UNCHANGED <<writerVars, losses, waits>>
    PROVE  IInv'
<1> USE DEF writerVars, netVars
<1>1. /\ m \in HbMsg /\ m.first_sn \in 1 .. MaxSN + 1 /\ m.count \in Nat
      /\ wp \in [Readers -> WriterProxyType] /\ Consistent(wp[r])
      /\ history.last_seq \in 0 .. MaxSN
      BY DEF IInv, TypeOK, NetTypeOK, HbMsg, ReaderTypeOK, WriterProxyInv,
             WriterTypeOK, HistoryType
<1> DEFINE c == [wp[r] EXCEPT !.received_heartbeat_count = m.count]
<1>2. PICK p : p = irrelevant_changes_up_to(c, m.first_sn)  OBVIOUS
<1>3. /\ SetProxy(r, p)
      /\ acknack_net' = acknack_net \cup {AckNackFor(r, p, m)}
      /\ UNCHANGED <<wmatched, cache, last_read, taken, data_net, hb_net, gap_net>>
      BY <1>2 DEF HandleHeartbeat
<1>4. Consistent(c) /\ c.ack_base = wp[r].ack_base /\ c.changes = wp[r].changes
      BY <1>1 DEF Consistent, WriterProxyType
<1> HIDE DEF c
<1>5. Known(c) = Known(wp[r])  BY <1>4 DEF Known, should_ignore_change
<1>6. Consistent(p) /\ Known(p) = Known(c) \cup {s \in SN : 0 <= s /\ s < m.first_sn}
      <2>1. 0 \in 0 .. MaxSN + 1  BY MaxSNAssumption
      <2> QED  BY <1>1, <1>2, <1>4, <2>1, IrrelevantChangesRange
               DEF irrelevant_changes_up_to
<1>7. /\ wp' \in [Readers -> WriterProxyType] /\ wp'[r] = p
      /\ marker' \in [Readers -> 1 .. MaxSN + 1]
      BY <1>3, <1>6, NewProxyType DEF IInv
<1>8. \A s \in SN : s < m.first_sn => s \in Known(p)
      BY <1>6, MaxSNAssumption DEF SN
<1>9. PICK a : a = AckNackFor(r, p, m)  OBVIOUS
<1>10. /\ a \in AckNackMsg /\ a.from = r
       /\ \A s \in 1 .. a.base - 1 : s \in Known(p)
      BY <1>1, <1>6, <1>8, <1>9, AckNackForSound
<1>11. TypeOK'
      <2>1. NetTypeOK'  BY <1>3, <1>9, <1>10 DEF IInv, TypeOK, NetTypeOK
      <2>2. WriterTypeOK'  BY DEF IInv, TypeOK, WriterTypeOK
      <2>3. ReaderTypeOK'  BY <1>3, <1>7 DEF IInv, TypeOK, ReaderTypeOK
      <2> QED  BY <2>1, <2>2, <2>3 DEF IInv, TypeOK
<1>12. Stable  BY <1>1, <1>3, DueMembership DEF Stable
<1>13. HistoryInv'  BY <1>3 DEF IInv, HistoryInv
<1>14. ReaderProxyInv'  BY <1>11, <1>12, KeepReaderProxyInv DEF ReaderProxyInv
<1>15. WaitInv'  BY <1>11, <1>12, KeepWaitInv
<1>16. ASSUME NEW s \in Known(p) PROVE Settled(r, s)'
      <2>1. s \in SN  BY DEF Known
      <2>2. s \in Known(wp[r]) \/ s \in 1 .. m.first_sn - 1
            BY <1>1, <1>5, <1>6, <2>1, MaxSNAssumption DEF SN
      <2>3. Settled(r, s)
            BY <2>2 DEF IInv, WriterProxyInv, NetInv, SettledUpTo
      <2> QED  BY <1>11, <1>12, <2>1, <2>3, SettledStable DEF IInv
<1>17. WriterProxyInv'
      BY <1>3, <1>6, <1>7, <1>11, <1>12, <1>16, NewProxyInv
<1>18. NetInv'
      <2>1. ASSUME NEW k \in acknack_net', k \notin acknack_net
            PROVE  SettledUpTo(k.from, k.base - 1)'
            <3>1. k = a  BY <1>3, <1>9, <2>1
            <3> QED  BY <1>10, <1>16, <3>1 DEF SettledUpTo
      <2> QED  BY <1>3, <1>11, <1>12, <2>1, KeepNetInv DEF NetInv
<1> QED  BY <1>11, <1>13, <1>14, <1>15, <1>17, <1>18 DEF IInv

\* A new or a removed proxy knows nothing.
LEMMA ResetProxyInv ==
    ASSUME IInv, NEW r \in Readers, wp' = [wp EXCEPT ![r] = NewWriterProxy],
           wmatched' \subseteq Readers, losses' \in Nat,
           UNCHANGED <<cache, marker, last_read, taken, netVars, writerVars, waits>>
    PROVE  IInv'
<1> USE DEF writerVars, netVars
<1>1. wp \in [Readers -> WriterProxyType] /\ history.last_seq \in 0 .. MaxSN
      BY DEF IInv, TypeOK, ReaderTypeOK, WriterTypeOK, HistoryType
<1>2. /\ NewWriterProxy \in WriterProxyType
      /\ NewWriterProxy.ack_base = 1 /\ NewWriterProxy.changes = {}
      BY MaxSNAssumption DEF NewWriterProxy, WriterProxyType
<1>3. Consistent(NewWriterProxy)  BY <1>2 DEF Consistent
<1>4. Known(NewWriterProxy) = {}
      BY <1>2, MaxSNAssumption DEF Known, should_ignore_change, SN
<1>5. TypeOK'
      <2>1. NetTypeOK'  BY DEF IInv, TypeOK, NetTypeOK
      <2>2. WriterTypeOK'  BY DEF IInv, TypeOK, WriterTypeOK
      <2>3. ReaderTypeOK'  BY <1>1, <1>2 DEF IInv, TypeOK, ReaderTypeOK
      <2> QED  BY <2>1, <2>2, <2>3 DEF IInv, TypeOK
<1>6. Stable  BY <1>1, DueMembership DEF Stable
<1>7. HistoryInv'  BY DEF IInv, HistoryInv
<1>8. ReaderProxyInv'  BY <1>5, <1>6, KeepReaderProxyInv DEF ReaderProxyInv
<1>9. WaitInv'  BY <1>5, <1>6, KeepWaitInv
<1>10. WriterProxyInv'
      <2> SUFFICES ASSUME NEW x \in Readers
                   PROVE  /\ Consistent(wp'[x])
                          /\ \A s \in Known(wp'[x]) : Settled(x, s)'
                          /\ SettledUpTo(x, marker[x] - 1)'
                          /\ last_read'[x] <= history'.last_seq
                          /\ \A s \in Due(x)' : s <= last_read'[x] => s \in taken'[x]
          BY DEF WriterProxyInv
      <2>1. CASE x # r
            <3>1. wp'[x] = wp[x]  BY <1>1, <2>1
            <3> QED  BY <1>5, <1>6, <3>1, KeepWriterProxyInv
      <2>2. CASE x = r
            <3>1. wp'[x] = NewWriterProxy  BY <1>1, <2>2
            <3>2. Consistent(wp'[x]) /\ Known(wp'[x]) = {}  BY <1>3, <1>4, <3>1
            <3> QED  BY <1>5, <1>6, <3>2, KeepMarker, KeepLastRead
      <2> QED  BY <2>1, <2>2
<1>11. NetInv'  BY <1>5, <1>6, KeepNetInv DEF NetInv
<1> QED  BY <1>5, <1>7, <1>8, <1>9, <1>10, <1>11 DEF IInv

\* The DataReader passes no sample that it is due: what lies below the marker
\* and is due is stored, and the first of it is taken.
LEMMA TakeInv ==
    ASSUME IInv, NEW r \in Readers, Take(r), UNCHANGED <<writerVars, losses, waits>>
    PROVE  IInv'
<1> USE DEF writerVars, netVars
<1>1. /\ cache \in [Readers -> SUBSET SN] /\ marker \in [Readers -> 1 .. MaxSN + 1]
      /\ last_read \in [Readers -> 0 .. MaxSN] /\ taken \in [Readers -> SUBSET SN]
      /\ history.last_seq \in 0 .. MaxSN /\ owed \in [Readers -> SUBSET SN]
      /\ history.samples \in SUBSET SN
      BY DEF IInv, TypeOK, ReaderTypeOK, WriterTypeOK, HistoryType
<1>2. PICK sn : sn = First(Available(r))  OBVIOUS
<1>3. /\ UNCHANGED <<wmatched, wp, cache, marker, netVars>>
      /\ last_read' = [last_read EXCEPT ![r] = sn]
      /\ taken' = [taken EXCEPT ![r] = @ \cup {sn}]
      BY <1>2 DEF Take
<1>4. sn \in Available(r) /\ \A t \in Available(r) : sn <= t
      <2>1. Available(r) \in SUBSET Nat /\ Available(r) # {}
            BY <1>1, MaxSNAssumption DEF Take, Available, SN
      <2> QED  BY <1>2, <2>1, FirstIsLeast
<1>5. sn \in SN /\ last_read[r] < sn /\ sn < marker[r]
      BY <1>1, <1>4 DEF Available
<1>6. ASSUME NEW s \in SN, s < marker[r] PROVE Settled(r, s)
      <2>1. s \in 1 .. marker[r] - 1  BY <1>1, <1>6, MaxSNAssumption DEF SN
      <2> QED  BY <2>1 DEF IInv, WriterProxyInv, SettledUpTo
<1>7. TypeOK'
      <2>1. NetTypeOK'  BY <1>3 DEF IInv, TypeOK, NetTypeOK
      <2>2. WriterTypeOK'  BY DEF IInv, TypeOK, WriterTypeOK
      <2>3. ReaderTypeOK'
            BY <1>1, <1>3, <1>5, MaxSNAssumption DEF IInv, TypeOK, ReaderTypeOK, SN
      <2> QED  BY <2>1, <2>2, <2>3 DEF IInv, TypeOK
<1>8. Stable  BY <1>1, <1>3, DueMembership DEF Stable
<1>9. HistoryInv'  BY <1>3 DEF IInv, HistoryInv
<1>10. ReaderProxyInv'  BY <1>7, <1>8, KeepReaderProxyInv DEF ReaderProxyInv
<1>11. WaitInv'  BY <1>7, <1>8, KeepWaitInv
<1>12. WriterProxyInv'
      <2> SUFFICES ASSUME NEW x \in Readers
                   PROVE  /\ Consistent(wp'[x])
                          /\ \A s \in Known(wp'[x]) : Settled(x, s)'
                          /\ SettledUpTo(x, marker[x] - 1)'
                          /\ last_read'[x] <= history'.last_seq
                          /\ \A s \in Due(x)' : s <= last_read'[x] => s \in taken'[x]
          BY DEF WriterProxyInv
      <2>1. CASE x # r
            <3>1. last_read'[x] = last_read[x] /\ taken'[x] = taken[x]
                  BY <1>1, <1>3, <2>1
            <3> QED  BY <1>3, <1>7, <1>8, <3>1, KeepWriterProxyInv
      <2>2. CASE x = r
            <3>1. last_read'[x] = sn /\ taken'[x] = taken[x] \cup {sn}
                  BY <1>1, <1>3, <2>2
            <3>2. last_read'[x] <= history'.last_seq
                  BY <1>5, <1>6, <3>1 DEF Settled
            <3>3. ASSUME NEW s, (s \in Due(x))', s <= sn PROVE s \in taken'[x]
                  <4>1. s \in Due(x) /\ s \in SN
                        BY <1>1, <1>3, <3>3, DueMembership
                  <4>2. CASE s <= last_read[x]
                        BY <3>1, <4>1, <4>2 DEF IInv, WriterProxyInv
                  <4>3. CASE ~(s <= last_read[x])
                        <5>1. last_read[r] < s /\ s < marker[r]
                              BY <1>1, <1>5, <2>2, <3>3, <4>1, <4>3, MaxSNAssumption DEF SN
                        <5>2. s \in cache[r]
                              BY <1>6, <2>2, <4>1, <5>1 DEF Settled
                        <5>3. sn <= s  BY <1>4, <5>1, <5>2 DEF Available
                        <5>4. s = sn  BY <1>5, <3>3, <4>1, <5>3, MaxSNAssumption DEF SN
                        <5> QED  BY <3>1, <5>4
                  <4> QED  BY <4>2, <4>3
            <3>4. \A s \in Known(wp[x]) : s \in SN /\ Settled(x, s)
                  BY DEF IInv, WriterProxyInv, Known
            <3>5. \A s \in Known(wp'[x]) : Settled(x, s)'
                  BY <1>3, <1>7, <1>8, <3>4, SettledStable DEF IInv
            <3>6. SettledUpTo(x, marker[x] - 1)'
                  BY <1>3, <1>7, <1>8, KeepMarker
            <3>7. Consistent(wp'[x])  BY <1>3 DEF IInv, WriterProxyInv
            <3> QED  BY <3>1, <3>2, <3>3, <3>5, <3>6, <3>7
      <2> QED  BY <2>1, <2>2
<1>13. NetInv'  BY <1>3, <1>7, <1>8, KeepNetInv DEF NetInv
<1> QED  BY <1>7, <1>9, <1>10, <1>11, <1>12, <1>13 DEF IInv

-----------------------------------------------------------------------------
(* The theorem *)

\* Nothing is written, sent, known or due at first.
LEMMA IInvInit == Init => IInv
<1> SUFFICES ASSUME Init PROVE IInv  OBVIOUS
<1> USE MaxSNAssumption DEF Init
<1>1. TypeOK  BY TypeInit
<1>2. /\ history = [first_seq |-> 1, last_seq |-> 0, samples |-> {}]
      /\ owed = [r \in Readers |-> {}]
      BY DEF WriterInit
<1>3. HistoryInv  BY <1>2 DEF HistoryInv
<1>4. ReaderProxyInv
      BY DEF WriterInit, ReaderProxyInv, NewReaderProxy, SettledUpTo
<1>5. WaitInv  BY <1>2 DEF WriterInit, WaitInv, NoWaiter, SettledUpTo
<1>6. WriterProxyInv
      <2> SUFFICES ASSUME NEW r \in Readers
                   PROVE  /\ Consistent(wp[r])
                          /\ \A s \in Known(wp[r]) : Settled(r, s)
                          /\ SettledUpTo(r, marker[r] - 1)
                          /\ last_read[r] <= history.last_seq
                          /\ \A s \in Due(r) : s <= last_read[r] => s \in taken[r]
          BY DEF WriterProxyInv
      <2>1. wp[r] = NewWriterProxy /\ marker[r] = 1 /\ last_read[r] = 0
            BY DEF ReaderInit
      <2>2. wp[r] \in WriterProxyType /\ wp[r].ack_base = 1 /\ wp[r].changes = {}
            BY <2>1 DEF NewWriterProxy, WriterProxyType
      <2>3. Consistent(wp[r]) /\ Known(wp[r]) = {}
            BY <2>2 DEF Consistent, Known, should_ignore_change, SN
      <2>4. Due(r) = {}  BY <1>2, DueMembership
      <2> QED  BY <1>2, <2>1, <2>3, <2>4 DEF SettledUpTo
<1>7. NetInv  BY DEF NetInit, NetInv
<1> QED  BY <1>1, <1>3, <1>4, <1>5, <1>6, <1>7 DEF IInv

\* Every step preserves the invariant.
LEMMA IInvNext == IInv /\ [Next]_vars => IInv'
<1> SUFFICES ASSUME IInv, [Next]_vars PROVE IInv'  OBVIOUS
<1>1. CASE WriterStep /\ UNCHANGED <<readerVars, losses, waits>>
      BY <1>1, WriteInv, HeartbeatTickInv, CacheCleaningInv, RepairDataSendInv,
         HandleAckNackInv, MatchReaderInv DEF WriterStep
<1>2. ASSUME NEW r \in Readers, ReaderStep(r), UNCHANGED <<writerVars, losses, waits>>
      PROVE  IInv'
      <2>1. CASE MatchWriter(r)
            <3>1. wmatched' \subseteq Readers /\ losses' \in Nat
                  BY <1>2, <2>1 DEF MatchWriter, IInv, TypeOK, ReaderTypeOK
            <3> QED  BY <1>2, <2>1, <3>1, ResetProxyInv DEF MatchWriter
      <2> QED  BY <1>2, <2>1, HandleDataInv, HandleHeartbeatInv, HandleGapInv, TakeInv
               DEF ReaderStep
<1>3. ASSUME NEW r \in Readers, Lose(r), UNCHANGED waits PROVE IInv'
      <2>1. losses' \in Nat  BY <1>3 DEF Lose, IInv, TypeOK
      <2>2. CASE ReaderLost(r) /\ UNCHANGED readerVars
            BY <1>3, <2>1, <2>2, ReaderLostInv
      <2>3. CASE WriterLost(r) /\ UNCHANGED writerVars
            <3>1. wmatched' \subseteq Readers
                  BY <2>3 DEF WriterLost, IInv, TypeOK, ReaderTypeOK
            <3> QED  BY <1>3, <2>1, <2>3, <3>1, ResetProxyInv DEF WriterLost
      <2> QED  BY <1>3, <2>2, <2>3 DEF Lose
<1>4. CASE Wait /\ UNCHANGED <<readerVars, losses>>  BY <1>4, WaitStepInv
<1>5. CASE UNCHANGED vars
      <2> USE <1>5 DEF vars, writerVars, readerVars, netVars
      <2>1. TypeOK'
            BY DEF IInv, TypeOK, NetTypeOK, WriterTypeOK, ReaderTypeOK
      <2>2. Stable
            <3>1. history.last_seq \in 0 .. MaxSN
                  BY DEF IInv, TypeOK, WriterTypeOK, HistoryType
            <3> QED  BY <3>1, DueMembership DEF Stable
      <2>3. HistoryInv'  BY DEF IInv, HistoryInv
      <2>4. ReaderProxyInv'  BY <2>1, <2>2, KeepReaderProxyInv DEF ReaderProxyInv
      <2>5. WaitInv'  BY <2>1, <2>2, KeepWaitInv
      <2>6. WriterProxyInv'  BY <2>1, <2>2, KeepWriterProxyInv DEF WriterProxyInv
      <2>7. NetInv'  BY <2>1, <2>2, KeepNetInv DEF NetInv
      <2> QED  BY <2>1, <2>3, <2>4, <2>5, <2>6, <2>7 DEF IInv
<1> QED  BY <1>1, <1>2, <1>3, <1>4, <1>5 DEF Next

\* The invariant implies what the runs check.
LEMMA IInvImpliesSafety ==
    IInv => /\ NoLoss /\ AckedIsReceived /\ HistoryKeepsUnacked
            /\ WaitIsTruthful /\ InOrderDelivery
<1> SUFFICES ASSUME IInv
             PROVE  /\ NoLoss /\ AckedIsReceived /\ HistoryKeepsUnacked
                    /\ WaitIsTruthful /\ InOrderDelivery
    OBVIOUS
<1>1. /\ matched \subseteq Readers /\ owed \in [Readers -> SUBSET SN]
      /\ rp \in [Readers -> ReaderProxyType] /\ told \in [Readers -> 0 .. MaxSN]
      /\ history.samples \in SUBSET SN
      BY DEF IInv, TypeOK, WriterTypeOK, HistoryType
<1>2. NoLoss  BY DEF IInv, WriterProxyInv, Settled, NoLoss
<1>3. AckedIsReceived
      <2> SUFFICES ASSUME NEW r \in matched, NEW s \in Due(r),
                          s < rp[r].all_acked_before
                   PROVE  s \in cache[r]
          BY DEF AckedIsReceived
      <2>1. r \in Readers /\ s \in SN  BY <1>1, DueMembership
      <2>2. s \in 1 .. rp[r].all_acked_before - 1
            BY <1>1, <2>1, MaxSNAssumption DEF SN, ReaderProxyType
      <2> QED  BY <2>1, <2>2 DEF IInv, ReaderProxyInv, SettledUpTo, Settled
<1>4. HistoryKeepsUnacked
      BY <1>1 DEF IInv, HistoryInv, HistoryKeepsUnacked
<1>5. WaitIsTruthful
      <2> SUFFICES ASSUME NEW r \in matched \cap Reliable, NEW s \in owed[r],
                          s <= told[r]
                   PROVE  s \in cache[r]
          BY DEF WaitIsTruthful
      <2>1. r \in Readers /\ s \in SN /\ s \in Due(r)  BY <1>1, DueMembership
      <2>2. s \in 1 .. told[r]  BY <1>1, <2>1, MaxSNAssumption DEF SN
      <2> QED  BY <2>1, <2>2 DEF IInv, WaitInv, SettledUpTo, Settled
<1>6. InOrderDelivery  BY DEF IInv, WriterProxyInv, InOrderDelivery
<1> QED  BY <1>2, <1>3, <1>4, <1>5, <1>6

\* IInv holds in every reachable state, for any number of Readers.
THEOREM InvariantHolds == Spec => []IInv
BY IInvInit, IInvNext, PTL DEF Spec

\* Type correctness of the Writer, the Readers and the network.
THEOREM TypeCorrect == Spec => []TypeOK
<1>1. IInv => TypeOK  BY DEF IInv
<1> QED  BY <1>1, InvariantHolds, PTL

\* No sample that a Reader is due is skipped (reader.rs:862-1143), none is taken
\* as acknowledged before it has arrived (rtps_reader_proxy.rs:225-270), none
\* is cleaned away too early (writer.rs:1350-1374), a finished wait for
\* acknowledgments is right (writer.rs:93-119), and a reliable DataReader
\* hands over every sample that it passes (dds_cache.rs:299-319).
THEOREM Safety ==
    Spec => [](/\ NoLoss /\ AckedIsReceived /\ HistoryKeepsUnacked
               /\ WaitIsTruthful /\ InOrderDelivery)
BY InvariantHolds, IInvImpliesSafety, PTL

\* What a Writer takes as acknowledged by a Reader, on the word of any ACKNACK
\* however old (rtps_reader_proxy.rs:225-270), that Reader has.
COROLLARY AckedSamplesArrived == Spec => []AckedIsReceived
BY Safety, PTL

\* Cache cleaning (writer.rs:1350-1374) leaves every sample some reliable
\* Reader is still due, also when Readers join during or after it.
COROLLARY HistoryIsKept == Spec => []HistoryKeepsUnacked
BY Safety, PTL

\* A finished wait for acknowledgments (writer.rs:93-119, 618-660) told the
\* truth about every Reader it waited for.
COROLLARY WaitsAreTrue == Spec => []WaitIsTruthful
BY Safety, PTL

\* A reliable DataReader passes over no sample it is due (dds_cache.rs:299-319).
COROLLARY TakenInOrder == Spec => []InOrderDelivery
BY Safety, PTL

=============================================================================
