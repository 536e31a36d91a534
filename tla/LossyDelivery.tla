--------------------------- MODULE LossyDelivery ---------------------------
(***************************************************************************)
(* Does everything written arrive in the end?  One reliable Writer and one *)
(* reliable Reader, matched for good, over a network that loses messages   *)
(* (rtps/writer.rs, rtps/reader.rs), with samples that fit one DATA and    *)
(* samples sent as DATAFRAGs (module Fragmentation).                       *)
(*                                                                         *)
(* HEARTBEAT counts are not kept: hb_net holds the newest HEARTBEAT only,  *)
(* since the Reader ignores any older one.  Cache cleaning is left out: it *)
(* removes acknowledged samples only (HistoryKeepsUnacked).                *)
(***************************************************************************)
EXTENDS RtpsWriterProxy, RtpsReaderProxy, Fragmentation, FiniteSets

CONSTANTS
    ValueSize,       \* bytes in the value of a fragmented sample
    FragSize,        \* bytes per DATAFRAG, 1024 in the code
    FragsPerTimer,   \* DATAFRAGs one repair timer sends, 8 in the code
    Settings         \* what is written and what goes wrong, see below

\* A setting: how many samples are written, those of them too large for one
\* DATA and whether they are data or disposals by key, and the bounds on the
\* DATAFRAGs the network loses and on the garbage collections that drop a
\* buffer.
ASSUME LossyDeliveryAssumption ==
    /\ ValueSize \in Nat
    /\ FragSize \in 1 .. ValueSize + H_LEN - 1
    /\ FragsPerTimer \in Nat \ {0}
    /\ Settings \subseteq
          [written : SN, fragmented : SUBSET SN, kind : {"data", "key"},
           lost : Nat, collected : Nat]

VARIABLES
    setting,           \* fixed by Init
    last_seq,          \* Writer: the last number written
    rp,                \* Writer: its proxy for the Reader
    repair_timer,      \* Writer: a SendRepairData timer is pending
    frag_timer,        \* Writer: a SendRepairFrags timer is pending
    frags_requested,   \* Writer: per sample, the DATAFRAGs to send again
    wp,                \* Reader: its proxy for the Writer
    buffers,           \* Reader: per sample, its AssemblyBuffer
    assembled,         \* Reader: per sample, what was assembled and accepted
    data_net,          \* DATA on its way
    frag_net,          \* per DATAFRAG <<sn, fragment>>, copies on their way
    hb_net,            \* last_sn of the newest HEARTBEAT on its way, 0: none
    acknack_net,       \* ACKNACKs on their way
    lost_frags,        \* DATAFRAGs lost so far
    collected          \* garbage collections that dropped a buffer so far

writerVars == <<last_seq, rp, repair_timer, frag_timer, frags_requested>>
readerVars == <<wp, buffers, assembled, collected>>
vars == <<setting, writerVars, readerVars, data_net, frag_net, hb_net, acknack_net,
          lost_frags>>

Fragmented == setting.fragmented

\* The change of a fragmented sample; every byte of it is another one.
Change(kind, sn) ==
    [sn      |-> sn,
     kind    |-> kind,
     payload |-> [header |-> [i \in 1 .. H_LEN |-> i],
                  value  |-> [i \in 1 .. ValueSize |-> H_LEN + i + sn]]]

Frags == 1 .. num_frags(H_LEN + ValueSize, FragSize)

\* What the DATAFRAGs <<kind, sn, fragment>> on the network carry.
DataFragMsg ==
    [m \in {"data", "key"} \X SN \X Frags |->
        data_frag_msg(Change(m[1], m[2]), m[3], FragSize)]

\* Copies of a DATAFRAG told apart: one more than the network can lose.
MaxCopies == setting.lost + 1

AckNackMsg == [base : 1 .. MaxSN + 1, set : SUBSET SN]

Init ==
    /\ setting \in Settings
    /\ last_seq = 0
    /\ rp = NewReaderProxy
    /\ repair_timer = FALSE
    /\ frag_timer = FALSE
    /\ frags_requested = [s \in Fragmented |-> {}]
    /\ wp = NewWriterProxy
    /\ buffers = [s \in Fragmented |-> NoBuffer]
    /\ assembled = [s \in Fragmented |-> {}]
    /\ data_net = {}
    /\ frag_net = [m \in Fragmented \X Frags |-> 0]
    /\ hb_net = 0
    /\ acknack_net = {}
    /\ lost_frags = 0
    /\ collected = 0

\* One more copy of each of these DATAFRAGs.
SendFrags(ms) ==
    frag_net' = [m \in Fragmented \X Frags |->
                   IF m \in ms /\ frag_net[m] < MaxCopies
                   THEN frag_net[m] + 1 ELSE frag_net[m]]

\* send_cache_change: one DATA, or all DATAFRAGs of the sample, each in a
\* message of its own.
SendData(sn) == data_net' = data_net \cup {sn} /\ UNCHANGED frag_net

SendDataFrags(sn) == SendFrags({sn} \X Frags) /\ UNCHANGED data_net

SendSample(sn) == IF sn \in Fragmented THEN SendDataFrags(sn) ELSE SendData(sn)

-----------------------------------------------------------------------------
(* Writer *)

\* A new sample is pushed together with a HEARTBEAT.
Write ==
    /\ last_seq < setting.written
    /\ last_seq' = last_seq + 1
    /\ rp' = notify_new_cache_change(rp, last_seq + 1)
    /\ SendSample(last_seq + 1)
    /\ hb_net' = last_seq + 1
    /\ UNCHANGED <<repair_timer, frag_timer, frags_requested, readerVars,
                   acknack_net, lost_frags>>

\* Fault: a HEARTBEAT is sent only while nothing is acknowledged.
HeartbeatTickOnce ==
    /\ rp.all_acked_before = 0
    /\ hb_net' = last_seq
    /\ UNCHANGED <<writerVars, readerVars, data_net, frag_net, acknack_net,
                   lost_frags>>

\* The periodic HEARTBEAT, while something is not acknowledged.
HeartbeatTick ==
    /\ last_seq >= rp.all_acked_before
    /\ hb_net' = last_seq
    /\ UNCHANGED <<writerVars, readerVars, data_net, frag_net, acknack_net,
                   lost_frags>>

\* Fault: an ACKNACK without requests starts no repair.
HandleAckNackEmptySet(m) ==
    /\ m \in acknack_net
    /\ acknack_net' = acknack_net \ {m}
    /\ rp' = handle_ack_nack(rp, m.base, m.set, last_seq)
    /\ repair_timer' = (repair_timer \/ m.set # {})
    /\ UNCHANGED <<last_seq, frag_timer, frags_requested, readerVars, data_net,
                   frag_net, hb_net, lost_frags>>

\* An ACKNACK starts repair unless it acknowledges everything.
HandleAckNack(m) ==
    LET p      == handle_ack_nack(rp, m.base, m.set, last_seq)
        repair == ~(p.all_acked_before > last_seq)
    IN  /\ m \in acknack_net
        /\ acknack_net' = acknack_net \ {m}
        /\ rp' = [p EXCEPT !.repair_mode = repair]
        /\ repair_timer' = (repair_timer \/ repair)
        /\ UNCHANGED <<last_seq, frag_timer, frags_requested, readerVars,
                       data_net, frag_net, hb_net, lost_frags>>

\* Fault: repair mode is never left.
RepairDataSendEndless ==
    LET sn == First(rp.unsent_changes)
    IN  /\ repair_timer
        /\ rp.unsent_changes # {}
        /\ rp' = mark_change_sent(rp, {sn})
        /\ SendSample(sn)
        /\ UNCHANGED <<last_seq, repair_timer, frag_timer, frags_requested,
                       readerVars, hb_net, acknack_net, lost_frags>>

\* SendRepairData: the first unsent sample goes out again.  A fragmented one
\* goes out whole and has all its fragments requested once more.
RepairDataSend ==
    LET sn == First(rp.unsent_changes)
    IN  /\ repair_timer
        /\ IF rp.unsent_changes = {}
           THEN /\ rp' = [rp EXCEPT !.repair_mode = FALSE]
                /\ UNCHANGED <<frag_timer, frags_requested, data_net, frag_net>>
           ELSE /\ rp' = mark_change_sent(rp, {sn})
                /\ SendSample(sn)
                /\ frag_timer' = (frag_timer \/ sn \in Fragmented)
                /\ frags_requested' = [s \in Fragmented |->
                       IF s = sn THEN Frags ELSE frags_requested[s]]
        /\ repair_timer' = rp'.repair_mode
        /\ UNCHANGED <<last_seq, readerVars, hb_net, acknack_net, lost_frags>>

\* frags_requested_iterator: the first FragsPerTimer requested fragments of
\* the lowest sample that has any.
FragsToSend ==
    LET pending == {s \in Fragmented : frags_requested[s] # {}}
        sn      == First(pending)
    IN  IF pending = {} THEN {}
        ELSE {sn} \X {f \in frags_requested[sn] :
                 Cardinality({g \in frags_requested[sn] : g < f})
                     < FragsPerTimer}

\* SendRepairFrags; the timer is set again while fragments are requested.
RepairFragsSend ==
    /\ frag_timer
    /\ SendFrags(FragsToSend)
    /\ frags_requested' = [s \in Fragmented |->
           {f \in frags_requested[s] : <<s, f>> \notin FragsToSend}]
    /\ frag_timer' = \E s \in Fragmented : frags_requested'[s] # {}
    /\ UNCHANGED <<last_seq, rp, repair_timer, readerVars, data_net, hb_net,
                   acknack_net, lost_frags>>

-----------------------------------------------------------------------------
(* Reader *)

\* process_received_data: what is known already is ignored.
Received(sn) ==
    IF should_ignore_change(wp, sn) THEN wp ELSE received_changes_add(wp, sn)

HandleData(sn) ==
    /\ sn \in data_net
    /\ data_net' = data_net \ {sn}
    /\ wp' = Received(sn)
    /\ UNCHANGED <<writerVars, buffers, assembled, collected, frag_net, hb_net,
                   acknack_net, lost_frags>>

\* garbage_collect_fragments, when it is time for it, drops buffers that got
\* nothing for 10 s; candidates are the samples that may be so old.
Collect(candidates, bufs) ==
    \E quiet \in SUBSET {s \in candidates : bufs[s] # NoBuffer} :
        /\ buffers' = [s \in Fragmented |->
                         IF s \in quiet THEN NoBuffer ELSE bufs[s]]
        /\ collected' = IF quiet = {} THEN collected ELSE collected + 1
        /\ collected' <= setting.collected

\* "if and only if we have some frags but not all": for as long as there is a
\* buffer, which a late copy of a fragment opens again.
is_partially_received(sn) == buffers[sn] # NoBuffer

\* new_datafrag: the last missing fragment ends the buffer and hands over the
\* data, which process_received_data accepts unless the sample is known; any
\* other may trigger garbage collection, which spares the buffer just added to.
NewDataFrag(m) ==
    LET sn     == m.writer_sn
        buffer == with_datafrag(buffers[sn], m, FragSize)
    IN  IF is_complete(buffer)
        THEN /\ buffers' = [buffers EXCEPT ![sn] = NoBuffer]
             /\ wp' = Received(sn)
             /\ assembled' = [assembled EXCEPT
                    ![sn] = IF should_ignore_change(wp, sn) THEN @
                            ELSE assembled_data(buffer, m)]
             /\ UNCHANGED collected
        ELSE /\ Collect(Fragmented \ {sn}, [buffers EXCEPT ![sn] = buffer])
             /\ UNCHANGED <<wp, assembled>>

\* handle_datafrag_msg.  The assembler gets every fragment, also of a sample
\* that is complete already.
HandleDataFrag(sn, f) ==
    /\ frag_net[<<sn, f>>] > 0
    /\ frag_net' = [frag_net EXCEPT ![<<sn, f>>] = @ - 1]
    /\ \E sent \in DataFragMsg[<<setting.kind, sn, f>>] :
          \E m \in deserialize(sent) : NewDataFrag(m)
    /\ UNCHANGED <<writerVars, data_net, hb_net, acknack_net, lost_frags>>

\* A DATAFRAG of another Writer of the topic: the collection it triggers goes
\* through the assemblers of all Writers.
HandleDataFragOfOther ==
    /\ Collect(Fragmented, buffers)
    /\ UNCHANGED <<writerVars, wp, assembled, data_net, frag_net, hb_net,
                   acknack_net, lost_frags>>

\* Fault: a partially received sample counts as received.
HandleHeartbeatPartial ==
    LET missing == missing_seqnums(wp, 1, hb_net)
                     \ {s \in Fragmented : is_partially_received(s)}
        base    == IF missing = {} THEN hb_net + 1 ELSE First(missing)
    IN  /\ hb_net # 0
        /\ hb_net' = 0
        /\ acknack_net' = acknack_net \cup {[base |-> base, set |-> missing]}
        /\ UNCHANGED <<writerVars, readerVars, data_net, frag_net, lost_frags>>

\* The ACKNACK that answers a HEARTBEAT: partially received samples are left
\* out of the set of requests.  The NACKFRAGs sent for them instead change
\* nothing, because the MessageReceiver at the Writer drops them
\* (message_receiver.rs:832).
AckNackFor(missing) ==
    [base |-> IF missing = {} THEN wp.ack_base ELSE First(missing),
     set  |-> missing \ {s \in Fragmented : is_partially_received(s)}]

\* handle_heartbeat_msg.  The final flag is not set, so there is an answer.
HandleHeartbeat ==
    /\ hb_net # 0
    /\ hb_net' = 0
    /\ acknack_net' = acknack_net \cup {AckNackFor(missing_seqnums(wp, 1, hb_net))}
    /\ UNCHANGED <<writerVars, readerVars, data_net, frag_net, lost_frags>>

-----------------------------------------------------------------------------
(* The network *)

Lose ==
    \/ /\ \E sn \in data_net : data_net' = data_net \ {sn}
       /\ UNCHANGED <<frag_net, hb_net, acknack_net, lost_frags>>
    \/ /\ lost_frags < setting.lost
       /\ lost_frags' = lost_frags + 1
       /\ \E m \in Fragmented \X Frags :
             frag_net[m] > 0 /\ frag_net' = [frag_net EXCEPT ![m] = @ - 1]
       /\ UNCHANGED <<data_net, hb_net, acknack_net>>
    \/ /\ hb_net # 0
       /\ hb_net' = 0
       /\ UNCHANGED <<data_net, frag_net, acknack_net, lost_frags>>
    \/ /\ \E m \in acknack_net : acknack_net' = acknack_net \ {m}
       /\ UNCHANGED <<data_net, frag_net, hb_net, lost_frags>>

Fixed(A) == A /\ UNCHANGED setting

HandleSomeAckNack == Fixed(\E m \in acknack_net : HandleAckNack(m))

Next ==
    \/ Fixed(Write)
    \/ Fixed(HeartbeatTick)
    \/ Fixed(RepairDataSend)
    \/ Fixed(RepairFragsSend)
    \/ HandleSomeAckNack
    \/ \E sn \in SN : Fixed(HandleData(sn))
    \/ \E sn \in Fragmented, f \in Frags : Fixed(HandleDataFrag(sn, f))
    \/ Fixed(HandleDataFragOfOther)
    \/ Fixed(HandleHeartbeat)
    \/ Fixed(Lose /\ UNCHANGED <<writerVars, readerVars>>)

Spec == Init /\ [][Next]_vars

\* The Writer's timers fire, and a message that is sent again and again gets
\* through at some time.
FairSpec ==
    /\ Spec
    /\ WF_vars(Fixed(HeartbeatTick))
    /\ WF_vars(Fixed(RepairDataSend))
    /\ WF_vars(Fixed(RepairFragsSend))
    /\ SF_vars(Fixed(HandleHeartbeat))
    /\ SF_vars(HandleSomeAckNack)
    /\ \A sn \in SN : SF_vars(Fixed(HandleData(sn)))
    /\ \A sn \in UNION {s.fragmented : s \in Settings}, f \in Frags :
          SF_vars(Fixed(sn \in Fragmented /\ HandleDataFrag(sn, f)))

-----------------------------------------------------------------------------

\* What the Writer takes as acknowledged is complete at the Reader: a sample
\* of which fragments are missing, lost or dropped with their buffer is never
\* acknowledged (reader.rs:926-962), and a fragmented one that is known was put
\* together as it was written, whichever fragments came twice or in which
\* order (fragment_assembler.rs:65-214).
AckedIsComplete ==
    /\ rp.all_acked_before <= wp.ack_base
    /\ \A s \in Fragmented : s < wp.ack_base =>
          assembled[s] = {[kind    |-> setting.kind,
                           payload |-> Change(setting.kind, s).payload]}

\* Everything written reaches the Reader's application: sooner or later the
\* Reader can acknowledge it, and the DataReader may take it
\* (reader.rs:862-1059, writer.rs:1109-1343).
EventuallyReceived ==
    \A s \in SN : last_seq >= s ~> s < wp.ack_base

\* The Writer learns of it: there is always a time to come at which all that it
\* has written is acknowledged, so wait_for_acknowledgments ends and samples
\* can be cleaned (writer.rs:967-1089); without garbage collection, which
\* drops fragments that are not asked for again.
EventuallyAcked ==
    []<>(setting.collected = 0 /\ last_seq > 0 => last_seq < rp.all_acked_before)

\* Repair comes to an end: the repair timer does not run for ever
\* (writer.rs:446-504, 1271-1273).
RepairEnds == []<>(~repair_timer /\ ~frag_timer)

=============================================================================
