---------------------------- MODULE DataReading ----------------------------
(***************************************************************************)
(* How received samples reach the application.  The event loop's RTPS      *)
(* Readers of one topic (rtps/reader.rs) put them into the TopicCache and  *)
(* notify; the application's DataReaders (dds/with_key/datareader.rs,      *)
(* simpledatareader.rs, dds/no_key/) run in other threads, empty the       *)
(* TopicCache into their DataSampleCache and read or take from there, or   *)
(* wait as asynchronous streams for their waker.  One step is what a       *)
(* thread does under one lock.                                             *)
(*                                                                         *)
(* Of the remote Writers only what the network can bring is kept: any DATA *)
(* written, at any time and any number of times; GAPs for what precedes a  *)
(* volatile match; HEARTBEATs whose first_sn says what was removed.        *)
(***************************************************************************)
EXTENDS TopicCache, RtpsWriterProxy, DataSampleCache

CONSTANTS
    Readers,       \* the Readers of the topic in this participant
    Situations,    \* QoS, workload and bounds of one behaviour, see below
    Nobody,        \* no Reader is being notified; no call is under way
    TheReader, TheWriter    \* the pair the refinement is stated for

(***************************************************************************)
(* A situation has the QoS reliable, volatile, no_key, depth (0 for        *)
(* KeepAll) and max_samples; simple for a SimpleDataReader; payloads, what *)
(* may be written, as [kind, key]; calls, what applications may call, as   *)
(* [op, not_read, max, by, key]; and the bounds samples (written per     *)
(* Writer) and losses (times a Reader loses a Writer).                     *)
(***************************************************************************)

ASSUME ReadingAssumption ==
    /\ Nobody \notin Readers
    /\ TheReader \in Readers /\ TheWriter \in Writers
    /\ \A q \in Situations :
          /\ q.samples \in 1 .. MaxSN /\ q.losses \in Nat /\ q.depth \in Nat
          /\ \A p \in q.payloads :
                p.kind \in {"value", "dispose", "hash", "bad", "empty"} /\ p.key \in Nat
          /\ \A c \in q.calls :
                IF q.simple THEN c.op = "simple" ELSE c.op \in {"read", "take", "poll"}

VARIABLES
    qos,         \* the situation, fixed
    sent,        \* external: per Writer what it wrote
    first,       \* external: per Writer the first number still available
    since,       \* external: per Reader and Writer the first number owed
    matched,     \* matched_writers: per Reader the Writers it has proxies for
    proxy,       \* those proxies
    lostcount,   \* how much of qos.losses is used up
    now,         \* the clock of receptions
    tc,          \* the TopicCache
    notify,      \* the Reader the event loop is about to notify
    token,       \* notification_receiver holds a notification
    waker,       \* data_reader_waker is set
    woken,       \* the executor was told to poll again
    pc, call,    \* where each application thread is, and in which call
    again,       \* the last call asks for another: it returned an item or Err
    state,       \* ReadState: [latest_instant, last_read_sn, keys]
    dc,          \* DataSampleCache
    evicted,     \* ghost: what garbage collection has ever removed
    given,       \* ghost: what each Reader took out of the TopicCache
    shown        \* ghost: what each application has been shown

wireVars == <<sent, first, since, matched, proxy, lostcount>>
threadVars == <<pc, call, again, state, dc, given, shown>>
vars == <<qos, wireVars, now, tc, notify, token, waker, woken, threadVars, evicted>>

Sample(w, sn) == <<w, sn>>

ReadStateType == [latest_instant : Nat, last_read_sn : [Writers -> 0 .. MaxSN],
                  keys : SUBSET Nat]

\* DataReader::new, SimpleDataReader::new, Reader::new, add_new_topic.
Init ==
    /\ qos \in Situations
    /\ sent = [w \in Writers |-> << >>]
    /\ first = [w \in Writers |-> 1]
    /\ since = [r \in Readers |-> [w \in Writers |-> 1]]
    /\ matched = [r \in Readers |-> {}]
    /\ proxy = [r \in Readers |-> [w \in Writers |-> NewWriterProxy]]
    /\ lostcount = 0
    /\ now = 0
    /\ tc = NewTopicCache(qos.max_samples, qos.depth)
    /\ notify = Nobody
    /\ token = [r \in Readers |-> FALSE]
    /\ waker = [r \in Readers |-> FALSE]
    /\ woken = [r \in Readers |-> FALSE]
    /\ pc = [r \in Readers |-> "idle"]
    /\ call = [r \in Readers |-> Nobody]
    /\ again = [r \in Readers |-> FALSE]
    /\ state = [r \in Readers |-> [latest_instant |-> 0,
                                   last_read_sn |-> [w \in Writers |-> 0],
                                   keys |-> {}]]
    /\ dc = [r \in Readers |-> EmptySampleCache]
    /\ evicted = {}
    /\ given = [r \in Readers |-> {}]
    /\ shown = [r \in Readers |-> {}]

-----------------------------------------------------------------------------
(* The remote Writers *)

Write(w, p) ==
    /\ Len(sent[w]) < qos.samples
    /\ sent' = [sent EXCEPT ![w] = Append(@, p)]
    /\ UNCHANGED <<qos, first, since, matched, proxy, lostcount, now, tc, notify,
                   token, waker, woken, threadVars, evicted>>

\* A Writer's history limit removes its oldest sample.
RemoveOldest(w) ==
    /\ first[w] <= Len(sent[w])
    /\ first' = [first EXCEPT ![w] = @ + 1]
    /\ UNCHANGED <<qos, sent, since, matched, proxy, lostcount, now, tc, notify,
                   token, waker, woken, threadVars, evicted>>

-----------------------------------------------------------------------------
(* The event loop.  A thread in the endless loop of try_take_one_with keeps *)
(* the TopicCache locked.                                                   *)

EventLoopFree == notify = Nobody /\ \A r \in Readers : pc[r] # "spin"

\* update_writer_proxy for a Writer new to the Reader.
MatchWriter(r, w) ==
    /\ EventLoopFree
    /\ w \notin matched[r]
    /\ matched' = [matched EXCEPT ![r] = @ \cup {w}]
    /\ proxy' = [proxy EXCEPT ![r][w] = NewWriterProxy]
    /\ since' = [since EXCEPT ![r][w] = IF qos.volatile THEN Len(sent[w]) + 1 ELSE @]
    /\ UNCHANGED <<qos, sent, first, lostcount, now, tc, notify, token, waker,
                   woken, threadVars, evicted>>

\* remove_writer_proxy.
WriterLost(r, w) ==
    /\ EventLoopFree
    /\ w \in matched[r]
    /\ lostcount < qos.losses
    /\ lostcount' = lostcount + 1
    /\ matched' = [matched EXCEPT ![r] = @ \ {w}]
    /\ UNCHANGED <<qos, sent, first, since, proxy, now, tc, notify, token, waker,
                   woken, threadVars, evicted>>

\* A step of the Reader gives the TopicCache this content; what is no longer
\* there was evicted.
SetCache(cache) ==
    /\ tc' = cache
    /\ evicted' = evicted \cup (DOMAIN tc.sequence_numbers
                                    \ DOMAIN cache.sequence_numbers)

\* What is written travels as DATA with a payload or none, the flags that it
\* is data or a key, and inline QoS with a key hash or none.
Data(p) ==
    [payload |-> p.kind \in {"value", "dispose", "bad"}, data |-> p.kind \in {"value", "bad"},
     key |-> p.kind = "dispose", key_hash |-> p.kind = "hash"]

\* Whether there is something in it for the cache.  The end marker of a
\* coherent set, say, has nothing.
data_to_dds_data(d) ==
    \/ d.payload /\ d.data # d.key
    \/ ~d.payload /\ ~d.data /\ ~d.key /\ d.key_hash

make_cache_change(w, sn, wp) ==
    mark_reliably_received_before(add_change(tc, now + 1, w, sn), w, wp.ack_base)

\* handle_data_msg and process_received_data.  The notification follows when
\* the cache is unlocked again.
HandleData(r, w, sn) ==
    /\ EventLoopFree
    /\ w \in matched[r]
    /\ data_to_dds_data(Data(sent[w][sn]))
    /\ ~should_ignore_change(proxy[r][w], sn)
    /\ now' = now + 1
    /\ proxy' = [proxy EXCEPT ![r][w] = received_changes_add(@, sn)]
    /\ SetCache(make_cache_change(w, sn, proxy'[r][w]))
    /\ notify' = r
    /\ UNCHANGED <<qos, sent, first, since, matched, lostcount, token, waker,
                   woken, threadVars>>

\* Fault: progress without new data is not worth a notification.
ProgressSilent(r, w, wp) ==
    /\ proxy' = [proxy EXCEPT ![r][w] = wp]
    /\ SetCache(mark_reliably_received_before(tc, w, wp.ack_base))
    /\ UNCHANGED <<qos, sent, first, since, matched, lostcount, now, notify,
                   token, waker, woken, threadVars>>

\* Numbers turned out irrelevant; notify if that moved the marker.
Progress(r, w, wp) ==
    /\ proxy' = [proxy EXCEPT ![r][w] = wp]
    /\ SetCache(mark_reliably_received_before(tc, w, wp.ack_base))
    /\ notify' = IF tc.received_reliably_before[w] < wp.ack_base THEN r ELSE notify
    /\ UNCHANGED <<qos, sent, first, since, matched, lostcount, now, token,
                   waker, woken, threadVars>>

\* handle_heartbeat_msg, with the first_sn of any time up to now.
HandleHeartbeat(r, w, first_sn) ==
    /\ EventLoopFree
    /\ qos.reliable
    /\ w \in matched[r]
    /\ Progress(r, w, irrelevant_changes_up_to(proxy[r][w], first_sn))

\* handle_gap_msg: what was written before the match is not for this Reader.
HandleGap(r, w) ==
    /\ EventLoopFree
    /\ w \in matched[r]
    /\ since[r][w] > 1
    /\ Progress(r, w, irrelevant_changes_range(proxy[r][w], 1, since[r][w]))

\* DDSCache::garbage_collect, from the event loop's timer.
GarbageCollect ==
    /\ EventLoopFree
    /\ SetCache(remove_changes_before(tc))
    /\ UNCHANGED <<qos, wireVars, now, notify, token, waker, woken, threadVars>>

\* notify_cache_change: take the waker and wake it; put a notification into
\* the channel unless it is full.
NotifyCacheChange ==
    /\ notify # Nobody
    /\ woken' = [woken EXCEPT ![notify] = @ \/ waker[notify]]
    /\ waker' = [waker EXCEPT ![notify] = FALSE]
    /\ token' = [token EXCEPT ![notify] = TRUE]
    /\ notify' = Nobody
    /\ UNCHANGED <<qos, wireVars, now, tc, threadVars, evicted>>

-----------------------------------------------------------------------------
(* The application threads *)

\* try_take_undecoded: what may be taken now, as timestamps of the cache.
Available(r) ==
    IF qos.reliable THEN in_range_reliable(tc, state[r].last_read_sn)
    ELSE in_range_best_effort(tc, state[r].latest_instant)

Filling(r) == pc[r] \in {"fill", "fill2"}

\* A call begins: drain_read_notifications, except in SimpleDataReaderStream.
Begin(r, c) ==
    /\ pc[r] = "idle"
    /\ pc' = [pc EXCEPT ![r] = "fill"]
    /\ call' = [call EXCEPT ![r] = c]
    /\ again' = [again EXCEPT ![r] = FALSE]
    /\ token' = [token EXCEPT ![r] = @ /\ c.op = "simple"]
    /\ UNCHANGED <<qos, wireVars, now, tc, notify, waker, woken, state, dc,
                   evicted, given, shown>>

\* The key of a sample: no_key::wrappers gives all the same one.
KeyOf(p) == IF qos.no_key THEN 0 ELSE p.key

\* DataSample::from_with_key: no_key readers pass values only.
Visible(samples) ==
    {Sample(s.writer, s.sn) : s \in {x \in samples : qos.no_key => ~x.dispose}}

\* deserialize_with: how the payload of a change is decoded.
Decoded(r, p) ==
    CASE p.kind = "bad" -> "error"
      [] p.kind = "hash" -> IF KeyOf(p) \in state[r].keys THEN "ok" ELSE "unknown"
      [] OTHER -> "ok"

\* The read pointers behind this change, and its key known.
Advanced(r, ts) ==
    LET c == tc.changes[ts]
        p == sent[c.writer][c.sn]
    IN  [latest_instant |-> IF ts > state[r].latest_instant THEN ts
                            ELSE state[r].latest_instant,
         last_read_sn |-> [state[r].last_read_sn EXCEPT ![c.writer] = c.sn],
         keys |-> state[r].keys \cup IF p.kind \in {"value", "dispose"}
                                     THEN {KeyOf(p)} ELSE {}]

\* One round of fill_and_lock_local_datasample_cache, try_take_one_with:
\* a decoding error ends the call; an unknown key hash is tried for ever with
\* the cache locked; a sample goes into the sample cache, or straight to the
\* application of a SimpleDataReader.
TryTakeOne(r) ==
    \E ts \in Available(r) :
        LET c == tc.changes[ts]
            p == sent[c.writer][c.sn]
            s == [writer |-> c.writer, sn |-> c.sn, key |-> KeyOf(p),
                  dispose |-> p.kind # "value"]
            result == Decoded(r, p)
            direct == call[r].op = "simple"
            done == result = "error" \/ (result = "ok" /\ direct)
        IN  /\ Filling(r)
            /\ \A u \in Available(r) \ {ts} : Before(tc, qos.reliable, ts, u)
            /\ \A q \in Readers : pc[q] # "spin"
            /\ state' = [state EXCEPT ![r] = IF result = "unknown" THEN @
                                             ELSE Advanced(r, ts)]
            /\ pc' = [pc EXCEPT ![r] = CASE result = "unknown" -> "spin"
                                         [] done -> "idle"
                                         [] OTHER -> @]
            /\ call' = [call EXCEPT ![r] = IF done THEN Nobody ELSE @]
            /\ again' = [again EXCEPT ![r] = done]
            /\ dc' = [dc EXCEPT ![r] = IF result = "ok" /\ ~direct
                                       THEN add_sample(@, s, ts, qos.depth) ELSE @]
            /\ given' = [given EXCEPT ![r] = IF result = "unknown" THEN @
                                             ELSE @ \cup {Sample(c.writer, c.sn)}]
            /\ shown' = [shown EXCEPT ![r] = IF result = "ok" /\ direct
                                             THEN @ \cup Visible({s}) ELSE @]
            /\ UNCHANGED <<qos, wireVars, now, tc, notify, token, waker, woken,
                           evicted>>

\* infer_key: all instances, the smallest, this one or the one after it.
InferKey(r) ==
    CASE call[r].by = "all" -> DOMAIN dc[r].instance_map
      [] call[r].by = "smallest" -> next_key(dc[r], -1)
      [] call[r].by = "next" -> next_key(dc[r], call[r].key)
      [] call[r].by = "this" -> {call[r].key}

Selected(r) ==
    select_keys_for_access(dc[r], InferKey(r), call[r].not_read, call[r].max)

\* read, take and their _bare and _instance variants, once the TopicCache is
\* found empty: access what the condition selects and return.
Access(r) ==
    /\ Filling(r)
    /\ Available(r) = {}
    /\ \A q \in Readers : pc[q] # "spin"
    /\ call[r].op # "simple"
    /\ call[r].op = "poll" => Selected(r) # {}
    /\ dc' = [dc EXCEPT ![r] = IF call[r].op = "read"
                               THEN read_by_keys(@, Selected(r))
                               ELSE take_by_keys(@, Selected(r))]
    /\ shown' = [shown EXCEPT ![r] =
                    @ \cup Visible({dc[r].datasamples[t] : t \in Selected(r)})]
    /\ pc' = [pc EXCEPT ![r] = "idle"]
    /\ call' = [call EXCEPT ![r] = Nobody]
    /\ again' = [again EXCEPT ![r] = call[r].op = "poll"]
    /\ UNCHANGED <<qos, wireVars, now, tc, notify, token, waker, woken, state,
                   evicted, given>>

\* poll_next found nothing: it goes on to store its waker.
FoundNothing(r) ==
    /\ pc[r] = "fill"
    /\ Available(r) = {}
    /\ \A q \in Readers : pc[q] # "spin"
    /\ call[r].op \in {"poll", "simple"} /\ Selected(r) = {}
    /\ pc' = [pc EXCEPT ![r] = "waker"]
    /\ UNCHANGED <<qos, wireVars, now, tc, notify, token, waker, woken, call,
                   again, state, dc, evicted, given, shown>>

\* Fault: the stream goes to sleep without looking again.
SetWakerOnly(r) ==
    /\ pc[r] = "waker"
    /\ waker' = [waker EXCEPT ![r] = TRUE]
    /\ pc' = [pc EXCEPT ![r] = "pending"]
    /\ UNCHANGED <<qos, wireVars, now, tc, notify, token, woken, call, again,
                   state, dc, evicted, given, shown>>

\* set_waker, then the second try, which drains the notifications again.
SetWaker(r) ==
    /\ pc[r] = "waker"
    /\ waker' = [waker EXCEPT ![r] = TRUE]
    /\ token' = [token EXCEPT ![r] = @ /\ call[r].op = "simple"]
    /\ pc' = [pc EXCEPT ![r] = "fill2"]
    /\ UNCHANGED <<qos, wireVars, now, tc, notify, woken, call, again, state, dc,
                   evicted, given, shown>>

\* poll_next returns Pending.
ReturnPending(r) ==
    /\ pc[r] = "fill2"
    /\ Available(r) = {}
    /\ \A q \in Readers : pc[q] # "spin"
    /\ Selected(r) = {}
    /\ pc' = [pc EXCEPT ![r] = "pending"]
    /\ call' = [call EXCEPT ![r] = Nobody]
    /\ UNCHANGED <<qos, wireVars, now, tc, notify, token, waker, woken, again,
                   state, dc, evicted, given, shown>>

\* The executor polls a woken task again.
Woken(r) ==
    /\ pc[r] = "pending"
    /\ woken[r]
    /\ woken' = [woken EXCEPT ![r] = FALSE]
    /\ again' = [again EXCEPT ![r] = TRUE]
    /\ pc' = [pc EXCEPT ![r] = "idle"]
    /\ UNCHANGED <<qos, wireVars, now, tc, notify, token, waker, call, state, dc,
                   evicted, given, shown>>

-----------------------------------------------------------------------------

EventLoop ==
    \/ \E r \in Readers, w \in Writers :
          \/ MatchWriter(r, w)
          \/ WriterLost(r, w)
          \/ \E sn \in 1 .. Len(sent[w]) : HandleData(r, w, sn)
          \/ \E f \in 1 .. first[w] : HandleHeartbeat(r, w, f)
          \/ HandleGap(r, w)
    \/ GarbageCollect

ThreadStep(r) ==
    TryTakeOne(r) \/ Access(r) \/ FoundNothing(r) \/ SetWaker(r)
        \/ ReturnPending(r) \/ Woken(r)

Next ==
    \/ \E w \in Writers : RemoveOldest(w) \/ \E p \in qos.payloads : Write(w, p)
    \/ EventLoop
    \/ NotifyCacheChange
    \/ \E r \in Readers : ThreadStep(r) \/ \E c \in qos.calls : Begin(r, c)

Spec == Init /\ [][Next]_vars

\* The event loop goes on with what it began, threads run, and an application
\* calls again when it was notified or told to.
Fairness ==
    /\ WF_vars(NotifyCacheChange)
    /\ \A r \in Readers :
          /\ WF_vars(ThreadStep(r))
          /\ WF_vars((token[r] \/ again[r]) /\ \E c \in qos.calls : Begin(r, c))

FairSpec == Spec /\ Fairness

-----------------------------------------------------------------------------

\* No wake-up is lost between the event loop and the application: while a
\* sample can be taken, a sleeping stream has been or is about to be woken,
\* and an application that is not in a call has a notification waiting or was
\* told to call again (reader.rs:1211-1236, datareader.rs poll_next).
NotificationPending ==
    \A r \in Readers : Available(r) # {} =>
        /\ pc[r] = "pending" => woken[r] \/ notify = r
        /\ pc[r] = "idle" => token[r] \/ again[r] \/ notify = r

\* A reliable DataReader shows its application no sample twice as unread, not
\* even when the Writer was lost and sent its history again after the cache
\* was collected (simpledatareader.rs:381-389, datasample_cache.rs:400-455).
NeverTwice ==
    [][qos.reliable => \A r \in Readers :
          Access(r) /\ call[r].not_read =>
              Visible({dc[r].datasamples[t] : t \in Selected(r)})
                  \cap shown[r] = {}]_vars

\* No sample stays for ever: each is in the index by which its instance is
\* cut down to the history depth (datasample_cache.rs:191-222), and each was
\* counted in a generation its instance has reached.
SamplesAreIndexed ==
    /\ {tc.sequence_numbers[i] : i \in DOMAIN tc.sequence_numbers} = DOMAIN tc.changes
    /\ \A r \in Readers : \A t \in DOMAIN dc[r].datasamples :
        LET s == dc[r].datasamples[t]
        IN  /\ s.key \in DOMAIN dc[r].instance_map
            /\ t \in dc[r].instance_map[s.key].instance_samples
            /\ s.generation <= dc[r].instance_map[s.key].latest
            /\ qos.depth > 0 =>
                 Cardinality({u \in DOMAIN dc[r].datasamples :
                                dc[r].datasamples[u].key = s.key}) <= qos.depth

\* The refinement mapping to ReliableDelivery for one Reader and Writer.  A
\* number is given up when the Writer removed it, it precedes the match or
\* garbage collection dropped it.
LastTaken(r, w) == IF qos.reliable THEN state[r].last_read_sn[w] ELSE 0
TakenOf(r, w) ==
    IF qos.reliable THEN {s \in SN : Sample(w, s) \in given[r]} ELSE {}
GivenUp(r, w) ==
    {s \in SN : s < first[w] \/ s < since[r][w] \/ Sample(w, s) \in evicted}

Delivery == INSTANCE ReliableDelivery WITH
    Numbers <- SN, last <- LastTaken(TheReader, TheWriter),
    given <- TakenOf(TheReader, TheWriter), lost <- GivenUp(TheReader, TheWriter)

\* What a reliable DataReader takes out of the TopicCache follows
\* ReliableDelivery: in order, once, and past a number only if that was given
\* up (dds_cache.rs:279-320, simpledatareader.rs:350-402).
ImplementsReliableDelivery == Delivery!Spec

\* Every sample that can be taken is taken, unless the thread hangs on an
\* unknown key hash (simpledatareader.rs:376-378).
DataIsRead ==
    \A r \in Readers : Available(r) # {} ~>
        (Available(r) = {} \/ \E q \in Readers : pc[q] = "spin")
=============================================================================
