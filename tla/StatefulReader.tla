--------------------------- MODULE StatefulReader ---------------------------
(***************************************************************************)
(* The Readers matched with one Writer (rtps/reader.rs), each with the     *)
(* TopicCache of its own participant (structure/dds_cache.rs) and the      *)
(* DataReader that takes samples out of it (dds/with_key/                  *)
(* simpledatareader.rs).  Only what concerns the one Writer is kept.       *)
(***************************************************************************)
EXTENDS RtpsMessages, RtpsWriterProxy

VARIABLES
    wmatched,      \* the Readers that have a proxy for the Writer
    wp,            \* that proxy
    cache,         \* TopicCache: SNs of the Writer stored, ever
    marker,        \* TopicCache: received_reliably_before
    last_read,     \* DataReader: last_read_sn
    taken          \* ghost: SNs handed to the application

readerVars == <<wmatched, wp, cache, marker, last_read, taken>>

ReaderTypeOK ==
    /\ wmatched \subseteq Readers
    /\ wp \in [Readers -> WriterProxyType]
    /\ cache \in [Readers -> SUBSET SN]
    /\ marker \in [Readers -> 1 .. MaxSN + 1]
    /\ last_read \in [Readers -> 0 .. MaxSN]
    /\ taken \in [Readers -> SUBSET SN]

ReaderInit ==
    /\ wmatched = {}
    /\ wp = [r \in Readers |-> NewWriterProxy]
    /\ cache = [r \in Readers |-> {}]
    /\ marker = [r \in Readers |-> 1]
    /\ last_read = [r \in Readers |-> 0]
    /\ taken = [r \in Readers |-> {}]

\* The proxy changes and its ack_base becomes the cache's marker
\* (mark_reliably_received_before overwrites whatever was there).
SetProxy(r, proxy) ==
    /\ wp' = [wp EXCEPT ![r] = proxy]
    /\ marker' = [marker EXCEPT ![r] = proxy.ack_base]

\* update_writer_proxy for a Writer that is new to the Reader.
MatchWriter(r) ==
    /\ r \notin wmatched
    /\ wmatched' = wmatched \cup {r}
    /\ wp' = [wp EXCEPT ![r] = NewWriterProxy]
    /\ UNCHANGED <<cache, marker, last_read, taken, netVars>>

\* remove_writer_proxy.  The TopicCache keeps the samples and the marker.
WriterLost(r) ==
    /\ r \in wmatched
    /\ wmatched' = wmatched \ {r}
    /\ wp' = [wp EXCEPT ![r] = NewWriterProxy]
    /\ UNCHANGED <<cache, marker, last_read, taken, netVars>>

\* handle_data_msg, process_received_data, make_cache_change.
HandleData(r, m) ==
    /\ m \in data_net
    /\ Reaches(m, r)
    /\ r \in wmatched
    /\ ~should_ignore_change(wp[r], m.sn)
    /\ SetProxy(r, received_changes_add(wp[r], m.sn))
    /\ cache' = [cache EXCEPT ![r] = @ \cup {m.sn}]
    /\ UNCHANGED <<wmatched, last_read, taken, netVars>>

\* What a Reader answers to a HEARTBEAT: the first missing number as base and
\* as many missing numbers as fit, or all it can acknowledge.
AckNackFor(r, proxy, m) ==
    LET missing == missing_seqnums(proxy, m.first_sn, m.last_sn)
        base    == IF missing = {} THEN proxy.ack_base ELSE First(missing)
    IN  [from |-> r, base |-> base, set |-> from_base_and_set(base, missing)]

\* handle_heartbeat_msg.  The Writer never sets the final flag, so every
\* HEARTBEAT that is new is answered.
HandleHeartbeat(r, m) ==
    LET counted == [wp[r] EXCEPT !.received_heartbeat_count = m.count]
        proxy   == irrelevant_changes_up_to(counted, m.first_sn)
    IN  /\ m \in hb_net
        /\ Reaches(m, r)
        /\ r \in wmatched
        /\ m.count > wp[r].received_heartbeat_count
        /\ SetProxy(r, proxy)
        /\ acknack_net' = acknack_net \cup {AckNackFor(r, proxy, m)}
        /\ UNCHANGED <<wmatched, cache, last_read, taken, data_net, hb_net,
                       gap_net>>

\* handle_gap_msg: the range, then the listed numbers.
HandleGap(r, m) ==
    /\ m \in gap_net
    /\ Reaches(m, r)
    /\ r \in wmatched
    /\ SetProxy(r, set_irrelevant_changes(
                       irrelevant_changes_range(wp[r], m.gap_start, m.base),
                       m.list))
    /\ UNCHANGED <<wmatched, cache, last_read, taken, netVars>>

\* Fault: the marker is not looked at.
AvailableUnmarked(r) == {s \in cache[r] : last_read[r] < s}

\* get_changes_in_range_reliable: stored, after the last one read and before
\* the marker.
Available(r) == {s \in cache[r] : last_read[r] < s /\ s < marker[r]}

\* try_take_one of a reliable DataReader.
Take(r) ==
    LET sn == First(Available(r))
    IN  /\ Available(r) # {}
        /\ last_read' = [last_read EXCEPT ![r] = sn]
        /\ taken' = [taken EXCEPT ![r] = @ \cup {sn}]
        /\ UNCHANGED <<wmatched, wp, cache, marker, netVars>>

=============================================================================
