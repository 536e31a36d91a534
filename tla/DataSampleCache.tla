--------------------------- MODULE DataSampleCache ---------------------------
(***************************************************************************)
(* The deserialized samples a DataReader holds between the TopicCache and  *)
(* the application (dds/with_key/datasample_cache.rs).  A cache is         *)
(*                                                                         *)
(*   datasamples    timestamp -> [writer, sn, key, dispose, generation,    *)
(*                                sample_has_been_read]                    *)
(*   instance_map   key -> [instance_samples, alive, latest, accessed]     *)
(*                                                                         *)
(* Nothing in the code sets NotAliveNoWriters, so an instance is alive or  *)
(* disposed and one generation count stands for the pair.  The only read   *)
(* conditions the library can build are any() and not_read().  Of the      *)
(* SampleInfo the view state is kept; the ranks are left out.              *)
(***************************************************************************)
EXTENDS Integers, Sequences, FiniteSets, FiniteSetsExt, Functions

EmptySampleCache == [datasamples |-> << >>, instance_map |-> << >>]

\* sub_zero().total(): the instance was never accessed.
NeverAccessed == -2

NewInstance(alive) ==
    [instance_samples |-> {}, alive |-> alive, latest |-> 0,
     accessed |-> NeverAccessed]

\* The n smallest timestamps.
Oldest(S, n) == {t \in S : Cardinality({u \in S : u <= t}) <= n}

\* Fault: the sample is not entered into its instance's index.
add_sample_unindexed(dc, s, ts, keep) ==
    LET new == [writer |-> s.writer, sn |-> s.sn, key |-> s.key,
                dispose |-> s.dispose, generation |-> 0,
                sample_has_been_read |-> FALSE]
        imd == IF s.key \in DOMAIN dc.instance_map
               THEN dc.instance_map[s.key] ELSE NewInstance(~s.dispose)
    IN  [datasamples |-> [t \in DOMAIN dc.datasamples \cup {ts} |->
                             IF t = ts THEN new ELSE dc.datasamples[t]],
         instance_map |-> [k \in DOMAIN dc.instance_map \cup {s.key} |->
                             IF k = s.key THEN imd ELSE dc.instance_map[k]]]

\* add_sample: find or create the instance, count a rebirth, store the sample
\* with the generation it arrived in, and drop the instance's oldest samples
\* beyond the limit (0 stands for no limit).
add_sample(dc, s, ts, keep) ==
    LET old == IF s.key \in DOMAIN dc.instance_map
               THEN dc.instance_map[s.key] ELSE NewInstance(~s.dispose)
        imd == [old EXCEPT
                  !.instance_samples = @ \cup {ts},
                  !.latest = IF ~old.alive /\ ~s.dispose THEN @ + 1 ELSE @,
                  !.alive = ~s.dispose]
        new == [writer |-> s.writer, sn |-> s.sn, key |-> s.key,
                dispose |-> s.dispose, generation |-> imd.latest,
                sample_has_been_read |-> FALSE]
        gone == IF keep = 0 THEN {}
                ELSE Oldest(imd.instance_samples,
                            Cardinality(imd.instance_samples) - keep)
    IN  [datasamples |-> [t \in (DOMAIN dc.datasamples \cup {ts}) \ gone |->
                             IF t = ts THEN new ELSE dc.datasamples[t]],
         instance_map |-> [k \in DOMAIN dc.instance_map \cup {s.key} |->
             IF k = s.key THEN [imd EXCEPT !.instance_samples = @ \ gone]
             ELSE dc.instance_map[k]]]

\* select_keys_for_access, select_instance_keys_for_access (a set of one key)
\* and the truncation to max_samples by the caller.
select_keys_for_access(dc, keys, not_read, max_samples) ==
    Oldest({ts \in DOMAIN dc.datasamples :
              /\ dc.datasamples[ts].key \in keys
              /\ not_read => ~dc.datasamples[ts].sample_has_been_read},
           max_samples)

\* make_sample_info's view state.
view_state(dc, ts) ==
    IF dc.datasamples[ts].generation
         > dc.instance_map[dc.datasamples[ts].key].accessed
    THEN "New" ELSE "NotNew"

\* record_instance_generation_viewed and mark_instances_viewed: the newest
\* generation accessed now, whatever was accessed before.
mark_instances_viewed(dc, selected) ==
    LET seen(k) == {dc.datasamples[ts].generation :
                      ts \in {t \in selected : dc.datasamples[t].key = k}}
    IN  [k \in DOMAIN dc.instance_map |->
            IF seen(k) = {} THEN dc.instance_map[k]
            ELSE [dc.instance_map[k] EXCEPT !.accessed = Max(seen(k))]]

\* Fault: the samples are not marked as read.
read_by_keys_unmarked(dc, selected) ==
    [dc EXCEPT !.instance_map = mark_instances_viewed(dc, selected)]

\* read_by_keys and read_bare_by_keys.
read_by_keys(dc, selected) ==
    [datasamples |-> [ts \in DOMAIN dc.datasamples |->
        IF ts \in selected
        THEN [dc.datasamples[ts] EXCEPT !.sample_has_been_read = TRUE]
        ELSE dc.datasamples[ts]],
     instance_map |-> mark_instances_viewed(dc, selected)]

\* take_by_keys and take_bare_by_keys.  The timestamps stay in the instances'
\* indexes.
take_by_keys(dc, selected) ==
    [datasamples |-> Restrict(dc.datasamples, DOMAIN dc.datasamples \ selected),
     instance_map |-> mark_instances_viewed(dc, selected)]

\* next_key and infer_key: the instance a call by key is about.
next_key(dc, key) == {k \in DOMAIN dc.instance_map :
                        k > key /\ \A j \in DOMAIN dc.instance_map : j > key => k <= j}

=============================================================================
