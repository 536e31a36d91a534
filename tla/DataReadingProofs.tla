------------------------- MODULE DataReadingProofs -------------------------
(***************************************************************************)
(* What DataReading promises, for any Writers, numbers, QoS and calls.     *)
(* What the samples' indexes and the sample cache promise holds for any    *)
(* number of Readers of a topic; that no wake-up is lost and that delivery *)
(* is reliable holds for one, for Readers of one topic share a marker.     *)
(***************************************************************************)
EXTENDS DataReading, WriterProxyProofs, SequenceTheorems, FiniteSetTheorems, TLAPS

----------------------------------------------------------------------------
(* The inductive invariant *)

Steps == {"idle", "fill", "spin", "waker", "fill2", "pending"}

\* The network and the clock.
WireInv ==
    /\ qos \in Situations
    /\ sent \in [Writers -> Seq(qos.payloads)]
    /\ \A w \in Writers : Len(sent[w]) <= qos.samples
    /\ first \in [Writers -> 1 .. MaxSN + 1]
    /\ since \in [Readers -> [Writers -> 1 .. MaxSN + 1]]
    /\ \A r \in Readers, w \in Writers : since[r][w] <= Len(sent[w]) + 1
    /\ now \in Nat

ProxyInv ==
    /\ proxy \in [Readers -> [Writers -> WriterProxyType]]
    /\ \A r \in Readers, w \in Writers : Consistent(proxy[r][w])

IsState(s) ==
    /\ s.latest_instant \in Nat
    /\ s.last_read_sn \in [Writers -> 0 .. MaxSN]

\* The application's threads and what reaches them.
ThreadInv ==
    /\ notify \in Readers \cup {Nobody}
    /\ token \in [Readers -> BOOLEAN] /\ waker \in [Readers -> BOOLEAN]
    /\ woken \in [Readers -> BOOLEAN] /\ again \in [Readers -> BOOLEAN]
    /\ pc \in [Readers -> Steps]
    /\ \A r \in Readers : IsState(state[r])
    /\ DOMAIN call = Readers /\ DOMAIN dc = Readers
    /\ DOMAIN given = Readers /\ DOMAIN shown = Readers
    /\ DOMAIN state = Readers

\* The samples of the TopicCache and their index tell the same.
IsCache(c) ==
    DOMAIN c = {"changes", "sequence_numbers", "received_reliably_before",
                "max_keep_samples"}

Indexed(c, time) ==
    /\ IsCache(c)
    /\ c.received_reliably_before \in [Writers -> 1 .. MaxSN + 1]
    /\ \A t \in DOMAIN c.changes :
          /\ t \in 1 .. time
          /\ <<c.changes[t].writer, c.changes[t].sn>> \in DOMAIN c.sequence_numbers
          /\ c.sequence_numbers[<<c.changes[t].writer, c.changes[t].sn>>] = t
    /\ \A i \in DOMAIN c.sequence_numbers :
          /\ i \in Writers \X SN
          /\ c.sequence_numbers[i] \in DOMAIN c.changes
          /\ c.changes[c.sequence_numbers[i]] = [writer |-> i[1], sn |-> i[2]]

CacheInv == Indexed(tc, now)

\* The samples of an instance in a sample cache are in its index, which is not
\* larger than the history depth.
IsInstance(m) ==
    /\ DOMAIN m = {"instance_samples", "alive", "latest", "accessed"}
    /\ m.latest \in Nat
    /\ m.instance_samples \subseteq Nat /\ IsFiniteSet(m.instance_samples)

IsSample(s) ==
    DOMAIN s = {"writer", "sn", "key", "dispose", "generation", "sample_has_been_read"}

Kept(d, depth) ==
    /\ \A k \in DOMAIN d.instance_map :
          /\ IsInstance(d.instance_map[k])
          /\ depth > 0 => Cardinality(d.instance_map[k].instance_samples) <= depth
    /\ \A t \in DOMAIN d.datasamples :
          LET s == d.datasamples[t]
          IN  /\ IsSample(s) /\ s.key \in DOMAIN d.instance_map
              /\ t \in d.instance_map[s.key].instance_samples
              /\ s.generation \in 0 .. d.instance_map[s.key].latest

SampleInv == \A r \in Readers : Kept(dc[r], qos.depth)

\* A reliable Reader has each number once, and what it has not read it has not
\* shown.
Once(d, last, seen) ==
    /\ \A t \in DOMAIN d.datasamples :
          LET s == d.datasamples[t]
          IN  /\ s.writer \in Writers /\ s.sn \in SN /\ s.sn <= last[s.writer]
              /\ ~s.sample_has_been_read => Sample(s.writer, s.sn) \notin seen
    /\ \A t, u \in DOMAIN d.datasamples :
          /\ d.datasamples[t].writer = d.datasamples[u].writer
          /\ d.datasamples[t].sn = d.datasamples[u].sn
          => t = u
    /\ \A x \in seen : x \in Writers \X SN /\ x[2] <= last[x[1]]

OnceInv == qos.reliable => \A r \in Readers : Once(dc[r], state[r].last_read_sn, shown[r])

\* A number is known to a Reader, or below the marker, only when it is in the
\* cache or was given up.
Stored(w, s) == <<w, s>> \in DOMAIN tc.sequence_numbers
Accounted(r, w, s) == Stored(w, s) \/ s \in GivenUp(r, w)

KnownInv ==
    \A r \in Readers, w \in Writers : \A s \in Known(proxy[r][w]) : Accounted(r, w, s)

MarkerInv ==
    \A r \in Readers, w \in Writers : \A s \in SN :
        s < tc.received_reliably_before[w] => Accounted(r, w, s)

\* A stream that is about to sleep, or sleeps, has set its waker.
WakerInv ==
    \A r \in Readers : pc[r] \in {"fill2", "pending"} => waker[r] \/ woken[r]

IInv ==
    WireInv /\ ProxyInv /\ ThreadInv /\ CacheInv /\ SampleInv /\ OnceInv /\ KnownInv

\* With a single Reader of the topic.
SoleInv == MarkerInv /\ WakerInv /\ NotificationPending

----------------------------------------------------------------------------
(* The TopicCache *)

\* What is left of a cache is indexed as it was.
Within(b, c) ==
    /\ b.received_reliably_before = c.received_reliably_before
    /\ DOMAIN b.changes \subseteq DOMAIN c.changes
    /\ \A t \in DOMAIN b.changes : b.changes[t] = c.changes[t]
    /\ DOMAIN b.sequence_numbers \subseteq DOMAIN c.sequence_numbers
    /\ \A i \in DOMAIN b.sequence_numbers :
          b.sequence_numbers[i] = c.sequence_numbers[i]

\* The cache with other contents.
Refilled(c, ch, sns) == [c EXCEPT !.changes = ch, !.sequence_numbers = sns]

LEMMA CacheExcept ==
    ASSUME NEW c, IsCache(c), NEW ch, NEW sns
    PROVE  LET b == Refilled(c, ch, sns)
           IN  /\ IsCache(b)
               /\ b.changes = ch /\ b.sequence_numbers = sns
               /\ b.received_reliably_before = c.received_reliably_before
BY Zenon DEF IsCache, Refilled

\* Garbage collection takes a change out of both maps.
LEMMA RemoveChangesBefore ==
    ASSUME NEW c, NEW time \in Nat, Indexed(c, time)
    PROVE  /\ Indexed(remove_changes_before(c), time)
           /\ Within(remove_changes_before(c), c)
<1> DEFINE kept == {ts \in DOMAIN c.changes :
                        Cardinality({u \in DOMAIN c.changes : u >= ts})
                            <= c.max_keep_samples}
           left == {i \in DOMAIN c.sequence_numbers :
                        c.sequence_numbers[i] \in kept}
           b    == remove_changes_before(c)
<1>1. /\ IsCache(b)
      /\ b.changes = Restrict(c.changes, kept)
      /\ b.sequence_numbers = Restrict(c.sequence_numbers, left)
      /\ b.received_reliably_before = c.received_reliably_before
      <2>1. IsCache(c)  BY DEF Indexed
      <2>2. PICK ch, sns : ch = Restrict(c.changes, kept)
                             /\ sns = Restrict(c.sequence_numbers, left)
            OBVIOUS
      <2>3. b = Refilled(c, ch, sns)
            BY <2>2, Zenon DEF remove_changes_before, Refilled
      <2> HIDE DEF b, kept, left
      <2> QED  BY <2>1, <2>2, <2>3, CacheExcept
<1>2. /\ b.changes = [t \in kept |-> c.changes[t]]
      /\ b.sequence_numbers = [i \in left |-> c.sequence_numbers[i]]
      BY <1>1, Zenon DEF Restrict
<1>3. kept \subseteq DOMAIN c.changes
      OBVIOUS
<1>4. \A i : i \in left <=> i \in DOMAIN c.sequence_numbers /\ c.sequence_numbers[i] \in kept
      OBVIOUS
<1> HIDE DEF kept, left, b
<1>5. Within(b, c)
      BY <1>1, <1>2, <1>3, <1>4 DEF Within
<1>6. Indexed(b, time)
      <2>1. \A t \in kept :
               /\ t \in 1 .. time
               /\ <<c.changes[t].writer, c.changes[t].sn>> \in left
               /\ c.sequence_numbers[<<c.changes[t].writer, c.changes[t].sn>>] = t
            BY <1>3, <1>4 DEF Indexed
      <2>2. \A i \in left :
               /\ i \in Writers \X SN
               /\ c.sequence_numbers[i] \in kept
               /\ c.changes[c.sequence_numbers[i]] = [writer |-> i[1], sn |-> i[2]]
            BY <1>4 DEF Indexed
      <2> QED  BY <1>1, <1>2, <2>1, <2>2 DEF Indexed
<1> QED  BY <1>5, <1>6 DEF b

\* A cache in which the number is not yet stored, with it stored.
With(c, ts, w, sn) ==
    [c EXCEPT !.changes = [t \in DOMAIN @ \cup {ts} |->
                  IF t = ts THEN [writer |-> w, sn |-> sn] ELSE @[t]],
              !.sequence_numbers = [j \in DOMAIN @ \cup {<<w, sn>>} |->
                  IF j = <<w, sn>> THEN ts ELSE @[j]]]

LEMMA WithIsIndexed ==
    ASSUME NEW c, NEW time \in Nat, Indexed(c, time), NEW w \in Writers, NEW sn \in SN,
           <<w, sn>> \notin DOMAIN c.sequence_numbers
    PROVE  LET b == With(c, time + 1, w, sn)
           IN  /\ Indexed(b, time + 1)
               /\ DOMAIN b.sequence_numbers = DOMAIN c.sequence_numbers \cup {<<w, sn>>}
               /\ b.received_reliably_before = c.received_reliably_before
<1> DEFINE b == With(c, time + 1, w, sn)
           i == <<w, sn>>
           ts == time + 1
           new == [writer |-> w, sn |-> sn]
<1>2. /\ b.changes = [t \in DOMAIN c.changes \cup {ts} |->
                           IF t = ts THEN new ELSE c.changes[t]]
      /\ b.sequence_numbers = [j \in DOMAIN c.sequence_numbers \cup {i} |->
                           IF j = i THEN ts ELSE c.sequence_numbers[j]]
      /\ b.received_reliably_before = c.received_reliably_before
      /\ IsCache(b)
      <2>1. IsCache(c)  BY DEF Indexed
      <2>2. PICK ch, sns :
               /\ ch = [t \in DOMAIN c.changes \cup {ts} |->
                           IF t = ts THEN new ELSE c.changes[t]]
               /\ sns = [j \in DOMAIN c.sequence_numbers \cup {i} |->
                           IF j = i THEN ts ELSE c.sequence_numbers[j]]
            OBVIOUS
      <2>3. b = Refilled(c, ch, sns)
            BY <2>2, Zenon DEF With, Refilled
      <2> HIDE DEF b
      <2> QED  BY <2>1, <2>2, <2>3, CacheExcept
<1>3. \A t \in DOMAIN c.changes : t \in 1 .. time /\ t # ts
      <2>1. \A t \in DOMAIN c.changes : t \in 1 .. time
            BY Zenon DEF Indexed
      <2> QED  BY <2>1
<1>4. i \in Writers \X SN /\ i[1] = w /\ i[2] = sn /\ new.writer = w /\ new.sn = sn
      OBVIOUS
<1> HIDE DEF b
<1>5. ASSUME NEW t \in DOMAIN b.changes
      PROVE  /\ t \in 1 .. time + 1
             /\ <<b.changes[t].writer, b.changes[t].sn>> \in DOMAIN b.sequence_numbers
             /\ b.sequence_numbers[<<b.changes[t].writer, b.changes[t].sn>>] = t
      <2>1. CASE t = ts
            <3>1. b.changes[t].writer = w /\ b.changes[t].sn = sn
                  BY <1>2, <1>4, <2>1
            <3> QED  BY <3>1, <2>1, <1>2
      <2>2. CASE t # ts
            <3>1. t \in DOMAIN c.changes /\ b.changes[t] = c.changes[t]
                  BY <1>2, <2>2
            <3> DEFINE j == <<c.changes[t].writer, c.changes[t].sn>>
            <3>2. j \in DOMAIN c.sequence_numbers /\ c.sequence_numbers[j] = t /\ j # i
                  BY <3>1 DEF Indexed
            <3> QED  BY <1>2, <1>3, <3>1, <3>2
      <2> QED  BY <2>1, <2>2
<1>6. ASSUME NEW j \in DOMAIN b.sequence_numbers
      PROVE  /\ j \in Writers \X SN
             /\ b.sequence_numbers[j] \in DOMAIN b.changes
             /\ b.changes[b.sequence_numbers[j]] = [writer |-> j[1], sn |-> j[2]]
      <2>1. CASE j = i
            BY <1>2, <1>4, <2>1
      <2>2. CASE j # i
            <3>1. /\ j \in DOMAIN c.sequence_numbers
                  /\ b.sequence_numbers[j] = c.sequence_numbers[j]
                  BY <1>2, <2>2
            <3>2. /\ j \in Writers \X SN
                  /\ c.sequence_numbers[j] \in DOMAIN c.changes
                  /\ c.changes[c.sequence_numbers[j]] = [writer |-> j[1], sn |-> j[2]]
                  BY <3>1 DEF Indexed
            <3> QED  BY <1>2, <1>3, <3>1, <3>2
      <2> QED  BY <2>1, <2>2
<1>7. b.received_reliably_before \in [Writers -> 1 .. MaxSN + 1]
      BY <1>2 DEF Indexed
<1> QED  BY <1>2, <1>5, <1>6, <1>7 DEF Indexed, b

LEMMA IndexedLater ==
    ASSUME NEW c, NEW time \in Nat, Indexed(c, time)
    PROVE  Indexed(c, time + 1)
BY DEF Indexed

\* add_change keeps the index, and afterwards the number is stored.
LEMMA AddChange ==
    ASSUME NEW c, NEW time \in Nat, Indexed(c, time), NEW w \in Writers, NEW sn \in SN
    PROVE  LET b == add_change(c, time + 1, w, sn)
           IN  /\ Indexed(b, time + 1)
               /\ <<w, sn>> \in DOMAIN b.sequence_numbers
               /\ b.received_reliably_before = c.received_reliably_before
<1>1. PICK g : /\ g = IF sn % GcModulus = 0 THEN remove_changes_before(c) ELSE c
               /\ add_change(c, time + 1, w, sn) =
                    IF <<w, sn>> \in DOMAIN g.sequence_numbers THEN g
                    ELSE With(g, time + 1, w, sn)
      BY DEF add_change, With
<1>2. Indexed(g, time) /\ g.received_reliably_before = c.received_reliably_before
      BY <1>1, RemoveChangesBefore DEF Within
<1>3. CASE <<w, sn>> \in DOMAIN g.sequence_numbers
      BY <1>1, <1>2, <1>3, IndexedLater
<1>4. CASE <<w, sn>> \notin DOMAIN g.sequence_numbers
      BY <1>1, <1>2, <1>4, WithIsIndexed
<1> QED  BY <1>3, <1>4

\* The marker is not part of the index.
LEMMA MarkKeepsIndex ==
    ASSUME NEW c, NEW time \in Nat, Indexed(c, time), NEW w \in Writers,
           NEW sn \in 1 .. MaxSN + 1
    PROVE  LET b == mark_reliably_received_before(c, w, sn)
           IN  /\ Indexed(b, time)
               /\ b.changes = c.changes /\ b.sequence_numbers = c.sequence_numbers
               /\ b.received_reliably_before =
                    [c.received_reliably_before EXCEPT ![w] = sn]
<1> DEFINE b == mark_reliably_received_before(c, w, sn)
<1>2. /\ b.changes = c.changes /\ b.sequence_numbers = c.sequence_numbers
      /\ b.received_reliably_before = [c.received_reliably_before EXCEPT ![w] = sn]
      /\ IsCache(b)
      BY Zenon DEF mark_reliably_received_before, Indexed, IsCache
<1> HIDE DEF b
<1>3. b.received_reliably_before \in [Writers -> 1 .. MaxSN + 1]
      BY <1>2 DEF Indexed
<1> QED  BY <1>2, <1>3 DEF Indexed, b

----------------------------------------------------------------------------
(* The sample cache *)

\* The samples a full instance has too many of, and what is left of it.
Overflow(S, keep) == IF keep = 0 THEN {} ELSE Oldest(S, Cardinality(S) - keep)
Trimmed(m, gone) == [m EXCEPT !.instance_samples = @ \ gone]

\* One more sample than the history depth is one too many, and the oldest goes.
LEMMA OverflowLeavesDepth ==
    ASSUME NEW R \in SUBSET Nat, IsFiniteSet(R), NEW keep \in Nat \ {0},
           Cardinality(R) <= keep, NEW ts \in Nat
    PROVE  LET S == R \cup {ts}
           IN  /\ IsFiniteSet(S \ Overflow(S, keep))
               /\ Cardinality(S \ Overflow(S, keep)) <= keep
<1> DEFINE S == R \cup {ts}
           gone == Overflow(S, keep)
<1>1. /\ IsFiniteSet(S) /\ Cardinality(S) \in Nat
      /\ Cardinality(S) <= Cardinality(R) + 1 /\ Cardinality(R) \in Nat
      BY FS_AddElement, FS_CardinalityType
<1>2. S \in SUBSET Nat /\ S # {}
      OBVIOUS
<1> HIDE DEF S
<1>3. IsFiniteSet(S \ gone) /\ Cardinality(S \ gone) <= Cardinality(S)
      BY <1>1, FS_Subset
<1>4. CASE Cardinality(S) <= keep
      <2>1. Cardinality(S \ gone) \in Nat
            BY <1>3, FS_CardinalityType
      <2> QED  BY <1>1, <1>3, <1>4, <2>1 DEF S
<1>5. CASE ~(Cardinality(S) <= keep)
      <2>1. Cardinality(S) = keep + 1
            BY <1>1, <1>5
      <2>2. PICK m \in S : \A n \in S : m <= n
            BY <1>2, LeastNatural
      <2>3. {u \in S : u <= m} = {m}
            <3>1. m \in Nat /\ m <= m  BY <1>2
            <3>2. \A u \in S : u <= m => u = m
                  BY <1>2, <2>2
            <3> QED  BY <2>2, <3>1, <3>2, Zenon
      <2>4. Cardinality({u \in S : u <= m}) = 1
            BY <2>3, FS_Singleton
      <2>5. gone = {t \in S : Cardinality({u \in S : u <= t}) <= 1}
            <3>1. keep # 0 /\ Cardinality(S) - keep = 1  BY <2>1
            <3> QED  BY <3>1 DEF Overflow, Oldest
      <2>6. m \in gone
            <3>1. Cardinality({u \in S : u <= m}) <= 1  BY <2>4
            <3>2. m \in S  BY <2>2
            <3> QED  BY <2>5, <3>1, <3>2, Zenon
      <2>7. /\ IsFiniteSet(S \ {m}) /\ Cardinality(S \ {m}) = Cardinality(S) - 1
            BY <1>1, <2>2, FS_RemoveElement
      <2>8. S \ gone \subseteq S \ {m}
            BY <2>6
      <2>9. Cardinality(S \ gone) <= Cardinality(S \ {m})
            BY <2>7, <2>8, FS_Subset
      <2>10. Cardinality(S \ gone) \in Nat
            BY <1>3, FS_CardinalityType
      <2> QED  BY <1>3, <2>1, <2>7, <2>9, <2>10 DEF S
<1> QED  BY <1>4, <1>5

\* The parts of add_sample: the instance, with the sample, and the sample.
InstanceOf(d, s) ==
    IF s.key \in DOMAIN d.instance_map THEN d.instance_map[s.key]
    ELSE NewInstance(~s.dispose)
Grown(m, s, ts) ==
    [m EXCEPT !.instance_samples = @ \cup {ts},
              !.latest = IF ~m.alive /\ ~s.dispose THEN @ + 1 ELSE @,
              !.alive = ~s.dispose]
Stamped(s, generation) ==
    [writer |-> s.writer, sn |-> s.sn, key |-> s.key, dispose |-> s.dispose,
     generation |-> generation, sample_has_been_read |-> FALSE]

LEMMA GrownInstance ==
    ASSUME NEW m, IsInstance(m), NEW s, NEW ts \in Nat
    PROVE  LET g == Grown(m, s, ts)
           IN  /\ IsInstance(g)
               /\ g.instance_samples = m.instance_samples \cup {ts}
               /\ g.latest \in Nat /\ m.latest <= g.latest
<1> DEFINE g == Grown(m, s, ts)
<1>1. DOMAIN m = {"instance_samples", "alive", "latest", "accessed"}
      BY DEF IsInstance
<1>2. DOMAIN g = {"instance_samples", "alive", "latest", "accessed"}
      BY <1>1, Zenon DEF Grown
<1>3. g.instance_samples = m.instance_samples \cup {ts}
      BY <1>1, Zenon DEF Grown
<1>4. g.latest = m.latest + 1 \/ g.latest = m.latest
      BY <1>1, Zenon DEF Grown
<1> HIDE DEF g
<1>5. g.latest \in Nat /\ m.latest <= g.latest
      BY <1>4 DEF IsInstance
<1>6. IsFiniteSet(g.instance_samples)
      BY <1>3, FS_AddElement DEF IsInstance
<1>7. g.instance_samples \subseteq Nat
      BY <1>3 DEF IsInstance
<1>8. IsInstance(g)
      BY <1>2, <1>5, <1>6, <1>7 DEF IsInstance
<1> QED  BY <1>3, <1>5, <1>8 DEF g

LEMMA TrimmedInstance ==
    ASSUME NEW m, IsInstance(m), NEW gone
    PROVE  LET g == Trimmed(m, gone)
           IN  /\ IsInstance(g) /\ g.latest = m.latest
               /\ g.instance_samples = m.instance_samples \ gone
<1> DEFINE g == Trimmed(m, gone)
<1>1. DOMAIN m = {"instance_samples", "alive", "latest", "accessed"}
      BY DEF IsInstance
<1>2. DOMAIN g = {"instance_samples", "alive", "latest", "accessed"}
      BY <1>1, Zenon DEF Trimmed
<1>3. g.instance_samples = m.instance_samples \ gone /\ g.latest = m.latest
      BY <1>1, Zenon DEF Trimmed
<1> HIDE DEF g
<1>4. IsFiniteSet(g.instance_samples)
      BY <1>3, FS_Subset DEF IsInstance
<1>5. IsInstance(g)
      BY <1>2, <1>3, <1>4 DEF IsInstance
<1> QED  BY <1>3, <1>5 DEF g

LEMMA InstanceOfCache ==
    ASSUME NEW d, NEW depth, Kept(d, depth), depth \in Nat, NEW s
    PROVE  LET m == InstanceOf(d, s)
           IN  /\ IsInstance(m)
               /\ depth > 0 => Cardinality(m.instance_samples) <= depth
<1>1. CASE s.key \in DOMAIN d.instance_map
      BY <1>1 DEF InstanceOf, Kept
<1>2. CASE s.key \notin DOMAIN d.instance_map
      <2>1. PICK b : InstanceOf(d, s) = NewInstance(b)
            BY <1>2 DEF InstanceOf
      <2>2. /\ DOMAIN NewInstance(b) = {"instance_samples", "alive", "latest", "accessed"}
            /\ NewInstance(b).instance_samples = {} /\ NewInstance(b).latest = 0
            BY DEF NewInstance
      <2>3. IsFiniteSet({}) /\ Cardinality({}) = 0
            BY FS_EmptySet
      <2>4. NewInstance(b).latest \in Nat  BY <2>2
      <2>5. IsInstance(NewInstance(b))
            BY <2>2, <2>3, <2>4 DEF IsInstance
      <2> QED  BY <2>1, <2>2, <2>3, <2>5
<1> QED  BY <1>1, <1>2

\* The cache a holds nothing but what d holds and this sample.
GainsOnly(a, d, ts, w, sn) ==
    \A t \in DOMAIN a.datasamples :
        \/ t = ts /\ a.datasamples[t].writer = w /\ a.datasamples[t].sn = sn
        \/ t \in DOMAIN d.datasamples /\ a.datasamples[t] = d.datasamples[t]

\* add_sample keeps every sample in the index of its instance and every index
\* within the history depth.
LEMMA AddSample ==
    ASSUME NEW d, NEW depth \in Nat, Kept(d, depth), NEW s, NEW ts \in Nat
    PROVE  /\ Kept(add_sample(d, s, ts, depth), depth)
           /\ GainsOnly(add_sample(d, s, ts, depth), d, ts, s.writer, s.sn)
<1> DEFINE a    == add_sample(d, s, ts, depth)
           m    == InstanceOf(d, s)
           g    == Grown(m, s, ts)
           gone == Overflow(g.instance_samples, depth)
           i    == Trimmed(g, gone)
           new  == Stamped(s, g.latest)
<1>7. /\ a.datasamples = [t \in (DOMAIN d.datasamples \cup {ts}) \ gone |->
                             IF t = ts THEN new ELSE d.datasamples[t]]
      /\ a.instance_map = [k \in DOMAIN d.instance_map \cup {s.key} |->
                             IF k = s.key THEN i ELSE d.instance_map[k]]
      BY Zenon DEF add_sample, Grown, InstanceOf, Overflow, Stamped, Trimmed
<1> HIDE DEF a, m, g, gone, i, new
<1>8. IsInstance(m) /\ (depth > 0 => Cardinality(m.instance_samples) <= depth)
      BY InstanceOfCache DEF m
<1>9. /\ IsInstance(g) /\ g.instance_samples = m.instance_samples \cup {ts}
      /\ g.latest \in Nat /\ m.latest <= g.latest
      BY <1>8, GrownInstance DEF g
<1>10. /\ IsInstance(i) /\ i.latest = g.latest
       /\ i.instance_samples = g.instance_samples \ gone
      BY <1>9, TrimmedInstance DEF i
<1>11. depth > 0 => Cardinality(i.instance_samples) <= depth
      <2> SUFFICES ASSUME depth > 0 PROVE Cardinality(i.instance_samples) <= depth
            OBVIOUS
      <2>1. m.instance_samples \in SUBSET Nat /\ IsFiniteSet(m.instance_samples)
            BY <1>8 DEF IsInstance
      <2>2. depth \in Nat \ {0} /\ Cardinality(m.instance_samples) <= depth
            BY <1>8
      <2>3. Cardinality((m.instance_samples \cup {ts})
                            \ Overflow(m.instance_samples \cup {ts}, depth)) <= depth
            BY <2>1, <2>2, OverflowLeavesDepth
      <2> QED  BY <1>9, <1>10, <2>3 DEF gone
<1>12. /\ IsSample(new) /\ new.key = s.key /\ new.generation = g.latest
       /\ new.writer = s.writer /\ new.sn = s.sn
      BY DEF IsSample, Stamped, new
<1>13. ASSUME NEW k \in DOMAIN a.instance_map
       PROVE  /\ IsInstance(a.instance_map[k])
              /\ depth > 0 => Cardinality(a.instance_map[k].instance_samples) <= depth
      <2>1. CASE k = s.key
            BY <1>7, <1>10, <1>11, <2>1
      <2>2. CASE k # s.key
            <3>1. k \in DOMAIN d.instance_map /\ a.instance_map[k] = d.instance_map[k]
                  BY <1>7, <2>2
            <3> QED  BY <3>1 DEF Kept
      <2> QED  BY <2>1, <2>2
<1>14. ASSUME NEW t \in DOMAIN a.datasamples
       PROVE  \/ t = ts /\ a.datasamples[t] = new
              \/ t # ts /\ t \in DOMAIN d.datasamples /\ a.datasamples[t] = d.datasamples[t]
      BY <1>7
<1>15. ASSUME NEW t \in DOMAIN a.datasamples
       PROVE  t \notin gone
      BY <1>7
<1>16. ASSUME NEW t \in DOMAIN a.datasamples
       PROVE  LET x == a.datasamples[t]
              IN  /\ IsSample(x) /\ x.key \in DOMAIN a.instance_map
                  /\ t \in a.instance_map[x.key].instance_samples
                  /\ x.generation \in 0 .. a.instance_map[x.key].latest
      <2> DEFINE x == a.datasamples[t]
      <2>1. CASE t = ts
            <3>1. x = new  BY <1>14, <2>1
            <3>2. x.key \in DOMAIN a.instance_map /\ a.instance_map[x.key] = i
                  BY <1>7, <1>12, <3>1
            <3>3. ts \in i.instance_samples
                  BY <1>9, <1>10, <1>15, <2>1
            <3> QED  BY <1>9, <1>10, <1>12, <2>1, <3>1, <3>2, <3>3
      <2>2. CASE t # ts
            <3>1. t \in DOMAIN d.datasamples /\ x = d.datasamples[t]
                  BY <1>14, <2>2
            <3>2. /\ IsSample(x) /\ x.key \in DOMAIN d.instance_map
                  /\ t \in d.instance_map[x.key].instance_samples
                  /\ x.generation \in 0 .. d.instance_map[x.key].latest
                  BY <3>1 DEF Kept
            <3>3. x.key \in DOMAIN a.instance_map
                  BY <1>7, <3>2
            <3>4. CASE x.key # s.key
                  <4>1. a.instance_map[x.key] = d.instance_map[x.key]
                        BY <1>7, <3>2, <3>4
                  <4> QED  BY <3>2, <3>3, <4>1
            <3>5. CASE x.key = s.key
                  <4>1. m = d.instance_map[x.key]
                        BY <3>2, <3>5 DEF InstanceOf, m
                  <4>2. a.instance_map[x.key] = i
                        BY <1>7, <3>3, <3>5
                  <4>3. t \in i.instance_samples
                        BY <1>9, <1>10, <1>15, <3>2, <4>1
                  <4>4. m.latest \in Nat  BY <1>8 DEF IsInstance
                  <4>5. x.generation \in 0 .. i.latest
                        BY <1>9, <1>10, <3>2, <4>1, <4>4
                  <4> QED  BY <3>2, <3>3, <4>2, <4>3, <4>5
            <3> QED  BY <3>4, <3>5
      <2> QED  BY <2>1, <2>2
<1>17. Kept(a, depth)
      BY <1>13, <1>16 DEF Kept
<1>18. ASSUME NEW t \in DOMAIN a.datasamples
       PROVE  \/ t = ts /\ a.datasamples[t].writer = s.writer /\ a.datasamples[t].sn = s.sn
              \/ t \in DOMAIN d.datasamples /\ a.datasamples[t] = d.datasamples[t]
      BY <1>12, <1>14
<1> QED  BY <1>17, <1>18 DEF a, GainsOnly

\* A sample newer than all of its Writer is new to the cache and the application.
LEMMA AddSampleOnce ==
    ASSUME NEW d, NEW a, NEW last \in [Writers -> 0 .. MaxSN], NEW seen, Once(d, last, seen),
           NEW w \in Writers, NEW sn \in SN, sn > last[w], NEW ts,
           GainsOnly(a, d, ts, w, sn)
    PROVE  Once(a, [last EXCEPT ![w] = sn], seen)
<1>1. PICK after : after = [last EXCEPT ![w] = sn]
      OBVIOUS
<1>2. /\ after \in [Writers -> 0 .. MaxSN] /\ after[w] = sn
      /\ \A v \in Writers : last[v] <= after[v]
      BY <1>1, MaxSNAssumption DEF SN
<1>3. \A x \in seen : x \in Writers \X SN /\ x[2] <= last[x[1]]
      BY DEF Once
<1>4. ASSUME NEW x \in seen
      PROVE  x \in Writers \X SN /\ x[2] <= after[x[1]]
      <2>1. PICK v \in Writers, n \in SN : x = <<v, n>> /\ n <= last[v]
            BY <1>3
      <2>2. n <= after[v]
            BY <1>2, <2>1, MaxSNAssumption DEF SN
      <2> QED  BY <2>1, <2>2
<1>5. Sample(w, sn) \notin seen
      <2>1. ASSUME Sample(w, sn) \in seen PROVE FALSE
            <3>1. sn <= last[w]  BY <1>3, <2>1 DEF Sample
            <3> QED  BY <3>1, MaxSNAssumption DEF SN
      <2> QED  BY <2>1
<1>6. ASSUME NEW t \in DOMAIN d.datasamples
      PROVE  /\ d.datasamples[t].writer \in Writers /\ d.datasamples[t].sn \in SN
             /\ d.datasamples[t].sn <= last[d.datasamples[t].writer]
             /\ ~d.datasamples[t].sample_has_been_read =>
                    Sample(d.datasamples[t].writer, d.datasamples[t].sn) \notin seen
      BY DEF Once
<1>7. ASSUME NEW t \in DOMAIN a.datasamples
      PROVE  /\ a.datasamples[t].writer \in Writers /\ a.datasamples[t].sn \in SN
             /\ a.datasamples[t].sn <= after[a.datasamples[t].writer]
             /\ ~a.datasamples[t].sample_has_been_read =>
                    Sample(a.datasamples[t].writer, a.datasamples[t].sn) \notin seen
      <2>1. CASE t = ts /\ a.datasamples[t].writer = w /\ a.datasamples[t].sn = sn
            <3>1. sn <= after[w]  BY <1>2 DEF SN
            <3> QED  BY <1>5, <2>1, <3>1
      <2>2. CASE t \in DOMAIN d.datasamples /\ a.datasamples[t] = d.datasamples[t]
            <3>1. PICK v \in Writers, n \in SN :
                     /\ a.datasamples[t].writer = v /\ a.datasamples[t].sn = n
                     /\ n <= last[v]
                  BY <1>6, <2>2
            <3>2. n <= after[v]
                  BY <1>2, <3>1, MaxSNAssumption DEF SN
            <3> QED  BY <1>6, <2>2, <3>1, <3>2
      <2> QED  BY <2>1, <2>2 DEF GainsOnly
<1>8. ASSUME NEW t \in DOMAIN a.datasamples, NEW u \in DOMAIN a.datasamples,
             a.datasamples[t].writer = a.datasamples[u].writer,
             a.datasamples[t].sn = a.datasamples[u].sn
      PROVE  t = u
      <2>1. ASSUME NEW x \in DOMAIN d.datasamples,
                   d.datasamples[x].writer = w, d.datasamples[x].sn = sn
            PROVE  FALSE
            <3>1. sn <= last[w]  BY <1>6, <2>1
            <3> QED  BY <3>1, MaxSNAssumption DEF SN
      <2> DEFINE New(x) == x = ts /\ a.datasamples[x].writer = w /\ a.datasamples[x].sn = sn
                 Old(x) == x \in DOMAIN d.datasamples /\ a.datasamples[x] = d.datasamples[x]
      <2>2. (New(t) \/ Old(t)) /\ (New(u) \/ Old(u))
            BY DEF GainsOnly
      <2>3. CASE New(t) /\ New(u)
            BY <2>3
      <2>4. CASE Old(t) /\ Old(u)
            BY <1>8, <2>4 DEF Once
      <2>5. CASE New(t) /\ Old(u)
            BY <1>8, <2>1, <2>5
      <2>6. CASE Old(t) /\ New(u)
            BY <1>8, <2>1, <2>6
      <2> QED  BY <2>2, <2>3, <2>4, <2>5, <2>6
<1>9. Once(a, after, seen)
      BY <1>4, <1>7, <1>8 DEF Once
<1> QED  BY <1>1, <1>9

\* What read_by_keys and take_by_keys have in common: the samples stay what
\* they are or are removed, the selected ones are not unread any more.
AccessedFrom(d, e, selected) ==
    /\ DOMAIN e.instance_map = DOMAIN d.instance_map
    /\ \A k \in DOMAIN d.instance_map :
          /\ IsInstance(e.instance_map[k])
          /\ e.instance_map[k].instance_samples = d.instance_map[k].instance_samples
          /\ e.instance_map[k].latest = d.instance_map[k].latest
    /\ \A t \in DOMAIN e.datasamples :
          /\ t \in DOMAIN d.datasamples /\ IsSample(e.datasamples[t])
          /\ e.datasamples[t].writer = d.datasamples[t].writer
          /\ e.datasamples[t].sn = d.datasamples[t].sn
          /\ e.datasamples[t].key = d.datasamples[t].key
          /\ e.datasamples[t].generation = d.datasamples[t].generation
          /\ ~e.datasamples[t].sample_has_been_read =>
                ~d.datasamples[t].sample_has_been_read /\ t \notin selected

LEMMA MarkInstancesViewed ==
    ASSUME NEW d, NEW depth, Kept(d, depth), NEW selected
    PROVE  LET map == mark_instances_viewed(d, selected)
           IN  /\ DOMAIN map = DOMAIN d.instance_map
               /\ \A k \in DOMAIN d.instance_map :
                     /\ IsInstance(map[k])
                     /\ map[k].instance_samples = d.instance_map[k].instance_samples
                     /\ map[k].latest = d.instance_map[k].latest
<1> DEFINE map == mark_instances_viewed(d, selected)
<1>1. DOMAIN map = DOMAIN d.instance_map
      BY Zenon DEF mark_instances_viewed
<1>2. ASSUME NEW k \in DOMAIN d.instance_map
      PROVE  /\ IsInstance(map[k])
             /\ map[k].instance_samples = d.instance_map[k].instance_samples
             /\ map[k].latest = d.instance_map[k].latest
      <2>1. \/ map[k] = d.instance_map[k]
            \/ \E x : map[k] = [d.instance_map[k] EXCEPT !.accessed = x]
            BY Zenon DEF mark_instances_viewed
      <2> HIDE DEF map
      <2>2. PICK m : m = d.instance_map[k]
            OBVIOUS
      <2>3. IsInstance(m)
            BY <2>2 DEF Kept
      <2>4. DOMAIN m = {"instance_samples", "alive", "latest", "accessed"}
            BY <2>3 DEF IsInstance
      <2>5. ASSUME NEW x, map[k] = [m EXCEPT !.accessed = x]
            PROVE  /\ DOMAIN map[k] = {"instance_samples", "alive", "latest", "accessed"}
                   /\ map[k].instance_samples = m.instance_samples
                   /\ map[k].latest = m.latest
            BY <2>4, <2>5, Zenon
      <2>6. \/ map[k] = m
            \/ /\ DOMAIN map[k] = {"instance_samples", "alive", "latest", "accessed"}
               /\ map[k].instance_samples = m.instance_samples
               /\ map[k].latest = m.latest
            BY <2>1, <2>2, <2>5, Zenon
      <2> QED  BY <2>2, <2>3, <2>6 DEF IsInstance
<1> QED  BY <1>1, <1>2

LEMMA ReadByKeys ==
    ASSUME NEW d, NEW depth, Kept(d, depth), NEW selected
    PROVE  AccessedFrom(d, read_by_keys(d, selected), selected)
<1> DEFINE e == read_by_keys(d, selected)
<1>1. /\ e.instance_map = mark_instances_viewed(d, selected)
      /\ DOMAIN e.datasamples = DOMAIN d.datasamples
      BY Zenon DEF read_by_keys
<1>2. ASSUME NEW t \in DOMAIN d.datasamples
      PROVE  \/ t \in selected /\ e.datasamples[t] =
                    [d.datasamples[t] EXCEPT !.sample_has_been_read = TRUE]
             \/ t \notin selected /\ e.datasamples[t] = d.datasamples[t]
      BY Zenon DEF read_by_keys
<1> HIDE DEF e
<1>3. ASSUME NEW t \in DOMAIN d.datasamples
      PROVE  /\ IsSample(e.datasamples[t])
             /\ e.datasamples[t].writer = d.datasamples[t].writer
             /\ e.datasamples[t].sn = d.datasamples[t].sn
             /\ e.datasamples[t].key = d.datasamples[t].key
             /\ e.datasamples[t].generation = d.datasamples[t].generation
             /\ ~e.datasamples[t].sample_has_been_read =>
                   ~d.datasamples[t].sample_has_been_read /\ t \notin selected
      <2>1. PICK s : s = d.datasamples[t]
            OBVIOUS
      <2>2. IsSample(s)
            BY <2>1 DEF Kept
      <2>3. CASE t \in selected
            <3>1. e.datasamples[t] = [s EXCEPT !.sample_has_been_read = TRUE]
                  BY <1>2, <2>1, <2>3, Zenon
            <3>2. /\ IsSample(e.datasamples[t])
                  /\ e.datasamples[t].writer = s.writer /\ e.datasamples[t].sn = s.sn
                  /\ e.datasamples[t].key = s.key
                  /\ e.datasamples[t].generation = s.generation
                  /\ e.datasamples[t].sample_has_been_read
                  BY <2>2, <3>1, Zenon DEF IsSample
            <3> QED  BY <2>1, <3>2, Zenon
      <2>4. CASE t \notin selected
            <3>1. e.datasamples[t] = s
                  BY <1>2, <2>1, <2>4, Zenon
            <3> QED  BY <2>1, <2>2, <2>4, <3>1, Zenon
      <2> QED  BY <2>3, <2>4
<1>4. /\ DOMAIN e.instance_map = DOMAIN d.instance_map
      /\ \A k \in DOMAIN d.instance_map :
            /\ IsInstance(e.instance_map[k])
            /\ e.instance_map[k].instance_samples = d.instance_map[k].instance_samples
            /\ e.instance_map[k].latest = d.instance_map[k].latest
      BY <1>1, MarkInstancesViewed
<1> QED  BY <1>1, <1>3, <1>4, Zenon DEF AccessedFrom, e

LEMMA TakeByKeys ==
    ASSUME NEW d, NEW depth, Kept(d, depth), NEW selected
    PROVE  AccessedFrom(d, take_by_keys(d, selected), selected)
<1> DEFINE e == take_by_keys(d, selected)
<1>1. /\ e.instance_map = mark_instances_viewed(d, selected)
      /\ DOMAIN e.datasamples = DOMAIN d.datasamples \ selected
      BY Zenon DEF take_by_keys, Restrict
<1>2. ASSUME NEW t \in DOMAIN d.datasamples \ selected
      PROVE  e.datasamples[t] = d.datasamples[t]
      BY Zenon DEF take_by_keys, Restrict
<1> HIDE DEF e
<1>3. \A t \in DOMAIN d.datasamples : IsSample(d.datasamples[t])
      BY DEF Kept
<1>4. /\ DOMAIN e.instance_map = DOMAIN d.instance_map
      /\ \A k \in DOMAIN d.instance_map :
            /\ IsInstance(e.instance_map[k])
            /\ e.instance_map[k].instance_samples = d.instance_map[k].instance_samples
            /\ e.instance_map[k].latest = d.instance_map[k].latest
      BY <1>1, MarkInstancesViewed
<1>5. ASSUME NEW t \in DOMAIN e.datasamples
      PROVE  /\ t \in DOMAIN d.datasamples /\ t \notin selected
             /\ IsSample(d.datasamples[t]) /\ e.datasamples[t] = d.datasamples[t]
      BY <1>1, <1>2, <1>3
<1> QED  BY <1>4, <1>5, Zenon DEF AccessedFrom, e

\* An access keeps the indexes.
LEMMA AccessKeeps ==
    ASSUME NEW d, NEW e, NEW selected, NEW depth, Kept(d, depth),
           AccessedFrom(d, e, selected)
    PROVE  Kept(e, depth)
<1>1. ASSUME NEW k \in DOMAIN e.instance_map
      PROVE  /\ IsInstance(e.instance_map[k])
             /\ depth > 0 => Cardinality(e.instance_map[k].instance_samples) <= depth
      BY DEF Kept, AccessedFrom
<1>2. ASSUME NEW t \in DOMAIN e.datasamples
      PROVE  LET s == e.datasamples[t]
             IN  /\ IsSample(s) /\ s.key \in DOMAIN e.instance_map
                 /\ t \in e.instance_map[s.key].instance_samples
                 /\ s.generation \in 0 .. e.instance_map[s.key].latest
      BY DEF Kept, AccessedFrom
<1> QED  BY <1>1, <1>2 DEF Kept

\* What is still unread after an access is none of what was shown.
LEMMA AccessOnce ==
    ASSUME NEW d, NEW e, NEW selected, NEW last, NEW seen, NEW more, Once(d, last, seen),
           AccessedFrom(d, e, selected),
           \A x \in more : \E t \in selected :
              t \in DOMAIN d.datasamples
              /\ x = Sample(d.datasamples[t].writer, d.datasamples[t].sn)
    PROVE  Once(e, last, seen \cup more)
<1>1. ASSUME NEW t \in DOMAIN e.datasamples
      PROVE  /\ e.datasamples[t].writer \in Writers /\ e.datasamples[t].sn \in SN
             /\ e.datasamples[t].sn <= last[e.datasamples[t].writer]
      BY DEF Once, AccessedFrom
<1>2. ASSUME NEW t \in DOMAIN e.datasamples, ~e.datasamples[t].sample_has_been_read
      PROVE  Sample(e.datasamples[t].writer, e.datasamples[t].sn) \notin seen \cup more
      <2>1. /\ t \in DOMAIN d.datasamples /\ t \notin selected
            /\ e.datasamples[t].writer = d.datasamples[t].writer
            /\ e.datasamples[t].sn = d.datasamples[t].sn
            /\ ~d.datasamples[t].sample_has_been_read
            BY <1>2 DEF AccessedFrom
      <2>2. Sample(e.datasamples[t].writer, e.datasamples[t].sn) \notin seen
            BY <2>1 DEF Once
      <2>3. ASSUME Sample(e.datasamples[t].writer, e.datasamples[t].sn) \in more
            PROVE  FALSE
            <3>1. PICK u \in selected :
                     /\ u \in DOMAIN d.datasamples
                     /\ Sample(e.datasamples[t].writer, e.datasamples[t].sn)
                          = Sample(d.datasamples[u].writer, d.datasamples[u].sn)
                  BY <2>3
            <3>2. /\ d.datasamples[t].writer = d.datasamples[u].writer
                  /\ d.datasamples[t].sn = d.datasamples[u].sn
                  BY <2>1, <3>1 DEF Sample
            <3> QED  BY <2>1, <3>1, <3>2 DEF Once
      <2> QED  BY <2>2, <2>3
<1>3. ASSUME NEW t \in DOMAIN e.datasamples, NEW u \in DOMAIN e.datasamples,
             e.datasamples[t].writer = e.datasamples[u].writer,
             e.datasamples[t].sn = e.datasamples[u].sn
      PROVE  t = u
      BY <1>3 DEF Once, AccessedFrom
<1>4. ASSUME NEW x \in seen \cup more
      PROVE  x \in Writers \X SN /\ x[2] <= last[x[1]]
      <2>1. CASE x \in seen
            BY <2>1 DEF Once
      <2>2. CASE x \in more
            <3>1. PICK t \in DOMAIN d.datasamples :
                     x = Sample(d.datasamples[t].writer, d.datasamples[t].sn)
                  BY <2>2
            <3>2. /\ d.datasamples[t].writer \in Writers /\ d.datasamples[t].sn \in SN
                  /\ d.datasamples[t].sn <= last[d.datasamples[t].writer]
                  BY DEF Once
            <3> QED  BY <3>1, <3>2 DEF Sample
      <2> QED  BY <2>1, <2>2
<1> QED  BY <1>1, <1>2, <1>3, <1>4 DEF Once

----------------------------------------------------------------------------
(* The invariant holds at first *)

LEMMA InitInv == Init => IInv
<1> SUFFICES ASSUME Init PROVE IInv
      OBVIOUS
<1>1. WireInv
      <2>1. qos \in Situations /\ qos.samples \in 1 .. MaxSN
            BY ReadingAssumption DEF Init
      <2>2. sent \in [Writers -> Seq(qos.payloads)]
            BY DEF Init
      <2>3. ASSUME NEW w \in Writers PROVE Len(sent[w]) = 0
            BY DEF Init
      <2>4. first \in [Writers -> 1 .. MaxSN + 1]
            BY MaxSNAssumption DEF Init
      <2>5. since \in [Readers -> [Writers -> 1 .. MaxSN + 1]]
            BY MaxSNAssumption DEF Init
      <2>6. \A r \in Readers, w \in Writers : since[r][w] = 1
            BY DEF Init
      <2>7. now \in Nat
            BY DEF Init
      <2> QED  BY <2>1, <2>2, <2>3, <2>4, <2>5, <2>6, <2>7 DEF WireInv
<1>2. Consistent(NewWriterProxy) /\ Known(NewWriterProxy) = {}
      BY MaxSNAssumption DEF Consistent, NewWriterProxy, WriterProxyType, Known, SN,
            should_ignore_change
<1>3. ProxyInv
      BY <1>2 DEF Init, ProxyInv, Consistent
<1>4. KnownInv
      BY <1>2 DEF Init, KnownInv
<1>5. ThreadInv
      <2>1. ASSUME NEW r \in Readers PROVE IsState(state[r])
            BY MaxSNAssumption DEF Init, IsState
      <2> QED  BY <2>1 DEF Init, ThreadInv, Steps
<1>6. CacheInv
      <2>1. /\ IsCache(tc) /\ tc.changes = << >> /\ tc.sequence_numbers = << >>
            /\ tc.received_reliably_before = [w \in Writers |-> 1]
            BY DEF Init, NewTopicCache, IsCache
      <2>2. tc.received_reliably_before \in [Writers -> 1 .. MaxSN + 1]
            BY <2>1, MaxSNAssumption
      <2>3. DOMAIN tc.changes = {} /\ DOMAIN tc.sequence_numbers = {}
            BY <2>1
      <2> QED  BY <2>1, <2>2, <2>3, Zenon DEF CacheInv, Indexed
<1>7. ASSUME NEW r \in Readers
      PROVE  DOMAIN dc[r].datasamples = {} /\ DOMAIN dc[r].instance_map = {}
      BY DEF Init, EmptySampleCache
<1>8. SampleInv
      BY <1>7 DEF SampleInv, Kept
<1>9. OnceInv
      <2>1. \A r \in Readers : shown[r] = {}
            BY DEF Init
      <2> QED  BY <1>7, <2>1 DEF OnceInv, Once
<1> QED  BY <1>1, <1>3, <1>4, <1>5, <1>6, <1>8, <1>9 DEF IInv

----------------------------------------------------------------------------
(* What is accounted for stays so *)

Monotone ==
    /\ \A w \in Writers : first[w] <= first'[w]
    /\ \A r \in Readers, w \in Writers : since[r][w] <= since'[r][w]
    /\ evicted \subseteq evicted'
    /\ \A i \in DOMAIN tc.sequence_numbers :
          i \in DOMAIN tc'.sequence_numbers \/ i \in evicted'

LEMMA GivenUpGrows ==
    ASSUME WireInv, WireInv', Monotone, NEW r \in Readers, NEW w \in Writers
    PROVE  GivenUp(r, w) \subseteq GivenUp(r, w)'
<1> SUFFICES ASSUME NEW s \in GivenUp(r, w) PROVE s \in GivenUp(r, w)'
      OBVIOUS
<1>1. s \in SN /\ (s < first[w] \/ s < since[r][w] \/ Sample(w, s) \in evicted)
      BY DEF GivenUp
<1>2. /\ first[w] \in Int /\ first'[w] \in Int /\ first[w] <= first'[w]
      /\ since[r][w] \in Int /\ since'[r][w] \in Int /\ since[r][w] <= since'[r][w]
      BY DEF WireInv, Monotone
<1>3. s < first'[w] \/ s < since'[r][w] \/ Sample(w, s) \in evicted'
      BY <1>1, <1>2 DEF Monotone, SN
<1> QED  BY <1>1, <1>3 DEF GivenUp, Sample

LEMMA AccountedStays ==
    ASSUME WireInv, WireInv', Monotone, NEW r \in Readers, NEW w \in Writers,
           NEW s \in SN, Accounted(r, w, s)
    PROVE  Accounted(r, w, s)'
<1>1. CASE s \in GivenUp(r, w)
      BY <1>1, GivenUpGrows DEF Accounted
<1>2. CASE Stored(w, s)
      <2>1. <<w, s>> \in DOMAIN tc'.sequence_numbers \/ <<w, s>> \in evicted'
            BY <1>2 DEF Stored, Monotone
      <2>2. CASE <<w, s>> \in DOMAIN tc'.sequence_numbers
            BY <2>2 DEF Accounted, Stored
      <2>3. CASE <<w, s>> \in evicted'
            BY <2>3 DEF Accounted, GivenUp, Sample
      <2> QED  BY <2>1, <2>2, <2>3
<1> QED  BY <1>1, <1>2 DEF Accounted

\* A step that lets a proxy know only what is accounted for.
LEMMA KnownStays ==
    ASSUME WireInv, WireInv', Monotone, KnownInv, ProxyInv',
           \A r \in Readers, w \in Writers : \A s \in Known(proxy'[r][w]) :
              s \in Known(proxy[r][w]) \/ Accounted(r, w, s)'
    PROVE  KnownInv'
<1>1. ASSUME NEW r \in Readers, NEW w \in Writers, NEW s \in Known(proxy'[r][w])
      PROVE  Accounted(r, w, s)'
      <2>1. s \in SN
            BY DEF Known
      <2>2. CASE s \in Known(proxy[r][w])
            <3>1. Accounted(r, w, s)
                  BY <2>2 DEF KnownInv
            <3> QED  BY <2>1, <3>1, AccountedStays
      <2> QED  BY <2>2
<1> QED  BY <1>1 DEF KnownInv

\* One proxy is replaced.
Replaced(r, w, wp) == proxy' = [proxy EXCEPT ![r][w] = wp]

LEMMA ProxySet ==
    ASSUME ProxyInv, NEW r \in Readers, NEW w \in Writers, NEW wp, Consistent(wp),
           Replaced(r, w, wp)
    PROVE  /\ ProxyInv' /\ proxy'[r][w] = wp
           /\ \A q \in Readers, v \in Writers :
                 (q = r /\ v = w) \/ proxy'[q][v] = proxy[q][v]
<1>1. wp \in WriterProxyType
      BY DEF Consistent
<1>2. proxy' \in [Readers -> [Writers -> WriterProxyType]]
      BY <1>1 DEF ProxyInv, Replaced
<1>3. \A q \in Readers, v \in Writers :
         proxy'[q][v] = IF q = r /\ v = w THEN wp ELSE proxy[q][v]
      BY DEF ProxyInv, Replaced
<1> QED  BY <1>2, <1>3 DEF ProxyInv

----------------------------------------------------------------------------
(* Every step preserves the invariant *)

LEMMA ThreadsUndisturbed ==
    ASSUME ThreadInv, UNCHANGED <<token, waker, woken, threadVars>>,
           notify' \in Readers \cup {Nobody}
    PROVE  ThreadInv'
BY DEF ThreadInv, threadVars

LEMMA SamplesUndisturbed ==
    ASSUME SampleInv, OnceInv, UNCHANGED <<qos, dc, state, shown>>
    PROVE  SampleInv' /\ OnceInv'
BY DEF SampleInv, OnceInv

LEMMA StepWrite ==
    ASSUME IInv, NEW w \in Writers, NEW p \in qos.payloads, Write(w, p)
    PROVE  IInv' /\ Monotone
<1>1. /\ UNCHANGED <<qos, first, since, now, proxy, tc, evicted, notify, token, waker, woken>>
      /\ UNCHANGED threadVars
      /\ Len(sent[w]) < qos.samples /\ sent' = [sent EXCEPT ![w] = Append(@, p)]
      BY DEF Write
<1>2. WireInv
      BY DEF IInv
<1>3. WireInv'
      <2>1. sent' \in [Writers -> Seq(qos.payloads)]
            BY <1>1, <1>2 DEF WireInv
      <2>2. qos.samples \in Nat
            BY <1>2, ReadingAssumption, MaxSNAssumption DEF WireInv
      <2>3. ASSUME NEW v \in Writers
            PROVE  /\ Len(sent[v]) \in Nat /\ Len(sent'[v]) \in Nat
                   /\ Len(sent'[v]) <= qos.samples /\ Len(sent[v]) <= Len(sent'[v])
            <3>1. sent[v] \in Seq(qos.payloads) /\ Len(sent[v]) <= qos.samples
                  BY <1>2 DEF WireInv
            <3>2. CASE v = w
                  <4>1. sent'[v] = Append(sent[v], p)
                        BY <1>1, <1>2, <3>2 DEF WireInv
                  <4> QED  BY <1>1, <2>2, <3>1, <3>2, <4>1
            <3>3. CASE v # w
                  <4>1. sent'[v] = sent[v]
                        BY <1>1, <1>2, <3>3 DEF WireInv
                  <4> QED  BY <3>1, <4>1
            <3> QED  BY <3>2, <3>3
      <2>4. ASSUME NEW r \in Readers, NEW v \in Writers
            PROVE  since[r][v] <= Len(sent'[v]) + 1
            <3>1. since[r][v] \in Int /\ since[r][v] <= Len(sent[v]) + 1
                  BY <1>2 DEF WireInv
            <3> QED  BY <2>3, <3>1
      <2> QED  BY <1>1, <1>2, <2>1, <2>3, <2>4 DEF WireInv
<1>4. Monotone
      BY <1>1, <1>2 DEF Monotone, WireInv
<1>5. ThreadInv'
      BY <1>1, ThreadsUndisturbed DEF IInv, ThreadInv
<1>6. ProxyInv' /\ CacheInv'
      BY <1>1 DEF IInv, ProxyInv, CacheInv
<1>7. SampleInv' /\ OnceInv'
      BY <1>1, SamplesUndisturbed DEF IInv, threadVars
<1>8. KnownInv'
      BY <1>1, <1>2, <1>3, <1>4, <1>6, KnownStays DEF IInv
<1> QED  BY <1>3, <1>4, <1>5, <1>6, <1>7, <1>8 DEF IInv

LEMMA StepRemoveOldest ==
    ASSUME IInv, NEW w \in Writers, RemoveOldest(w)
    PROVE  IInv' /\ Monotone
<1>1. /\ UNCHANGED <<qos, sent, since, now, proxy, tc, evicted, notify, token, waker, woken>>
      /\ UNCHANGED threadVars
      /\ first[w] <= Len(sent[w]) /\ first' = [first EXCEPT ![w] = @ + 1]
      BY DEF RemoveOldest
<1>2. WireInv
      BY DEF IInv
<1>3. first[w] \in 1 .. MaxSN + 1 /\ first[w] + 1 \in 1 .. MaxSN + 1
      <2>1. Len(sent[w]) \in Nat /\ Len(sent[w]) <= MaxSN
            <3>1. sent[w] \in Seq(qos.payloads) /\ Len(sent[w]) <= qos.samples
                  BY <1>2 DEF WireInv
            <3>2. qos.samples \in 1 .. MaxSN
                  BY <1>2, ReadingAssumption DEF WireInv
            <3> QED  BY <3>1, <3>2, MaxSNAssumption
      <2>2. first[w] \in 1 .. MaxSN + 1
            BY <1>2 DEF WireInv
      <2> QED  BY <1>1, <2>1, <2>2, MaxSNAssumption
<1>4. WireInv'
      BY <1>1, <1>2, <1>3 DEF WireInv
<1>5. Monotone
      <2>1. ASSUME NEW v \in Writers PROVE first[v] <= first'[v]
            BY <1>1, <1>2, <1>3 DEF WireInv
      <2> QED  BY <1>1, <1>2, <2>1 DEF Monotone, WireInv
<1>6. ThreadInv'
      BY <1>1, ThreadsUndisturbed DEF IInv, ThreadInv
<1>7. ProxyInv' /\ CacheInv'
      BY <1>1 DEF IInv, ProxyInv, CacheInv
<1>8. SampleInv' /\ OnceInv'
      BY <1>1, SamplesUndisturbed DEF IInv, threadVars
<1>9. KnownInv'
      BY <1>1, <1>2, <1>4, <1>5, <1>7, KnownStays DEF IInv
<1> QED  BY <1>4, <1>5, <1>6, <1>7, <1>8, <1>9 DEF IInv

LEMMA StepMatchWriter ==
    ASSUME IInv, NEW r \in Readers, NEW w \in Writers, MatchWriter(r, w)
    PROVE  IInv' /\ Monotone
<1>1. /\ UNCHANGED <<qos, sent, first, now, tc, evicted, notify, token, waker, woken>>
      /\ UNCHANGED threadVars
      /\ proxy' = [proxy EXCEPT ![r][w] = NewWriterProxy]
      /\ since' = [since EXCEPT ![r][w] = IF qos.volatile THEN Len(sent[w]) + 1 ELSE @]
      BY DEF MatchWriter
<1>2. WireInv
      BY DEF IInv
<1>3. PICK f : /\ f \in 1 .. MaxSN + 1 /\ since[r][w] <= f /\ f <= Len(sent[w]) + 1
               /\ since' = [since EXCEPT ![r][w] = f]
      <2>1. Len(sent[w]) \in Nat /\ Len(sent[w]) <= MaxSN
            <3>1. sent[w] \in Seq(qos.payloads) /\ Len(sent[w]) <= qos.samples
                  BY <1>2 DEF WireInv
            <3>2. qos.samples \in 1 .. MaxSN
                  BY <1>2, ReadingAssumption DEF WireInv
            <3> QED  BY <3>1, <3>2, MaxSNAssumption
      <2>2. since[r][w] \in 1 .. MaxSN + 1 /\ since[r][w] <= Len(sent[w]) + 1
            BY <1>2 DEF WireInv
      <2>3. PICK f : /\ f = IF qos.volatile THEN Len(sent[w]) + 1 ELSE since[r][w]
                     /\ since' = [since EXCEPT ![r][w] = f]
            BY <1>1
      <2>4. f = Len(sent[w]) + 1 \/ f = since[r][w]
            BY <2>3
      <2>5. f \in 1 .. MaxSN + 1 /\ since[r][w] <= f /\ f <= Len(sent[w]) + 1
            BY <2>1, <2>2, <2>4, MaxSNAssumption
      <2> QED  BY <2>3, <2>5
<1>4. \A q \in Readers, v \in Writers :
         since'[q][v] = IF q = r /\ v = w THEN f ELSE since[q][v]
      BY <1>2, <1>3 DEF WireInv
<1>5. WireInv'
      <2>1. since' \in [Readers -> [Writers -> 1 .. MaxSN + 1]]
            BY <1>2, <1>3 DEF WireInv
      <2>2. ASSUME NEW q \in Readers, NEW v \in Writers
            PROVE  since'[q][v] <= Len(sent[v]) + 1
            BY <1>2, <1>3, <1>4 DEF WireInv
      <2> QED  BY <1>1, <1>2, <2>1, <2>2 DEF WireInv
<1>6. Monotone
      <2>1. ASSUME NEW q \in Readers, NEW v \in Writers PROVE since[q][v] <= since'[q][v]
            <3>1. since[q][v] \in Int
                  BY <1>2 DEF WireInv
            <3> QED  BY <1>3, <1>4, <3>1
      <2>2. \A v \in Writers : first[v] <= first'[v]
            BY <1>1, <1>2 DEF WireInv
      <2> QED  BY <1>1, <2>1, <2>2 DEF Monotone
<1>7. ThreadInv'
      BY <1>1, ThreadsUndisturbed DEF IInv, ThreadInv
<1>8. Consistent(NewWriterProxy) /\ Known(NewWriterProxy) = {}
      BY MaxSNAssumption DEF Consistent, NewWriterProxy, WriterProxyType, Known, SN,
            should_ignore_change
<1>9. /\ ProxyInv' /\ proxy'[r][w] = NewWriterProxy
      /\ \A q \in Readers, v \in Writers :
            (q = r /\ v = w) \/ proxy'[q][v] = proxy[q][v]
      <2>1. PICK wp : wp = NewWriterProxy
            OBVIOUS
      <2>2. ProxyInv /\ Consistent(wp)
            BY <1>8, <2>1 DEF IInv
      <2>3. Replaced(r, w, wp)
            BY <1>1, <2>1 DEF Replaced
      <2> QED  BY <2>1, <2>2, <2>3, ProxySet
<1>10. CacheInv'
      BY <1>1 DEF IInv, CacheInv
<1>11. SampleInv' /\ OnceInv'
      BY <1>1, SamplesUndisturbed DEF IInv, threadVars
<1>12. KnownInv'
      <2>1. ASSUME NEW q \in Readers, NEW v \in Writers, NEW s \in Known(proxy'[q][v])
            PROVE  s \in Known(proxy[q][v])
            BY <1>8, <1>9
      <2> QED  BY <1>2, <1>5, <1>6, <1>9, <2>1, KnownStays DEF IInv
<1> QED  BY <1>5, <1>6, <1>7, <1>9, <1>10, <1>11, <1>12 DEF IInv

\* What the cache loses in a step is what SetCache counts as evicted.
LEMMA CacheStep ==
    ASSUME WireInv, UNCHANGED <<first, since>>, NEW c, SetCache(c)
    PROVE  Monotone
<1>1. /\ \A w \in Writers : first[w] <= first'[w]
      /\ \A r \in Readers, w \in Writers : since[r][w] <= since'[r][w]
      BY DEF WireInv
<1> QED  BY <1>1 DEF Monotone, SetCache

LEMMA StepHandleData ==
    ASSUME IInv, NEW r \in Readers, NEW w \in Writers, NEW sn \in 1 .. Len(sent[w]),
           HandleData(r, w, sn)
    PROVE  /\ IInv' /\ Monotone
           /\ tc'.received_reliably_before =
                [tc.received_reliably_before EXCEPT ![w] = proxy'[r][w].ack_base]
<1>1. /\ UNCHANGED <<qos, sent, first, since, token, waker, woken>> /\ UNCHANGED threadVars
      /\ notify' = r /\ now' = now + 1
      BY DEF HandleData
<1>2. WireInv /\ WireInv' /\ now \in Nat
      BY <1>1 DEF IInv, WireInv
<1>3. sn \in SN
      <2>1. sent[w] \in Seq(qos.payloads) /\ Len(sent[w]) <= qos.samples
            BY <1>2 DEF WireInv
      <2>2. qos.samples \in 1 .. MaxSN
            BY <1>2, ReadingAssumption DEF WireInv
      <2> QED  BY <2>1, <2>2, MaxSNAssumption DEF SN
<1>4. PICK p : p = proxy[r][w]
      OBVIOUS
<1>5. PICK wp : wp = received_changes_add(p, sn)
      OBVIOUS
<1>6. /\ proxy' = [proxy EXCEPT ![r][w] = wp] /\ ~should_ignore_change(p, sn)
      BY <1>4, <1>5 DEF HandleData
<1>7. Consistent(p)
      BY <1>4 DEF IInv, ProxyInv
<1>8. Consistent(wp) /\ Known(wp) = Known(p) \cup {sn}
      BY <1>3, <1>5, <1>6, <1>7, ReceivedChangesAdd
<1>9. /\ ProxyInv' /\ proxy'[r][w] = wp
      /\ \A q \in Readers, v \in Writers :
            (q = r /\ v = w) \/ proxy'[q][v] = proxy[q][v]
      <2>1. ProxyInv  BY DEF IInv
      <2>2. Replaced(r, w, wp)  BY <1>6 DEF Replaced
      <2> QED  BY <1>8, <2>1, <2>2, ProxySet
<1>10. PICK c : c = add_change(tc, now + 1, w, sn)
      OBVIOUS
<1>11. /\ Indexed(c, now + 1) /\ <<w, sn>> \in DOMAIN c.sequence_numbers
       /\ c.received_reliably_before = tc.received_reliably_before
      <2>1. Indexed(tc, now)
            BY DEF IInv, CacheInv
      <2> QED  BY <1>2, <1>3, <1>10, <2>1, AddChange
<1>12. PICK b : b = mark_reliably_received_before(c, w, wp.ack_base)
      OBVIOUS
<1>13. /\ Indexed(b, now + 1) /\ <<w, sn>> \in DOMAIN b.sequence_numbers
       /\ b.received_reliably_before =
            [tc.received_reliably_before EXCEPT ![w] = wp.ack_base]
      <2>1. wp.ack_base \in 1 .. MaxSN + 1
            BY <1>8 DEF Consistent, WriterProxyType
      <2>2. now + 1 \in Nat
            BY <1>2
      <2> QED  BY <1>11, <1>12, <2>1, <2>2, MarkKeepsIndex
<1>14. SetCache(b)
      <2>1. SetCache(make_cache_change(w, sn, proxy'[r][w]))
            BY DEF HandleData
      <2>2. make_cache_change(w, sn, wp) = b
            BY <1>10, <1>12 DEF make_cache_change
      <2> QED  BY <1>9, <2>1, <2>2
<1>15. tc' = b
      BY <1>14 DEF SetCache
<1>16. Monotone
      BY <1>1, <1>2, <1>14, CacheStep
<1>17. CacheInv'
      BY <1>1, <1>13, <1>15 DEF CacheInv
<1>18. ThreadInv'
      BY <1>1, ThreadsUndisturbed DEF IInv
<1>19. SampleInv' /\ OnceInv'
      BY <1>1, SamplesUndisturbed DEF IInv, threadVars
<1>20. KnownInv'
      <2>1. ASSUME NEW q \in Readers, NEW v \in Writers, NEW s \in Known(proxy'[q][v])
            PROVE  s \in Known(proxy[q][v]) \/ Accounted(q, v, s)'
            <3>1. CASE q = r /\ v = w /\ s = sn
                  BY <1>13, <1>15, <3>1 DEF Accounted, Stored
            <3>2. CASE q = r /\ v = w /\ s # sn
                  BY <1>4, <1>8, <1>9, <3>2
            <3>3. CASE ~(q = r /\ v = w)
                  BY <1>9, <3>3
            <3> QED  BY <3>1, <3>2, <3>3
      <2> QED  BY <1>2, <1>9, <1>16, <2>1, KnownStays DEF IInv
<1> QED  BY <1>2, <1>9, <1>13, <1>15, <1>16, <1>17, <1>18, <1>19, <1>20 DEF IInv

\* A proxy learns that numbers are irrelevant, all of which were given up.
LEMMA StepProgress ==
    ASSUME IInv, NEW r \in Readers, NEW w \in Writers, NEW wp, Progress(r, w, wp),
           Consistent(wp), \A s \in Known(wp) : s \in Known(proxy[r][w]) \/ s \in GivenUp(r, w)
    PROVE  /\ IInv' /\ Monotone
           /\ proxy'[r][w] = wp
           /\ tc'.changes = tc.changes /\ tc'.sequence_numbers = tc.sequence_numbers
           /\ tc'.received_reliably_before =
                [tc.received_reliably_before EXCEPT ![w] = wp.ack_base]
<1>1. /\ UNCHANGED <<qos, sent, first, since, now, token, waker, woken>>
      /\ UNCHANGED threadVars
      /\ proxy' = [proxy EXCEPT ![r][w] = wp]
      /\ SetCache(mark_reliably_received_before(tc, w, wp.ack_base))
      /\ notify' = r \/ notify' = notify
      BY DEF Progress
<1>2. WireInv /\ WireInv' /\ now \in Nat
      BY <1>1 DEF IInv, WireInv
<1>3. /\ ProxyInv' /\ proxy'[r][w] = wp
      /\ \A q \in Readers, v \in Writers :
            (q = r /\ v = w) \/ proxy'[q][v] = proxy[q][v]
      <2>1. ProxyInv  BY DEF IInv
      <2>2. Replaced(r, w, wp)  BY <1>1 DEF Replaced
      <2> QED  BY <2>1, <2>2, ProxySet
<1>4. PICK b : b = mark_reliably_received_before(tc, w, wp.ack_base)
      OBVIOUS
<1>5. /\ Indexed(b, now) /\ b.changes = tc.changes
      /\ b.sequence_numbers = tc.sequence_numbers
      /\ b.received_reliably_before =
            [tc.received_reliably_before EXCEPT ![w] = wp.ack_base]
      <2>1. wp.ack_base \in 1 .. MaxSN + 1
            BY DEF Consistent, WriterProxyType
      <2>2. Indexed(tc, now)
            BY DEF IInv, CacheInv
      <2> QED  BY <1>2, <1>4, <2>1, <2>2, MarkKeepsIndex
<1>6. SetCache(b) /\ tc' = b
      BY <1>1, <1>4 DEF SetCache
<1>7. Monotone
      BY <1>1, <1>2, <1>6, CacheStep
<1>8. CacheInv'
      BY <1>1, <1>5, <1>6 DEF CacheInv
<1>9. ThreadInv'
      <2>1. notify' \in Readers \cup {Nobody}
            BY <1>1 DEF IInv, ThreadInv
      <2> QED  BY <1>1, <2>1, ThreadsUndisturbed DEF IInv
<1>10. SampleInv' /\ OnceInv'
      BY <1>1, SamplesUndisturbed DEF IInv, threadVars
<1>11. KnownInv'
      <2>1. ASSUME NEW q \in Readers, NEW v \in Writers, NEW s \in Known(proxy'[q][v])
            PROVE  s \in Known(proxy[q][v]) \/ Accounted(q, v, s)'
            <3>1. CASE q = r /\ v = w
                  <4>1. s \in Known(proxy[r][w]) \/ s \in GivenUp(r, w)
                        BY <1>3, <3>1
                  <4>2. CASE s \in GivenUp(r, w)
                        BY <1>2, <1>7, <3>1, <4>2, GivenUpGrows DEF Accounted
                  <4> QED  BY <3>1, <4>1, <4>2
            <3>2. CASE ~(q = r /\ v = w)
                  BY <1>3, <3>2
            <3> QED  BY <3>1, <3>2
      <2> QED  BY <1>2, <1>3, <1>7, <2>1, KnownStays DEF IInv
<1> QED  BY <1>2, <1>3, <1>5, <1>6, <1>7, <1>8, <1>9, <1>10, <1>11 DEF IInv

\* A HEARTBEAT or a GAP makes irrelevant what precedes a number up to which
\* everything was given up.
LEMMA ProgressIsAccounted ==
    ASSUME IInv, NEW r \in Readers, NEW w \in Writers
    PROVE  /\ \A f \in 1 .. first[w] : HandleHeartbeat(r, w, f) =>
                 /\ Progress(r, w, irrelevant_changes_up_to(proxy[r][w], f))
                 /\ Consistent(irrelevant_changes_up_to(proxy[r][w], f))
                 /\ \A s \in Known(irrelevant_changes_up_to(proxy[r][w], f)) :
                       s \in Known(proxy[r][w]) \/ s \in GivenUp(r, w)
           /\ LET wp == irrelevant_changes_range(proxy[r][w], 1, since[r][w])
              IN  HandleGap(r, w) =>
                    /\ Progress(r, w, wp) /\ Consistent(wp)
                    /\ \A s \in Known(wp) : s \in Known(proxy[r][w]) \/ s \in GivenUp(r, w)
<1>1. PICK p : p = proxy[r][w]
      OBVIOUS
<1>2. Consistent(p)
      BY <1>1 DEF IInv, ProxyInv
<1>3. first[w] \in 1 .. MaxSN + 1 /\ since[r][w] \in 1 .. MaxSN + 1
      BY DEF IInv, WireInv
<1>4. ASSUME NEW f \in 1 .. first[w]
      PROVE  /\ Consistent(irrelevant_changes_up_to(p, f))
             /\ \A s \in Known(irrelevant_changes_up_to(p, f)) :
                   s \in Known(p) \/ s \in GivenUp(r, w)
      <2>1. f \in 1 .. MaxSN + 1 /\ 0 \in 0 .. MaxSN + 1
            BY <1>3, MaxSNAssumption
      <2>2. PICK q : q = irrelevant_changes_range(p, 0, f)
            OBVIOUS
      <2>3. Consistent(q) /\ Known(q) = Known(p) \cup {s \in SN : 0 <= s /\ s < f}
            BY <1>2, <2>1, <2>2, IrrelevantChangesRange
      <2>4. \A s \in SN : s < f => s < first[w]
            BY <1>3 DEF SN
      <2> QED  BY <2>2, <2>3, <2>4 DEF irrelevant_changes_up_to, GivenUp
<1>5. PICK q : q = irrelevant_changes_range(p, 1, since[r][w])
      OBVIOUS
<1>6. /\ Consistent(q)
      /\ Known(q) = Known(p) \cup {s \in SN : 1 <= s /\ s < since[r][w]}
      <2>1. 1 \in 0 .. MaxSN + 1
            BY MaxSNAssumption
      <2> QED  BY <1>2, <1>3, <1>5, <2>1, IrrelevantChangesRange
<1>7. \A s \in Known(q) : s \in Known(p) \/ s \in GivenUp(r, w)
      BY <1>6 DEF GivenUp
<1>8. HandleGap(r, w) => Progress(r, w, q)
      BY <1>1, <1>5 DEF HandleGap
<1>9. \A f \in 1 .. first[w] :
         HandleHeartbeat(r, w, f) => Progress(r, w, irrelevant_changes_up_to(p, f))
      BY <1>1 DEF HandleHeartbeat
<1> QED  BY <1>1, <1>4, <1>5, <1>6, <1>7, <1>8, <1>9

LEMMA WorldUndisturbed ==
    ASSUME IInv, UNCHANGED <<qos, sent, first, since, proxy, now, tc, evicted>>
    PROVE  WireInv' /\ ProxyInv' /\ CacheInv' /\ KnownInv' /\ Monotone
<1>1. WireInv /\ WireInv'
      BY DEF IInv, WireInv
<1>2. ProxyInv' /\ CacheInv'
      BY DEF IInv, ProxyInv, CacheInv
<1>3. Monotone
      BY <1>1 DEF WireInv, Monotone
<1>4. KnownInv'
      BY <1>1, <1>2, <1>3, KnownStays DEF IInv
<1> QED  BY <1>1, <1>2, <1>3, <1>4

LEMMA StepWriterLost ==
    ASSUME IInv, NEW r \in Readers, NEW w \in Writers, WriterLost(r, w)
    PROVE  IInv' /\ Monotone
<1>1. /\ UNCHANGED <<qos, sent, first, since, proxy, now, tc, evicted, notify, token, waker, woken>>
      /\ UNCHANGED threadVars
      BY DEF WriterLost
<1>2. ThreadInv'
      BY <1>1, ThreadsUndisturbed DEF IInv, ThreadInv
<1>3. SampleInv' /\ OnceInv'
      BY <1>1, SamplesUndisturbed DEF IInv, threadVars
<1> QED  BY <1>1, <1>2, <1>3, WorldUndisturbed DEF IInv

LEMMA StepGarbageCollect ==
    ASSUME IInv, GarbageCollect
    PROVE  IInv' /\ Monotone /\ Within(tc', tc)
<1>1. /\ UNCHANGED <<qos, now, notify, token, waker, woken>> /\ UNCHANGED threadVars
      /\ UNCHANGED wireVars
      /\ SetCache(remove_changes_before(tc))
      BY DEF GarbageCollect
<1>2. UNCHANGED <<sent, first, since, proxy>>
      BY <1>1 DEF wireVars
<1>3. WireInv /\ WireInv' /\ now \in Nat /\ ProxyInv'
      BY <1>1, <1>2 DEF IInv, WireInv, ProxyInv
<1>4. tc' = remove_changes_before(tc)
      BY <1>1 DEF SetCache
<1>5. Indexed(tc', now) /\ Within(tc', tc)
      BY <1>3, <1>4, RemoveChangesBefore DEF IInv, CacheInv
<1>6. Monotone
      BY <1>1, <1>2, <1>3, CacheStep
<1>7. ThreadInv'
      BY <1>1, ThreadsUndisturbed DEF IInv, ThreadInv
<1>8. SampleInv' /\ OnceInv'
      BY <1>1, SamplesUndisturbed DEF IInv, threadVars
<1>9. CacheInv'
      BY <1>1, <1>5 DEF CacheInv
<1>10. KnownInv'
      BY <1>2, <1>3, <1>6, KnownStays DEF IInv
<1> QED  BY <1>3, <1>5, <1>6, <1>7, <1>8, <1>9, <1>10 DEF IInv

LEMMA StepNotify ==
    ASSUME IInv, NotifyCacheChange
    PROVE  IInv' /\ Monotone
<1>1. /\ UNCHANGED <<qos, now, tc, evicted>> /\ UNCHANGED wireVars /\ UNCHANGED threadVars
      /\ notify \in Readers /\ notify' = Nobody
      /\ woken' = [woken EXCEPT ![notify] = @ \/ waker[notify]]
      /\ waker' = [waker EXCEPT ![notify] = FALSE]
      /\ token' = [token EXCEPT ![notify] = TRUE]
      BY DEF NotifyCacheChange, IInv, ThreadInv
<1>2. woken' \in [Readers -> BOOLEAN]
      <2>1. woken \in [Readers -> BOOLEAN] /\ waker \in [Readers -> BOOLEAN]
            BY DEF IInv, ThreadInv
      <2> QED  BY <1>1, <2>1, Zenon
<1>3. waker' \in [Readers -> BOOLEAN] /\ token' \in [Readers -> BOOLEAN]
      <2>1. token \in [Readers -> BOOLEAN] /\ waker \in [Readers -> BOOLEAN]
            BY DEF IInv, ThreadInv
      <2> QED  BY <1>1, <2>1
<1>4. ThreadInv'
      BY <1>1, <1>2, <1>3 DEF IInv, ThreadInv, threadVars
<1>5. SampleInv' /\ OnceInv'
      BY <1>1, SamplesUndisturbed DEF IInv, threadVars
<1> QED  BY <1>1, <1>4, <1>5, WorldUndisturbed DEF IInv, wireVars

\* A call begins, finds nothing, stores its waker, sleeps or is woken.
Control(r) ==
    \/ \E c \in qos.calls : Begin(r, c)
    \/ FoundNothing(r) \/ SetWaker(r) \/ ReturnPending(r) \/ Woken(r)

LEMMA StepControl ==
    ASSUME IInv, NEW r \in Readers, Control(r)
    PROVE  IInv' /\ Monotone
<1>1. /\ UNCHANGED <<qos, sent, first, since, proxy, now, tc, notify, state, dc,
                     evicted, given, shown>>
      BY DEF Control, Begin, FoundNothing, SetWaker, ReturnPending, Woken, wireVars
<1>2. /\ token \in [Readers -> BOOLEAN] /\ waker \in [Readers -> BOOLEAN]
      /\ woken \in [Readers -> BOOLEAN] /\ again \in [Readers -> BOOLEAN]
      /\ pc \in [Readers -> Steps] /\ DOMAIN call = Readers
      BY DEF IInv, ThreadInv
<1>3. pc' \in [Readers -> Steps] /\ DOMAIN call' = Readers
      BY <1>2 DEF Control, Begin, FoundNothing, SetWaker, ReturnPending, Woken, Steps
<1>4. token' \in [Readers -> BOOLEAN] /\ waker' \in [Readers -> BOOLEAN]
      BY <1>2, Zenon DEF Control, Begin, FoundNothing, SetWaker, ReturnPending, Woken
<1>5. woken' \in [Readers -> BOOLEAN] /\ again' \in [Readers -> BOOLEAN]
      BY <1>2, Zenon DEF Control, Begin, FoundNothing, SetWaker, ReturnPending, Woken
<1>6. ThreadInv'
      BY <1>1, <1>3, <1>4, <1>5 DEF IInv, ThreadInv
<1>7. SampleInv' /\ OnceInv'
      BY <1>1, SamplesUndisturbed DEF IInv
<1> QED  BY <1>1, <1>6, <1>7, WorldUndisturbed DEF IInv

\* What may be taken is stored; for a reliable Reader it lies between the read
\* pointer and the marker.
LEMMA AvailableIsStored ==
    ASSUME IInv, NEW r \in Readers, NEW ts \in Available(r)
    PROVE  \E w \in Writers, sn \in SN :
              /\ ts \in Nat /\ tc.changes[ts].writer = w /\ tc.changes[ts].sn = sn
              /\ Stored(w, sn) /\ tc.sequence_numbers[<<w, sn>>] = ts
              /\ qos.reliable =>
                   sn > state[r].last_read_sn[w] /\ sn < tc.received_reliably_before[w]
<1>1. Indexed(tc, now) /\ now \in Nat
      BY DEF IInv, CacheInv, WireInv
<1>2. CASE qos.reliable
      <2>1. PICK i \in DOMAIN tc.sequence_numbers :
               /\ ts = tc.sequence_numbers[i]
               /\ i[2] > state[r].last_read_sn[i[1]]
               /\ i[2] < tc.received_reliably_before[i[1]]
            BY <1>2 DEF Available, in_range_reliable
      <2>2. PICK w \in Writers, sn \in SN : i = <<w, sn>>
            <3>1. i \in Writers \X SN  BY <1>1 DEF Indexed
            <3> QED  BY <3>1
      <2>3. /\ tc.sequence_numbers[i] \in DOMAIN tc.changes
            /\ tc.changes[tc.sequence_numbers[i]] = [writer |-> i[1], sn |-> i[2]]
            BY <1>1 DEF Indexed
      <2>4. ts \in Nat
            BY <1>1, <2>1, <2>3 DEF Indexed
      <2>5. tc.changes[ts].writer = w /\ tc.changes[ts].sn = sn
            BY <2>1, <2>2, <2>3
      <2> QED  BY <2>1, <2>2, <2>4, <2>5 DEF Stored
<1>3. CASE ~qos.reliable
      <2>1. ts \in DOMAIN tc.changes
            BY <1>3 DEF Available, in_range_best_effort
      <2>2. PICK i : i = <<tc.changes[ts].writer, tc.changes[ts].sn>>
            OBVIOUS
      <2>3. /\ ts \in 1 .. now /\ i \in DOMAIN tc.sequence_numbers
            /\ tc.sequence_numbers[i] = ts
            BY <1>1, <2>1, <2>2 DEF Indexed
      <2>4. PICK w \in Writers, sn \in SN : i = <<w, sn>>
            <3>1. i \in Writers \X SN  BY <1>1, <2>3 DEF Indexed
            <3> QED  BY <3>1
      <2>5. tc.changes[ts].writer = w /\ tc.changes[ts].sn = sn
            BY <2>2, <2>4
      <2> QED  BY <1>1, <1>3, <2>3, <2>4, <2>5 DEF Stored
<1> QED  BY <1>2, <1>3

\* The three ways try_take_one_with ends: the thread spins; the sample is shown,
\* or dropped for an error; the sample goes into the cache.
Spins(r) ==
    /\ state'[r] = state[r] /\ dc'[r] = dc[r] /\ given'[r] = given[r]
    /\ shown'[r] = shown[r] /\ pc'[r] = "spin"

Passes(r, w, sn) ==
    /\ dc'[r] = dc[r] /\ shown'[r] \subseteq shown[r] \cup {Sample(w, sn)}
    /\ pc'[r] = "idle" /\ again'[r]

Caches(r, ts, w, sn) ==
    /\ \E s : /\ s.writer = w /\ s.sn = sn
              /\ dc'[r] = add_sample(dc[r], s, ts, qos.depth)
    /\ shown'[r] = shown[r] /\ pc'[r] = pc[r]

Takes(r, w, sn) ==
    /\ state'[r].last_read_sn = [state[r].last_read_sn EXCEPT ![w] = sn]
    /\ IsState(state'[r])
    /\ given'[r] = given[r] \cup {Sample(w, sn)}

LEMMA TakeForm ==
    ASSUME IInv, NEW r \in Readers, TryTakeOne(r)
    PROVE  \E ts \in Available(r), w \in Writers, sn \in SN :
              /\ ts \in Nat /\ tc.changes[ts].writer = w /\ tc.changes[ts].sn = sn
              /\ qos.reliable =>
                   sn > state[r].last_read_sn[w] /\ sn < tc.received_reliably_before[w]
              /\ Filling(r)
              /\ \A u \in Available(r) \ {ts} : Before(tc, qos.reliable, ts, u)
              /\ \/ Spins(r)
                 \/ Takes(r, w, sn) /\ (Passes(r, w, sn) \/ Caches(r, ts, w, sn))
<1>1. PICK ts \in Available(r) : TryTakeOne(r)!(ts)
      BY Zenon DEF TryTakeOne
<1>2. PICK w \in Writers, sn \in SN :
         /\ ts \in Nat /\ tc.changes[ts].writer = w /\ tc.changes[ts].sn = sn
         /\ Stored(w, sn) /\ tc.sequence_numbers[<<w, sn>>] = ts
         /\ qos.reliable =>
              sn > state[r].last_read_sn[w] /\ sn < tc.received_reliably_before[w]
      BY AvailableIsStored, Zenon
<1> DEFINE c == tc.changes[ts]
           p == sent[c.writer][c.sn]
           s == [writer |-> c.writer, sn |-> c.sn, key |-> KeyOf(p),
                 dispose |-> p.kind # "value"]
           result == Decoded(r, p)
           direct == call[r].op = "simple"
           done == result = "error" \/ (result = "ok" /\ direct)
<1>3. Filling(r) /\ \A u \in Available(r) \ {ts} : Before(tc, qos.reliable, ts, u)
      BY <1>1
<1>4. /\ DOMAIN pc = Readers /\ DOMAIN call = Readers /\ DOMAIN dc = Readers
      /\ DOMAIN given = Readers /\ DOMAIN shown = Readers /\ DOMAIN state = Readers
      /\ DOMAIN again = Readers
      BY DEF IInv, ThreadInv
<1>5. /\ state'[r] = IF result = "unknown" THEN state[r] ELSE Advanced(r, ts)
      /\ given'[r] = IF result = "unknown" THEN given[r]
                     ELSE given[r] \cup {Sample(c.writer, c.sn)}
      /\ dc'[r] = IF result = "ok" /\ ~direct
                  THEN add_sample(dc[r], s, ts, qos.depth) ELSE dc[r]
      /\ shown'[r] = IF result = "ok" /\ direct THEN shown[r] \cup Visible({s})
                     ELSE shown[r]
      BY <1>1, <1>4, Zenon
<1>6. /\ again'[r] = done
      /\ pc'[r] = CASE result = "unknown" -> "spin" [] done -> "idle" [] OTHER -> pc[r]
      BY <1>1, <1>4, Zenon
<1>7. s.writer = w /\ s.sn = sn
      BY <1>2
<1>8. Visible({s}) \subseteq {Sample(w, sn)}
      BY <1>7 DEF Visible
<1>9. result \in {"ok", "error", "unknown"}
      BY DEF Decoded
<1>10. /\ Advanced(r, ts).last_read_sn = [state[r].last_read_sn EXCEPT ![w] = sn]
       /\ Advanced(r, ts).latest_instant \in {ts, state[r].latest_instant}
      BY <1>2 DEF Advanced
<1>11. IsState(Advanced(r, ts))
      BY <1>2, <1>10, MaxSNAssumption DEF IInv, ThreadInv, IsState, SN
<1>12. PICK t : t = s /\ t.writer = w /\ t.sn = sn
      BY <1>7
<1>13. /\ dc'[r] = IF result = "ok" /\ ~direct
                   THEN add_sample(dc[r], t, ts, qos.depth) ELSE dc[r]
      BY <1>5, <1>12, Zenon
<1> HIDE DEF result, direct, s, p
<1>14. CASE result = "unknown"
      <2>1. state'[r] = state[r] /\ given'[r] = given[r] /\ shown'[r] = shown[r]
            <3>1. result # "ok"  BY <1>14
            <3> QED  BY <1>5, <1>14, <3>1, Zenon
      <2>2. dc'[r] = dc[r]
            <3>1. result # "ok"  BY <1>14
            <3> QED  BY <1>13, <3>1, Zenon
      <2>3. pc'[r] = "spin"
            BY <1>6, <1>14
      <2>4. Spins(r)
            BY <2>1, <2>2, <2>3 DEF Spins
      <2> QED  BY <1>2, <1>3, <2>4
<1>15. CASE result # "unknown"
      <2>1. Takes(r, w, sn)
            BY <1>2, <1>5, <1>10, <1>11, <1>15 DEF Takes
      <2>2. CASE done
            <3>1. dc'[r] = dc[r]
                  BY <1>13, <2>2
            <3>2. shown'[r] \subseteq shown[r] \cup {Sample(w, sn)}
                  BY <1>5, <1>8
            <3>3. pc'[r] = "idle" /\ again'[r]
                  BY <1>6, <1>15, <2>2
            <3>4. Passes(r, w, sn)
                  BY <3>1, <3>2, <3>3 DEF Passes
            <3> QED  BY <1>2, <1>3, <2>1, <3>4
      <2>3. CASE result = "ok" /\ ~direct
            <3>1. shown'[r] = shown[r] /\ pc'[r] = pc[r]
                  BY <1>5, <1>6, <2>3
            <3>2. dc'[r] = add_sample(dc[r], t, ts, qos.depth)
                  BY <1>13, <2>3
            <3>3. Caches(r, ts, w, sn)
                  BY <1>12, <3>1, <3>2 DEF Caches
            <3> QED  BY <1>2, <1>3, <2>1, <3>3
      <2> QED  BY <1>9, <1>15, <2>2, <2>3
<1> QED  BY <1>14, <1>15

\* What TryTakeOne leaves alone.
LEMMA TakeFrame ==
    ASSUME IInv, NEW r \in Readers, TryTakeOne(r)
    PROVE  /\ UNCHANGED <<qos, sent, first, since, proxy, now, tc, notify, token, waker,
                          woken, evicted>>
           /\ DOMAIN state' = Readers /\ DOMAIN dc' = Readers /\ DOMAIN given' = Readers
           /\ DOMAIN shown' = Readers /\ DOMAIN call' = Readers
           /\ \A q \in Readers \ {r} :
                 /\ state'[q] = state[q] /\ dc'[q] = dc[q] /\ given'[q] = given[q]
                 /\ shown'[q] = shown[q] /\ pc'[q] = pc[q]
           /\ pc' \in [Readers -> Steps]
           /\ again' \in [Readers -> BOOLEAN]
<1>1. /\ pc \in [Readers -> Steps] /\ DOMAIN call = Readers /\ DOMAIN dc = Readers
      /\ DOMAIN given = Readers /\ DOMAIN shown = Readers /\ DOMAIN state = Readers
      /\ again \in [Readers -> BOOLEAN]
      BY DEF IInv, ThreadInv
<1>2. PICK ts \in Available(r) : TryTakeOne(r)!(ts)
      BY Zenon DEF TryTakeOne
<1>3. PICK s, d, g, h, k, b, a :
         /\ state' = [state EXCEPT ![r] = s] /\ dc' = [dc EXCEPT ![r] = d]
         /\ given' = [given EXCEPT ![r] = g] /\ shown' = [shown EXCEPT ![r] = h]
         /\ call' = [call EXCEPT ![r] = k] /\ pc' = [pc EXCEPT ![r] = b]
         /\ again' = [again EXCEPT ![r] = a] /\ a \in BOOLEAN
      BY <1>2, Zenon
<1>4. UNCHANGED <<qos, sent, first, since, proxy, now, tc, notify, token, waker, woken, evicted>>
      BY <1>2 DEF wireVars
<1>5. /\ DOMAIN state' = Readers /\ DOMAIN dc' = Readers /\ DOMAIN given' = Readers
      /\ DOMAIN shown' = Readers /\ DOMAIN call' = Readers
      BY <1>1, <1>3
<1>6. \A q \in Readers \ {r} :
         /\ state'[q] = state[q] /\ dc'[q] = dc[q] /\ given'[q] = given[q]
         /\ shown'[q] = shown[q] /\ pc'[q] = pc[q]
      BY <1>1, <1>3
<1>7. pc' \in [Readers -> Steps]
      <2>1. pc'[r] = "spin" \/ pc'[r] = "idle" \/ pc'[r] = pc[r]
            BY TakeForm DEF Spins, Passes, Caches
      <2>2. b \in Steps
            <3>1. b = pc'[r]  BY <1>1, <1>3
            <3> QED  BY <1>1, <2>1, <3>1 DEF Steps
      <2> QED  BY <1>1, <1>3, <2>2
<1>8. again' \in [Readers -> BOOLEAN]
      BY <1>1, <1>3
<1> QED  BY <1>4, <1>5, <1>6, <1>7, <1>8

\* The read pointer moves past a number that need not be cached.
LEMMA PassOnce ==
    ASSUME NEW d, NEW last \in [Writers -> 0 .. MaxSN], NEW seen, Once(d, last, seen),
           NEW w \in Writers, NEW sn \in SN, sn > last[w],
           NEW more, more \subseteq seen \cup {Sample(w, sn)}
    PROVE  Once(d, [last EXCEPT ![w] = sn], more)
<1>1. PICK after : after = [last EXCEPT ![w] = sn]
      OBVIOUS
<1>2. /\ after \in [Writers -> 0 .. MaxSN] /\ after[w] = sn
      /\ \A v \in Writers : last[v] <= after[v]
      BY <1>1, MaxSNAssumption DEF SN
<1>3. \A v \in Writers, n \in SN : n <= last[v] => n <= after[v]
      BY <1>2, MaxSNAssumption DEF SN
<1>4. ASSUME NEW t \in DOMAIN d.datasamples
      PROVE  /\ d.datasamples[t].writer \in Writers /\ d.datasamples[t].sn \in SN
             /\ d.datasamples[t].sn <= last[d.datasamples[t].writer]
             /\ ~d.datasamples[t].sample_has_been_read =>
                    Sample(d.datasamples[t].writer, d.datasamples[t].sn) \notin seen
      BY DEF Once
<1>5. ASSUME NEW t \in DOMAIN d.datasamples
      PROVE  Sample(d.datasamples[t].writer, d.datasamples[t].sn) # Sample(w, sn)
      <2>1. ASSUME d.datasamples[t].writer = w, d.datasamples[t].sn = sn PROVE FALSE
            <3>1. sn <= last[w]  BY <1>4, <2>1
            <3> QED  BY <3>1, MaxSNAssumption DEF SN
      <2> QED  BY <2>1 DEF Sample
<1>6. ASSUME NEW t \in DOMAIN d.datasamples
      PROVE  /\ d.datasamples[t].writer \in Writers /\ d.datasamples[t].sn \in SN
             /\ d.datasamples[t].sn <= after[d.datasamples[t].writer]
             /\ ~d.datasamples[t].sample_has_been_read =>
                    Sample(d.datasamples[t].writer, d.datasamples[t].sn) \notin more
      BY <1>3, <1>4, <1>5
<1>7. ASSUME NEW x \in more
      PROVE  x \in Writers \X SN /\ x[2] <= after[x[1]]
      <2>1. CASE x \in seen
            <3>1. x \in Writers \X SN /\ x[2] <= last[x[1]]
                  BY <2>1 DEF Once
            <3> QED  BY <1>3, <3>1
      <2>2. CASE x = Sample(w, sn)
            BY <1>2, <2>2 DEF Sample, SN
      <2> QED  BY <2>1, <2>2
<1>8. \A t, u \in DOMAIN d.datasamples :
         /\ d.datasamples[t].writer = d.datasamples[u].writer
         /\ d.datasamples[t].sn = d.datasamples[u].sn
         => t = u
      BY DEF Once
<1>9. Once(d, after, more)
      BY <1>6, <1>7, <1>8 DEF Once
<1> QED  BY <1>1, <1>9

LEMMA StepTryTakeOne ==
    ASSUME IInv, NEW r \in Readers, TryTakeOne(r)
    PROVE  IInv' /\ Monotone
<1>1. /\ UNCHANGED <<qos, sent, first, since, proxy, now, tc, notify, token, waker,
                     woken, evicted>>
      /\ DOMAIN state' = Readers /\ DOMAIN dc' = Readers /\ DOMAIN given' = Readers
      /\ DOMAIN shown' = Readers /\ DOMAIN call' = Readers
      /\ pc' \in [Readers -> Steps]
      /\ again' \in [Readers -> BOOLEAN]
      BY TakeFrame
<1>2. \A q \in Readers \ {r} :
         state'[q] = state[q] /\ dc'[q] = dc[q] /\ shown'[q] = shown[q]
      BY TakeFrame
<1>3. PICK ts \in Available(r), w \in Writers, sn \in SN :
         /\ ts \in Nat
         /\ qos.reliable =>
              sn > state[r].last_read_sn[w] /\ sn < tc.received_reliably_before[w]
         /\ \/ Spins(r)
            \/ Takes(r, w, sn) /\ (Passes(r, w, sn) \/ Caches(r, ts, w, sn))
      BY TakeForm
<1>4. IsState(state[r]) /\ Kept(dc[r], qos.depth) /\ qos.depth \in Nat
      BY ReadingAssumption DEF IInv, ThreadInv, SampleInv, WireInv
<1>5. IsState(state'[r])
      BY <1>3, <1>4 DEF Spins, Takes
<1>6. ThreadInv'
      BY <1>1, <1>2, <1>5 DEF IInv, ThreadInv
<1>7. ASSUME Caches(r, ts, w, sn)
      PROVE  /\ Kept(dc'[r], qos.depth)
             /\ GainsOnly(dc'[r], dc[r], ts, w, sn)
      <2>1. PICK s : /\ s.writer = w /\ s.sn = sn
                     /\ dc'[r] = add_sample(dc[r], s, ts, qos.depth)
            BY <1>7 DEF Caches
      <2>2. PICK d : d = dc[r]
            OBVIOUS
      <2>3. Kept(d, qos.depth) /\ qos.depth \in Nat
            BY <1>4, <2>2
      <2> QED  BY <1>3, <2>1, <2>2, <2>3, AddSample
<1>8. Kept(dc'[r], qos.depth)
      BY <1>3, <1>4, <1>7 DEF Spins, Passes
<1>9. SampleInv'
      BY <1>1, <1>2, <1>8 DEF IInv, SampleInv
<1>10. ASSUME qos.reliable PROVE Once(dc'[r], state'[r].last_read_sn, shown'[r])
      <2>1. Once(dc[r], state[r].last_read_sn, shown[r])
            BY <1>10 DEF IInv, OnceInv
      <2>2. sn > state[r].last_read_sn[w]
            BY <1>3, <1>10
      <2>3. state[r].last_read_sn \in [Writers -> 0 .. MaxSN]
            BY <1>4 DEF IsState
      <2>4. CASE Spins(r)
            BY <2>1, <2>4 DEF Spins
      <2>5. CASE Takes(r, w, sn) /\ Passes(r, w, sn)
            <3>1. /\ dc'[r] = dc[r] /\ shown'[r] \subseteq shown[r] \cup {Sample(w, sn)}
                  BY <2>5 DEF Passes
            <3>2. Once(dc[r], [state[r].last_read_sn EXCEPT ![w] = sn], shown'[r])
                  BY <2>1, <2>2, <2>3, <3>1, PassOnce
            <3> QED  BY <2>5, <3>1, <3>2 DEF Takes
      <2>6. CASE Takes(r, w, sn) /\ Caches(r, ts, w, sn)
            <3>1. shown'[r] = shown[r]
                  BY <2>6 DEF Caches
            <3>2. Once(dc'[r], [state[r].last_read_sn EXCEPT ![w] = sn], shown[r])
                  <4>1. PICK a, d, last, seen :
                           /\ a = dc'[r] /\ d = dc[r] /\ last = state[r].last_read_sn
                           /\ seen = shown[r]
                        OBVIOUS
                  <4>2. GainsOnly(a, d, ts, w, sn)
                        BY <1>7, <2>6, <4>1
                  <4>3. /\ last \in [Writers -> 0 .. MaxSN] /\ sn > last[w]
                        /\ Once(d, last, seen)
                        BY <2>1, <2>2, <2>3, <4>1
                  <4>4. Once(a, [last EXCEPT ![w] = sn], seen)
                        BY <4>2, <4>3, AddSampleOnce
                  <4> QED  BY <4>1, <4>4
            <3> QED  BY <2>6, <3>1, <3>2 DEF Takes
      <2> QED  BY <1>3, <2>4, <2>5, <2>6
<1>11. OnceInv'
      <2>1. ASSUME qos.reliable, NEW q \in Readers
            PROVE  Once(dc'[q], state'[q].last_read_sn, shown'[q])
            BY <1>2, <1>10, <2>1 DEF IInv, OnceInv
      <2> QED  BY <1>1, <2>1 DEF OnceInv
<1> QED  BY <1>1, <1>6, <1>9, <1>11, WorldUndisturbed DEF IInv

\* Only samples of the cache are selected, and with not_read only unread ones.
LEMMA SelectedAreSamples ==
    ASSUME NEW r \in Readers, NEW t \in Selected(r)
    PROVE  /\ t \in DOMAIN dc[r].datasamples
           /\ call[r].not_read => ~dc[r].datasamples[t].sample_has_been_read
BY Zenon DEF Selected, select_keys_for_access, Oldest

LEMMA AccessForm ==
    ASSUME IInv, NEW r \in Readers, Access(r)
    PROVE  /\ UNCHANGED <<qos, sent, first, since, proxy, now, tc, notify, token, waker,
                          woken, state, evicted, given>>
           /\ pc' = [pc EXCEPT ![r] = "idle"] /\ Available(r) = {}
           /\ DOMAIN call' = Readers /\ again' \in [Readers -> BOOLEAN]
           /\ DOMAIN dc' = Readers /\ DOMAIN shown' = Readers
           /\ \A q \in Readers \ {r} : dc'[q] = dc[q] /\ shown'[q] = shown[q]
           /\ dc'[r] = read_by_keys(dc[r], Selected(r)) \/ dc'[r] = take_by_keys(dc[r], Selected(r))
           /\ shown'[r] = shown[r] \cup Visible({dc[r].datasamples[t] : t \in Selected(r)})
<1>1. /\ DOMAIN call = Readers /\ DOMAIN dc = Readers /\ DOMAIN shown = Readers
      /\ again \in [Readers -> BOOLEAN]
      BY DEF IInv, ThreadInv
<1>2. /\ UNCHANGED <<qos, sent, first, since, proxy, now, tc, notify, token, waker,
                     woken, state, evicted, given>>
      /\ pc' = [pc EXCEPT ![r] = "idle"] /\ Available(r) = {}
      BY DEF Access, wireVars
<1>3. PICK d, h, a :
         /\ dc' = [dc EXCEPT ![r] = d] /\ shown' = [shown EXCEPT ![r] = h]
         /\ call' = [call EXCEPT ![r] = Nobody]
         /\ again' = [again EXCEPT ![r] = a] /\ a \in BOOLEAN
         /\ d = read_by_keys(dc[r], Selected(r)) \/ d = take_by_keys(dc[r], Selected(r))
         /\ h = shown[r] \cup Visible({dc[r].datasamples[t] : t \in Selected(r)})
      BY Zenon DEF Access
<1>4. /\ DOMAIN call' = Readers /\ again' \in [Readers -> BOOLEAN]
      /\ DOMAIN dc' = Readers /\ DOMAIN shown' = Readers
      BY <1>1, <1>3
<1>5. \A q \in Readers \ {r} : dc'[q] = dc[q] /\ shown'[q] = shown[q]
      BY <1>1, <1>3
<1>6. dc'[r] = d /\ shown'[r] = h
      BY <1>1, <1>3
<1> QED  BY <1>2, <1>3, <1>4, <1>5, <1>6, Zenon

\* Of the samples selected, what Visible shows.
LEMMA VisibleSamples ==
    ASSUME NEW r \in Readers,
           NEW x \in Visible({dc[r].datasamples[t] : t \in Selected(r)})
    PROVE  \E t \in Selected(r) :
              /\ t \in DOMAIN dc[r].datasamples
              /\ x = Sample(dc[r].datasamples[t].writer, dc[r].datasamples[t].sn)
<1>1. PICK t \in Selected(r) :
         x = Sample(dc[r].datasamples[t].writer, dc[r].datasamples[t].sn)
      BY Zenon DEF Visible
<1> QED  BY <1>1, SelectedAreSamples

LEMMA StepAccess ==
    ASSUME IInv, NEW r \in Readers, Access(r)
    PROVE  IInv' /\ Monotone
<1>1. /\ UNCHANGED <<qos, sent, first, since, proxy, now, tc, notify, token, waker,
                     woken, state, evicted, given>>
      /\ pc' = [pc EXCEPT ![r] = "idle"]
      /\ DOMAIN call' = Readers /\ again' \in [Readers -> BOOLEAN]
      /\ DOMAIN dc' = Readers /\ DOMAIN shown' = Readers
      BY AccessForm
<1>2. \A q \in Readers \ {r} : dc'[q] = dc[q] /\ shown'[q] = shown[q]
      BY AccessForm
<1>3. ThreadInv'
      <2>1. pc' \in [Readers -> Steps]
            BY <1>1 DEF IInv, ThreadInv, Steps
      <2> QED  BY <1>1, <2>1 DEF IInv, ThreadInv
<1>4. Kept(dc[r], qos.depth)
      BY DEF IInv, SampleInv
<1>5. AccessedFrom(dc[r], dc'[r], Selected(r))
      <2>1. \/ dc'[r] = read_by_keys(dc[r], Selected(r))
            \/ dc'[r] = take_by_keys(dc[r], Selected(r))
            BY AccessForm
      <2>2. AccessedFrom(dc[r], read_by_keys(dc[r], Selected(r)), Selected(r))
            BY <1>4, ReadByKeys
      <2>3. AccessedFrom(dc[r], take_by_keys(dc[r], Selected(r)), Selected(r))
            BY <1>4, TakeByKeys
      <2> QED  BY <2>1, <2>2, <2>3
<1>6. Kept(dc'[r], qos.depth)
      BY <1>4, <1>5, AccessKeeps
<1>7. SampleInv'
      BY <1>1, <1>2, <1>6 DEF IInv, SampleInv
<1>8. ASSUME qos.reliable PROVE Once(dc'[r], state[r].last_read_sn, shown'[r])
      <2>1. Once(dc[r], state[r].last_read_sn, shown[r])
            BY <1>8 DEF IInv, OnceInv
      <2>2. PICK d, e, last, seen, selected, more :
               /\ d = dc[r] /\ e = dc'[r] /\ last = state[r].last_read_sn /\ seen = shown[r]
               /\ selected = Selected(r)
               /\ more = Visible({dc[r].datasamples[t] : t \in Selected(r)})
            OBVIOUS
      <2>3. \A x \in more : \E t \in selected :
               t \in DOMAIN d.datasamples
               /\ x = Sample(d.datasamples[t].writer, d.datasamples[t].sn)
            BY <2>2, VisibleSamples
      <2>4. Once(d, last, seen) /\ AccessedFrom(d, e, selected)
            BY <1>5, <2>1, <2>2
      <2>5. Once(e, last, seen \cup more)
            BY <2>3, <2>4, AccessOnce
      <2>6. shown'[r] = seen \cup more
            BY <2>2, AccessForm
      <2> QED  BY <2>2, <2>5, <2>6
<1>9. OnceInv'
      <2>1. ASSUME qos.reliable, NEW q \in Readers
            PROVE  Once(dc'[q], state[q].last_read_sn, shown'[q])
            BY <1>2, <1>8, <2>1 DEF IInv, OnceInv
      <2> QED  BY <1>1, <2>1 DEF OnceInv
<1> QED  BY <1>1, <1>3, <1>7, <1>9, WorldUndisturbed DEF IInv

----------------------------------------------------------------------------

\* Every step but a stuttering one, by kind.
LEMMA StepInv == IInv /\ [Next]_vars => IInv' /\ Monotone
<1> SUFFICES ASSUME IInv, [Next]_vars PROVE IInv' /\ Monotone
      OBVIOUS
<1>1. CASE UNCHANGED vars
      <2>1. /\ UNCHANGED <<qos, sent, first, since, proxy, now, tc, evicted, notify, token,
                           waker, woken>>
            /\ UNCHANGED threadVars
            BY <1>1 DEF vars, wireVars
      <2>2. ThreadInv'
            BY <2>1, ThreadsUndisturbed DEF IInv, ThreadInv
      <2>3. SampleInv' /\ OnceInv'
            BY <2>1, SamplesUndisturbed DEF IInv, threadVars
      <2> QED  BY <2>1, <2>2, <2>3, WorldUndisturbed DEF IInv
<1>2. ASSUME NEW w \in Writers, RemoveOldest(w) PROVE IInv' /\ Monotone
      BY <1>2, StepRemoveOldest
<1>3. ASSUME NEW w \in Writers, NEW p \in qos.payloads, Write(w, p) PROVE IInv' /\ Monotone
      BY <1>3, StepWrite
<1>4. ASSUME EventLoop PROVE IInv' /\ Monotone
      <2>1. CASE GarbageCollect
            BY <2>1, StepGarbageCollect
      <2>2. ASSUME NEW r \in Readers, NEW w \in Writers,
                   \/ MatchWriter(r, w) \/ WriterLost(r, w)
                   \/ \E sn \in 1 .. Len(sent[w]) : HandleData(r, w, sn)
            PROVE  IInv' /\ Monotone
            BY <2>2, StepMatchWriter, StepWriterLost, StepHandleData
      <2>3. ASSUME NEW r \in Readers, NEW w \in Writers, NEW f \in 1 .. first[w],
                   HandleHeartbeat(r, w, f)
            PROVE  IInv' /\ Monotone
            <3>1. PICK wp : wp = irrelevant_changes_up_to(proxy[r][w], f)
                  OBVIOUS
            <3>2. /\ Progress(r, w, wp) /\ Consistent(wp)
                  /\ \A s \in Known(wp) : s \in Known(proxy[r][w]) \/ s \in GivenUp(r, w)
                  BY <2>3, <3>1, ProgressIsAccounted
            <3> QED  BY <3>2, StepProgress
      <2>4. ASSUME NEW r \in Readers, NEW w \in Writers, HandleGap(r, w)
            PROVE  IInv' /\ Monotone
            <3>1. PICK wp : wp = irrelevant_changes_range(proxy[r][w], 1, since[r][w])
                  OBVIOUS
            <3>2. /\ Progress(r, w, wp) /\ Consistent(wp)
                  /\ \A s \in Known(wp) : s \in Known(proxy[r][w]) \/ s \in GivenUp(r, w)
                  BY <2>4, <3>1, ProgressIsAccounted
            <3> QED  BY <3>2, StepProgress
      <2> QED  BY <1>4, <2>1, <2>2, <2>3, <2>4 DEF EventLoop
<1>5. CASE NotifyCacheChange
      BY <1>5, StepNotify
<1>6. ASSUME NEW r \in Readers, ThreadStep(r) \/ \E c \in qos.calls : Begin(r, c)
      PROVE  IInv' /\ Monotone
      <2>1. TryTakeOne(r) \/ Access(r) \/ Control(r)
            BY <1>6 DEF ThreadStep, Control
      <2> QED  BY <2>1, StepTryTakeOne, StepAccess, StepControl
<1> QED  BY <1>1, <1>2, <1>3, <1>4, <1>5, <1>6 DEF Next

\* The invariant holds of every behaviour of the Readers of a topic, for any
\* QoS, Writers, payloads and calls.
THEOREM InvariantHolds == Spec => []IInv
<1>1. IInv /\ [Next]_vars => IInv'
      BY StepInv
<1> QED  BY InitInv, <1>1, PTL DEF Spec

\* No sample stays for ever: the TopicCache's two maps agree whatever was
\* collected, each sample of a DataReader's cache is in the index of its
\* instance, and no instance outgrows the history depth
\* (datasample_cache.rs:191-222).
THEOREM IndexesHold == Spec => []SamplesAreIndexed
<1>1. IInv => SamplesAreIndexed
      <2> SUFFICES ASSUME IInv PROVE SamplesAreIndexed
            OBVIOUS
      <2>1. {tc.sequence_numbers[i] : i \in DOMAIN tc.sequence_numbers} = DOMAIN tc.changes
            <3>1. \A i \in DOMAIN tc.sequence_numbers : tc.sequence_numbers[i] \in DOMAIN tc.changes
                  BY DEF IInv, CacheInv, Indexed
            <3>2. \A t \in DOMAIN tc.changes :
                     \E i \in DOMAIN tc.sequence_numbers : tc.sequence_numbers[i] = t
                  BY DEF IInv, CacheInv, Indexed
            <3> QED  BY <3>1, <3>2
      <2>2. ASSUME NEW r \in Readers, NEW t \in DOMAIN dc[r].datasamples
            PROVE  LET s == dc[r].datasamples[t]
                   IN  /\ s.key \in DOMAIN dc[r].instance_map
                       /\ t \in dc[r].instance_map[s.key].instance_samples
                       /\ s.generation <= dc[r].instance_map[s.key].latest
                       /\ qos.depth > 0 =>
                            Cardinality({u \in DOMAIN dc[r].datasamples :
                                           dc[r].datasamples[u].key = s.key}) <= qos.depth
            <3>1. PICK d : d = dc[r]
                  OBVIOUS
            <3>2. PICK s : s = d.datasamples[t]
                  OBVIOUS
            <3>3. Kept(d, qos.depth) /\ qos.depth \in Nat
                  BY <3>1, ReadingAssumption DEF IInv, SampleInv, WireInv
            <3>4. PICK m : m = d.instance_map[s.key]
                  OBVIOUS
            <3>5. /\ s.key \in DOMAIN d.instance_map /\ IsInstance(m)
                  /\ t \in m.instance_samples /\ s.generation \in 0 .. m.latest
                  /\ qos.depth > 0 => Cardinality(m.instance_samples) <= qos.depth
                  BY <3>1, <3>2, <3>3, <3>4 DEF Kept
            <3>6. PICK S : S = {u \in DOMAIN d.datasamples : d.datasamples[u].key = s.key}
                  OBVIOUS
            <3>7. S \subseteq m.instance_samples
                  BY <3>3, <3>4, <3>6 DEF Kept
            <3>8. IsFiniteSet(m.instance_samples) /\ m.latest \in Nat
                  BY <3>5 DEF IsInstance
            <3>9. IsFiniteSet(S) /\ Cardinality(S) <= Cardinality(m.instance_samples)
                  BY <3>7, <3>8, FS_Subset
            <3>10. Cardinality(S) \in Nat /\ Cardinality(m.instance_samples) \in Nat
                  BY <3>8, <3>9, FS_CardinalityType
            <3>11. qos.depth > 0 => Cardinality(S) <= qos.depth
                  BY <3>3, <3>5, <3>9, <3>10
            <3>12. s.generation <= m.latest
                  BY <3>5, <3>8
            <3> QED  BY <3>1, <3>2, <3>4, <3>5, <3>6, <3>11, <3>12, Zenon
      <2> QED  BY <2>1, <2>2, Zenon DEF SamplesAreIndexed
<1> QED  BY InvariantHolds, <1>1, PTL

\* A reliable DataReader shows its application no sample twice as unread: the
\* read pointer and the sample cache together remember what a TopicCache that
\* was collected and filled again does not (simpledatareader.rs:381-389,
\* datasample_cache.rs:400-455).
THEOREM NothingTwice == Spec => NeverTwice
<1>1. ASSUME IInv, qos.reliable, NEW r \in Readers, Access(r), call[r].not_read
      PROVE  Visible({dc[r].datasamples[t] : t \in Selected(r)}) \cap shown[r] = {}
      <2>1. Once(dc[r], state[r].last_read_sn, shown[r])
            BY <1>1 DEF IInv, OnceInv
      <2>2. ASSUME NEW x \in Visible({dc[r].datasamples[t] : t \in Selected(r)})
            PROVE  x \notin shown[r]
            <3>1. PICK t \in Selected(r) :
                     /\ t \in DOMAIN dc[r].datasamples
                     /\ x = Sample(dc[r].datasamples[t].writer, dc[r].datasamples[t].sn)
                  BY VisibleSamples
            <3>2. ~dc[r].datasamples[t].sample_has_been_read
                  BY <1>1, SelectedAreSamples
            <3> QED  BY <2>1, <3>1, <3>2 DEF Once
      <2> QED  BY <2>2, Zenon
<1>2. IInv =>
         [qos.reliable => \A r \in Readers :
             Access(r) /\ call[r].not_read =>
                 Visible({dc[r].datasamples[t] : t \in Selected(r)}) \cap shown[r] = {}]_vars
      BY <1>1, Zenon
<1> QED  BY InvariantHolds, <1>2, PTL DEF Spec, NeverTwice

----------------------------------------------------------------------------
(* A topic with one Reader *)

Sole == Readers = {TheReader}

\* The marker moves only to the ack_base of the one Reader's proxy.
MarkerMoves ==
    \/ tc'.received_reliably_before = tc.received_reliably_before
    \/ \E r \in Readers, w \in Writers :
          tc'.received_reliably_before =
              [tc.received_reliably_before EXCEPT ![w] = proxy'[r][w].ack_base]

LEMMA MarkerStays ==
    ASSUME Sole, IInv, IInv', Monotone, MarkerInv, MarkerMoves
    PROVE  MarkerInv'
<1>1. WireInv /\ WireInv' /\ KnownInv' /\ ProxyInv'
      BY DEF IInv
<1>2. tc.received_reliably_before \in [Writers -> 1 .. MaxSN + 1]
      BY DEF IInv, CacheInv, Indexed
<1>3. ASSUME NEW r \in Readers, NEW w \in Writers, NEW s \in SN,
             s < tc.received_reliably_before[w]
      PROVE  Accounted(r, w, s)'
      BY <1>1, <1>3, AccountedStays DEF MarkerInv
<1>4. CASE tc'.received_reliably_before = tc.received_reliably_before
      BY <1>3, <1>4 DEF MarkerInv
<1>5. ASSUME NEW q \in Readers, NEW v \in Writers,
             tc'.received_reliably_before =
                 [tc.received_reliably_before EXCEPT ![v] = proxy'[q][v].ack_base]
      PROVE  MarkerInv'
      <2>1. ASSUME NEW r \in Readers, NEW w \in Writers, NEW s \in SN,
                   s < tc'.received_reliably_before[w]
            PROVE  Accounted(r, w, s)'
            <3>1. CASE w # v
                  <4>1. s < tc.received_reliably_before[w]
                        BY <1>2, <1>5, <2>1, <3>1
                  <4> QED  BY <1>3, <4>1
            <3>2. CASE w = v
                  <4>1. s < proxy'[r][w].ack_base
                        BY <1>2, <1>5, <2>1, <3>2 DEF Sole
                  <4>2. s \in Known(proxy'[r][w])
                        BY <4>1, KnownMembership
                  <4> QED  BY <1>1, <4>2 DEF KnownInv
            <3> QED  BY <3>1, <3>2
      <2> QED  BY <2>1 DEF MarkerInv
<1> QED  BY <1>4, <1>5 DEF MarkerMoves

LEMMA AvailableShrinks ==
    ASSUME UNCHANGED qos, NEW r \in Readers, state'[r] = state[r], CacheInv, CacheInv',
           DOMAIN tc'.changes \subseteq DOMAIN tc.changes,
           DOMAIN tc'.sequence_numbers \subseteq DOMAIN tc.sequence_numbers,
           \A w \in Writers :
              tc'.received_reliably_before[w] <= tc.received_reliably_before[w],
           Available(r) = {}
    PROVE  Available(r)' = {}
<1>1. /\ tc.received_reliably_before \in [Writers -> 1 .. MaxSN + 1]
      /\ tc'.received_reliably_before \in [Writers -> 1 .. MaxSN + 1]
      BY DEF CacheInv, Indexed
<1>2. CASE ~qos.reliable
      BY <1>2 DEF Available, in_range_best_effort
<1>3. CASE qos.reliable
      <2>1. ASSUME NEW i \in DOMAIN tc'.sequence_numbers,
                   i[2] > state[r].last_read_sn[i[1]],
                   i[2] < tc'.received_reliably_before[i[1]]
            PROVE  FALSE
            <3>1. PICK w \in Writers, sn \in SN : i = <<w, sn>>
                  <4>1. i \in Writers \X SN  BY DEF CacheInv, Indexed
                  <4> QED  BY <4>1
            <3>2. sn < tc.received_reliably_before[w]
                  BY <1>1, <2>1, <3>1, MaxSNAssumption DEF SN
            <3>3. tc.sequence_numbers[i] \in Available(r)
                  BY <1>3, <2>1, <3>1, <3>2 DEF Available, in_range_reliable
            <3> QED  BY <3>3
      <2> QED  BY <1>3, <2>1 DEF Available, in_range_reliable
<1> QED  BY <1>2, <1>3

\* While the threads do not move, only what becomes available needs a notice.
LEMMA NothingNew ==
    ASSUME NotificationPending, UNCHANGED <<pc, woken, token, again, notify>>,
           \A r \in Readers : Available(r) = {} => Available(r)' = {}
    PROVE  NotificationPending'
BY DEF NotificationPending

\* The event loop notifies of everything new.
LEMMA LoopNotifies ==
    ASSUME Sole, IInv, IInv', SoleInv,
           EventLoop \/ \E w \in Writers : RemoveOldest(w) \/ \E p \in qos.payloads : Write(w, p)
    PROVE  MarkerMoves /\ WakerInv' /\ NotificationPending'
<1>1. CacheInv /\ CacheInv' /\ NotificationPending
      BY DEF IInv, SoleInv
<1>2. UNCHANGED <<qos, pc, waker, woken, token, again, state>>
      BY DEF EventLoop, RemoveOldest, Write, MatchWriter, WriterLost, HandleData,
             HandleHeartbeat, HandleGap, Progress, GarbageCollect, threadVars
<1>3. WakerInv'
      BY <1>2 DEF SoleInv, WakerInv
<1>4. CASE UNCHANGED <<tc, notify>>
      <2>1. \A r \in Readers : Available(r)' = Available(r)
            BY <1>2, <1>4 DEF Available
      <2> QED  BY <1>1, <1>2, <1>3, <1>4, <2>1, NothingNew DEF MarkerMoves
<1>5. CASE GarbageCollect
      <2>1. Within(tc', tc) /\ notify' = notify
            BY <1>5, StepGarbageCollect DEF GarbageCollect
      <2>2. tc.received_reliably_before \in [Writers -> 1 .. MaxSN + 1]
            BY <1>1 DEF CacheInv, Indexed
      <2>3. /\ DOMAIN tc'.changes \subseteq DOMAIN tc.changes
            /\ DOMAIN tc'.sequence_numbers \subseteq DOMAIN tc.sequence_numbers
            /\ \A w \in Writers :
                  tc'.received_reliably_before[w] <= tc.received_reliably_before[w]
            BY <2>1, <2>2 DEF Within
      <2>4. ASSUME NEW r \in Readers, Available(r) = {} PROVE Available(r)' = {}
            BY <1>1, <1>2, <2>3, <2>4, AvailableShrinks
      <2>5. NotificationPending'
            BY <1>1, <1>2, <2>1, <2>4, NothingNew
      <2> QED  BY <1>3, <2>1, <2>5 DEF MarkerMoves, Within
<1>6. ASSUME NEW r \in Readers, NEW w \in Writers, NEW sn \in 1 .. Len(sent[w]),
             HandleData(r, w, sn)
      PROVE  MarkerMoves /\ NotificationPending'
      <2>1. notify' = r
            BY <1>6 DEF HandleData
      <2>2. tc'.received_reliably_before =
               [tc.received_reliably_before EXCEPT ![w] = proxy'[r][w].ack_base]
            BY <1>6, StepHandleData
      <2>3. MarkerMoves
            BY <2>2 DEF MarkerMoves
      <2> QED  BY <2>1, <2>3 DEF NotificationPending, Sole
<1>7. ASSUME NEW r \in Readers, NEW w \in Writers, NEW wp, Progress(r, w, wp),
             Consistent(wp),
             \A s \in Known(wp) : s \in Known(proxy[r][w]) \/ s \in GivenUp(r, w)
      PROVE  MarkerMoves /\ NotificationPending'
      <2>1. /\ proxy'[r][w] = wp
            /\ tc'.changes = tc.changes /\ tc'.sequence_numbers = tc.sequence_numbers
            /\ tc'.received_reliably_before =
                 [tc.received_reliably_before EXCEPT ![w] = wp.ack_base]
            BY <1>7, StepProgress
      <2>2. MarkerMoves
            BY <2>1 DEF MarkerMoves
      <2>3. CASE tc.received_reliably_before[w] < wp.ack_base
            <3>1. notify' = r
                  BY <1>7, <2>3 DEF Progress
            <3> QED  BY <2>2, <3>1 DEF NotificationPending, Sole
      <2>4. CASE ~(tc.received_reliably_before[w] < wp.ack_base)
            <3>1. notify' = notify
                  BY <1>7, <2>4 DEF Progress
            <3>2. tc.received_reliably_before \in [Writers -> 1 .. MaxSN + 1]
                  BY <1>1 DEF CacheInv, Indexed
            <3>3. wp.ack_base \in 1 .. MaxSN + 1
                  BY <1>7 DEF Consistent, WriterProxyType
            <3>4. \A v \in Writers :
                     tc'.received_reliably_before[v] <= tc.received_reliably_before[v]
                  BY <2>1, <2>4, <3>2, <3>3
            <3>5. ASSUME NEW q \in Readers, Available(q) = {} PROVE Available(q)' = {}
                  BY <1>1, <1>2, <2>1, <3>4, <3>5, AvailableShrinks
            <3>6. NotificationPending'
                  BY <1>1, <1>2, <3>1, <3>5, NothingNew
            <3> QED  BY <2>2, <3>6
      <2> QED  BY <2>3, <2>4
<1>8. ASSUME NEW r \in Readers, NEW w \in Writers, NEW f \in 1 .. first[w],
             HandleHeartbeat(r, w, f)
      PROVE  MarkerMoves /\ NotificationPending'
      <2>1. PICK wp : wp = irrelevant_changes_up_to(proxy[r][w], f)
            OBVIOUS
      <2>2. /\ Progress(r, w, wp) /\ Consistent(wp)
            /\ \A s \in Known(wp) : s \in Known(proxy[r][w]) \/ s \in GivenUp(r, w)
            BY <1>8, <2>1, ProgressIsAccounted
      <2> QED  BY <1>7, <2>2
<1>9. ASSUME NEW r \in Readers, NEW w \in Writers, HandleGap(r, w)
      PROVE  MarkerMoves /\ NotificationPending'
      <2>1. PICK wp : wp = irrelevant_changes_range(proxy[r][w], 1, since[r][w])
            OBVIOUS
      <2>2. /\ Progress(r, w, wp) /\ Consistent(wp)
            /\ \A s \in Known(wp) : s \in Known(proxy[r][w]) \/ s \in GivenUp(r, w)
            BY <1>9, <2>1, ProgressIsAccounted
      <2> QED  BY <1>7, <2>2
<1>10. ASSUME NEW r \in Readers, NEW w \in Writers, MatchWriter(r, w) \/ WriterLost(r, w)
       PROVE  UNCHANGED <<tc, notify>>
      BY <1>10 DEF MatchWriter, WriterLost
<1>11. ASSUME \E w \in Writers : RemoveOldest(w) \/ \E p \in qos.payloads : Write(w, p)
       PROVE  UNCHANGED <<tc, notify>>
      BY <1>11 DEF RemoveOldest, Write
<1> QED  BY <1>3, <1>4, <1>5, <1>6, <1>8, <1>9, <1>10, <1>11 DEF EventLoop

\* What the wake-up invariants say of one Reader.
LEMMA SoleReader ==
    ASSUME Sole, NEW r \in Readers,
           pc'[r] \in {"fill2", "pending"} => waker'[r] \/ woken'[r],
           Available(r)' # {} =>
              /\ pc'[r] = "pending" => woken'[r] \/ notify' = r
              /\ pc'[r] = "idle" => token'[r] \/ again'[r] \/ notify' = r
    PROVE  WakerInv' /\ NotificationPending'
<1>1. \A q \in Readers : q = r
      BY DEF Sole
<1> QED  BY <1>1 DEF WakerInv, NotificationPending

LEMMA NotifyWakes ==
    ASSUME Sole, IInv, SoleInv, NotifyCacheChange
    PROVE  WakerInv' /\ NotificationPending'
<1>1. PICK r \in Readers : r = notify
      BY DEF NotifyCacheChange, IInv, ThreadInv
<1>2. /\ woken' = [woken EXCEPT ![r] = woken[r] \/ waker[r]]
      /\ token' = [token EXCEPT ![r] = TRUE] /\ pc' = pc
      BY <1>1 DEF NotifyCacheChange, threadVars
<1>3. DOMAIN woken = Readers /\ DOMAIN token = Readers
      BY DEF IInv, ThreadInv
<1>4. (woken'[r] <=> (woken[r] \/ waker[r])) /\ token'[r]
      BY <1>2, <1>3, Zenon
<1>5. pc[r] \in {"fill2", "pending"} => waker[r] \/ woken[r]
      BY DEF SoleInv, WakerInv
<1>6. pc'[r] \in {"fill2", "pending"} => woken'[r]
      BY <1>2, <1>4, <1>5
<1> QED  BY <1>4, <1>6, SoleReader

LEMMA ControlWakes ==
    ASSUME Sole, IInv, SoleInv, NEW r \in Readers, Control(r)
    PROVE  WakerInv' /\ NotificationPending'
<1>1. UNCHANGED <<qos, tc, state, notify>>
      BY DEF Control, Begin, FoundNothing, SetWaker, ReturnPending, Woken
<1>2. Available(r)' = Available(r)
      BY <1>1 DEF Available
<1>3. /\ DOMAIN woken = Readers /\ DOMAIN token = Readers /\ DOMAIN pc = Readers
      /\ DOMAIN waker = Readers /\ DOMAIN again = Readers
      BY DEF IInv, ThreadInv
<1>4. ASSUME NEW c \in qos.calls, Begin(r, c) PROVE pc'[r] = "fill"
      BY <1>3, <1>4 DEF Begin
<1>5. ASSUME FoundNothing(r) PROVE pc'[r] = "waker"
      BY <1>3, <1>5 DEF FoundNothing
<1>6. ASSUME SetWaker(r) PROVE pc'[r] = "fill2" /\ waker'[r]
      BY <1>3, <1>6 DEF SetWaker
<1>7. ASSUME ReturnPending(r)
      PROVE  /\ pc'[r] = "pending" /\ Available(r) = {} /\ pc[r] = "fill2"
             /\ UNCHANGED <<waker, woken>>
      BY <1>3, <1>7 DEF ReturnPending
<1>8. ASSUME Woken(r) PROVE pc'[r] = "idle" /\ again'[r]
      BY <1>3, <1>8 DEF Woken
<1>9. pc[r] = "fill2" => waker[r] \/ woken[r]
      BY DEF SoleInv, WakerInv
<1>10. pc'[r] \in {"fill2", "pending"} => waker'[r] \/ woken'[r]
      BY <1>4, <1>5, <1>6, <1>7, <1>8, <1>9 DEF Control
<1>11. Available(r)' # {} =>
         /\ pc'[r] = "pending" => woken'[r] \/ notify' = r
         /\ pc'[r] = "idle" => token'[r] \/ again'[r] \/ notify' = r
      BY <1>2, <1>4, <1>5, <1>6, <1>7, <1>8 DEF Control
<1> QED  BY <1>10, <1>11, SoleReader

LEMMA TakeWakes ==
    ASSUME Sole, IInv, SoleInv, NEW r \in Readers, TryTakeOne(r) \/ Access(r)
    PROVE  WakerInv' /\ NotificationPending'
<1>1. UNCHANGED <<qos, tc, notify, token, waker, woken>>
      BY TakeFrame, AccessForm
<1>2. \/ pc'[r] = "spin" \/ (pc'[r] = "idle" /\ again'[r])
      \/ pc'[r] = pc[r] /\ pc[r] \in {"fill", "fill2"}
      \/ pc'[r] = "idle" /\ Available(r)' = {}
      <2>1. CASE TryTakeOne(r)
            <3>1. Filling(r) /\ (pc'[r] = "spin" \/ (pc'[r] = "idle" /\ again'[r])
                                   \/ pc'[r] = pc[r])
                  BY <2>1, TakeForm DEF Spins, Passes, Caches
            <3> QED  BY <3>1 DEF Filling
      <2>2. CASE Access(r)
            <3>1. UNCHANGED <<qos, tc, state>> /\ Available(r) = {}
                  BY <2>2, AccessForm
            <3>2. Available(r)' = {}
                  BY <3>1 DEF Available
            <3>3. pc' = [pc EXCEPT ![r] = "idle"] /\ pc \in [Readers -> Steps]
                  BY <2>2, AccessForm DEF IInv, ThreadInv
            <3> QED  BY <3>2, <3>3
      <2> QED  BY <2>1, <2>2
<1>3. pc[r] \in {"fill2", "pending"} => waker[r] \/ woken[r]
      BY DEF SoleInv, WakerInv
<1>4. pc'[r] \in {"fill2", "pending"} => waker'[r] \/ woken'[r]
      BY <1>1, <1>2, <1>3
<1>5. Available(r)' # {} =>
         /\ pc'[r] = "pending" => woken'[r] \/ notify' = r
         /\ pc'[r] = "idle" => token'[r] \/ again'[r] \/ notify' = r
      BY <1>2
<1> QED  BY <1>4, <1>5, SoleReader

LEMMA SoleStep ==
    ASSUME Sole, IInv, IInv', Monotone, SoleInv, [Next]_vars
    PROVE  SoleInv'
<1>1. CASE EventLoop \/ \E w \in Writers : RemoveOldest(w) \/ \E p \in qos.payloads : Write(w, p)
      BY <1>1, LoopNotifies, MarkerStays DEF SoleInv
<1>2. CASE UNCHANGED vars
      <2>1. UNCHANGED <<qos, tc, state, pc, waker, woken, token, again, notify>>
            BY <1>2 DEF vars, threadVars
      <2>2. \A r \in Readers : Available(r)' = Available(r)
            BY <2>1 DEF Available
      <2>3. NotificationPending'
            BY <2>1, <2>2, NothingNew DEF SoleInv
      <2>4. WakerInv'
            BY <2>1 DEF SoleInv, WakerInv
      <2>5. MarkerInv'
            BY <2>1, MarkerStays DEF SoleInv, MarkerMoves
      <2> QED  BY <2>3, <2>4, <2>5 DEF SoleInv
<1>3. CASE NotifyCacheChange
      <2>1. MarkerMoves
            BY <1>3 DEF NotifyCacheChange, MarkerMoves
      <2> QED  BY <1>3, <2>1, NotifyWakes, MarkerStays DEF SoleInv
<1>4. ASSUME NEW r \in Readers, Control(r) PROVE SoleInv'
      <2>1. MarkerMoves
            BY <1>4 DEF Control, Begin, FoundNothing, SetWaker, ReturnPending, Woken, MarkerMoves
      <2> QED  BY <1>4, <2>1, ControlWakes, MarkerStays DEF SoleInv
<1>5. ASSUME NEW r \in Readers, TryTakeOne(r) \/ Access(r) PROVE SoleInv'
      <2>1. MarkerMoves
            BY <1>5, TakeFrame, AccessForm DEF MarkerMoves
      <2> QED  BY <1>5, <2>1, TakeWakes, MarkerStays DEF SoleInv
<1> QED  BY <1>1, <1>2, <1>3, <1>4, <1>5 DEF Next, ThreadStep, Control

LEMMA SoleInit == Init => SoleInv
<1> SUFFICES ASSUME Init PROVE SoleInv
      OBVIOUS
<1>1. MarkerInv
      <2>1. \A w \in Writers : tc.received_reliably_before[w] = 1
            BY DEF Init, NewTopicCache
      <2>2. \A s \in SN : ~(s < 1)
            BY DEF SN
      <2> QED  BY <2>1, <2>2 DEF MarkerInv
<1>2. \A r \in Readers : pc[r] = "idle"
      BY DEF Init
<1>3. \A r \in Readers : Available(r) = {}
      <2>1. tc.changes = << >> /\ tc.sequence_numbers = << >>
            BY DEF Init, NewTopicCache
      <2>2. DOMAIN tc.changes = {} /\ DOMAIN tc.sequence_numbers = {}
            BY <2>1
      <2> QED  BY <2>2 DEF Available, in_range_reliable, in_range_best_effort
<1> QED  BY <1>1, <1>2, <1>3 DEF SoleInv, WakerInv, NotificationPending

\* With one Reader the marker and the wake-up protocol keep their promises too.
LEMMA SoleHolds ==
    ASSUME Sole
    PROVE  Spec => [](IInv /\ SoleInv)
<1>1. IInv /\ SoleInv /\ [Next]_vars => (IInv /\ SoleInv)'
      BY StepInv, SoleStep
<1>2. Init => IInv /\ SoleInv
      BY InitInv, SoleInit
<1> QED  BY <1>1, <1>2, PTL DEF Spec

\* No wake-up is lost: however the event loop and the application's thread
\* interleave, a sample that can be taken has a notification or a wake-up
\* waiting (reader.rs:1211-1236, datareader.rs poll_next).  Proved for a topic
\* with one Reader: several overwrite each other's marker.
THEOREM NoWakeUpLost ==
    ASSUME Readers = {TheReader}
    PROVE  Spec => []NotificationPending
<1>1. Sole
      BY DEF Sole
<1>2. Spec => [](IInv /\ SoleInv)
      BY <1>1, SoleHolds
<1>3. SoleInv => NotificationPending
      BY DEF SoleInv
<1> QED  BY <1>2, <1>3, PTL

----------------------------------------------------------------------------
(* The refinement of ReliableDelivery *)

\* Only TryTakeOne touches what was taken.
LEMMA TakenUndisturbed ==
    ASSUME IInv, [Next]_vars
    PROVE  UNCHANGED <<qos, state, given>> \/ \E r \in Readers : TryTakeOne(r)
<1>1. ASSUME EventLoop PROVE UNCHANGED <<qos, state, given>>
      BY <1>1 DEF EventLoop, MatchWriter, WriterLost, HandleData, HandleHeartbeat, HandleGap,
             Progress, GarbageCollect, threadVars
<1>2. ASSUME NEW w \in Writers, RemoveOldest(w) \/ \E p \in qos.payloads : Write(w, p)
      PROVE  UNCHANGED <<qos, state, given>>
      BY <1>2 DEF RemoveOldest, Write, threadVars
<1>3. ASSUME NotifyCacheChange PROVE UNCHANGED <<qos, state, given>>
      BY <1>3 DEF NotifyCacheChange, threadVars
<1>4. ASSUME NEW r \in Readers, Control(r) \/ Access(r) PROVE UNCHANGED <<qos, state, given>>
      BY <1>4 DEF Control, Begin, FoundNothing, SetWaker, ReturnPending, Woken, Access
<1>5. ASSUME UNCHANGED vars PROVE UNCHANGED <<qos, state, given>>
      BY <1>5 DEF vars, threadVars
<1> QED  BY <1>1, <1>2, <1>3, <1>4, <1>5 DEF Next, ThreadStep, Control

\* What is skipped by the next sample to take was given up.
LEMMA SkippedIsGivenUp ==
    ASSUME IInv, SoleInv, qos.reliable, NEW r \in Readers, NEW ts \in Available(r),
           NEW w \in Writers, NEW sn \in SN,
           tc.changes[ts].writer = w, tc.changes[ts].sn = sn,
           sn < tc.received_reliably_before[w],
           \A u \in Available(r) \ {ts} : Before(tc, qos.reliable, ts, u),
           NEW t \in SN, state[r].last_read_sn[w] < t, t < sn
    PROVE  t \in GivenUp(r, w)
<1>1. tc.received_reliably_before[w] \in Int
      BY DEF IInv, CacheInv, Indexed
<1>2. t < tc.received_reliably_before[w]
      BY <1>1 DEF SN
<1>3. Accounted(r, w, t)
      BY <1>2 DEF SoleInv, MarkerInv
<1>4. ASSUME Stored(w, t) PROVE FALSE
      <2>1. PICK i : i = <<w, t>> /\ i \in DOMAIN tc.sequence_numbers
            BY <1>4 DEF Stored
      <2>2. PICK u : u = tc.sequence_numbers[i]
            OBVIOUS
      <2>3. tc.changes[u] = [writer |-> w, sn |-> t]
            BY <2>1, <2>2 DEF IInv, CacheInv, Indexed
      <2>4. tc.changes[u].writer = w /\ tc.changes[u].sn = t
            BY <2>3
      <2>5. u # ts
            BY <2>4 DEF SN
      <2>6. u \in Available(r)
            <3>1. i[1] = w /\ i[2] = t  BY <2>1
            <3>2. state[r].last_read_sn[w] \in Int
                  BY DEF IInv, ThreadInv, IsState
            <3>3. i[2] > state[r].last_read_sn[i[1]]
                  BY <3>1, <3>2 DEF SN
            <3> QED  BY <1>2, <2>1, <2>2, <3>1, <3>3 DEF Available, in_range_reliable
      <2>7. Before(tc, qos.reliable, ts, u)
            BY <2>5, <2>6
      <2>8. w \in Nat
            BY WritersAssumption
      <2>9. w < w \/ sn < t
            BY <2>4, <2>7 DEF Before
      <2> QED  BY <2>8, <2>9 DEF SN
<1> QED  BY <1>3, <1>4 DEF Accounted

LEMMA DeliveryInit == Init => Delivery!Init
<1> SUFFICES ASSUME Init PROVE Delivery!Init
      OBVIOUS
<1>1. LastTaken(TheReader, TheWriter) = 0
      BY ReadingAssumption DEF Init, LastTaken
<1>2. TakenOf(TheReader, TheWriter) = {}
      BY ReadingAssumption DEF Init, TakenOf
<1>3. GivenUp(TheReader, TheWriter) \in SUBSET SN
      BY DEF GivenUp
<1> QED  BY <1>1, <1>2, <1>3 DEF Delivery!Init

\* A step that takes nothing from this Writer gives up at most.
LEMMA GivesUp ==
    ASSUME IInv, IInv', Monotone,
           LastTaken(TheReader, TheWriter)' = LastTaken(TheReader, TheWriter),
           TakenOf(TheReader, TheWriter)' = TakenOf(TheReader, TheWriter)
    PROVE  Delivery!Next
<1>1. GivenUp(TheReader, TheWriter) \subseteq GivenUp(TheReader, TheWriter)'
      BY GivenUpGrows, ReadingAssumption DEF IInv
<1>2. GivenUp(TheReader, TheWriter)' \in SUBSET SN
      BY DEF GivenUp
<1>3. Delivery!GiveUp
      BY <1>1, <1>2 DEF Delivery!GiveUp
<1> QED  BY <1>3 DEF Delivery!Next

LEMMA DeliveryStep ==
    ASSUME Sole, IInv, IInv', Monotone, SoleInv, [Next]_vars
    PROVE  Delivery!Next
<1>1. CASE UNCHANGED <<qos, state, given>>
      <2>1. LastTaken(TheReader, TheWriter)' = LastTaken(TheReader, TheWriter)
            BY <1>1 DEF LastTaken
      <2>2. TakenOf(TheReader, TheWriter)' = TakenOf(TheReader, TheWriter)
            BY <1>1 DEF TakenOf
      <2> QED  BY <2>1, <2>2, GivesUp
<1>2. ASSUME NEW r \in Readers, TryTakeOne(r) PROVE Delivery!Next
      <2>1. r = TheReader
            BY DEF Sole
      <2>2. UNCHANGED <<qos, first, since, evicted>>
            BY <1>2, TakeFrame
      <2>3. GivenUp(r, TheWriter)' = GivenUp(r, TheWriter)
            BY <2>2 DEF GivenUp
      <2>4. PICK ts \in Available(r), w \in Writers, sn \in SN :
               /\ tc.changes[ts].writer = w /\ tc.changes[ts].sn = sn
               /\ qos.reliable =>
                    sn > state[r].last_read_sn[w] /\ sn < tc.received_reliably_before[w]
               /\ \A u \in Available(r) \ {ts} : Before(tc, qos.reliable, ts, u)
               /\ Spins(r) \/ Takes(r, w, sn)
            BY <1>2, TakeForm
      <2>5. CASE ~qos.reliable
            <3>1. LastTaken(TheReader, TheWriter)' = LastTaken(TheReader, TheWriter)
                  BY <2>2, <2>5 DEF LastTaken
            <3>2. TakenOf(TheReader, TheWriter)' = TakenOf(TheReader, TheWriter)
                  BY <2>2, <2>5 DEF TakenOf
            <3> QED  BY <3>1, <3>2, GivesUp
      <2>6. CASE Spins(r)
            <3>1. LastTaken(TheReader, TheWriter)' = LastTaken(TheReader, TheWriter)
                  BY <2>1, <2>2, <2>6 DEF LastTaken, Spins
            <3>2. TakenOf(TheReader, TheWriter)' = TakenOf(TheReader, TheWriter)
                  BY <2>1, <2>2, <2>6 DEF TakenOf, Spins
            <3> QED  BY <3>1, <3>2, GivesUp
      <2>7. ASSUME qos.reliable, Takes(r, w, sn), w # TheWriter PROVE Delivery!Next
            <3>1. state[r].last_read_sn \in [Writers -> 0 .. MaxSN] /\ TheWriter \in Writers
                  BY ReadingAssumption DEF IInv, ThreadInv, IsState
            <3>2. LastTaken(TheReader, TheWriter)' = LastTaken(TheReader, TheWriter)
                  BY <2>1, <2>2, <2>7, <3>1 DEF LastTaken, Takes
            <3>3. \A s \in SN : Sample(TheWriter, s) \in given'[r]
                                  <=> Sample(TheWriter, s) \in given[r]
                  BY <2>7 DEF Takes, Sample
            <3>4. TakenOf(TheReader, TheWriter)' = TakenOf(TheReader, TheWriter)
                  BY <2>1, <2>2, <3>3 DEF TakenOf, Sample
            <3> QED  BY <3>2, <3>4, GivesUp
      <2>8. ASSUME qos.reliable, Takes(r, w, sn), w = TheWriter PROVE Delivery!Next
            <3>1. state[r].last_read_sn \in [Writers -> 0 .. MaxSN] /\ TheWriter \in Writers
                  BY ReadingAssumption DEF IInv, ThreadInv, IsState
            <3>2. LastTaken(TheReader, TheWriter) = state[r].last_read_sn[w]
                  BY <2>1, <2>8 DEF LastTaken
            <3>3. LastTaken(TheReader, TheWriter)' = sn
                  BY <2>1, <2>2, <2>8, <3>1 DEF LastTaken, Takes
            <3>4. sn > LastTaken(TheReader, TheWriter)
                  BY <2>4, <2>8, <3>2
            <3>5. ASSUME NEW t \in SN, LastTaken(TheReader, TheWriter) < t, t < sn
                  PROVE  t \in GivenUp(TheReader, TheWriter)
                  BY <2>1, <2>4, <2>8, <3>2, <3>5, SkippedIsGivenUp
            <3>6. \A s \in SN : Sample(TheWriter, s) \in given'[r]
                                  <=> Sample(TheWriter, s) \in given[r] \/ s = sn
                  BY <2>8 DEF Takes, Sample
            <3>7. TakenOf(TheReader, TheWriter)' = TakenOf(TheReader, TheWriter) \cup {sn}
                  BY <2>1, <2>2, <2>8, <3>6 DEF TakenOf, Sample
            <3>8. GivenUp(TheReader, TheWriter)' = GivenUp(TheReader, TheWriter)
                  BY <2>1, <2>3
            <3>9. Delivery!Deliver(sn)
                  BY <3>3, <3>4, <3>5, <3>7, <3>8 DEF Delivery!Deliver
            <3> QED  BY <3>9 DEF Delivery!Next
      <2> QED  BY <2>4, <2>5, <2>6, <2>7, <2>8
<1> QED  BY <1>1, <1>2, TakenUndisturbed

\* A reliable DataReader implements ReliableDelivery for every Writer: samples
\* are taken in the order of their numbers, each once, and a number is passed
\* over only after the Writer removed it, it preceded the match or it was
\* evicted (dds_cache.rs:279-320, simpledatareader.rs:350-402).
THEOREM DeliveryIsReliable ==
    ASSUME Readers = {TheReader}
    PROVE  Spec => ImplementsReliableDelivery
<1>1. Sole
      BY DEF Sole
<1>2. Spec => [](IInv /\ SoleInv)
      BY <1>1, SoleHolds
<1>3. (IInv /\ SoleInv) /\ [Next]_vars => [Delivery!Next]_(Delivery!vars)
      BY <1>1, StepInv, DeliveryStep
<1> QED  BY <1>2, <1>3, DeliveryInit, PTL DEF Spec, ImplementsReliableDelivery, Delivery!Spec

=============================================================================
