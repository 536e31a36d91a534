------------------------- MODULE WriterProxyProofs -------------------------
(***************************************************************************)
(* Lemmas about the operators of RtpsWriterProxy for every MaxSN: which    *)
(* numbers each of them makes known, and that ack_base only moves forward. *)
(* The proofs about modules that use a proxy cite them.  Then the theorems *)
(* about WriterProxyTracking: the bookkeeping is exact for every sequence  *)
(* of messages.                                                            *)
(***************************************************************************)
EXTENDS WriterProxyTracking, TLAPS, WellFoundedInduction

\* Every non-empty set of naturals has a least element.
LEMMA LeastNatural ==
    ASSUME NEW T \in SUBSET Nat, T # {}
    PROVE  \E m \in T : \A n \in T : m <= n
<1>1. PICK m \in T : \A n \in T : ~ (<<n, m>> \in OpToRel(<, Nat))
      BY NatLessThanWellFounded, WFMin, Zenon
<1>2. ASSUME NEW n \in T PROVE m <= n
      <2>1. <<n, m>> \notin OpToRel(<, Nat)  BY <1>1
      <2>2. n \in Nat /\ m \in Nat           OBVIOUS
      <2>3. ~(n < m)                         BY <2>1, <2>2, Zenon DEF OpToRel
      <2> QED  BY <2>2, <2>3, SMT
<1> QED  BY <1>2

\* advance_ack_base's search ends at the first number that is not known.
LEMMA FirstUnknownIsFirst ==
    ASSUME NEW known \in SUBSET SN, NEW base \in 1 .. MaxSN + 1
    PROVE  LET f == FirstUnknown(known, base)
           IN  /\ f \in base .. MaxSN + 1
               /\ f \notin known
               /\ \A t \in base .. f - 1 : t \in known
<1> DEFINE T == {s \in base .. MaxSN + 1 : s \notin known}
<1>1. T \in SUBSET Nat  BY MaxSNAssumption
<1>2. MaxSN + 1 \in T  BY MaxSNAssumption DEF SN
<1>3. PICK m \in T : \A n \in T : m <= n  BY <1>1, <1>2, LeastNatural
<1>4. \A t \in base .. m - 1 : t \in known
      BY <1>3, MaxSNAssumption
<1> QED  BY <1>3, <1>4 DEF FirstUnknown

-----------------------------------------------------------------------------
(* What each operation adds to the numbers the proxy knows. *)

\* A number is known when it is below ack_base or among the changes.
LEMMA KnownMembership ==
    ASSUME NEW p, NEW s \in SN
    PROVE  s \in Known(p) <=> (s < p.ack_base \/ s \in p.changes)
BY DEF Known, should_ignore_change

\* advance_ack_base keeps the known numbers and restores consistency.
LEMMA AdvanceAckBase ==
    ASSUME NEW p \in WriterProxyType
    PROVE  /\ Consistent(advance_ack_base(p))
           /\ Known(advance_ack_base(p)) = Known(p)
           /\ advance_ack_base(p).ack_base >= p.ack_base
<1> DEFINE f == FirstUnknown(p.changes, p.ack_base)
           q == advance_ack_base(p)
<1>1. p.changes \in SUBSET SN /\ p.ack_base \in 1 .. MaxSN + 1
      BY DEF WriterProxyType
<1>2. /\ f \in p.ack_base .. MaxSN + 1
      /\ f \notin p.changes
      /\ \A t \in p.ack_base .. f - 1 : t \in p.changes
      BY <1>1, FirstUnknownIsFirst
<1>3. q = [p EXCEPT !.ack_base = f]  BY DEF advance_ack_base
<1> HIDE DEF f
<1>4. q \in WriterProxyType /\ q.ack_base = f /\ q.changes = p.changes
      BY <1>1, <1>2, <1>3, MaxSNAssumption DEF WriterProxyType
<1> HIDE DEF q
<1>5. ASSUME NEW s \in SN PROVE s \in Known(q) <=> s \in Known(p)
      BY <1>1, <1>2, <1>4, KnownMembership, MaxSNAssumption DEF SN
<1>6. Known(q) = Known(p)  BY <1>5 DEF Known
<1>7. Consistent(q)  BY <1>2, <1>4 DEF Consistent
<1>8. q.ack_base >= p.ack_base  BY <1>1, <1>2, <1>4, MaxSNAssumption
<1> QED  BY <1>6, <1>7, <1>8 DEF q

\* received_changes_add makes exactly sn known.
LEMMA ReceivedChangesAdd ==
    ASSUME NEW p, Consistent(p), NEW sn \in SN, ~should_ignore_change(p, sn)
    PROVE  /\ Consistent(received_changes_add(p, sn))
           /\ Known(received_changes_add(p, sn)) = Known(p) \cup {sn}
           /\ received_changes_add(p, sn).ack_base >= p.ack_base
<1> DEFINE a == [p EXCEPT !.changes = @ \cup {sn}]
<1>1. p.changes \in SUBSET SN /\ p.ack_base \in 1 .. MaxSN + 1
      BY DEF Consistent, WriterProxyType
<1>2. a \in WriterProxyType /\ a.ack_base = p.ack_base /\ a.changes = p.changes \cup {sn}
      BY DEF Consistent, WriterProxyType
<1> HIDE DEF a
<1>3. ASSUME NEW s \in SN PROVE s \in Known(a) <=> s \in Known(p) \cup {sn}
      BY <1>2, KnownMembership
<1>4. Known(a) = Known(p) \cup {sn}  BY <1>3 DEF Known
<1>5. CASE sn = p.ack_base
      BY <1>2, <1>4, <1>5, AdvanceAckBase DEF received_changes_add, a
<1>6. CASE sn # p.ack_base
      <2>1. received_changes_add(p, sn) = a  BY <1>6 DEF received_changes_add, a
      <2>2. Consistent(a)  BY <1>2, <1>6 DEF Consistent
      <2> QED  BY <1>1, <1>2, <1>4, <2>1, <2>2, MaxSNAssumption
<1> QED  BY <1>5, <1>6

\* A GAP's list makes exactly its members known.
LEMMA SetIrrelevantChanges ==
    ASSUME NEW p, Consistent(p), NEW list \in SUBSET SN
    PROVE  /\ Consistent(set_irrelevant_changes(p, list))
           /\ Known(set_irrelevant_changes(p, list)) = Known(p) \cup list
           /\ set_irrelevant_changes(p, list).ack_base >= p.ack_base
<1> DEFINE a == [p EXCEPT !.changes = @ \cup {s \in list : s >= p.ack_base}]
<1>1. p.changes \in SUBSET SN /\ p.ack_base \in 1 .. MaxSN + 1
      BY DEF Consistent, WriterProxyType
<1>2. /\ a \in WriterProxyType
      /\ a.ack_base = p.ack_base
      /\ a.changes = p.changes \cup {s \in list : s >= p.ack_base}
      BY DEF Consistent, WriterProxyType
<1>3. set_irrelevant_changes(p, list) = advance_ack_base(a)
      BY DEF set_irrelevant_changes
<1> HIDE DEF a
<1>4. ASSUME NEW s \in SN PROVE s \in Known(a) <=> s \in Known(p) \cup list
      BY <1>1, <1>2, KnownMembership, MaxSNAssumption DEF SN
<1>5. Known(a) = Known(p) \cup list  BY <1>4 DEF Known
<1> QED  BY <1>2, <1>3, <1>5, AdvanceAckBase

\* A range makes exactly its numbers known, although it drops some of them
\* from "changes".
LEMMA IrrelevantChangesRange ==
    ASSUME NEW p, Consistent(p), NEW from \in 0 .. MaxSN + 1,
           NEW until \in 1 .. MaxSN + 1
    PROVE  LET q == irrelevant_changes_range(p, from, until)
           IN  /\ Consistent(q)
               /\ Known(q) = Known(p) \cup {s \in SN : from <= s /\ s < until}
               /\ q.ack_base >= p.ack_base
<1> DEFINE range == from .. until - 1
           q     == irrelevant_changes_range(p, from, until)
           c     == [p EXCEPT !.changes = @ \ range]
           G     == {s \in SN : from <= s /\ s < until}
<1>1. p \in WriterProxyType /\ p.changes \in SUBSET SN /\ p.ack_base \in 1 .. MaxSN + 1
      /\ p.ack_base \notin p.changes
      BY DEF Consistent, WriterProxyType
<1>2. c \in WriterProxyType /\ c.ack_base = p.ack_base /\ c.changes = p.changes \ range
      BY <1>1 DEF WriterProxyType
<1>3. CASE from > until
      <2>1. q = p  BY <1>3 DEF irrelevant_changes_range
      <2>2. G = {}  BY <1>3, MaxSNAssumption DEF SN
      <2> QED  BY <1>1, <2>1, <2>2, MaxSNAssumption
<1>4. CASE from <= until /\ from <= p.ack_base /\ until > p.ack_base
      <2> DEFINE d == [c EXCEPT !.ack_base = until]
      <2>1. q = advance_ack_base(d)
            BY <1>1, <1>4, MaxSNAssumption DEF irrelevant_changes_range
      <2>2. d \in WriterProxyType /\ d.ack_base = until /\ d.changes = p.changes \ range
            BY <1>2 DEF WriterProxyType
      <2> HIDE DEF d
      <2>3. ASSUME NEW s \in SN PROVE s \in Known(d) <=> s \in Known(p) \cup G
            BY <1>1, <1>4, <2>2, KnownMembership, MaxSNAssumption DEF SN
      <2>4. Known(d) = Known(p) \cup G  BY <2>3 DEF Known
      <2> HIDE DEF q
      <2>5. Consistent(q) /\ Known(q) = Known(p) \cup G /\ q.ack_base >= until
            BY <2>1, <2>2, <2>4, AdvanceAckBase
      <2>6. q.ack_base \in 1 .. MaxSN + 1  BY <2>5 DEF Consistent, WriterProxyType
      <2> QED  BY <1>1, <1>4, <2>5, <2>6, MaxSNAssumption DEF q
<1>5. CASE from <= until /\ from <= p.ack_base /\ ~(until > p.ack_base)
      <2>1. q = c  BY <1>1, <1>5, MaxSNAssumption DEF irrelevant_changes_range
      <2> HIDE DEF c
      <2>2. ASSUME NEW s \in SN PROVE s \in Known(c) <=> s \in Known(p) \cup G
            BY <1>1, <1>2, <1>5, KnownMembership, MaxSNAssumption DEF SN
      <2>3. Known(c) = Known(p) \cup G  BY <2>2 DEF Known
      <2>4. Consistent(c)  BY <1>1, <1>2 DEF Consistent
      <2> QED  BY <1>1, <1>2, <2>1, <2>3, <2>4, MaxSNAssumption
<1>6. CASE from <= until /\ ~(from <= p.ack_base)
      <2> DEFINE d == [p EXCEPT !.changes = @ \cup range]
      <2>1. q = d  BY <1>1, <1>6, MaxSNAssumption DEF irrelevant_changes_range
      <2>2. range \subseteq SN  BY <1>1, <1>6, MaxSNAssumption DEF SN
      <2>3. d \in WriterProxyType /\ d.ack_base = p.ack_base /\ d.changes = p.changes \cup range
            BY <1>1, <2>2 DEF WriterProxyType
      <2> HIDE DEF d
      <2>4. ASSUME NEW s \in SN PROVE s \in Known(d) <=> s \in Known(p) \cup G
            BY <1>1, <1>6, <2>3, KnownMembership, MaxSNAssumption DEF SN
      <2>5. Known(d) = Known(p) \cup G  BY <2>4 DEF Known
      <2>6. Consistent(d)  BY <1>1, <1>6, <2>3, MaxSNAssumption DEF Consistent
      <2> QED  BY <1>1, <2>1, <2>3, <2>5, <2>6, MaxSNAssumption
<1> QED  BY <1>1, <1>3, <1>4, <1>5, <1>6, MaxSNAssumption

-----------------------------------------------------------------------------
(* The loop of handle_gap_msg. *)

\* Induction over the naturals, for a set instead of a formula.
LEMMA InductionOverSet ==
    ASSUME NEW T \in SUBSET Nat, 0 \in T, \A n \in T : n + 1 \in T
    PROVE  T = Nat
<1> SUFFICES ASSUME Nat \ T # {} PROVE FALSE  OBVIOUS
<1>1. PICK m \in Nat \ T : \A n \in Nat \ T : m <= n  BY LeastNatural
<1>2. m - 1 \in T  BY <1>1, m # 0
<1> QED  BY <1>1, <1>2, (m - 1) + 1 = m

\* There is only one first unknown number.
LEMMA FirstUnknownIsUnique ==
    ASSUME NEW known \in SUBSET SN, NEW base \in 1 .. MaxSN + 1, NEW f \in base .. MaxSN + 1,
           f \notin known, \A t \in base .. f - 1 : t \in known
    PROVE  FirstUnknown(known, base) = f
<1>1. PICK g : g = FirstUnknown(known, base)  OBVIOUS
<1>2. g \in base .. MaxSN + 1 /\ g \notin known /\ \A t \in base .. g - 1 : t \in known
      BY <1>1, FirstUnknownIsFirst
<1>3. ~(g < f) /\ ~(f < g)  BY <1>2, MaxSNAssumption
<1> QED  BY <1>1, <1>2, <1>3, MaxSNAssumption

\* What set_irrelevant_changes makes of a proxy.
LEMMA SetIrrelevantChangesFields ==
    ASSUME NEW p, Consistent(p), NEW list \in SUBSET SN
    PROVE  LET known == p.changes \cup {s \in list : s >= p.ack_base}
           IN  set_irrelevant_changes(p, list) =
                   [changes |-> known, ack_base |-> FirstUnknown(known, p.ack_base),
                    received_heartbeat_count |-> p.received_heartbeat_count]
<1> DEFINE known == p.changes \cup {s \in list : s >= p.ack_base}
           marked == [changes |-> known, ack_base |-> p.ack_base,
                      received_heartbeat_count |-> p.received_heartbeat_count]
<1>1. p = [changes |-> p.changes, ack_base |-> p.ack_base,
           received_heartbeat_count |-> p.received_heartbeat_count]
      BY DEF Consistent, WriterProxyType
<1>2. [p EXCEPT !.changes = known] = marked  BY <1>1
<1>3. set_irrelevant_changes(p, list) = [marked EXCEPT !.ack_base = FirstUnknown(known, p.ack_base)]
      <2> HIDE DEF known
      <2>1. marked.changes = known /\ marked.ack_base = p.ack_base  OBVIOUS
      <2> HIDE DEF marked
      <2>2. advance_ack_base(marked) = [marked EXCEPT !.ack_base = FirstUnknown(known, p.ack_base)]
            BY <2>1 DEF advance_ack_base
      <2> QED  BY <1>2, <2>2 DEF set_irrelevant_changes, known
<1> HIDE DEF known
<1> QED  BY <1>3 DEF known

\* One more number of the list: whether it is known already, is the one ack_base
\* waits for, or lies above, the proxy is the one the longer list gives.
LEMMA OneMoreIrrelevant ==
    ASSUME NEW p, Consistent(p), NEW list \in SUBSET SN, NEW n \in SN
    PROVE  set_irrelevant_change(set_irrelevant_changes(p, list), n) =
               set_irrelevant_changes(p, list \cup {n})
<1> DEFINE known == p.changes \cup {s \in list : s >= p.ack_base}
           more  == p.changes \cup {s \in list \cup {n} : s >= p.ack_base}
           count == p.received_heartbeat_count
<1>1. PICK a : a = p.ack_base  OBVIOUS
<1>2. a \in 1 .. MaxSN + 1 /\ p.changes \in SUBSET SN /\ n \in 1 .. MaxSN + 1
      BY <1>1, MaxSNAssumption DEF Consistent, WriterProxyType, SN
<1>3. known \in SUBSET SN /\ more \in SUBSET SN /\ more = known \cup {s \in {n} : s >= a}
      BY <1>1, <1>2
<1>4. PICK f : f = FirstUnknown(known, a)  OBVIOUS
<1>5. PICK q : q = [changes |-> known, ack_base |-> f, received_heartbeat_count |-> count]
      OBVIOUS
<1>6. q = set_irrelevant_changes(p, list)  BY <1>1, <1>4, <1>5, SetIrrelevantChangesFields
<1>7. set_irrelevant_changes(p, list \cup {n}) =
          [changes |-> more, ack_base |-> FirstUnknown(more, a), received_heartbeat_count |-> count]
      BY <1>1, SetIrrelevantChangesFields
<1> HIDE DEF known, more
<1>8. f \in a .. MaxSN + 1 /\ f \notin known /\ \A t \in a .. f - 1 : t \in known
      BY <1>2, <1>3, <1>4, FirstUnknownIsFirst
<1> SUFFICES set_irrelevant_change(q, n) =
          [changes |-> more, ack_base |-> FirstUnknown(more, a), received_heartbeat_count |-> count]
    BY <1>6, <1>7
<1>9. q.changes = known /\ q.ack_base = f /\ q.received_heartbeat_count = count  BY <1>5
<1>10. CASE n < f
      <2>1. more = known  BY <1>2, <1>3, <1>8, <1>10, MaxSNAssumption
      <2>2. set_irrelevant_change(q, n) = q
            BY <1>2, <1>8, <1>9, <1>10, MaxSNAssumption DEF set_irrelevant_change
      <2> QED  BY <1>4, <1>5, <2>1, <2>2
<1>11. CASE n > f
      <2>1. more = known \cup {n}  BY <1>2, <1>3, <1>8, <1>11, MaxSNAssumption
      <2>2. set_irrelevant_change(q, n) = [q EXCEPT !.changes = known \cup {n}]
            BY <1>2, <1>8, <1>9, <1>11, MaxSNAssumption DEF set_irrelevant_change
      <2>3. FirstUnknown(more, a) = f
            BY <1>2, <1>3, <1>8, <1>11, <2>1, FirstUnknownIsUnique, MaxSNAssumption
      <2> QED  BY <1>5, <2>1, <2>2, <2>3
<1>12. CASE n = f
      <2>1. more = known \cup {n}  BY <1>2, <1>3, <1>8, <1>12, MaxSNAssumption
      <2>2. PICK g : g = FirstUnknown(more, f)  OBVIOUS
      <2>3. g \in f .. MaxSN + 1 /\ g \notin more /\ \A t \in f .. g - 1 : t \in more
            BY <1>2, <1>3, <1>8, <2>2, FirstUnknownIsFirst, MaxSNAssumption
      <2>4. \A t \in a .. g - 1 : t \in more
            BY <1>2, <1>8, <2>1, <2>3, MaxSNAssumption
      <2>5. FirstUnknown(more, a) = g
            BY <1>2, <1>3, <1>8, <2>3, <2>4, FirstUnknownIsUnique, MaxSNAssumption
      <2>6. PICK r : r = [changes |-> more, ack_base |-> f, received_heartbeat_count |-> count]
            OBVIOUS
      <2>7. r = [q EXCEPT !.changes = q.changes \cup {n}]  BY <1>5, <1>9, <1>12, <2>1, <2>6
      <2>8. advance_ack_base(r) = [r EXCEPT !.ack_base = g]  BY <2>2, <2>6 DEF advance_ack_base
      <2>9. n >= q.ack_base /\ n = q.ack_base  BY <1>2, <1>9, <1>12
      <2>10. set_irrelevant_change(q, n) = advance_ack_base(r)
            BY <2>7, <2>9 DEF set_irrelevant_change
      <2> QED  BY <2>5, <2>6, <2>8, <2>10
<1> QED  BY <1>2, <1>8, <1>10, <1>11, <1>12, MaxSNAssumption

\* The loop over a GAP's list has done, after the bits up to n, what the closed
\* form does for the numbers up to n.
LEMMA GapListLoopIsClosedForm ==
    ASSUME NEW p, Consistent(p), NEW list \in SUBSET SN
    PROVE  gap_list_loop(p, list) = set_irrelevant_changes(p, list)
<1> DEFINE upTo(n) == list \cap (1 .. n)
           closed == [n \in 0 .. MaxSN |-> set_irrelevant_changes(p, upTo(n))]
           Loop(w) == w = [n \in 0 .. MaxSN |->
                              IF n = 0 THEN p
                              ELSE IF n \in list THEN set_irrelevant_change(w[n - 1], n)
                              ELSE w[n - 1]]
           walk == CHOOSE w : Loop(w)
<1>1. set_irrelevant_changes(p, {}) = p
      <2>1. p.changes \in SUBSET SN /\ p.ack_base \in 1 .. MaxSN + 1 /\ p.ack_base \notin p.changes
            BY DEF Consistent, WriterProxyType
      <2>2. FirstUnknown(p.changes, p.ack_base) = p.ack_base
            BY <2>1, FirstUnknownIsUnique, MaxSNAssumption
      <2>3. p = [changes |-> p.changes, ack_base |-> p.ack_base,
                 received_heartbeat_count |-> p.received_heartbeat_count]
            BY DEF Consistent, WriterProxyType
      <2>4. PICK known : known = p.changes \cup {s \in {} : s >= p.ack_base}  OBVIOUS
      <2>5. known = p.changes  BY <2>4
      <2>6. set_irrelevant_changes(p, {}) =
                [changes |-> known, ack_base |-> FirstUnknown(known, p.ack_base),
                 received_heartbeat_count |-> p.received_heartbeat_count]
            BY <2>4, SetIrrelevantChangesFields
      <2> QED  BY <2>2, <2>3, <2>5, <2>6
<1>2. ASSUME NEW n \in 1 .. MaxSN
      PROVE  set_irrelevant_changes(p, upTo(n)) =
                 IF n \in list THEN set_irrelevant_change(set_irrelevant_changes(p, upTo(n - 1)), n)
                 ELSE set_irrelevant_changes(p, upTo(n - 1))
      <2>1. upTo(n - 1) \in SUBSET SN /\ n \in SN  BY DEF SN
      <2>2. CASE n \in list
            <3>1. upTo(n) = upTo(n - 1) \cup {n}  BY <2>2, MaxSNAssumption
            <3> QED  BY <2>1, <2>2, <3>1, OneMoreIrrelevant
      <2>3. CASE n \notin list
            <3>1. upTo(n) = upTo(n - 1)  BY <2>3, MaxSNAssumption DEF SN
            <3> QED  BY <2>3, <3>1
      <2> QED  BY <2>2, <2>3
<1>3. upTo(0) = {} /\ upTo(MaxSN) = list
      <2>1. 1 .. 0 = {}  BY MaxSNAssumption
      <2>2. 1 .. MaxSN = SN  BY DEF SN
      <2> QED  BY <2>1, <2>2
<1>4. Loop(closed)
      <2>1. ASSUME NEW n \in 0 .. MaxSN
            PROVE  closed[n] = IF n = 0 THEN p
                               ELSE IF n \in list THEN set_irrelevant_change(closed[n - 1], n)
                               ELSE closed[n - 1]
            <3>1. CASE n = 0  BY <1>1, <1>3, <3>1
            <3>2. CASE n # 0
                  <4>1. n \in 1 .. MaxSN /\ n - 1 \in 0 .. MaxSN  BY <3>2, MaxSNAssumption
                  <4> HIDE DEF upTo
                  <4>2. closed[n] = set_irrelevant_changes(p, upTo(n))
                        /\ closed[n - 1] = set_irrelevant_changes(p, upTo(n - 1))
                        BY <4>1
                  <4> QED  BY <1>2, <3>2, <4>1, <4>2
            <3> QED  BY <3>1, <3>2
      <2> HIDE DEF upTo
      <2>2. closed = [n \in 0 .. MaxSN |-> closed[n]]  OBVIOUS
      <2> QED  BY <2>1, <2>2, Zenon
<1>5. Loop(walk)  BY <1>4, Zenon
<1>6. gap_list_loop(p, list) = walk[MaxSN]  BY DEF gap_list_loop
<1> HIDE DEF walk, closed, upTo
<1>7. \A n \in 0 .. MaxSN :
          walk[n] = IF n = 0 THEN p
                    ELSE IF n \in list THEN set_irrelevant_change(walk[n - 1], n)
                    ELSE walk[n - 1]
      BY <1>5, Zenon
<1> DEFINE Same == {n \in Nat : n <= MaxSN => walk[n] = set_irrelevant_changes(p, upTo(n))}
<1>8. 0 \in Same  BY <1>1, <1>3, <1>7, MaxSNAssumption
<1>9. ASSUME NEW n \in Same PROVE n + 1 \in Same
      <2> SUFFICES ASSUME n + 1 <= MaxSN PROVE walk[n + 1] = set_irrelevant_changes(p, upTo(n + 1))
          OBVIOUS
      <2>1. n \in Nat /\ n + 1 \in 1 .. MaxSN /\ n + 1 \in 0 .. MaxSN /\ (n + 1) - 1 = n /\ n + 1 # 0
            BY MaxSNAssumption
      <2>2. n <= MaxSN  BY <2>1, MaxSNAssumption
      <2>3. walk[n] = set_irrelevant_changes(p, upTo(n))  BY <2>1, <2>2
      <2>4. walk[n + 1] = IF n + 1 \in list THEN set_irrelevant_change(walk[n], n + 1) ELSE walk[n]
            BY <1>7, <2>1
      <2> QED  BY <1>2, <2>1, <2>3, <2>4
<1>10. Same = Nat  BY <1>8, <1>9, InductionOverSet
<1>11. MaxSN \in Same  BY <1>10, MaxSNAssumption
<1> QED  BY <1>3, <1>6, <1>11, MaxSNAssumption

-----------------------------------------------------------------------------
(***************************************************************************)
(* The bookkeeping is exact.  AckBaseExact is not inductive: pruning       *)
(* "changes" below ack_base is only harmless because the known numbers are *)
(* the resolved ones, so the invariant carries both.                       *)
(***************************************************************************)
TrackingIInv == TrackingTypeOK /\ Consistent(tracked) /\ KnownIsResolved

\* The strengthening implies exactness of ack_base.
LEMMA TrackingIInvImpliesExact == TrackingIInv => AckBaseExact
<1> SUFFICES ASSUME TrackingIInv PROVE AckBaseExact  OBVIOUS
<1>1. tracked.ack_base \in 1 .. MaxSN + 1 /\ tracked.ack_base \notin tracked.changes
      BY DEF TrackingIInv, Consistent, WriterProxyType
<1>2. \A s \in SN : s < tracked.ack_base => s \in Resolved
      BY KnownMembership DEF TrackingIInv, KnownIsResolved
<1>3. tracked.ack_base \notin Known(tracked)
      BY <1>1, MaxSNAssumption DEF Known, should_ignore_change, SN
<1> QED  BY <1>2, <1>3 DEF AckBaseExact, TrackingIInv, KnownIsResolved

\* A new proxy knows nothing, and nothing is resolved yet.
LEMMA TrackingIInvInit == TrackingInit => TrackingIInv
<1> SUFFICES ASSUME TrackingInit PROVE TrackingIInv  OBVIOUS
<1>1. tracked \in WriterProxyType /\ tracked.ack_base = 1 /\ tracked.changes = {}
      BY MaxSNAssumption DEF TrackingInit, NewWriterProxy, WriterProxyType
<1>2. Known(tracked) = {}
      BY <1>1, MaxSNAssumption DEF Known, should_ignore_change, SN
<1> QED  BY <1>1, <1>2 DEF TrackingInit, TrackingIInv, TrackingTypeOK, Consistent, KnownIsResolved, Resolved

\* Every operation preserves the strengthening and moves ack_base forward.
LEMMA TrackingIInvNext ==
    TrackingIInv /\ [TrackingNext]_trackingVars =>
        TrackingIInv' /\ (tracked'.ack_base >= tracked.ack_base \/ UNCHANGED trackingVars)
<1> SUFFICES ASSUME TrackingIInv, [TrackingNext]_trackingVars
             PROVE  TrackingIInv' /\ (tracked'.ack_base >= tracked.ack_base \/ UNCHANGED trackingVars)
    OBVIOUS
<1> USE DEF TrackingIInv
<1>1. ASSUME NEW sn \in SN, TrackData(sn)
      PROVE  TrackingIInv' /\ tracked'.ack_base >= tracked.ack_base
      <2>1. /\ Consistent(tracked')
            /\ Known(tracked') = Known(tracked) \cup {sn}
            /\ tracked'.ack_base >= tracked.ack_base
            BY <1>1, ReceivedChangesAdd DEF TrackData
      <2>2. received' = received \cup {sn} /\ not_available' = not_available
            BY <1>1 DEF TrackData
      <2> QED  BY <2>1, <2>2 DEF TrackingTypeOK, Consistent, KnownIsResolved, Resolved
<1>2. ASSUME NEW gap_start \in SN, NEW base \in SN \cup {MaxSN + 1},
             NEW list \in SUBSET SN, TrackGap(gap_start, base, list)
      PROVE  TrackingIInv' /\ tracked'.ack_base >= tracked.ack_base
      <2> DEFINE q == irrelevant_changes_range(tracked, gap_start, base)
                 G == {s \in SN : gap_start <= s /\ s < base}
      <2>1. gap_start \in 0 .. MaxSN + 1 /\ base \in 1 .. MaxSN + 1
            BY MaxSNAssumption DEF SN
      <2>2. Consistent(q) /\ Known(q) = Known(tracked) \cup G /\ q.ack_base >= tracked.ack_base
            BY <2>1, IrrelevantChangesRange
      <2>3. tracked' = set_irrelevant_changes(q, list)  BY <1>2 DEF TrackGap
      <2> HIDE DEF q
      <2>4. /\ Consistent(tracked')
            /\ Known(tracked') = Known(tracked) \cup G \cup list
            /\ tracked'.ack_base >= q.ack_base
            BY <2>2, <2>3, SetIrrelevantChanges
      <2>5. gap_start .. base - 1 = G
            BY <2>1, MaxSNAssumption DEF SN
      <2>6. received' = received /\ not_available' = not_available \cup G \cup list
            BY <1>2, <2>5 DEF TrackGap
      <2>7. tracked'.ack_base >= tracked.ack_base
            BY <2>2, <2>4, MaxSNAssumption DEF Consistent, WriterProxyType
      <2> QED  BY <2>4, <2>6, <2>7 DEF TrackingTypeOK, Consistent, KnownIsResolved, Resolved
<1>3. ASSUME NEW first_sn \in 1 .. MaxSN + 1, TrackHeartbeat(first_sn)
      PROVE  TrackingIInv' /\ tracked'.ack_base >= tracked.ack_base
      <2> DEFINE G == {s \in SN : 0 <= s /\ s < first_sn}
      <2>1. 0 \in 0 .. MaxSN + 1  BY MaxSNAssumption
      <2>2. Consistent(tracked') /\ Known(tracked') = Known(tracked) \cup G /\ tracked'.ack_base >= tracked.ack_base
            BY <1>3, <2>1, IrrelevantChangesRange DEF TrackHeartbeat, irrelevant_changes_up_to
      <2>3. 1 .. first_sn - 1 = G  BY MaxSNAssumption DEF SN
      <2>4. received' = received /\ not_available' = not_available \cup G
            BY <1>3, <2>3 DEF TrackHeartbeat
      <2> QED  BY <2>2, <2>4 DEF TrackingTypeOK, Consistent, KnownIsResolved, Resolved
<1>4. CASE UNCHANGED trackingVars
      BY <1>4 DEF trackingVars, TrackingTypeOK, Consistent, KnownIsResolved, Known,
                  should_ignore_change, Resolved
<1> QED  BY <1>1, <1>2, <1>3, <1>4 DEF TrackingNext

\* ack_base never covers a number that was neither received nor declared
\* unavailable, and never lags behind one that could be acknowledged
\* (rtps_writer_proxy.rs:58-60).
THEOREM AckBaseIsExact == TrackingSpec => [](TrackingTypeOK /\ AckBaseExact /\ KnownIsResolved)
<1>1. TrackingIInv => TrackingTypeOK /\ AckBaseExact /\ KnownIsResolved
      BY TrackingIInvImpliesExact DEF TrackingIInv
<1> QED  BY <1>1, TrackingIInvInit, TrackingIInvNext, PTL DEF TrackingSpec

\* ack_base and the numbers in "changes" stay within 1 .. MaxSN + 1, and no
\* number is kept that ack_base has passed (rtps_writer_proxy.rs:36-60).
COROLLARY TrackingTypeCorrect == TrackingSpec => []TrackingTypeOK
BY AckBaseIsExact, PTL

\* should_ignore_change (rtps_writer_proxy.rs) refuses exactly the numbers that
\* were received or declared unavailable, although "changes" is pruned.
COROLLARY KnownNumbersAreResolved == TrackingSpec => []KnownIsResolved
BY AckBaseIsExact, PTL

\* In every reachable proxy handle_gap_msg's loop over a GAP's list
\* (reader.rs:1112-1119) does what the closed form does that the models use.
THEOREM GapLoopIsClosedForm == TrackingSpec => []GapListLoop
<1>1. TrackingIInv => GapListLoop  BY GapListLoopIsClosedForm DEF TrackingIInv, GapListLoop
<1> QED  BY <1>1, TrackingIInvInit, TrackingIInvNext, PTL DEF TrackingSpec

\* No message order makes ack_base go backwards.
THEOREM AckBaseIsMonotone == TrackingSpec => AckBaseMonotone
<1>1. TrackingIInv /\ [TrackingNext]_trackingVars =>
          [tracked'.ack_base >= tracked.ack_base]_trackingVars
      BY TrackingIInvNext
<1> QED  BY <1>1, TrackingIInvInit, TrackingIInvNext, PTL DEF TrackingSpec, AckBaseMonotone
=============================================================================
