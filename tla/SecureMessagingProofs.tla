----------------------- MODULE SecureMessagingProofs -----------------------
(***************************************************************************)
(* What MessageReceivers hand over was sent as they say, and nothing that  *)
(* must be encrypted can be read, for any number of participants, kinds of *)
(* protection, and however messages are lost, repeated and reordered.      *)
(***************************************************************************)
EXTENDS SecureMessaging, SequenceTheorems, FiniteSetTheorems, WellFoundedInduction, TLAPS

IsSeq(q) == q \in Seq(ToSet(q))

-----------------------------------------------------------------------------
(* Sequences *)

\* Every non-empty set of naturals has a least element, hence induction.
LEMMA InductionOverSet ==
    ASSUME NEW T \in SUBSET Nat, 0 \in T, \A n \in T : n + 1 \in T
    PROVE  T = Nat
<1> SUFFICES ASSUME Nat \ T # {} PROVE FALSE  OBVIOUS
<1>1. PICK m \in Nat \ T : \A n \in Nat \ T : ~ (<<n, m>> \in OpToRel(<, Nat))
      <2>1. Nat \ T \subseteq Nat  OBVIOUS
      <2> QED  BY <2>1, NatLessThanWellFounded, WFMin, Zenon
<1>2. ASSUME NEW n \in Nat \ T PROVE ~(n < m)
      <2>1. n \in Nat /\ m \in Nat  OBVIOUS
      <2> QED  BY <1>1, <2>1, Zenon DEF OpToRel
<1>3. m \in Nat /\ m # 0 /\ m \notin T  OBVIOUS
<1>4. m - 1 \in Nat /\ m - 1 < m /\ (m - 1) + 1 = m  BY <1>3
<1>5. m - 1 \in T  BY <1>2, <1>4
<1> QED  BY <1>3, <1>4, <1>5

\* A sequence is one of its own elements.
LEMMA IsSeqOf ==
    ASSUME NEW S, NEW q \in Seq(S)
    PROVE  IsSeq(q) /\ DOMAIN q = 1 .. Len(q) /\ Len(q) \in Nat
<1>1. q \in [1 .. Len(q) -> S] /\ Len(q) \in Nat /\ DOMAIN q = 1 .. Len(q)  BY LenProperties
<1>2. ToSet(q) = {q[i] : i \in 1 .. Len(q)}  BY <1>1 DEF ToSet
<1>3. q \in [1 .. Len(q) -> ToSet(q)]  BY <1>1, <1>2
<1> QED  BY <1>1, <1>3, SeqDef DEF IsSeq

LEMMA IsSeqFacts ==
    ASSUME NEW q, IsSeq(q)
    PROVE  /\ Len(q) \in Nat /\ DOMAIN q = 1 .. Len(q)
           /\ q # <<>> => Len(q) \in Nat \ {0}
<1>1. Len(q) \in Nat /\ DOMAIN q = 1 .. Len(q)  BY LenProperties DEF IsSeq
<1>2. \A seq \in Seq(ToSet(q)) : (seq # << >>) => (Len(seq) \in Nat \ {0})  BY EmptySeq
<1> QED  BY <1>1, <1>2 DEF IsSeq

LEMMA EmptyIsSeq == IsSeq(<<>>) /\ DOMAIN <<>> = {}
<1>1. <<>> \in Seq({})  BY EmptySeq
<1>2. IsSeq(<<>>)  BY <1>1, IsSeqOf
<1> QED  BY <1>2

LEMMA TailFacts ==
    ASSUME NEW q, IsSeq(q), q # <<>>
    PROVE  /\ IsSeq(Tail(q)) /\ Len(Tail(q)) = Len(q) - 1
           /\ DOMAIN Tail(q) = 1 .. Len(q) - 1
           /\ Head(q) = q[1] /\ 1 \in DOMAIN q
           /\ \A i \in DOMAIN Tail(q) : i + 1 \in DOMAIN q /\ Tail(q)[i] = q[i + 1]
<1>1. Tail(q) \in Seq(ToSet(q)) /\ Len(Tail(q)) = Len(q) - 1
      /\ \A i \in 1 .. Len(Tail(q)) : Tail(q)[i] = q[i + 1]
      BY HeadTailProperties DEF IsSeq
<1>2. IsSeq(Tail(q)) /\ DOMAIN Tail(q) = 1 .. Len(Tail(q))  BY <1>1, IsSeqOf
<1>3. Len(q) \in Nat \ {0} /\ DOMAIN q = 1 .. Len(q)  BY IsSeqFacts
<1> QED  BY <1>1, <1>2, <1>3

LEMMA AppendFacts ==
    ASSUME NEW q, IsSeq(q), NEW e
    PROVE  /\ IsSeq(Append(q, e)) /\ Len(Append(q, e)) = Len(q) + 1
           /\ DOMAIN Append(q, e) = 1 .. Len(q) + 1
           /\ \A i \in DOMAIN q : Append(q, e)[i] = q[i]
           /\ Append(q, e)[Len(q) + 1] = e
<1> DEFINE T == ToSet(q) \cup {e}
<1>1. q \in Seq(T)  BY SeqMonotonic DEF IsSeq
<1>2. DOMAIN q = 1 .. Len(q)  BY IsSeqFacts
<1>3. e \in T  OBVIOUS
<1> HIDE DEF T
<1>4. /\ Append(q, e) \in Seq(T)
      /\ Len(Append(q, e)) = Len(q) + 1
      /\ \A i \in 1 .. Len(q) : Append(q, e)[i] = q[i]
      /\ Append(q, e)[Len(q) + 1] = e
      BY <1>1, <1>3, AppendProperties
<1>5. IsSeq(Append(q, e)) /\ DOMAIN Append(q, e) = 1 .. Len(Append(q, e))  BY <1>4, IsSeqOf
<1> QED  BY <1>2, <1>4, <1>5

LEMMA ConcatFacts ==
    ASSUME NEW p, IsSeq(p), NEW q, IsSeq(q)
    PROVE  /\ IsSeq(p \o q) /\ Len(p \o q) = Len(p) + Len(q)
           /\ DOMAIN (p \o q) = 1 .. Len(p) + Len(q)
           /\ \A i \in DOMAIN p : (p \o q)[i] = p[i]
           /\ \A i \in DOMAIN q : (p \o q)[Len(p) + i] = q[i]
           /\ \A i \in DOMAIN (p \o q) :
                 \/ i \in DOMAIN p /\ (p \o q)[i] = p[i]
                 \/ i - Len(p) \in DOMAIN q /\ (p \o q)[i] = q[i - Len(p)]
<1> DEFINE T == ToSet(p) \cup ToSet(q)
<1>1. p \in Seq(T) /\ q \in Seq(T)  BY SeqMonotonic DEF IsSeq
<1>2. /\ Len(p) \in Nat /\ DOMAIN p = 1 .. Len(p)
      /\ Len(q) \in Nat /\ DOMAIN q = 1 .. Len(q)
      BY IsSeqFacts
<1> HIDE DEF T
<1>3. /\ p \o q \in Seq(T)
      /\ Len(p \o q) = Len(p) + Len(q)
      /\ \A i \in 1 .. Len(p) + Len(q) :
            (p \o q)[i] = IF i <= Len(p) THEN p[i] ELSE q[i - Len(p)]
      BY <1>1, ConcatProperties
<1>4. IsSeq(p \o q) /\ DOMAIN (p \o q) = 1 .. Len(p) + Len(q)  BY <1>3, IsSeqOf
<1>5. \A i \in DOMAIN p : (p \o q)[i] = p[i]  BY <1>2, <1>3
<1>6. ASSUME NEW i \in DOMAIN q PROVE (p \o q)[Len(p) + i] = q[i]
      <2>1. Len(p) + i \in 1 .. Len(p) + Len(q) /\ ~(Len(p) + i <= Len(p)) /\ (Len(p) + i) - Len(p) = i
            BY <1>2
      <2> QED  BY <1>3, <2>1
<1>7. ASSUME NEW i \in 1 .. Len(p) + Len(q)
      PROVE  \/ i \in DOMAIN p /\ (p \o q)[i] = p[i]
             \/ i - Len(p) \in DOMAIN q /\ (p \o q)[i] = q[i - Len(p)]
      BY <1>2, <1>3
<1> QED  BY <1>3, <1>4, <1>5, <1>6, <1>7

LEMMA ConcatLeft ==
    ASSUME NEW p, IsSeq(p), NEW q, IsSeq(q), NEW i \in DOMAIN p
    PROVE  (p \o q)[i] = p[i]
<1>1. \A j \in DOMAIN p : (p \o q)[j] = p[j]  BY ConcatFacts
<1> QED  BY <1>1

LEMMA ConcatRight ==
    ASSUME NEW p, IsSeq(p), NEW q, IsSeq(q), NEW i \in DOMAIN q
    PROVE  (p \o q)[Len(p) + i] = q[i]
<1>1. \A j \in DOMAIN q : (p \o q)[Len(p) + j] = q[j]  BY ConcatFacts
<1> QED  BY <1>1

LEMMA OneIsSeq ==
    ASSUME NEW e
    PROVE  IsSeq(<<e>>) /\ DOMAIN <<e>> = {1} /\ Len(<<e>>) = 1 /\ <<e>>[1] = e
<1>1. <<e>> \in [1 .. 1 -> {e}]  OBVIOUS
<1>2. <<e>> \in Seq({e})  BY <1>1, SeqDef
<1>3. DOMAIN <<e>> = {1} /\ Len(<<e>>) = 1 /\ <<e>>[1] = e  OBVIOUS
<1> QED  BY <1>2, <1>3, IsSeqOf

\* Two sequences with the same elements are the same.
LEMMA SameElements ==
    ASSUME NEW p, IsSeq(p), NEW q, IsSeq(q), DOMAIN p = DOMAIN q, \A i \in DOMAIN p : p[i] = q[i]
    PROVE  p = q
<1>1. p \in [1 .. Len(p) -> ToSet(p)] /\ q \in [1 .. Len(q) -> ToSet(q)]
      BY LenProperties DEF IsSeq
<1>2. p = [i \in DOMAIN p |-> p[i]] /\ q = [i \in DOMAIN q |-> q[i]]  BY <1>1
<1> QED  BY <1>2

LEMMA TailOfConcat ==
    ASSUME NEW e, NEW q, IsSeq(q)
    PROVE  <<e>> \o q # <<>> /\ (<<e>> \o q)[1] = e /\ Tail(<<e>> \o q) = q
<1> DEFINE p == <<e>> \o q
<1>1. IsSeq(<<e>>) /\ DOMAIN <<e>> = {1} /\ Len(<<e>>) = 1 /\ <<e>>[1] = e  BY OneIsSeq
<1>2. Len(q) \in Nat /\ DOMAIN q = 1 .. Len(q)  BY IsSeqFacts
<1>3. /\ IsSeq(p) /\ Len(p) = 1 + Len(q) /\ DOMAIN p = 1 .. 1 + Len(q) /\ p[1] = e
      /\ \A i \in DOMAIN q : p[1 + i] = q[i]
      BY <1>1, ConcatFacts
<1>4. p # <<>>  BY <1>2, <1>3, EmptyIsSeq
<1> HIDE DEF p
<1>5. /\ IsSeq(Tail(p)) /\ DOMAIN Tail(p) = 1 .. Len(p) - 1
      /\ \A i \in DOMAIN Tail(p) : Tail(p)[i] = p[i + 1]
      BY <1>3, <1>4, TailFacts
<1>6. DOMAIN Tail(p) = DOMAIN q  BY <1>2, <1>3, <1>5
<1>7. ASSUME NEW i \in DOMAIN Tail(p) PROVE Tail(p)[i] = q[i]
      <2>1. i \in DOMAIN q /\ i \in Nat /\ 1 + i = i + 1  BY <1>2, <1>6
      <2> QED  BY <1>3, <1>5, <2>1
<1>8. Tail(p) = q  BY <1>5, <1>6, <1>7, SameElements
<1> QED  BY <1>3, <1>4, <1>8 DEF p

LEMMA PrependFacts ==
    ASSUME NEW e, NEW q, IsSeq(q)
    PROVE  /\ IsSeq(<<e>> \o q) /\ DOMAIN (<<e>> \o q) = 1 .. 1 + Len(q) /\ (<<e>> \o q)[1] = e
           /\ \A i \in DOMAIN (<<e>> \o q) :
                 (<<e>> \o q)[i] = e \/ \E j \in DOMAIN q : (<<e>> \o q)[i] = q[j]
<1> DEFINE one == <<e>>
<1>1. IsSeq(one) /\ DOMAIN one = {1} /\ Len(one) = 1 /\ one[1] = e  BY OneIsSeq
<1> HIDE DEF one
<1>2. IsSeq(one \o q) /\ DOMAIN (one \o q) = 1 .. 1 + Len(q)
      <2>1. IsSeq(one \o q) /\ DOMAIN (one \o q) = 1 .. Len(one) + Len(q)  BY <1>1, ConcatFacts
      <2> QED  BY <1>1, <2>1
<1>3. 1 \in DOMAIN one  BY <1>1
<1>4. (one \o q)[1] = e  BY <1>1, <1>3, ConcatLeft
<1>5. ASSUME NEW i \in DOMAIN (one \o q)
      PROVE  (one \o q)[i] = e \/ \E j \in DOMAIN q : (one \o q)[i] = q[j]
      <2>1. \/ i \in DOMAIN one /\ (one \o q)[i] = one[i]
            \/ i - Len(one) \in DOMAIN q /\ (one \o q)[i] = q[i - Len(one)]
            BY <1>1, ConcatFacts
      <2> QED  BY <1>1, <2>1
<1> QED  BY <1>2, <1>4, <1>5 DEF one

LEMMA AppendOneFacts ==
    ASSUME NEW e, NEW q, IsSeq(q)
    PROVE  /\ IsSeq(q \o <<e>>) /\ Len(q \o <<e>>) = Len(q) + 1
           /\ DOMAIN (q \o <<e>>) = 1 .. Len(q) + 1
           /\ (q \o <<e>>)[Len(q) + 1] = e /\ \A i \in DOMAIN q : (q \o <<e>>)[i] = q[i]
           /\ \A i \in DOMAIN (q \o <<e>>) :
                 (q \o <<e>>)[i] = e \/ \E j \in DOMAIN q : (q \o <<e>>)[i] = q[j]
<1> DEFINE one == <<e>>
<1>1. IsSeq(one) /\ DOMAIN one = {1} /\ Len(one) = 1 /\ one[1] = e  BY OneIsSeq
<1> HIDE DEF one
<1>2. IsSeq(q \o one) /\ DOMAIN (q \o one) = 1 .. Len(q) + 1 /\ Len(q \o one) = Len(q) + 1
      <2>1. /\ IsSeq(q \o one) /\ DOMAIN (q \o one) = 1 .. Len(q) + Len(one)
            /\ Len(q \o one) = Len(q) + Len(one)
            BY <1>1, ConcatFacts
      <2> QED  BY <1>1, <2>1
<1>3. 1 \in DOMAIN one  BY <1>1
<1>4. (q \o one)[Len(q) + 1] = one[1]
      <2>1. \A i \in DOMAIN one : (q \o one)[Len(q) + i] = one[i]  BY <1>1, ConcatRight
      <2> QED  BY <1>3, <2>1
<1>5. ASSUME NEW i \in DOMAIN q PROVE (q \o one)[i] = q[i]
      <2>1. i \in DOMAIN q  OBVIOUS
      <2> QED  BY <1>1, <2>1, ConcatLeft, Zenon
<1>6. ASSUME NEW i \in DOMAIN (q \o one)
      PROVE  (q \o one)[i] = e \/ \E j \in DOMAIN q : (q \o one)[i] = q[j]
      <2>1. \/ i \in DOMAIN q /\ (q \o one)[i] = q[i]
            \/ i - Len(q) \in DOMAIN one /\ (q \o one)[i] = one[i - Len(q)]
            BY <1>1, ConcatFacts
      <2> QED  BY <1>1, <2>1
<1>7. (q \o one)[Len(q) + 1] = e  BY <1>1, <1>4
<1> QED  BY <1>2, <1>5, <1>6, <1>7 DEF one

\* FlattenSeq puts the sequences one after the other.
Stems(flat, seqs, n) ==
    \A p \in DOMAIN flat : \E k \in 1 .. n : \E q \in DOMAIN seqs[k] :
        /\ flat[p] = seqs[k][q]
        /\ \A j \in 1 .. k - 1 : \A r \in DOMAIN seqs[j] : \E o \in 1 .. p - 1 : flat[o] = seqs[j][r]
        /\ \A o \in 1 .. p - 1 : \E j \in 1 .. k : \E r \in DOMAIN seqs[j] : flat[o] = seqs[j][r]
Holds(flat, seqs, n) ==
    \A j \in 1 .. n : \A r \in DOMAIN seqs[j] : \E o \in DOMAIN flat : flat[o] = seqs[j][r]

LEMMA OneMoreFlat ==
    ASSUME NEW seqs, NEW n \in Nat, IsSeq(seqs[n + 1]),
           NEW flat, IsSeq(flat), Stems(flat, seqs, n), Holds(flat, seqs, n)
    PROVE  /\ IsSeq(flat \o seqs[n + 1])
           /\ Stems(flat \o seqs[n + 1], seqs, n + 1) /\ Holds(flat \o seqs[n + 1], seqs, n + 1)
<1> DEFINE e == seqs[n + 1]
           f == flat \o e
<1>0. IsSeq(e)  OBVIOUS
<1> HIDE DEF e
<1>1. /\ Len(flat) \in Nat /\ DOMAIN flat = 1 .. Len(flat)
      /\ Len(e) \in Nat /\ DOMAIN e = 1 .. Len(e)
      BY <1>0, IsSeqFacts
<1>2. /\ IsSeq(f) /\ DOMAIN f = 1 .. Len(flat) + Len(e)
      /\ \A i \in DOMAIN flat : f[i] = flat[i]
      /\ \A i \in DOMAIN e : f[Len(flat) + i] = e[i]
      <2>1. IsSeq(f) /\ DOMAIN f = 1 .. Len(flat) + Len(e)  BY <1>0, ConcatFacts
      <2>2. ASSUME NEW i \in DOMAIN flat PROVE f[i] = flat[i]
            <3>1. i \in DOMAIN flat  OBVIOUS
            <3>2. (flat \o e)[i] = flat[i]  BY <1>0, <3>1, ConcatLeft, Zenon
            <3> QED  BY <3>2
      <2>3. ASSUME NEW i \in DOMAIN e PROVE f[Len(flat) + i] = e[i]
            <3>1. i \in DOMAIN e  OBVIOUS
            <3>2. (flat \o e)[Len(flat) + i] = e[i]  BY <1>0, <3>1, ConcatRight, Zenon
            <3> QED  BY <3>2
      <2> QED  BY <2>1, <2>2, <2>3
<1>3. ASSUME NEW i \in DOMAIN f
      PROVE  \/ i \in DOMAIN flat /\ f[i] = flat[i]
             \/ i - Len(flat) \in DOMAIN e /\ f[i] = e[i - Len(flat)]
      BY <1>0, ConcatFacts
<1> HIDE DEF f
<1>4. ASSUME NEW j \in 1 .. n, NEW r \in DOMAIN seqs[j]
      PROVE  \E o \in DOMAIN flat : f[o] = seqs[j][r]
      <2>1. PICK o \in DOMAIN flat : flat[o] = seqs[j][r]  BY DEF Holds
      <2> QED  BY <1>2, <2>1
<1>5. Holds(f, seqs, n + 1)
      <2> SUFFICES ASSUME NEW j \in 1 .. n + 1, NEW r \in DOMAIN seqs[j]
                   PROVE  \E o \in DOMAIN f : f[o] = seqs[j][r]
                   BY DEF Holds
      <2>1. CASE j \in 1 .. n  BY <1>1, <1>2, <1>4, <2>1
      <2>2. CASE j = n + 1
            <3>1. r \in DOMAIN e /\ f[Len(flat) + r] = seqs[j][r]  BY <1>2, <2>2 DEF e
            <3>2. Len(flat) + r \in DOMAIN f  BY <1>1, <1>2, <3>1
            <3> QED  BY <3>1, <3>2
      <2> QED  BY <2>1, <2>2
<1>6. Stems(f, seqs, n + 1)
      <2> SUFFICES ASSUME NEW p \in DOMAIN f
                   PROVE  \E k \in 1 .. n + 1 : \E q \in DOMAIN seqs[k] :
                            /\ f[p] = seqs[k][q]
                            /\ \A j \in 1 .. k - 1 : \A r \in DOMAIN seqs[j] :
                                  \E o \in 1 .. p - 1 : f[o] = seqs[j][r]
                            /\ \A o \in 1 .. p - 1 : \E j \in 1 .. k : \E r \in DOMAIN seqs[j] :
                                  f[o] = seqs[j][r]
                   BY DEF Stems
      <2>1. CASE p \in DOMAIN flat /\ f[p] = flat[p]
            <3>1. PICK k \in 1 .. n : \E q \in DOMAIN seqs[k] :
                     /\ flat[p] = seqs[k][q]
                     /\ \A j \in 1 .. k - 1 : \A r \in DOMAIN seqs[j] :
                           \E o \in 1 .. p - 1 : flat[o] = seqs[j][r]
                     /\ \A o \in 1 .. p - 1 : \E j \in 1 .. k : \E r \in DOMAIN seqs[j] :
                           flat[o] = seqs[j][r]
                  BY <2>1 DEF Stems
            <3>2. PICK q \in DOMAIN seqs[k] :
                     /\ flat[p] = seqs[k][q]
                     /\ \A j \in 1 .. k - 1 : \A r \in DOMAIN seqs[j] :
                           \E o \in 1 .. p - 1 : flat[o] = seqs[j][r]
                     /\ \A o \in 1 .. p - 1 : \E j \in 1 .. k : \E r \in DOMAIN seqs[j] :
                           flat[o] = seqs[j][r]
                  BY <3>1
            <3>3. ASSUME NEW j \in 1 .. k - 1, NEW r \in DOMAIN seqs[j]
                  PROVE  \E o \in 1 .. p - 1 : f[o] = seqs[j][r]
                  <4>1. PICK o \in 1 .. p - 1 : flat[o] = seqs[j][r]  BY <3>2
                  <4>2. o \in DOMAIN flat  BY <1>1, <2>1
                  <4> QED  BY <1>2, <4>1, <4>2
            <3>4. k \in 1 .. n + 1  OBVIOUS
            <3>5. ASSUME NEW o \in 1 .. p - 1
                  PROVE  \E j \in 1 .. k : \E r \in DOMAIN seqs[j] : f[o] = seqs[j][r]
                  <4>1. o \in DOMAIN flat  BY <1>1, <2>1
                  <4>2. f[o] = flat[o]  BY <1>2, <4>1
                  <4> QED  BY <3>2, <4>2
            <3> QED  BY <2>1, <3>2, <3>3, <3>4, <3>5
      <2>2. CASE p - Len(flat) \in DOMAIN e /\ f[p] = e[p - Len(flat)]
            <3>1. n + 1 \in 1 .. n + 1 /\ p - Len(flat) \in DOMAIN seqs[n + 1]
                  /\ f[p] = seqs[n + 1][p - Len(flat)]
                  BY <2>2 DEF e
            <3>2. ASSUME NEW j \in 1 .. (n + 1) - 1, NEW r \in DOMAIN seqs[j]
                  PROVE  \E o \in 1 .. p - 1 : f[o] = seqs[j][r]
                  <4>1. PICK o \in DOMAIN flat : f[o] = seqs[j][r]  BY <1>4
                  <4>2. o \in 1 .. p - 1  BY <1>1, <1>2, <2>2
                  <4> QED  BY <4>1, <4>2
            <3>3. ASSUME NEW o \in 1 .. p - 1
                  PROVE  \E j \in 1 .. n + 1 : \E r \in DOMAIN seqs[j] : f[o] = seqs[j][r]
                  <4>1. o \in DOMAIN f  BY <1>1, <1>2
                  <4>2. CASE o \in DOMAIN flat /\ f[o] = flat[o]
                        <5>1. \E j \in 1 .. n : \E r \in DOMAIN seqs[j] : flat[o] = seqs[j][r]
                              BY <4>2 DEF Stems
                        <5>2. \A j \in 1 .. n : j \in 1 .. n + 1  OBVIOUS
                        <5> QED  BY <4>2, <5>1, <5>2
                  <4>3. CASE o - Len(flat) \in DOMAIN e /\ f[o] = e[o - Len(flat)]  BY <3>1, <4>3 DEF e
                  <4> QED  BY <1>3, <4>1, <4>2, <4>3
            <3> QED  BY <3>1, <3>2, <3>3
      <2> QED  BY <1>3, <2>1, <2>2
<1> QED  BY <1>2, <1>5, <1>6 DEF e, f

LEMMA FlattenFacts ==
    ASSUME NEW n \in Nat, n # 0, NEW seqs, Len(seqs) = n, \A k \in 1 .. n : IsSeq(seqs[k])
    PROVE  IsSeq(FlattenSeq(seqs)) /\ Stems(FlattenSeq(seqs), seqs, n)
<1> DEFINE D == 1 .. n
           Flat(f) == f = [i \in D |-> IF i = 1 THEN seqs[i] ELSE f[i - 1] \o seqs[i]]
           Upto(m, f) == \A i \in 1 .. m : f[i] = IF i = 1 THEN seqs[i] ELSE f[i - 1] \o seqs[i]
           T == {m \in Nat : \E f : Upto(m, f)}
           F == CHOOSE f : Flat(f)
<1>1. T = Nat
      <2>1. 0 \in T
            <3>1. Upto(0, <<>>)  OBVIOUS
            <3> QED  BY <3>1
      <2>2. ASSUME NEW m \in T PROVE m + 1 \in T
            <3>1. PICK f : Upto(m, f)  OBVIOUS
            <3> DEFINE g == [i \in 0 .. m + 1 |-> IF i = m + 1
                                THEN IF i = 1 THEN seqs[i] ELSE f[i - 1] \o seqs[i]
                                ELSE f[i]]
            <3>2. ASSUME NEW i \in 1 .. m + 1
                  PROVE  g[i] = IF i = 1 THEN seqs[i] ELSE g[i - 1] \o seqs[i]
                  <4>1. CASE i = m + 1  BY <4>1
                  <4>2. CASE i \in 1 .. m
                        <5>1. g[i] = f[i] /\ (i # 1 => g[i - 1] = f[i - 1])  BY <4>2
                        <5>2. f[i] = IF i = 1 THEN seqs[i] ELSE f[i - 1] \o seqs[i]  BY <3>1, <4>2
                        <5> QED  BY <5>1, <5>2
                  <4> QED  BY <4>1, <4>2
            <3> HIDE DEF g
            <3>3. Upto(m + 1, g)  BY <3>2
            <3>4. \E h : Upto(m + 1, h)  BY <3>3
            <3> QED  BY <3>4
      <2> HIDE DEF T
      <2>3. T \in SUBSET Nat  BY DEF T
      <2> QED  BY <2>1, <2>2, <2>3, InductionOverSet
<1>2. \E f : Flat(f)
      <2>1. n \in T  BY <1>1
      <2>2. PICK f : Upto(n, f)  BY <2>1
      <2> DEFINE g == [i \in D |-> f[i]]
      <2>3. ASSUME NEW i \in D
            PROVE  g[i] = IF i = 1 THEN seqs[i] ELSE g[i - 1] \o seqs[i]
            <3>1. f[i] = IF i = 1 THEN seqs[i] ELSE f[i - 1] \o seqs[i]  BY <2>2
            <3>2. g[i] = f[i] /\ (i # 1 => g[i - 1] = f[i - 1])  OBVIOUS
            <3> QED  BY <3>1, <3>2
      <2>4. g = [i \in D |-> g[i]]  OBVIOUS
      <2> HIDE DEF g
      <2>5. Flat(g)  BY <2>3, <2>4
      <2> QED  BY <2>5
<1>3. Flat(F)  BY <1>2
<1>4. FlattenSeq(seqs) = F[n]
      BY DEF FlattenSeq
<1> HIDE DEF F
<1>5. \A i \in D : F[i] = IF i = 1 THEN seqs[i] ELSE F[i - 1] \o seqs[i]  BY <1>3
<1> DEFINE Good(i) == IsSeq(F[i]) /\ Stems(F[i], seqs, i) /\ Holds(F[i], seqs, i)
           G == {m \in Nat : m + 1 \in D => Good(m + 1)}
<1>6. 0 \in G
      <2>1. 0 + 1 = 1 /\ 1 \in D  OBVIOUS
      <2>2. F[1] = seqs[1] /\ IsSeq(seqs[1])  BY <1>5, <2>1
      <2>3. Stems(F[1], seqs, 1)
            <3> DEFINE f == seqs[1]
            <3>1. DOMAIN f = 1 .. Len(f) /\ Len(f) \in Nat  BY <2>2, IsSeqFacts
            <3>2. \A p \in DOMAIN f : \A o \in 1 .. p - 1 : o \in DOMAIN f  BY <3>1
            <3>3. 1 \in 1 .. 1 /\ 1 .. 1 - 1 = {}  OBVIOUS
            <3> QED  BY <2>2, <3>2, <3>3 DEF Stems
      <2>4. Holds(F[1], seqs, 1)  BY <2>2 DEF Holds
      <2> QED  BY <2>1, <2>2, <2>3, <2>4
<1>7. ASSUME NEW m \in G PROVE m + 1 \in G
      <2> SUFFICES ASSUME (m + 1) + 1 \in D PROVE Good((m + 1) + 1)  OBVIOUS
      <2>1. m \in Nat /\ m + 1 \in Nat /\ m + 1 \in D /\ (m + 1) + 1 # 1 /\ ((m + 1) + 1) - 1 = m + 1
            OBVIOUS
      <2>2. Good(m + 1)  BY <2>1
      <2>3. F[(m + 1) + 1] = F[m + 1] \o seqs[(m + 1) + 1]  BY <1>5, <2>1
      <2>4. IsSeq(seqs[(m + 1) + 1])  OBVIOUS
      <2> HIDE DEF D
      <2> QED  BY <2>1, <2>2, <2>3, <2>4, OneMoreFlat
<1>8. G = Nat
      <2> HIDE DEF G
      <2>1. G \in SUBSET Nat  BY DEF G
      <2> QED  BY <1>6, <1>7, <2>1, InductionOverSet
<1>9. Good(n)
      <2> HIDE DEF Good
      <2>1. n - 1 \in Nat /\ (n - 1) + 1 = n /\ n \in D  OBVIOUS
      <2>2. (n - 1) + 1 \in D => Good((n - 1) + 1)  BY <1>8, <2>1
      <2> QED  BY <2>1, <2>2
<1> QED  BY <1>4, <1>9

-----------------------------------------------------------------------------
Datas == {"DATA", "DATAFRAG"}
PlainKinds == WriterKinds \cup ReaderKinds

(***************************************************************************)
(* What is sent.  S is the entry of "sent" for a message, n its number and *)
(* k its kind.  A plain submessage names the sender, the content and, if   *)
(* the message was for one Reader, that Reader.                            *)
(***************************************************************************)
PlainOk(S, n, k, s) ==
    /\ s.from = S.by[2]
    /\ IF s.kind \in Datas THEN Content(s.payload) = n /\ k \in Datas ELSE s.content = n
    /\ S.aimed => \E g \in S.to : S.to = {g} /\ g = <<g[1], s.to>> /\ s.to # UNKNOWN
    /\ s.kind \in ReaderKinds => S.aimed
    /\ s.from \in BuiltinWriters => s.to \in BuiltinReaders \cup {UNKNOWN}
    /\ k = "HEARTBEAT" => s.kind = "HEARTBEAT"

ElemOk(S, n, k, s) ==
    /\ s.kind = "INFO_TS" => S.stamped /\ s.timestamp = n
    /\ s.kind = "INFO_SRC" => s.prefix = S.by[1]
    /\ s.kind = "INFO_DST" => s.prefix # UNKNOWN /\ \A g \in S.to : g[1] = s.prefix
    /\ s.kind \in PlainKinds => PlainOk(S, n, k, s)

\* What a participant with plugins finds in a protected submessage: a user's is
\* under the key of the endpoint that sent it, and the receivers' MACs are for
\* the participants it was for.
SealedOk(S, n, k, s) ==
    /\ s.kind = "SEC_PREFIX" => s.id = IF IsUser(S.by) THEN EndpointKey(S.by) ELSE Zero
    /\ s.kind = "SEC_BODY" =>
          /\ s.ciphertext_of = <<s.ciphertext_of[1]>>
          /\ s.ciphertext_of[1].kind \in PlainKinds /\ PlainOk(S, n, k, s.ciphertext_of[1])
    /\ s.kind = "SEC_POSTFIX" =>
          s.receiver_macs \subseteq {ReceiverKey(EndpointKey(S.by), g[1]) : g \in S.to}

\* INFO_TS and INFO_DST come before the submessages they are about, unless
\* they have been handled already, and no INFO_SRC takes them back; none of
\* them is where it would be taken for a part of a protected submessage.
Ordered(S, k, q, stamp, dest) ==
    \A i \in DOMAIN q :
        /\ q[i].kind \in PlainKinds \cup {"SEC_POSTFIX"} =>
              /\ S.stamped /\ k \in Datas => stamp \/ \E j \in 1 .. i - 1 : q[j].kind = "INFO_TS"
              /\ S.aimed /\ k # "HEARTBEAT" => dest \/ \E j \in 1 .. i - 1 : q[j].kind = "INFO_DST"
        /\ q[i].kind = "INFO_SRC" => ~stamp /\ \A j \in 1 .. i - 1 : q[j].kind # "INFO_TS"
        /\ q[i].kind \in InterpreterKinds =>
              \A j \in 1 .. i - 1 : q[j].kind \notin PlainKinds \cup {"SEC_PREFIX"}

\* As anybody sees it, and as a participant with plugins does.
PublicOk(S, n, k, q) ==
    /\ IsSeq(q) /\ Ordered(S, k, q, FALSE, FALSE)
    /\ \A i \in DOMAIN q : ElemOk(S, n, k, q[i])
SecretOk(S, n, k, q) == PublicOk(S, n, k, q) /\ \A i \in DOMAIN q : SealedOk(S, n, k, q[i])

\* A protected message, and what is inside.
Inside(m) == Tail(m.subs[Len(m.subs)].mac.of)
ProtectedOk(sit, S, m) ==
    /\ SecretOk(S, m.no, m.kind, Inside(m))
    /\ sit.rtps_origin =>
          m.subs[Len(m.subs)].receiver_macs
              \subseteq {ReceiverKey(ParticipantKey(m.source), g[1]) : g \in S.to}

\* What can be read without keys.
ClearOk(sit, s) ==
    "from" \in DOMAIN s /\ s.from \notin SpecialCase =>
        /\ "GCM" \notin {sit.rtps, sit.submessage}
        /\ sit.payload = "GCM" /\ s.kind \in Datas => IsSealed(s.payload)

MessageOk(sit, S, m) ==
    /\ m.source = S.by[1] /\ S.by = <<S.by[1], S.by[2]>>
    /\ PublicOk(S, m.no, m.kind, m.subs)
    /\ IF m.subs[1].kind = "SRTPS_PREFIX" THEN ProtectedOk(sit, S, m)
       ELSE SecretOk(S, m.no, m.kind, m.subs)
    /\ m.source \in Secured => \A i \in DOMAIN m.subs : ClearOk(sit, m.subs[i])

NetInv ==
    /\ IsSeq(sent)
    /\ \A m \in net : m.no \in DOMAIN sent /\ MessageOk(situation, sent[m.no], m)

(***************************************************************************)
(* What is being received: the rest of a message that was sent.            *)
(***************************************************************************)
HandlingOk(sit, x, S, m, st) ==
    /\ st.source = m.source /\ st.dest # UNKNOWN
    /\ IsSeq(st.queue) /\ IsSeq(st.secure)
    /\ Ordered(S, m.kind, st.queue, st.timestamp = m.no, \A g \in S.to : g[1] = st.dest)
    /\ ~S.stamped => st.timestamp = 0
    /\ \A i \in DOMAIN st.queue :
          /\ ElemOk(S, m.no, m.kind, st.queue[i])
          /\ x \in Secured => SealedOk(S, m.no, m.kind, st.queue[i])
    /\ \A i \in DOMAIN st.secure :
          /\ ElemOk(S, m.no, m.kind, st.secure[i])
          /\ x \in Secured => SealedOk(S, m.no, m.kind, st.secure[i])
    /\ st.secure # <<>> =>
          /\ st.secure[1].kind = "SEC_PREFIX"
          /\ \A i \in DOMAIN st.secure : st.secure[i].kind \notin InterpreterKinds
          /\ \A i \in DOMAIN st.queue : st.queue[i].kind \notin InterpreterKinds
    /\ x \in Secured /\ sit.rtps # "NONE" /\ sit.rtps_origin =>
          st.special \/ x \in {g[1] : g \in S.to}

RxInv ==
    /\ DOMAIN rx = Prefix /\ \A x \in Prefix : DOMAIN rx[x] = DOMAIN NewReceiver
    /\ \A x \in Prefix : rx[x].queue # <<>> =>
          \E m \in net : HandlingOk(situation, x, sent[m.no], m, rx[x])

\* An acknowledgement on its way to the Writer.
AckOk(S, x, a) ==
    /\ <<a.source, a.ack.from>> = S.by
    /\ S.aimed /\ S.to = {<<x, a.ack.to>>}

AckInv ==
    /\ DOMAIN acks = Prefix
    /\ \A x \in Prefix : IsSeq(acks[x]) /\ \A i \in DOMAIN acks[x] :
          /\ acks[x][i].ack.content \in DOMAIN sent
          /\ AckOk(sent[acks[x][i].ack.content], x, acks[x][i])

\* What an endpoint was given: DeliveredAsSent of one entry.
RestrictedBy(sit) == {sit.rtps, sit.submessage, sit.payload} # {"NONE"}
EntryOk(sit, S, e) ==
    /\ e.from = S.by
    /\ e.kind \in Datas => e.timestamp = (IF S.stamped THEN e.content ELSE 0)
    /\ S.aimed => \E g \in S.to : e.at[2] = g[2] /\ (e.kind # "HEARTBEAT" => e.at = g)
    /\ e.at[1] \in Secured /\ IsUser(S.by)
       /\ ((sit.rtps_origin /\ sit.rtps # "NONE") \/ (sit.submessage_origin /\ sit.submessage # "NONE")) =>
          e.at[1] \in {g[1] : g \in S.to}
    /\ IsUser(e.at) /\ e.at[1] \in Secured /\ RestrictedBy(sit) => e.from[1] \in Secured

LogInv == \A e \in log : e.content \in DOMAIN sent /\ EntryOk(situation, sent[e.content], e)

(***************************************************************************)
(* Endpoints match as the situation says; a secure participant keeps away  *)
(* from others if anything is protected.  Keys to decode with are those of *)
(* the remote endpoint, for this participant.                              *)
(***************************************************************************)
UserIds == {"w"} \cup UserReaders
PairOk(sit, x, pair) ==
    \/ \E y \in Prefix : pair \in VolatilePairs(y)
    \/ /\ pair \in UserIds \X (Prefix \X UserIds)
       /\ x \in Secured /\ RestrictedBy(sit) => pair[2][1] \in Secured

KeyOk(sit, x, h, m) ==
    \/ m.id = Zero /\ m.key = SharedSecretKey({x, h[2]}) /\ m.kind = "GCM" /\ m.rid = Zero
    \/ \E id \in UserIds :
          LET key == EndpointKey(<<h[2], id>>) IN
          /\ m.id = key /\ m.key = key /\ m.kind = sit.submessage
          /\ m.rid = IF sit.submessage_origin THEN ReceiverKey(key, x) ELSE Zero

KeysInv ==
    /\ situation \in Situations
    /\ DOMAIN matched = Prefix /\ DOMAIN crypto = Prefix
    /\ \A x \in Prefix : DOMAIN crypto[x] = DOMAIN NoKeys
    /\ \A x \in Prefix : \A pair \in matched[x] : PairOk(situation, x, pair)
    /\ \A x \in Prefix : \A h \in DOMAIN crypto[x].decode : KeyOk(situation, x, h, crypto[x].decode[h][1])

IInv == KeysInv /\ NetInv /\ RxInv /\ AckInv /\ LogInv

-----------------------------------------------------------------------------
(* Keys *)

\* What rules a domain can have.
LEMMA SituationFacts ==
    ASSUME situation \in Situations
    PROVE  /\ situation.submessage \in Transformations /\ situation.payload \in Transformations
           /\ situation.rtps \in Transformations
           /\ situation.rtps_origin \in BOOLEAN /\ situation.submessage_origin \in BOOLEAN
           /\ situation.options \subseteq [fragmented : BOOLEAN, stamped : BOOLEAN, gaps : BOOLEAN]
           /\ situation.readers \subseteq UserReaders
           /\ situation.pairs \subseteq (Prefix \X {"w"}) \X (Prefix \X UserReaders)
           /\ situation.peers \subseteq Secured \X Secured
           /\ situation.writers \subseteq Prefix \X {"w", "volatile_w"}
           /\ situation.acking \subseteq Prefix \X (UserReaders \cup {"volatile_r"})
BY SituationsAssumption

LEMMA EntityIds ==
    /\ UserReaders = {"r1", "r2"} /\ UserIds = {"w", "r1", "r2"}
    /\ ReaderIds = {"r1", "r2", "spdp_r", "volatile_r"}
    /\ SpecialCase = {"spdp_w", "volatile_w", "spdp_r", "volatile_r"}
    /\ EntityOrder = <<"r1", "r2", "spdp_r", "volatile_r">>
<1>1. ReaderIds = {"r1", "r2", "spdp_r", "volatile_r"}
      BY DEF ReaderIds, EntityOrder, ToSet
<1> QED  BY <1>1 DEF UserIds, UserReaders, SpecialCase, BuiltinReaders, BuiltinWriters, EntityOrder

\* The key of the volatile topic is that of the pair of participants, and
\* any other endpoint has one of its own, with one for each receiver.
UserMaterial(x, id, y) ==
    [kind |-> situation.submessage, id |-> EndpointKey(<<x, id>>), key |-> EndpointKey(<<x, id>>),
     rid |-> IF situation.submessage_origin THEN ReceiverKey(EndpointKey(<<x, id>>), y) ELSE Zero]
VolatileMaterial(x, y) ==
    [kind |-> "GCM", id |-> Zero, key |-> SharedSecretKey({x, y}), rid |-> Zero]

LEMMA VolatileKeys ==
    ASSUME NEW x, NEW y
    PROVE  /\ derive_volatile_key_materials(x, y)[1] = VolatileMaterial(x, y)
           /\ select(derive_volatile_key_materials(x, y), "submessage") = VolatileMaterial(x, y)
           /\ \A id \in {"volatile_w", "volatile_r"} :
                 EndpointMaterials(x, id, y) = derive_volatile_key_materials(x, y)
BY DEF derive_volatile_key_materials, VolatileMaterial, select, EndpointMaterials

LEMMA UserKeys ==
    ASSUME situation \in Situations, NEW x, NEW y, NEW id \in UserIds
    PROVE  /\ EndpointMaterials(x, id, y)[1] = UserMaterial(x, id, y)
           /\ select(EndpointMaterials(x, id, y), "submessage") = UserMaterial(x, id, y)
<1>1. situation.submessage_origin \in BOOLEAN  BY SituationFacts
<1>2. id \notin SpecialCase /\ (id \in WriterIds <=> id = "w")  BY EntityIds DEF WriterIds, BuiltinWriters
<1>3. submessage_kind(id) = situation.submessage  BY <1>2, EntityIds DEF submessage_kind
<1> DEFINE key == EndpointKey(<<x, id>>)
           one == generate_key_material(situation.submessage, key)
           pay == generate_key_material(payload_kind(id), PayloadKey(<<x, id>>))
           own == IF id \in WriterIds
                  THEN datawriter_materials(<<x, id>>, submessage_kind(id), payload_kind(id))
                  ELSE datareader_materials(<<x, id>>, submessage_kind(id))
           mats == EndpointMaterials(x, id, y)
<1>4. own = <<one>> \/ own = <<one, pay>>
      BY <1>3 DEF datawriter_materials, datareader_materials
<1>5. mats = generate_receiver_specific_key(own, y, situation.submessage_origin)
      BY <1>2, EntityIds DEF EndpointMaterials
<1> HIDE DEF own, mats, pay, key
<1>6. one = [kind |-> situation.submessage, id |-> key, key |-> key, rid |-> Zero]
      BY DEF generate_key_material
<1>7. CASE ~situation.submessage_origin
      <2>1. mats = own  BY <1>5, <1>7 DEF generate_receiver_specific_key
      <2> QED  BY <1>4, <1>6, <1>7, <2>1 DEF UserMaterial, select, mats, key
<1>8. CASE situation.submessage_origin
      <2> DEFINE new == [one EXCEPT !.rid = ReceiverKey(key, y)]
      <2>1. own[1].key = key  BY <1>4, <1>6
      <2>2. mats = [own EXCEPT ![1].rid = ReceiverKey(key, y)]
            BY <1>5, <1>8, <2>1 DEF generate_receiver_specific_key
      <2>3. own = <<one>> => mats = <<new>>  BY <2>2
      <2>4. own = <<one, pay>> => mats = <<new, pay>>  BY <2>2
      <2>5. new = UserMaterial(x, id, y)  BY <1>6, <1>8 DEF UserMaterial, key
      <2> HIDE DEF new
      <2> QED  BY <1>4, <2>3, <2>4, <2>5 DEF select, mats
<1> QED  BY <1>1, <1>7, <1>8

-----------------------------------------------------------------------------
(* Encoding *)

\* What is given to security_encode: the submessages of a message.
SubOk(S, n, k, s) ==
    /\ ElemOk(S, n, k, s)
    /\ s.kind \in PlainKinds \cup {"INFO_TS", "INFO_DST"}
    /\ "from" \in DOMAIN s => s.kind \in PlainKinds
    /\ S.by[1] \in Secured /\ IsUser(S.by) /\ situation.payload = "GCM" /\ s.kind \in Datas =>
          IsSealed(s.payload)
SubsOk(S, n, k, q) ==
    /\ IsSeq(q) /\ Ordered(S, k, q, FALSE, FALSE)
    /\ \A i \in DOMAIN q : SubOk(S, n, k, q[i])

\* What becomes of one, s: an element e of its encoding.
EncodedOk(S, n, k, s, e) ==
    /\ ElemOk(S, n, k, e) /\ SealedOk(S, n, k, e)
    /\ e.kind \notin {"INFO_SRC", "SRTPS_PREFIX"}
    /\ e.kind \in PlainKinds \cup {"SEC_PREFIX", "SEC_POSTFIX"} => s.kind \in PlainKinds
    /\ e.kind \in InterpreterKinds => s.kind \notin PlainKinds
    /\ "from" \in DOMAIN e =>
          /\ e.kind \in PlainKinds
          /\ e.from \notin SpecialCase =>
                /\ S.by[1] \in Secured => situation.submessage # "GCM"
                /\ S.by[1] \in Secured /\ situation.payload = "GCM" /\ e.kind \in Datas => IsSealed(e.payload)

LEMMA Kinds ==
    /\ PlainKinds = {"DATA", "DATAFRAG", "GAP", "HEARTBEAT", "ACKNACK", "NACKFRAG"}
    /\ WriterKinds = {"DATA", "DATAFRAG", "GAP", "HEARTBEAT"} /\ ReaderKinds = {"ACKNACK", "NACKFRAG"}
    /\ Datas = {"DATA", "DATAFRAG"} /\ InterpreterKinds = {"INFO_TS", "INFO_SRC", "INFO_DST"}
BY DEF PlainKinds, WriterKinds, ReaderKinds, Datas, InterpreterKinds

\* Left as it is.
LEMMA EncodedAsIs ==
    ASSUME NEW S, NEW n, NEW k, NEW s, SubOk(S, n, k, s),
           S.by[1] \in Secured /\ s.kind \in PlainKinds /\ IsUser(S.by) => situation.submessage # "GCM"
    PROVE  EncodedOk(S, n, k, s, s)
<1>1. SealedOk(S, n, k, s)  BY Kinds DEF SealedOk, SubOk
<1>2. s.kind \notin {"INFO_SRC", "SRTPS_PREFIX"}
      /\ (s.kind \in PlainKinds \cup {"SEC_PREFIX", "SEC_POSTFIX"} => s.kind \in PlainKinds)
      /\ (s.kind \in InterpreterKinds => s.kind \notin PlainKinds)
      BY Kinds DEF SubOk
<1>3. s.kind \in PlainKinds => s.from = S.by[2]  BY DEF SubOk, ElemOk, PlainOk
<1>4. s.kind \in PlainKinds /\ s.from \notin SpecialCase => IsUser(S.by)  BY <1>3 DEF IsUser
<1> QED  BY <1>1, <1>2, <1>4 DEF EncodedOk, SubOk

\* Three parts of a protected submessage.
LEMMA EncodedParts ==
    ASSUME NEW S, NEW n, NEW k, NEW s, SubOk(S, n, k, s), s.kind \in PlainKinds,
           NEW m, m.kind = "GMAC" => EncodedOk(S, n, k, s, s),
           m.id = IF IsUser(S.by) THEN EndpointKey(S.by) ELSE Zero,
           NEW rids, rids \subseteq {ReceiverKey(EndpointKey(S.by), g[1]) : g \in S.to}
    PROVE  /\ IsSeq(encode_secure_submessage(m, rids, s))
           /\ \A i \in DOMAIN encode_secure_submessage(m, rids, s) :
                 EncodedOk(S, n, k, s, encode_secure_submessage(m, rids, s)[i])
<1> DEFINE a == [kind |-> "SEC_PREFIX", transformation |-> m.kind, id |-> m.id]
           body == [kind |-> "SEC_BODY", key |-> m.key, ciphertext_of |-> <<s>>]
           b == IF m.kind = "GMAC" THEN s ELSE body
           c == [kind |-> "SEC_POSTFIX", mac |-> [key |-> m.key, of |-> <<s>>], receiver_macs |-> rids]
           e == encode_secure_submessage(m, rids, s)
<1>1. e = (<<a>> \o <<b>>) \o <<c>>
      <2>1. (IF m.kind = "GMAC" THEN <<s>> ELSE <<body>>) = <<b>>  OBVIOUS
      <2> QED  BY <2>1 DEF encode_secure_submessage, protect
<1>2. EncodedOk(S, n, k, s, a)
      BY Kinds DEF EncodedOk, ElemOk, SealedOk
<1>3. EncodedOk(S, n, k, s, c)
      BY Kinds DEF EncodedOk, ElemOk, SealedOk
<1>4. EncodedOk(S, n, k, s, body)
      <2>1. body.kind = "SEC_BODY" /\ body.ciphertext_of = <<s>> /\ "from" \notin DOMAIN body  OBVIOUS
      <2>2. s.kind \in PlainKinds => PlainOk(S, n, k, s)  BY DEF SubOk, ElemOk
      <2>3. SealedOk(S, n, k, body)
            <3>1. body.ciphertext_of[1] = s  BY <2>1
            <3> HIDE DEF body
            <3> QED  BY <2>1, <2>2, <3>1 DEF SealedOk
      <2>4. ElemOk(S, n, k, body)  BY <2>1, Kinds DEF ElemOk
      <2> HIDE DEF body
      <2> QED  BY <2>1, <2>3, <2>4, Kinds DEF EncodedOk
<1>5. EncodedOk(S, n, k, s, b)  BY <1>4
<1> HIDE DEF a, b, c, e, body
<1>6. /\ IsSeq(<<a>>) /\ DOMAIN <<a>> = {1} /\ <<a>>[1] = a
      /\ IsSeq(<<b>>) /\ DOMAIN <<b>> = {1} /\ <<b>>[1] = b
      /\ IsSeq(<<c>>) /\ DOMAIN <<c>> = {1} /\ <<c>>[1] = c
      BY OneIsSeq
<1> DEFINE ab == <<a>> \o <<b>>
<1>7. IsSeq(ab) /\ \A i \in DOMAIN ab : EncodedOk(S, n, k, s, ab[i])
      <2>1. IsSeq(ab)  BY <1>6, ConcatFacts
      <2>2. ASSUME NEW i \in DOMAIN ab PROVE EncodedOk(S, n, k, s, ab[i])
            <3>1. \/ i \in DOMAIN <<a>> /\ ab[i] = <<a>>[i]
                  \/ i - Len(<<a>>) \in DOMAIN <<b>> /\ ab[i] = <<b>>[i - Len(<<a>>)]
                  BY <1>6, ConcatFacts
            <3>2. ab[i] = a \/ ab[i] = b  BY <1>6, <3>1
            <3> QED  BY <1>2, <1>5, <3>2
      <2> QED  BY <2>1, <2>2
<1> HIDE DEF ab
<1>8. IsSeq(ab \o <<c>>)  BY <1>6, <1>7, ConcatFacts
<1>9. ASSUME NEW i \in DOMAIN (ab \o <<c>>) PROVE EncodedOk(S, n, k, s, (ab \o <<c>>)[i])
      <2>1. \/ i \in DOMAIN ab /\ (ab \o <<c>>)[i] = ab[i]
            \/ i - Len(ab) \in DOMAIN <<c>> /\ (ab \o <<c>>)[i] = <<c>>[i - Len(ab)]
            BY <1>6, <1>7, ConcatFacts
      <2> QED  BY <1>3, <1>6, <1>7, <2>1
<1>10. e = ab \o <<c>>  BY <1>1 DEF ab
<1> QED  BY <1>8, <1>9, <1>10 DEF e

LEMMA OwnEndpoint ==
    ASSUME NEW x, NEW from \in WriterIds \cup ReaderIds
    PROVE  /\ IsUser(<<x, from>>) <=> from \in UserIds
           /\ IsUser(<<x, from>>) => submessage_kind(from) = situation.submessage
           /\ ~IsUser(<<x, from>>) /\ submessage_kind(from) # "NONE" => from \in {"volatile_w", "volatile_r"}
           /\ IsUser(<<x, from>>) <=> from \notin SpecialCase
           /\ <<x, from>>[2] = from
<1>1. <<x, from>>[2] = from  OBVIOUS
<1>2. WriterIds = {"spdp_w", "volatile_w", "w"}  BY DEF WriterIds, BuiltinWriters
<1>3. IsUser(<<x, from>>) <=> from \notin SpecialCase  BY <1>1 DEF IsUser
<1>4. IsUser(<<x, from>>) <=> from \in UserIds  BY <1>2, <1>3, EntityIds
<1> QED  BY <1>1, <1>2, <1>3, <1>4, EntityIds DEF submessage_kind

\* One submessage, if it can be encoded.
LEMMA EncodedSubmessage ==
    ASSUME situation \in Situations,
           NEW S, NEW n, NEW k, NEW s, SubOk(S, n, k, s),
           NEW x, NEW from \in WriterIds \cup ReaderIds, S.by = <<x, from>>,
           NEW e, e = encode_submessage(x, from, s, S.to), e # <<>>
    PROVE  /\ IsSeq(e) /\ \A i \in DOMAIN e : EncodedOk(S, n, k, s, e[i])
           /\ s.kind \notin PlainKinds => e = <<s>>
<1> DEFINE handles == {<<from, g[1]>> : g \in S.to}
           materials == {EndpointMaterials(x, from, h[2]) : h \in handles}
           own == IF from \in SpecialCase THEN CHOOSE m \in materials : TRUE
                  ELSE EndpointMaterials(x, from, x)
           om == select(own, "submessage")
           rids == ReceiverKeys(materials)
<1>1. CASE s.kind \notin PlainKinds \/ submessage_kind(from) = "NONE"
      <2>1. e = <<s>>  BY <1>1 DEF encode_submessage, PlainKinds
      <2>2. s.kind \in PlainKinds /\ IsUser(S.by) => situation.submessage # "GCM"
            BY <1>1, OwnEndpoint
      <2>3. EncodedOk(S, n, k, s, s)  BY <2>2, EncodedAsIs
      <2>4. IsSeq(<<s>>) /\ DOMAIN <<s>> = {1} /\ <<s>>[1] = s  BY OneIsSeq
      <2> QED  BY <2>1, <2>3, <2>4
<1>2. CASE s.kind \in PlainKinds /\ submessage_kind(from) # "NONE"
      <2>1. /\ e = encode_secure_submessage(om, rids, s)
            /\ from \in SpecialCase => Cardinality(handles) = 1
            BY <1>2 DEF encode_submessage, PlainKinds
      <2>2. CASE IsUser(S.by)
            <3>1. from \in UserIds /\ from \notin SpecialCase  BY <2>2, OwnEndpoint
            <3>2. om = UserMaterial(x, from, x)  BY <3>1, UserKeys
            <3>3. om.id = EndpointKey(S.by) /\ om.kind = situation.submessage  BY <3>2 DEF UserMaterial
            <3>4. rids \subseteq {ReceiverKey(EndpointKey(S.by), g[1]) : g \in S.to}
                  <4> SUFFICES ASSUME NEW r \in rids
                               PROVE  r \in {ReceiverKey(EndpointKey(S.by), g[1]) : g \in S.to}
                      OBVIOUS
                  <4>1. PICK g \in S.to : r = EndpointMaterials(x, from, g[1])[1].rid /\ r # Zero
                        BY DEF ReceiverKeys
                  <4>2. EndpointMaterials(x, from, g[1])[1] = UserMaterial(x, from, g[1])
                        BY <3>1, UserKeys
                  <4>3. r = ReceiverKey(EndpointKey(<<x, from>>), g[1])
                        BY <4>1, <4>2 DEF UserMaterial
                  <4> QED  BY <4>3
            <3>5. om.kind = "GMAC" => EncodedOk(S, n, k, s, s)
                  <4> SUFFICES ASSUME om.kind = "GMAC" PROVE EncodedOk(S, n, k, s, s)  OBVIOUS
                  <4>1. situation.submessage # "GCM"  BY <3>3
                  <4> QED  BY <4>1, EncodedAsIs
            <3> HIDE DEF om, rids
            <3> QED  BY <1>2, <2>1, <2>2, <3>3, <3>4, <3>5, EncodedParts
      <2>3. CASE ~IsUser(S.by)
            <3>1. from \in {"volatile_w", "volatile_r"} /\ from \in SpecialCase
                  BY <1>2, <2>3, OwnEndpoint
            <3>2. handles # {}
                  <4>1. Cardinality(handles) = 1  BY <2>1, <3>1
                  <4> HIDE DEF handles
                  <4>2. ASSUME handles = {} PROVE Cardinality(handles) = 0  BY <4>2, FS_EmptySet, Zenon
                  <4> QED  BY <4>1, <4>2
            <3>3. ASSUME NEW m \in materials
                  PROVE  \E y : m = derive_volatile_key_materials(x, y)
                  <4>1. PICK h \in handles : m = EndpointMaterials(x, from, h[2])  OBVIOUS
                  <4>2. m = derive_volatile_key_materials(x, h[2])  BY <3>1, <4>1, VolatileKeys
                  <4> QED  BY <4>2
            <3>4. own \in materials  BY <3>1, <3>2
            <3>5. PICK y : own = derive_volatile_key_materials(x, y)  BY <3>3, <3>4
            <3>6. om = VolatileMaterial(x, y)  BY <3>5, VolatileKeys
            <3>7. om.id = Zero /\ om.kind = "GCM"  BY <3>6 DEF VolatileMaterial
            <3>8. rids = {}
                  <4>1. ASSUME NEW m \in materials PROVE m[1].rid = Zero
                        <5>1. PICK z : m = derive_volatile_key_materials(x, z)  BY <3>3
                        <5>2. m[1] = VolatileMaterial(x, z)  BY <5>1, VolatileKeys
                        <5> QED  BY <5>2 DEF VolatileMaterial
                  <4> QED  BY <4>1 DEF ReceiverKeys
            <3> HIDE DEF om, rids
            <3> QED  BY <1>2, <2>1, <2>3, <3>7, <3>8, EncodedParts
      <2> QED  BY <2>2, <2>3
<1> QED  BY <1>1, <1>2

\* security_encode of all of them, in front of the message's own protection.
LEMMA EncodedSubmessages ==
    ASSUME situation \in Situations,
           NEW S, NEW n, NEW k, NEW q, SubsOk(S, n, k, q), q # <<>>,
           NEW x, NEW from \in WriterIds \cup ReaderIds, S.by = <<x, from>>,
           NEW seqs, seqs = [i \in DOMAIN q |-> encode_submessage(x, from, q[i], S.to)],
           \A i \in DOMAIN q : seqs[i] # <<>>
    PROVE  /\ SecretOk(S, n, k, FlattenSeq(seqs))
           /\ \A i \in DOMAIN FlattenSeq(seqs) : \E s : EncodedOk(S, n, k, s, FlattenSeq(seqs)[i])
<1> DEFINE N == Len(q)
           f == FlattenSeq(seqs)
<1>1. N \in Nat /\ N # 0 /\ DOMAIN q = 1 .. N  BY IsSeqFacts DEF SubsOk
<1>2. ASSUME NEW j \in 1 .. N
      PROVE  /\ IsSeq(seqs[j]) /\ \A i \in DOMAIN seqs[j] : EncodedOk(S, n, k, q[j], seqs[j][i])
             /\ q[j].kind \notin PlainKinds => seqs[j] = <<q[j]>>
      <2>1. SubOk(S, n, k, q[j]) /\ seqs[j] = encode_submessage(x, from, q[j], S.to) /\ seqs[j] # <<>>
            BY <1>1 DEF SubsOk
      <2> QED  BY <2>1, EncodedSubmessage
<1>3. Len(seqs) = N
      <2>1. seqs \in [1 .. N -> {seqs[j] : j \in 1 .. N}]  BY <1>1
      <2>2. seqs \in Seq({seqs[j] : j \in 1 .. N})  BY <1>1, <2>1, SeqDef
      <2>3. DOMAIN seqs = 1 .. Len(seqs) /\ Len(seqs) \in Nat  BY <2>2, LenProperties
      <2>4. DOMAIN seqs = 1 .. N  BY <1>1
      <2> QED  BY <1>1, <2>3, <2>4
<1>4. IsSeq(f) /\ Stems(f, seqs, N)
      <2>1. \A j \in 1 .. N : IsSeq(seqs[j])  BY <1>2
      <2> HIDE DEF N
      <2> QED  BY <1>1, <1>3, <2>1, FlattenFacts
<1>5. DOMAIN f = 1 .. Len(f) /\ Len(f) \in Nat  BY <1>4, IsSeqFacts
<1> HIDE DEF f, N
<1>6. ASSUME NEW p \in DOMAIN f
      PROVE  \E j \in 1 .. N :
                /\ EncodedOk(S, n, k, q[j], f[p])
                /\ \A i \in 1 .. j - 1 : q[i].kind \notin PlainKinds => \E o \in 1 .. p - 1 : f[o] = q[i]
                /\ \A o \in 1 .. p - 1 : \E i \in 1 .. j : EncodedOk(S, n, k, q[i], f[o])
      <2>1. PICK j \in 1 .. N : \E r \in DOMAIN seqs[j] :
               /\ f[p] = seqs[j][r]
               /\ \A i \in 1 .. j - 1 : \A u \in DOMAIN seqs[i] : \E o \in 1 .. p - 1 : f[o] = seqs[i][u]
               /\ \A o \in 1 .. p - 1 : \E i \in 1 .. j : \E u \in DOMAIN seqs[i] : f[o] = seqs[i][u]
            BY <1>4 DEF Stems
      <2>2. EncodedOk(S, n, k, q[j], f[p])  BY <1>2, <2>1
      <2>3. ASSUME NEW i \in 1 .. j - 1, q[i].kind \notin PlainKinds
            PROVE  \E o \in 1 .. p - 1 : f[o] = q[i]
            <3>1. i \in 1 .. N  BY <1>1
            <3>2. seqs[i] = <<q[i]>>  BY <1>2, <2>3, <3>1
            <3>3. 1 \in DOMAIN seqs[i] /\ seqs[i][1] = q[i]  BY <3>2, OneIsSeq
            <3> QED  BY <2>1, <3>3
      <2>4. ASSUME NEW o \in 1 .. p - 1 PROVE \E i \in 1 .. j : EncodedOk(S, n, k, q[i], f[o])
            <3>1. PICK i \in 1 .. j : \E u \in DOMAIN seqs[i] : f[o] = seqs[i][u]  BY <2>1
            <3>2. i \in 1 .. N  BY <1>1
            <3> QED  BY <1>2, <3>1, <3>2
      <2> QED  BY <2>2, <2>3, <2>4
<1>7. \A p \in DOMAIN f : ElemOk(S, n, k, f[p]) /\ SealedOk(S, n, k, f[p])
      BY <1>6 DEF EncodedOk
<1>8. Ordered(S, k, f, FALSE, FALSE)
      <2> SUFFICES ASSUME NEW p \in DOMAIN f
                   PROVE  /\ f[p].kind \in PlainKinds \cup {"SEC_POSTFIX"} =>
                             /\ S.stamped /\ k \in Datas => \E o \in 1 .. p - 1 : f[o].kind = "INFO_TS"
                             /\ S.aimed /\ k # "HEARTBEAT" => \E o \in 1 .. p - 1 : f[o].kind = "INFO_DST"
                          /\ f[p].kind # "INFO_SRC"
                          /\ f[p].kind \in InterpreterKinds =>
                             \A o \in 1 .. p - 1 : f[o].kind \notin PlainKinds \cup {"SEC_PREFIX"}
          BY DEF Ordered
      <2>1. PICK j \in 1 .. N :
                /\ EncodedOk(S, n, k, q[j], f[p])
                /\ \A i \in 1 .. j - 1 : q[i].kind \notin PlainKinds => \E o \in 1 .. p - 1 : f[o] = q[i]
                /\ \A o \in 1 .. p - 1 : \E i \in 1 .. j : EncodedOk(S, n, k, q[i], f[o])
            BY <1>6
      <2>2. f[p].kind # "INFO_SRC"
            /\ (f[p].kind \in PlainKinds \cup {"SEC_POSTFIX"} => q[j].kind \in PlainKinds)
            BY <2>1 DEF EncodedOk
      <2>3. q[j].kind \in PlainKinds =>
               /\ S.stamped /\ k \in Datas => \E i \in 1 .. j - 1 : q[i].kind = "INFO_TS"
               /\ S.aimed /\ k # "HEARTBEAT" => \E i \in 1 .. j - 1 : q[i].kind = "INFO_DST"
            BY <1>1 DEF SubsOk, Ordered
      <2>4. "INFO_TS" \notin PlainKinds /\ "INFO_DST" \notin PlainKinds  BY Kinds
      <2>5. ASSUME f[p].kind \in InterpreterKinds, NEW o \in 1 .. p - 1
            PROVE  f[o].kind \notin PlainKinds \cup {"SEC_PREFIX"}
            <3>1. q[j].kind \notin PlainKinds  BY <2>1, <2>5 DEF EncodedOk
            <3>2. q[j].kind \in InterpreterKinds  BY <1>1, <3>1, Kinds DEF SubsOk, SubOk
            <3>3. PICK i \in 1 .. j : EncodedOk(S, n, k, q[i], f[o])  BY <2>1
            <3>4. q[i].kind \notin PlainKinds
                  <4>1. CASE i = j  BY <3>1, <4>1
                  <4>2. CASE i # j
                        <5>1. i \in 1 .. j - 1  BY <1>1, <4>2
                        <5> QED  BY <1>1, <3>2, <5>1 DEF SubsOk, Ordered
                  <4> QED  BY <4>1, <4>2
            <3> QED  BY <3>3, <3>4 DEF EncodedOk
      <2> QED  BY <2>1, <2>2, <2>3, <2>4, <2>5
<1> QED  BY <1>4, <1>6, <1>7, <1>8 DEF SecretOk, PublicOk, f

LEMMA ParticipantKeys ==
    ASSUME situation \in Situations, NEW x, NEW y
    PROVE  /\ ParticipantMaterials(x, y)[1].key = ParticipantKey(x)
           /\ ParticipantMaterials(x, y)[1].rid =
                 IF situation.rtps_origin THEN ReceiverKey(ParticipantKey(x), y) ELSE Zero
           /\ select(ParticipantMaterials(x, y), "message") = ParticipantMaterials(x, y)[1]
<1>1. situation.rtps_origin \in BOOLEAN  BY SituationFacts
<1> DEFINE key == ParticipantKey(x)
           one == [kind |-> situation.rtps, id |-> key, key |-> key, rid |-> Zero]
           new == [one EXCEPT !.rid = ReceiverKey(key, y)]
           mats == ParticipantMaterials(x, y)
<1>2. participant_materials(x, situation.rtps) = <<one>>
      BY DEF participant_materials, generate_key_material
<1>3. mats = IF situation.rtps_origin THEN [<<one>> EXCEPT ![1].rid = ReceiverKey(<<one>>[1].key, y)] ELSE <<one>>
      BY <1>2 DEF ParticipantMaterials, generate_receiver_specific_key
<1>4. one.key = key /\ one.rid = Zero /\ new.key = key /\ new.rid = ReceiverKey(key, y)  OBVIOUS
<1>5. mats = IF situation.rtps_origin THEN <<new>> ELSE <<one>>  BY <1>3, <1>4
<1> HIDE DEF one, new, mats
<1>6. mats[1].key = key /\ mats[1].rid = (IF situation.rtps_origin THEN ReceiverKey(key, y) ELSE Zero)
      BY <1>1, <1>4, <1>5
<1>7. select(mats, "message") = mats[1]  BY DEF select
<1> QED  BY <1>6, <1>7 DEF mats

\* What comes before or after does not disturb the order.
LEMMA OrderedAfter ==
    ASSUME NEW S, NEW k, NEW q, IsSeq(q), Ordered(S, k, q, FALSE, FALSE), NEW e,
           e.kind \notin PlainKinds \cup {"SEC_PREFIX", "SEC_POSTFIX", "INFO_TS"}
    PROVE  Ordered(S, k, <<e>> \o q, FALSE, FALSE)
<1> DEFINE p == <<e>> \o q
<1>1. IsSeq(<<e>>) /\ DOMAIN <<e>> = {1} /\ Len(<<e>>) = 1 /\ <<e>>[1] = e  BY OneIsSeq
<1>2. Len(q) \in Nat /\ DOMAIN q = 1 .. Len(q)  BY IsSeqFacts
<1>3. DOMAIN p = 1 .. 1 + Len(q) /\ p[1] = e /\ \A i \in DOMAIN q : p[1 + i] = q[i]
      <2>1. DOMAIN p = 1 .. 1 + Len(q) /\ p[1] = e  BY <1>1, ConcatFacts
      <2>2. ASSUME NEW i \in DOMAIN q PROVE p[1 + i] = q[i]
            <3> DEFINE one == <<e>>
            <3>1. i \in DOMAIN q /\ IsSeq(one) /\ Len(one) = 1  BY <1>1
            <3> HIDE DEF one
            <3>2. (one \o q)[Len(one) + i] = q[i]  BY <3>1, ConcatRight, Zenon
            <3> QED  BY <3>1, <3>2 DEF one
      <2> QED  BY <2>1, <2>2
<1> HIDE DEF p
<1> SUFFICES ASSUME NEW i \in DOMAIN p
             PROVE  /\ p[i].kind \in PlainKinds \cup {"SEC_POSTFIX"} =>
                       /\ S.stamped /\ k \in Datas => \E j \in 1 .. i - 1 : p[j].kind = "INFO_TS"
                       /\ S.aimed /\ k # "HEARTBEAT" => \E j \in 1 .. i - 1 : p[j].kind = "INFO_DST"
                    /\ p[i].kind = "INFO_SRC" => \A j \in 1 .. i - 1 : p[j].kind # "INFO_TS"
                    /\ p[i].kind \in InterpreterKinds =>
                       \A j \in 1 .. i - 1 : p[j].kind \notin PlainKinds \cup {"SEC_PREFIX"}
    BY DEF Ordered, p
<1>4. CASE i = 1
      <2>1. 1 .. i - 1 = {} /\ p[i] = e  BY <1>3, <1>4
      <2> QED  BY <2>1
<1>5. CASE i # 1
      <2>1. i - 1 \in DOMAIN q /\ p[i] = q[i - 1]
            <3>1. i - 1 \in DOMAIN q /\ 1 + (i - 1) = i  BY <1>2, <1>3, <1>5
            <3> QED  BY <1>3, <3>1
      <2>2. /\ q[i - 1].kind \in PlainKinds \cup {"SEC_POSTFIX"} =>
               /\ S.stamped /\ k \in Datas => \E j \in 1 .. (i - 1) - 1 : q[j].kind = "INFO_TS"
               /\ S.aimed /\ k # "HEARTBEAT" => \E j \in 1 .. (i - 1) - 1 : q[j].kind = "INFO_DST"
            /\ q[i - 1].kind = "INFO_SRC" => \A j \in 1 .. (i - 1) - 1 : q[j].kind # "INFO_TS"
            /\ q[i - 1].kind \in InterpreterKinds =>
               \A j \in 1 .. (i - 1) - 1 : q[j].kind \notin PlainKinds \cup {"SEC_PREFIX"}
            BY <2>1 DEF Ordered
      <2>3. ASSUME NEW j \in 1 .. (i - 1) - 1 PROVE 1 + j \in 1 .. i - 1 /\ p[1 + j] = q[j]
            <3>1. j \in DOMAIN q /\ 1 + j \in 1 .. i - 1  BY <1>2, <1>3
            <3> QED  BY <1>3, <3>1
      <2>4. ASSUME NEW j \in 1 .. i - 1 PROVE p[j] = e \/ \E o \in 1 .. (i - 1) - 1 : p[j] = q[o]
            <3>1. CASE j = 1  BY <1>3, <3>1
            <3>2. CASE j # 1
                  <4>1. j - 1 \in 1 .. (i - 1) - 1 /\ 1 + (j - 1) = j  BY <1>2, <1>3, <3>2
                  <4>2. p[1 + (j - 1)] = q[j - 1]  BY <2>3, <4>1
                  <4>3. p[j] = q[j - 1]  BY <4>1, <4>2
                  <4> QED  BY <4>1, <4>3
            <3> QED  BY <3>1, <3>2
      <2> QED  BY <2>1, <2>2, <2>3, <2>4
<1> QED  BY <1>4, <1>5

LEMMA OrderedBefore ==
    ASSUME NEW S, NEW k, NEW q, IsSeq(q), Ordered(S, k, q, FALSE, FALSE), NEW e, e.kind # "INFO_SRC",
           e.kind \in PlainKinds \cup {"SEC_POSTFIX"} =>
               /\ S.stamped /\ k \in Datas => \E j \in DOMAIN q : q[j].kind = "INFO_TS"
               /\ S.aimed /\ k # "HEARTBEAT" => \E j \in DOMAIN q : q[j].kind = "INFO_DST",
           e.kind \in InterpreterKinds =>
               \A j \in DOMAIN q : q[j].kind \notin PlainKinds \cup {"SEC_PREFIX"}
    PROVE  Ordered(S, k, q \o <<e>>, FALSE, FALSE)
<1> DEFINE p == q \o <<e>>
<1>1. IsSeq(<<e>>) /\ DOMAIN <<e>> = {1} /\ Len(<<e>>) = 1 /\ <<e>>[1] = e  BY OneIsSeq
<1>2. Len(q) \in Nat /\ DOMAIN q = 1 .. Len(q)  BY IsSeqFacts
<1>3. DOMAIN p = 1 .. Len(q) + 1 /\ p[Len(q) + 1] = e /\ \A i \in DOMAIN q : p[i] = q[i]
      BY <1>1, ConcatFacts
<1> HIDE DEF p
<1> SUFFICES ASSUME NEW i \in DOMAIN p
             PROVE  /\ p[i].kind \in PlainKinds \cup {"SEC_POSTFIX"} =>
                       /\ S.stamped /\ k \in Datas => \E j \in 1 .. i - 1 : p[j].kind = "INFO_TS"
                       /\ S.aimed /\ k # "HEARTBEAT" => \E j \in 1 .. i - 1 : p[j].kind = "INFO_DST"
                    /\ p[i].kind = "INFO_SRC" => \A j \in 1 .. i - 1 : p[j].kind # "INFO_TS"
                    /\ p[i].kind \in InterpreterKinds =>
                       \A j \in 1 .. i - 1 : p[j].kind \notin PlainKinds \cup {"SEC_PREFIX"}
    BY DEF Ordered, p
<1>4. \A j \in 1 .. i - 1 : j \in DOMAIN q /\ p[j] = q[j]  BY <1>2, <1>3
<1>5. CASE i = Len(q) + 1
      <2>1. 1 .. i - 1 = DOMAIN q /\ p[i] = e  BY <1>2, <1>3, <1>5
      <2> QED  BY <1>4, <2>1
<1>6. CASE i \in DOMAIN q
      <2>1. /\ q[i].kind \in PlainKinds \cup {"SEC_POSTFIX"} =>
               /\ S.stamped /\ k \in Datas => \E j \in 1 .. i - 1 : q[j].kind = "INFO_TS"
               /\ S.aimed /\ k # "HEARTBEAT" => \E j \in 1 .. i - 1 : q[j].kind = "INFO_DST"
            /\ q[i].kind = "INFO_SRC" => \A j \in 1 .. i - 1 : q[j].kind # "INFO_TS"
            /\ q[i].kind \in InterpreterKinds =>
               \A j \in 1 .. i - 1 : q[j].kind \notin PlainKinds \cup {"SEC_PREFIX"}
            BY <1>6 DEF Ordered
      <2>2. p[i] = q[i]  BY <1>3, <1>6
      <2> QED  BY <1>4, <2>1, <2>2
<1> QED  BY <1>2, <1>3, <1>5, <1>6

\* What a protected message looks like: seen from outside, and inside.
LEMMA ProtectedMessage ==
    ASSUME NEW S, NEW n, NEW k, NEW f, SecretOk(S, n, k, f),
           \A i \in DOMAIN f : f[i].kind # "SRTPS_PREFIX" /\ (situation.rtps # "GCM" => ClearOk(situation, f[i])),
           NEW m, m.kind = situation.rtps, situation.rtps # "NONE",
           NEW rids,
           situation.rtps_origin => rids \subseteq {ReceiverKey(ParticipantKey(S.by[1]), g[1]) : g \in S.to},
           situation \in Situations,
           NEW msg, msg.no = n, msg.kind = k, msg.source = S.by[1], S.by = <<S.by[1], S.by[2]>>,
           msg.subs = encode_rtps_message(m, rids, S.by[1], f)
    PROVE  MessageOk(situation, S, msg)
<1> DEFINE src == [kind |-> "INFO_SRC", prefix |-> S.by[1]]
           plain == <<src>> \o f
           a == [kind |-> "SRTPS_PREFIX", transformation |-> m.kind, id |-> m.id]
           body == [kind |-> "SEC_BODY", key |-> m.key, ciphertext_of |-> plain]
           mid == IF m.kind = "GMAC" THEN plain ELSE <<body>>
           c == [kind |-> "SRTPS_POSTFIX", mac |-> [key |-> m.key, of |-> plain], receiver_macs |-> rids]
           amid == <<a>> \o mid
           w == amid \o <<c>>
           Good(e) == ElemOk(S, n, k, e) /\ ClearOk(situation, e)
<1>1. msg.subs = w  BY DEF encode_rtps_message, protect
<1>2. IsSeq(f) /\ Ordered(S, k, f, FALSE, FALSE) /\ \A i \in DOMAIN f : ElemOk(S, n, k, f[i])
      BY DEF SecretOk, PublicOk
<1>3. Tail(plain) = f  BY <1>2, TailOfConcat
<1>4. /\ src.kind = "INFO_SRC" /\ src.prefix = S.by[1] /\ Good(src)
      /\ a.kind = "SRTPS_PREFIX" /\ Good(a)
      /\ body.kind = "SEC_BODY" /\ Good(body)
      /\ c.kind = "SRTPS_POSTFIX" /\ c.mac.of = plain /\ c.receiver_macs = rids /\ Good(c)
      BY Kinds DEF ElemOk, ClearOk
<1> HIDE DEF src, a, body, c
<1>5. /\ IsSeq(<<src>>) /\ DOMAIN <<src>> = {1} /\ <<src>>[1] = src
      /\ IsSeq(<<a>>) /\ DOMAIN <<a>> = {1} /\ <<a>>[1] = a /\ Len(<<a>>) = 1
      /\ IsSeq(<<body>>) /\ DOMAIN <<body>> = {1} /\ <<body>>[1] = body
      /\ IsSeq(<<c>>) /\ DOMAIN <<c>> = {1} /\ <<c>>[1] = c /\ Len(<<c>>) = 1
      BY OneIsSeq
<1>6. IsSeq(plain) /\ Ordered(S, k, plain, FALSE, FALSE)
      /\ (m.kind = "GMAC" => \A i \in DOMAIN plain : Good(plain[i]))
      <2>1. IsSeq(plain)  BY <1>2, <1>5, ConcatFacts
      <2>2. Ordered(S, k, plain, FALSE, FALSE)  BY <1>2, <1>4, Kinds, OrderedAfter
      <2>3. ASSUME m.kind = "GMAC", NEW i \in DOMAIN plain PROVE Good(plain[i])
            <3>1. plain[i] = src \/ \E j \in DOMAIN f : plain[i] = f[j]  BY <1>2, PrependFacts
            <3>2. situation.rtps # "GCM"  BY <2>3
            <3>3. \A j \in DOMAIN f : Good(f[j])  BY <1>2, <3>2
            <3> HIDE DEF Good
            <3> QED  BY <1>4, <1>5, <3>1, <3>3
      <2> QED  BY <2>1, <2>2, <2>3
<1> HIDE DEF plain, Good
<1>7. IsSeq(mid) /\ Ordered(S, k, mid, FALSE, FALSE) /\ \A i \in DOMAIN mid : Good(mid[i])
      <2>1. CASE m.kind = "GMAC"  BY <1>6, <2>1
      <2>2. CASE m.kind # "GMAC"
            <3>1. mid = <<body>>  BY <2>2
            <3>2. Ordered(S, k, <<body>>, FALSE, FALSE)  BY <1>4, <1>5, Kinds DEF Ordered
            <3> HIDE DEF mid
            <3> QED  BY <1>4, <1>5, <3>1, <3>2
      <2> QED  BY <2>1, <2>2
<1> HIDE DEF mid
<1>8. /\ IsSeq(amid) /\ Ordered(S, k, amid, FALSE, FALSE) /\ (\A i \in DOMAIN amid : Good(amid[i]))
      /\ amid[1] = a /\ 1 \in DOMAIN amid
      <2>1. IsSeq(amid) /\ DOMAIN amid = 1 .. 1 + Len(mid) /\ Len(mid) \in Nat
            BY <1>5, <1>7, ConcatFacts, IsSeqFacts
      <2>2. Ordered(S, k, amid, FALSE, FALSE)  BY <1>4, <1>7, Kinds, OrderedAfter
      <2>3. ASSUME NEW i \in DOMAIN amid PROVE Good(amid[i])
            <3>1. amid[i] = a \/ \E j \in DOMAIN mid : amid[i] = mid[j]  BY <1>7, PrependFacts
            <3> HIDE DEF amid
            <3> QED  BY <1>4, <1>5, <1>7, <3>1
      <2>4. amid[1] = a  BY <1>7, PrependFacts
      <2> HIDE DEF amid
      <2>5. 1 \in DOMAIN amid  BY <2>1
      <2> QED  BY <2>1, <2>2, <2>3, <2>4, <2>5
<1> HIDE DEF amid
<1>9. /\ IsSeq(w) /\ Ordered(S, k, w, FALSE, FALSE) /\ (\A i \in DOMAIN w : Good(w[i]))
      /\ w[1] = a /\ w[Len(w)] = c
      <2>1. Len(amid) \in Nat /\ DOMAIN amid = 1 .. Len(amid)  BY <1>8, IsSeqFacts
      <2>2. IsSeq(w) /\ Len(w) = Len(amid) + 1 /\ DOMAIN w = 1 .. Len(amid) + 1
            BY <1>5, <1>8, ConcatFacts
      <2>3. Ordered(S, k, w, FALSE, FALSE)  BY <1>4, <1>8, Kinds, OrderedBefore
      <2>4. ASSUME NEW i \in DOMAIN w
            PROVE  Good(w[i])
            <3>1. w[i] = c \/ \E j \in DOMAIN amid : w[i] = amid[j]  BY <1>8, AppendOneFacts
            <3> HIDE DEF w
            <3> QED  BY <1>4, <1>5, <1>8, <3>1
      <2>5. w[1] = a  BY <1>8, AppendOneFacts
      <2>6. w[Len(w)] = c
            <3>1. w[Len(amid) + 1] = c  BY <1>8, AppendOneFacts
            <3> QED  BY <2>2, <3>1
      <2> QED  BY <2>2, <2>3, <2>4, <2>5, <2>6
<1> HIDE DEF w
<1>10. PublicOk(S, msg.no, msg.kind, msg.subs)  BY <1>1, <1>9 DEF PublicOk, Good
<1>11. ProtectedOk(situation, S, msg)
      BY <1>1, <1>3, <1>4, <1>9 DEF ProtectedOk, Inside
<1>12. \A i \in DOMAIN msg.subs : ClearOk(situation, msg.subs[i])  BY <1>1, <1>9 DEF Good
<1>13. msg.subs[1].kind = "SRTPS_PREFIX"  BY <1>1, <1>4, <1>9
<1> QED  BY <1>10, <1>11, <1>12, <1>13 DEF MessageOk

\* What security_encode makes of a message is as it should be.
LEMMA EncodedMessage ==
    ASSUME situation \in Situations,
           NEW S, NEW n, NEW k, NEW q, SubsOk(S, n, k, q), q # <<>>,
           NEW x, NEW from \in WriterIds \cup ReaderIds, S.by = <<x, from>>,
           NEW msg, msg.no = n, msg.kind = k, msg.source = x,
           msg.subs = security_encode(x, from, q, S.to), msg.subs # <<>>
    PROVE  MessageOk(situation, S, msg)
<1> DEFINE seqs == [i \in DOMAIN q |-> encode_submessage(x, from, q[i], S.to)]
           f == FlattenSeq(seqs)
<1>1. S.by[1] = x /\ S.by[2] = from /\ S.by = <<S.by[1], S.by[2]>>  OBVIOUS
<1>2. CASE x \notin Secured
      <2>1. msg.subs = q  BY <1>2 DEF security_encode
      <2>2. PublicOk(S, n, k, q)  BY DEF SubsOk, SubOk, PublicOk
      <2>3. \A i \in DOMAIN q : SealedOk(S, n, k, q[i]) /\ q[i].kind # "SRTPS_PREFIX"
            BY Kinds DEF SubsOk, SubOk, SealedOk
      <2>4. 1 \in DOMAIN q  BY IsSeqFacts DEF SubsOk
      <2> QED  BY <1>1, <1>2, <2>1, <2>2, <2>3, <2>4 DEF MessageOk, SecretOk
<1>3. CASE x \in Secured
      <2>1. /\ \A i \in DOMAIN q : seqs[i] # <<>>
            /\ msg.subs = encode_message(x, f, S.to)
            BY <1>3 DEF security_encode
      <2>2. /\ SecretOk(S, n, k, f)
            /\ \A i \in DOMAIN f : \E s : EncodedOk(S, n, k, s, f[i])
            <3> HIDE DEF seqs
            <3>1. seqs = [i \in DOMAIN q |-> encode_submessage(x, from, q[i], S.to)]  BY DEF seqs
            <3> QED  BY <2>1, <3>1, EncodedSubmessages
      <2> HIDE DEF seqs, f
      <2>3. ASSUME NEW i \in DOMAIN f
            PROVE  f[i].kind # "SRTPS_PREFIX" /\ (situation.rtps # "GCM" => ClearOk(situation, f[i]))
            BY <1>1, <1>3, <2>2 DEF EncodedOk, ClearOk
      <2>4. IsSeq(f) /\ DOMAIN f = 1 .. Len(f)  BY <2>2, IsSeqFacts DEF SecretOk, PublicOk
      <2>5. CASE rtps_not_protected \/ is_rtps_protection_special_case(f) = {TRUE}
            <3>1. msg.subs = f  BY <2>1, <2>5 DEF encode_message
            <3>2. 1 \in DOMAIN f  BY <2>4, <3>1, IsSeqFacts
            <3>3. ASSUME NEW i \in DOMAIN f PROVE ClearOk(situation, f[i])
                  <4>1. CASE rtps_not_protected  BY <2>3, <4>1 DEF rtps_not_protected
                  <4>2. CASE is_rtps_protection_special_case(f) = {TRUE}
                        <5> SUFFICES ASSUME "from" \in DOMAIN f[i] PROVE f[i].from \in SpecialCase
                            BY DEF ClearOk
                        <5>1. f[i].kind \in PlainKinds  BY <2>2 DEF EncodedOk
                        <5>2. f[i] \in ToSet(f)  BY DEF ToSet
                        <5>3. (f[i].from \in {"spdp_w", "spdp_r"}) \in is_rtps_protection_special_case(f)
                              BY <5>1, <5>2 DEF is_rtps_protection_special_case, PlainKinds
                        <5>4. (f[i].from \in {"spdp_w", "spdp_r"}) = TRUE
                              <6> DEFINE v == f[i].from \in {"spdp_w", "spdp_r"}
                              <6>1. v \in {TRUE}  BY <4>2, <5>3
                              <6> HIDE DEF v
                              <6>2. v = TRUE  BY <6>1, Zenon
                              <6> QED  BY <6>2 DEF v
                        <5> QED  BY <5>4, EntityIds
                  <4> QED  BY <2>5, <4>1, <4>2
            <3> QED  BY <1>1, <2>2, <2>3, <3>1, <3>2, <3>3 DEF MessageOk, SecretOk
      <2>6. CASE ~(rtps_not_protected \/ is_rtps_protection_special_case(f) = {TRUE})
            <3> DEFINE own == participant_materials(x, situation.rtps)
                       m == select(own, "message")
                       rids == ReceiverKeys({ParticipantMaterials(x, g[1]) : g \in S.to})
            <3>1. msg.subs = encode_rtps_message(m, rids, x, f)
                  BY <2>1, <2>6 DEF encode_message
            <3>2. m.kind = situation.rtps /\ situation.rtps # "NONE"
                  BY <2>6 DEF participant_materials, generate_key_material, select, rtps_not_protected
            <3>3. situation.rtps_origin => rids \subseteq {ReceiverKey(ParticipantKey(S.by[1]), g[1]) : g \in S.to}
                  <4> SUFFICES ASSUME situation.rtps_origin, NEW r \in rids
                               PROVE  r \in {ReceiverKey(ParticipantKey(S.by[1]), g[1]) : g \in S.to}
                      OBVIOUS
                  <4>1. PICK g \in S.to : r = ParticipantMaterials(x, g[1])[1].rid  BY DEF ReceiverKeys
                  <4>2. r = ReceiverKey(ParticipantKey(x), g[1])  BY <4>1, ParticipantKeys
                  <4> QED  BY <1>1, <4>2
            <3> HIDE DEF m, rids
            <3> QED  BY <1>1, <2>2, <2>3, <3>1, <3>2, <3>3, ProtectedMessage
      <2> QED  BY <2>5, <2>6
<1> QED  BY <1>2, <1>3


-----------------------------------------------------------------------------
(* Sending *)

\* A message joins the others, whose entries of "sent" stay.
LEMMA SendKeeps ==
    ASSUME IInv, NEW by, by = <<by[1], by[2]>>, by[2] \in WriterIds \cup ReaderIds,
           NEW to, NEW aimed, NEW stamped, NEW parts, send_messages(by, to, aimed, stamped, parts),
           \A S : S.by = by /\ S.to = to /\ S.aimed = aimed /\ S.stamped = stamped =>
                     \A part \in ToSet(parts) : SubsOk(S, No, part[1], part[2]) /\ part[2] # <<>>
    PROVE  IInv'
<1> DEFINE S == [by |-> by, to |-> to, aimed |-> aimed, stamped |-> stamped,
                 expect |-> {g \in to : g[1] \in Listeners /\ g[2] \in ReaderIds /\ HasKeys(g, by)}]
           encoded(part) == security_encode(by[1], by[2], part[2], to)
           new == {[no |-> Len(sent) + 1, kind |-> part[1], source |-> by[1], subs |-> encoded(part)] :
                     part \in {part \in ToSet(parts) : encoded(part) # <<>>}}
<1>1. /\ sent' = Append(sent, S) /\ net' = net \cup new
      /\ UNCHANGED <<situation, crypto, matched, rx, acks, log>>
      BY DEF send_messages, receiver
<1>2. S.by = by /\ S.to = to /\ S.aimed = aimed /\ S.stamped = stamped  OBVIOUS
<1> HIDE DEF S
<1>3. /\ IsSeq(sent) /\ IsSeq(sent') /\ Len(sent) \in Nat
      /\ DOMAIN sent = 1 .. Len(sent) /\ DOMAIN sent' = 1 .. Len(sent) + 1
      /\ \A i \in DOMAIN sent : sent'[i] = sent[i] /\ i \in DOMAIN sent'
      /\ sent'[Len(sent) + 1] = S
      <2>1. IsSeq(sent)  BY DEF IInv, NetInv
      <2>2. Len(sent) \in Nat /\ DOMAIN sent = 1 .. Len(sent)  BY <2>1, IsSeqFacts
      <2> QED  BY <1>1, <2>1, <2>2, AppendFacts
<1>4. ASSUME NEW m \in new
      PROVE  m.no \in DOMAIN sent' /\ MessageOk(situation, sent'[m.no], m)
      <2>1. PICK part \in ToSet(parts) :
               /\ encoded(part) # <<>>
               /\ m = [no |-> Len(sent) + 1, kind |-> part[1], source |-> by[1], subs |-> encoded(part)]
            OBVIOUS
      <2>2. /\ m.no = No /\ m.kind = part[1] /\ m.source = by[1]
            /\ m.subs = security_encode(by[1], by[2], part[2], S.to) /\ m.subs # <<>>
            BY <1>2, <2>1 DEF No
      <2>3. SubsOk(S, No, part[1], part[2]) /\ part[2] # <<>>  BY <1>2
      <2>4. S.by = <<by[1], by[2]>>  BY <1>2
      <2>5. situation \in Situations  BY DEF IInv, KeysInv
      <2>6. MessageOk(situation, S, m)  BY <2>2, <2>3, <2>4, <2>5, EncodedMessage
      <2>7. m.no = Len(sent) + 1 /\ m.no \in DOMAIN sent'  BY <1>3, <2>2 DEF No
      <2> QED  BY <1>3, <2>6, <2>7
<1>5. NetInv'
      <2>1. ASSUME NEW m \in net' PROVE m.no \in DOMAIN sent' /\ MessageOk(situation', sent'[m.no], m)
            <3>1. CASE m \in net
                  <4>1. m.no \in DOMAIN sent /\ MessageOk(situation, sent[m.no], m)  BY <3>1 DEF IInv, NetInv
                  <4> QED  BY <1>1, <1>3, <4>1
            <3>2. CASE m \in new  BY <1>1, <1>4, <3>2
            <3> QED  BY <1>1, <3>1, <3>2
      <2> QED  BY <1>3, <2>1 DEF NetInv
<1>6. RxInv'
      <2>1. ASSUME NEW x \in Prefix, rx[x].queue # <<>>
            PROVE  \E m \in net' : HandlingOk(situation', x, sent'[m.no], m, rx[x])
            <3>1. PICK m \in net : HandlingOk(situation, x, sent[m.no], m, rx[x])
                  BY <2>1 DEF IInv, RxInv
            <3>2. m.no \in DOMAIN sent  BY DEF IInv, NetInv
            <3>3. m \in net' /\ sent'[m.no] = sent[m.no]  BY <1>1, <1>3, <3>2
            <3> QED  BY <1>1, <3>1, <3>3
      <2> QED  BY <1>1, <2>1 DEF IInv, RxInv
<1>7. AckInv'
      BY <1>1, <1>3 DEF IInv, AckInv
<1>8. LogInv'
      BY <1>1, <1>3 DEF IInv, LogInv
<1>9. KeysInv'
      BY <1>1 DEF IInv, KeysInv
<1> QED  BY <1>5, <1>6, <1>7, <1>8, <1>9 DEF IInv

\* Messages are put together one submessage after the other: t and d say
\* whether INFO_TS and INFO_DST are among them already.  Nothing but those two
\* can come before them.
Built(S, n, k, q, t, d) ==
    /\ SubsOk(S, n, k, q)
    /\ t => \E i \in DOMAIN q : q[i].kind = "INFO_TS"
    /\ d => \E i \in DOMAIN q : q[i].kind = "INFO_DST"
Fits(S, n, k, e, t, d) ==
    /\ SubOk(S, n, k, e)
    /\ e.kind \in PlainKinds => (S.stamped /\ k \in Datas => t) /\ (S.aimed /\ k # "HEARTBEAT" => d)

LEMMA BuiltMore ==
    ASSUME NEW S, NEW n, NEW k, NEW q, NEW t \in BOOLEAN, NEW d \in BOOLEAN, Built(S, n, k, q, t, d),
           NEW e, Fits(S, n, k, e, t, d),
           e.kind \notin PlainKinds => \A i \in DOMAIN q : q[i].kind \notin PlainKinds
    PROVE  /\ Built(S, n, k, q \o <<e>>, t \/ e.kind = "INFO_TS", d \/ e.kind = "INFO_DST")
           /\ q \o <<e>> # <<>>
<1> DEFINE p == q \o <<e>>
<1>1. IsSeq(q) /\ Len(q) \in Nat /\ DOMAIN q = 1 .. Len(q)  BY IsSeqFacts DEF Built, SubsOk
<1>2. e.kind # "INFO_SRC" /\ e.kind # "SEC_POSTFIX"  BY Kinds DEF Fits, SubOk
<1>3. e.kind \in PlainKinds \cup {"SEC_POSTFIX"} =>
               /\ S.stamped /\ k \in Datas => \E j \in DOMAIN q : q[j].kind = "INFO_TS"
               /\ S.aimed /\ k # "HEARTBEAT" => \E j \in DOMAIN q : q[j].kind = "INFO_DST"
      BY <1>2 DEF Fits, Built
<1>4. Ordered(S, k, q, FALSE, FALSE)  BY DEF Built, SubsOk
<1>5. Ordered(S, k, p, FALSE, FALSE)
      <2>1. \A i \in DOMAIN q : q[i].kind # "SEC_PREFIX"  BY Kinds DEF Built, SubsOk, SubOk
      <2>2. e.kind \in InterpreterKinds =>
               \A j \in DOMAIN q : q[j].kind \notin PlainKinds \cup {"SEC_PREFIX"}
            BY <2>1, Kinds
      <2> QED  BY <1>1, <1>2, <1>3, <1>4, <2>2, OrderedBefore
<1>6. /\ IsSeq(p) /\ DOMAIN p = 1 .. Len(q) + 1 /\ p[Len(q) + 1] = e
      /\ \A i \in DOMAIN q : p[i] = q[i]
      /\ \A i \in DOMAIN p : p[i] = e \/ \E j \in DOMAIN q : p[i] = q[j]
      BY <1>1, AppendOneFacts
<1> HIDE DEF p
<1>7. Len(q) + 1 \in DOMAIN p /\ \A i \in DOMAIN q : i \in DOMAIN p  BY <1>1, <1>6
<1>8. \A i \in DOMAIN p : SubOk(S, n, k, p[i])  BY <1>6 DEF Built, SubsOk, Fits
<1>9. SubsOk(S, n, k, p)  BY <1>5, <1>6, <1>8 DEF SubsOk
<1>10. t \/ e.kind = "INFO_TS" => \E i \in DOMAIN p : p[i].kind = "INFO_TS"
      BY <1>6, <1>7 DEF Built
<1>11. d \/ e.kind = "INFO_DST" => \E i \in DOMAIN p : p[i].kind = "INFO_DST"
      BY <1>6, <1>7 DEF Built
<1>12. p # <<>>  BY <1>7, EmptyIsSeq
<1> QED  BY <1>9, <1>10, <1>11, <1>12 DEF Built, p

LEMMA BuiltFirst ==
    ASSUME NEW S, NEW n, NEW k, NEW e, Fits(S, n, k, e, FALSE, FALSE)
    PROVE  /\ Built(S, n, k, <<e>>, e.kind = "INFO_TS", e.kind = "INFO_DST")
           /\ <<e>> # <<>>
<1> DEFINE one == <<e>>
<1>2. IsSeq(one) /\ 1 \in DOMAIN one /\ one[1] = e /\ DOMAIN one = {1}  BY OneIsSeq
<1> HIDE DEF one
<1>3. SubOk(S, n, k, e)  BY DEF Fits
<1>4. Ordered(S, k, one, FALSE, FALSE)
      BY <1>2, Kinds DEF Ordered, Fits, SubOk
<1>5. Built(S, n, k, one, e.kind = "INFO_TS", e.kind = "INFO_DST")  BY <1>2, <1>3, <1>4 DEF Built, SubsOk
<1>6. one # <<>>  BY <1>2, EmptyIsSeq
<1> QED  BY <1>5, <1>6 DEF one

LEMMA BuiltNone ==
    ASSUME NEW S, NEW n, NEW k
    PROVE  Built(S, n, k, <<>>, FALSE, FALSE)
BY EmptyIsSeq DEF Built, SubsOk, Ordered

\* Optional submessages.
LEMMA BuiltOption ==
    ASSUME NEW S, NEW n, NEW k, NEW q, NEW t \in BOOLEAN, NEW d \in BOOLEAN, Built(S, n, k, q, t, d),
           NEW c \in BOOLEAN, NEW e, c => Fits(S, n, k, e, t, d),
           c /\ e.kind \notin PlainKinds => \A i \in DOMAIN q : q[i].kind \notin PlainKinds
    PROVE  Built(S, n, k, q \o (IF c THEN <<e>> ELSE <<>>),
                 t \/ (c /\ e.kind = "INFO_TS"), d \/ (c /\ e.kind = "INFO_DST"))
<1>1. CASE c
      <2>1. Built(S, n, k, q \o <<e>>, t \/ e.kind = "INFO_TS", d \/ e.kind = "INFO_DST")
            BY <1>1, BuiltMore
      <2>2. (IF c THEN <<e>> ELSE <<>>) = <<e>>  BY <1>1
      <2> QED  BY <1>1, <2>1, <2>2 DEF Built
<1>2. CASE ~c
      <2>1. q \in Seq(ToSet(q))  BY DEF Built, SubsOk, IsSeq
      <2>2. q \o <<>> = q  BY <2>1, ConcatEmptySeq
      <2>3. (IF c THEN <<e>> ELSE <<>>) = <<>>  BY <1>2
      <2> QED  BY <1>2, <2>2, <2>3 DEF Built
<1> QED  BY <1>1, <1>2

\* Matched endpoints, and those that send.
LEMMA MatchedFacts ==
    ASSUME KeysInv, NEW x \in Prefix, NEW pair \in matched[x]
    PROVE  /\ pair = <<pair[1], pair[2]>> /\ pair[2] = <<pair[2][1], pair[2][2]>>
           /\ pair[2][1] \in Prefix
           /\ \/ pair[1] = "volatile_w" /\ pair[2][2] = "volatile_r"
              \/ pair[1] = "volatile_r" /\ pair[2][2] = "volatile_w"
              \/ /\ pair[1] \in UserIds /\ pair[2][2] \in UserIds
                 /\ x \in Secured /\ Restricted => pair[2][1] \in Secured
           /\ pair[2][2] # UNKNOWN /\ pair[2][1] # UNKNOWN
<1>1. PairOk(situation, x, pair)  BY DEF KeysInv
<1>2. CASE \E y \in Prefix : pair \in VolatilePairs(y)
      BY <1>2, PrefixAssumption DEF VolatilePairs, UNKNOWN
<1>3. CASE /\ pair \in UserIds \X (Prefix \X UserIds)
           /\ x \in Secured /\ RestrictedBy(situation) => pair[2][1] \in Secured
      BY <1>3, EntityIds, PrefixAssumption DEF UNKNOWN, Restricted, RestrictedBy
<1> QED  BY <1>1, <1>2, <1>3 DEF PairOk

\* The Reader a submessage names.
Addressed(S, id) ==
    /\ S.aimed => \E g \in S.to : S.to = {g} /\ g = <<g[1], id>> /\ id # UNKNOWN
    /\ S.by[2] \in BuiltinWriters => id \in BuiltinReaders \cup {UNKNOWN}

LEMMA PlainFits ==
    ASSUME NEW S, NEW k, NEW id, Addressed(S, id),
           NEW kind \in {"GAP", "HEARTBEAT", "ACKNACK", "NACKFRAG"},
           kind \in ReaderKinds => S.aimed, k = "HEARTBEAT" => kind = "HEARTBEAT"
    PROVE  SubOk(S, No, k, Sub(kind, S.by[2], id))
<1> DEFINE s == Sub(kind, S.by[2], id)
<1>1. s.kind = kind /\ s.from = S.by[2] /\ s.to = id /\ s.content = No  BY DEF Sub
<1> HIDE DEF s
<1>2. PlainOk(S, No, k, s)  BY <1>1, Kinds DEF PlainOk, Addressed
<1> QED  BY <1>1, <1>2, Kinds DEF SubOk, ElemOk, s

LEMMA StampFits ==
    ASSUME NEW S, NEW k, S.stamped
    PROVE  SubOk(S, No, k, INFO_TS) /\ INFO_TS.kind = "INFO_TS"
BY Kinds DEF SubOk, ElemOk, INFO_TS

LEMMA DestinationFits ==
    ASSUME NEW S, NEW k, NEW y, y # UNKNOWN, \A g \in S.to : g[1] = y
    PROVE  SubOk(S, No, k, INFO_DST(y)) /\ INFO_DST(y).kind = "INFO_DST"
BY Kinds DEF SubOk, ElemOk, INFO_DST

\* The key for payloads of a user's Writer is of the kind the topic demands.
LEMMA PayloadKeys ==
    ASSUME situation \in Situations, NEW x
    PROVE  select(EndpointMaterials(x, "w", x), "payload").kind = situation.payload
<1> DEFINE id == "w"
           one == generate_key_material(situation.submessage, EndpointKey(<<x, id>>))
           pay == generate_key_material(situation.payload, PayloadKey(<<x, id>>))
           own == IF situation.submessage = situation.payload THEN <<one>> ELSE <<one, pay>>
           mats == EndpointMaterials(x, id, x)
<1>1. situation.submessage_origin \in BOOLEAN  BY SituationFacts
<1>2. submessage_kind(id) = situation.submessage /\ payload_kind(id) = situation.payload /\ id \in WriterIds
      /\ id \notin {"volatile_w", "volatile_r"}
      BY EntityIds DEF submessage_kind, payload_kind, WriterIds
<1>3. own = datawriter_materials(<<x, id>>, submessage_kind(id), payload_kind(id))
      BY <1>2 DEF datawriter_materials
<1>4. one.kind = situation.submessage /\ pay.kind = situation.payload  BY DEF generate_key_material
<1>5. mats = generate_receiver_specific_key(own, x, situation.submessage_origin)
      BY <1>2, <1>3 DEF EndpointMaterials
<1>6. one = [kind |-> one.kind, id |-> one.id, key |-> one.key, rid |-> one.rid]
      BY DEF generate_key_material
<1> HIDE DEF one, pay, mats, id
<1>7. CASE ~situation.submessage_origin
      <2>1. mats = own  BY <1>5, <1>7 DEF generate_receiver_specific_key
      <2> QED  BY <1>4, <2>1 DEF select, mats, id
<1>8. CASE situation.submessage_origin
      <2> DEFINE r == ReceiverKey(own[1].key, x)
                 new == [one EXCEPT !.rid = r]
      <2>1. mats = [own EXCEPT ![1].rid = r]  BY <1>5, <1>8 DEF generate_receiver_specific_key
      <2>2. new.kind = situation.submessage  BY <1>4, <1>6
      <2>3. mats = IF situation.submessage = situation.payload THEN <<new>> ELSE <<new, pay>>
            <3> HIDE DEF r
            <3> QED  BY <2>1
      <2> HIDE DEF new, own
      <2> QED  BY <1>4, <2>2, <2>3 DEF select, mats, id
<1> QED  BY <1>1, <1>7, <1>8

LEMMA DataFits ==
    ASSUME situation \in Situations, NEW S, S.by[2] \in WriterIds, NEW k \in Datas, NEW id, Addressed(S, id),
           NEW kind \in Datas
    PROVE  SubOk(S, No, k, data_msg(kind, S.by, id))
<1> DEFINE s == data_msg(kind, S.by, id)
           m == select(EndpointMaterials(S.by[1], S.by[2], S.by[1]), "payload")
<1>1. /\ s.kind = kind /\ s.from = S.by[2] /\ s.to = id
      /\ s.payload = encode_serialized_payload(S.by[1], S.by[2], Plain(No))
      BY DEF data_msg
<1> HIDE DEF s
<1>2. s.payload = Plain(No) \/ s.payload = protect_payload(m, Plain(No))
      BY <1>1 DEF encode_serialized_payload
<1>3. IsSealed(Plain(No)) = FALSE /\ Content(Plain(No)) = No  BY DEF Plain, IsSealed, Content
<1>4. protect_payload(m, Plain(No)) = Plain(No) \/ Content(protect_payload(m, Plain(No))) = No
      BY DEF protect_payload, Plain, IsSealed, Content
<1>5. Content(s.payload) = No  BY <1>2, <1>3, <1>4
<1>6. ASSUME S.by[1] \in Secured, IsUser(S.by), situation.payload = "GCM"
      PROVE  IsSealed(s.payload)
      <2>1. S.by[2] = "w"  BY <1>6, EntityIds DEF IsUser, WriterIds, BuiltinWriters
      <2>2. payload_kind("w") = "GCM"  BY <1>6, EntityIds DEF payload_kind
      <2>3. m.kind = "GCM"  BY <1>6, <2>1, PayloadKeys
      <2> HIDE DEF m
      <2>4. s.payload = protect_payload(m, Plain(No))
            BY <1>1, <1>6, <2>1, <2>2 DEF encode_serialized_payload, payload_not_protected, m
      <2> QED  BY <2>3, <2>4 DEF protect_payload, IsSealed
<1>7. PlainOk(S, No, k, s)  BY <1>1, <1>5, Kinds DEF PlainOk, Addressed
<1> QED  BY <1>1, <1>6, <1>7, Kinds DEF SubOk, ElemOk, s

LEMMA OneIn == ASSUME NEW p PROVE ToSet(<<p>>) = {p}
BY DEF ToSet

LEMMA TwoIn ==
    ASSUME NEW p, NEW q
    PROVE  ToSet(<<p, q>>) = {p, q} /\ <<p, q>> = <<p>> \o <<q>> /\ IsSeq(<<p, q>>)
<1>1. ToSet(<<p, q>>) = {p, q}  BY DEF ToSet
<1>2. IsSeq(<<p, q>>) /\ DOMAIN <<p, q>> = {1, 2} /\ <<p, q>>[1] = p /\ <<p, q>>[2] = q
      <2>1. <<p, q>> \in [1 .. 2 -> {p, q}]  OBVIOUS
      <2>2. <<p, q>> \in Seq({p, q})  BY <2>1, SeqDef
      <2>3. IsSeq(<<p, q>>)  BY <2>2, IsSeqOf
      <2>4. DOMAIN <<p, q>> = {1, 2} /\ <<p, q>>[1] = p /\ <<p, q>>[2] = q  OBVIOUS
      <2> QED  BY <2>3, <2>4
<1> DEFINE one == <<p>>
           two == one \o <<q>>
<1>3. IsSeq(one) /\ DOMAIN one = {1} /\ Len(one) = 1 /\ one[1] = p  BY OneIsSeq
<1> HIDE DEF one
<1>4. IsSeq(two) /\ DOMAIN two = 1 .. Len(one) + 1 /\ two[Len(one) + 1] = q
      /\ \A i \in DOMAIN one : two[i] = one[i]
      BY <1>3, AppendOneFacts
<1> HIDE DEF two
<1>5. DOMAIN two = {1, 2} /\ two[1] = p /\ two[2] = q  BY <1>3, <1>4
<1>6. <<p, q>> = two
      <2> DEFINE pq == <<p, q>>
      <2>1. IsSeq(pq) /\ DOMAIN pq = DOMAIN two /\ \A i \in DOMAIN pq : pq[i] = two[i]  BY <1>2, <1>5
      <2> HIDE DEF pq
      <2>2. pq = two  BY <1>4, <2>1, SameElements
      <2> QED  BY <2>2 DEF pq
<1> QED  BY <1>1, <1>2, <1>6 DEF one, two

LEMMA InConcat ==
    ASSUME NEW p, IsSeq(p), NEW q, IsSeq(q)
    PROVE  ToSet(p \o q) \subseteq ToSet(p) \cup ToSet(q)
<1> SUFFICES ASSUME NEW e \in ToSet(p \o q) PROVE e \in ToSet(p) \cup ToSet(q)  OBVIOUS
<1>1. PICK i \in DOMAIN (p \o q) : e = (p \o q)[i]
      <2>1. IsSeq(p \o q)  BY ConcatFacts
      <2> QED  BY <2>1, IsSeqFacts DEF ToSet
<1>2. \/ i \in DOMAIN p /\ (p \o q)[i] = p[i]
      \/ i - Len(p) \in DOMAIN q /\ (p \o q)[i] = q[i - Len(p)]
      BY ConcatFacts
<1> QED  BY <1>1, <1>2 DEF ToSet

LEMMA SpdpKeeps ==
    ASSUME IInv, NEW x, send_spdp(x)
    PROVE  IInv'
<1> DEFINE by == <<x, "spdp_w">>
           to == {<<UNKNOWN, "spdp_r">>}
           q == <<INFO_TS, data_msg("DATA", by, UNKNOWN)>>
           parts == <<<<"DATA", q>>>>
<1>1. by[1] = x /\ by[2] = "spdp_w" /\ by = <<by[1], by[2]>> /\ by[2] \in WriterIds \cup ReaderIds
      /\ by[2] \in WriterIds
      BY DEF WriterIds, BuiltinWriters
<1>2. send_messages(by, to, FALSE, TRUE, parts)  BY DEF send_spdp
<1>3. situation \in Situations  BY DEF IInv, KeysInv
<1>4. ASSUME NEW S, S.by = by, S.to = to, S.aimed = FALSE, S.stamped = TRUE
      PROVE  SubsOk(S, No, "DATA", q) /\ q # <<>>
      <2>1. Addressed(S, UNKNOWN)  BY <1>4 DEF Addressed
      <2>2. SubOk(S, No, "DATA", INFO_TS) /\ INFO_TS.kind = "INFO_TS"  BY <1>4, StampFits
      <2>3. SubOk(S, No, "DATA", data_msg("DATA", S.by, UNKNOWN))
            BY <1>1, <1>3, <1>4, <2>1, Kinds, DataFits
      <2>4. Fits(S, No, "DATA", INFO_TS, FALSE, FALSE)  BY <2>2, Kinds DEF Fits
      <2>5. Built(S, No, "DATA", <<INFO_TS>>, TRUE, FALSE)
            BY <2>2, <2>4, BuiltFirst DEF Built
      <2> DEFINE d == data_msg("DATA", S.by, UNKNOWN)
      <2>6. Fits(S, No, "DATA", d, TRUE, FALSE) /\ d.kind \in PlainKinds
            BY <1>4, <2>3, Kinds DEF Fits, data_msg
      <2> HIDE DEF d
      <2>7. Built(S, No, "DATA", <<INFO_TS>> \o <<d>>, TRUE \/ d.kind = "INFO_TS", FALSE \/ d.kind = "INFO_DST")
            /\ <<INFO_TS>> \o <<d>> # <<>>
            BY <2>5, <2>6, BuiltMore
      <2>8. q = <<INFO_TS>> \o <<d>>  BY <1>4, TwoIn DEF d
      <2> HIDE DEF q
      <2> QED  BY <2>7, <2>8 DEF Built
<1>5. \A part \in ToSet(parts) : part[1] = "DATA" /\ part[2] = q  BY OneIn
<1> HIDE DEF by, to, q, parts
<1> QED  BY <1>1, <1>2, <1>4, <1>5, SendKeeps

LEMMA Senders ==
    ASSUME IInv
    PROVE  /\ situation \in Situations
           /\ \A by \in situation.writers :
                 /\ by = <<by[1], by[2]>> /\ by[1] \in Prefix /\ by[2] \in {"w", "volatile_w"}
                 /\ by[2] \in WriterIds
           /\ \A by \in situation.acking :
                 /\ by = <<by[1], by[2]>> /\ by[1] \in Prefix /\ by[2] \in {"r1", "r2", "volatile_r"}
                 /\ by[2] \in ReaderIds
<1>1. situation \in Situations  BY DEF IInv, KeysInv
<1>2. /\ situation.writers \subseteq Prefix \X {"w", "volatile_w"}
      /\ situation.acking \subseteq Prefix \X (UserReaders \cup {"volatile_r"})
      BY <1>1, SituationFacts
<1>3. {"w", "volatile_w"} \subseteq WriterIds  BY DEF WriterIds, BuiltinWriters
<1> QED  BY <1>1, <1>2, <1>3, EntityIds

\* INFO_TS or INFO_DST and one other.
LEMMA TwoSubs ==
    ASSUME NEW S, NEW k, NEW e, SubOk(S, No, k, e), e.kind \in {"INFO_TS", "INFO_DST"},
           NEW s, SubOk(S, No, k, s),
           S.stamped /\ k \in Datas => e.kind = "INFO_TS", S.aimed /\ k # "HEARTBEAT" => e.kind = "INFO_DST"
    PROVE  SubsOk(S, No, k, <<e, s>>) /\ <<e, s>> # <<>>
<1>1. Fits(S, No, k, e, FALSE, FALSE)  BY Kinds DEF Fits
<1>2. Built(S, No, k, <<e>>, e.kind = "INFO_TS", e.kind = "INFO_DST")  BY <1>1, BuiltFirst
<1>3. Fits(S, No, k, s, e.kind = "INFO_TS", e.kind = "INFO_DST")  BY DEF Fits
<1>4. \A i \in DOMAIN <<e>> : <<e>>[i].kind \notin PlainKinds
      <2>1. DOMAIN <<e>> = {1} /\ <<e>>[1] = e  BY OneIsSeq
      <2> QED  BY <2>1, Kinds
<1> DEFINE t == e.kind = "INFO_TS"
           d == e.kind = "INFO_DST"
<1>5. t \in BOOLEAN /\ d \in BOOLEAN  OBVIOUS
<1>6. Built(S, No, k, <<e>>, t, d) /\ Fits(S, No, k, s, t, d)  BY <1>2, <1>3
<1> HIDE DEF t, d
<1>7. /\ Built(S, No, k, <<e>> \o <<s>>, t \/ s.kind = "INFO_TS", d \/ s.kind = "INFO_DST")
      /\ <<e>> \o <<s>> # <<>>
      BY <1>5, <1>6, <1>4, BuiltMore
<1>8. <<e, s>> = <<e>> \o <<s>>  BY TwoIn
<1> QED  BY <1>7, <1>8 DEF Built

LEMMA HeartbeatKeeps ==
    ASSUME IInv, NEW by \in situation.writers, handle_heartbeat_tick(by)
    PROVE  IInv'
<1> DEFINE q == <<INFO_TS, Sub("HEARTBEAT", by[2], UNKNOWN)>>
           parts == <<<<"HEARTBEAT", q>>>>
<1>1. by = <<by[1], by[2]>> /\ by[2] \in WriterIds \cup ReaderIds  BY Senders
<1>2. PICK to : send_messages(by, to, FALSE, TRUE, parts)
      BY DEF handle_heartbeat_tick
<1>3. ASSUME NEW S, S.by = by, S.to = to, S.aimed = FALSE, S.stamped = TRUE
      PROVE  SubsOk(S, No, "HEARTBEAT", q) /\ q # <<>>
      <2>1. Addressed(S, UNKNOWN)  BY <1>3 DEF Addressed
      <2>2. SubOk(S, No, "HEARTBEAT", INFO_TS) /\ INFO_TS.kind = "INFO_TS"  BY <1>3, StampFits
      <2>3. SubOk(S, No, "HEARTBEAT", Sub("HEARTBEAT", S.by[2], UNKNOWN))
            BY <2>1, Kinds, PlainFits
      <2> DEFINE s == Sub("HEARTBEAT", S.by[2], UNKNOWN)
      <2>4. "HEARTBEAT" \notin Datas  BY Kinds
      <2> HIDE DEF s
      <2>5. SubsOk(S, No, "HEARTBEAT", <<INFO_TS, s>>) /\ <<INFO_TS, s>> # <<>>
            BY <1>3, <2>2, <2>3, <2>4, TwoSubs DEF s
      <2> QED  BY <1>3, <2>5 DEF s
<1>4. \A part \in ToSet(parts) : part[1] = "HEARTBEAT" /\ part[2] = q  BY OneIn
<1> HIDE DEF q, parts
<1> QED  BY <1>1, <1>2, <1>3, <1>4, SendKeeps

LEMMA AcknackKeeps ==
    ASSUME IInv, NEW by \in situation.acking, NEW kind \in ReaderKinds, NEW g, send_acknack_to(by, kind, g)
    PROVE  IInv'
<1> DEFINE q == <<INFO_DST(g[1]), Sub(kind, by[2], g[2])>>
           parts == <<<<kind, q>>>>
           to == {g}
<1>1. by = <<by[1], by[2]>> /\ by[1] \in Prefix /\ by[2] \in ReaderIds /\ by[2] \notin BuiltinWriters
      BY Senders DEF BuiltinWriters
<1>2. <<by[2], g>> \in matched[by[1]] /\ send_messages(by, to, TRUE, FALSE, parts)
      BY DEF send_acknack_to
<1>3. g = <<g[1], g[2]>> /\ g[1] # UNKNOWN /\ g[2] # UNKNOWN
      <2> DEFINE pair == <<by[2], g>>
      <2>1. pair[2] = g /\ pair \in matched[by[1]] /\ KeysInv  BY <1>2 DEF IInv
      <2> HIDE DEF pair
      <2>2. pair[2] = <<pair[2][1], pair[2][2]>> /\ pair[2][1] # UNKNOWN /\ pair[2][2] # UNKNOWN
            BY <1>1, <2>1, MatchedFacts
      <2> QED  BY <2>1, <2>2
<1>4. kind \in {"GAP", "HEARTBEAT", "ACKNACK", "NACKFRAG"} /\ kind # "HEARTBEAT" /\ kind \notin Datas
      BY Kinds
<1>5. ASSUME NEW S, S.by = by, S.to = to, S.aimed = TRUE, S.stamped = FALSE
      PROVE  SubsOk(S, No, kind, q) /\ q # <<>>
      <2>1. Addressed(S, g[2])  BY <1>1, <1>3, <1>5 DEF Addressed
      <2>2. SubOk(S, No, kind, INFO_DST(g[1])) /\ INFO_DST(g[1]).kind = "INFO_DST"
            BY <1>3, <1>5, DestinationFits
      <2>3. SubOk(S, No, kind, Sub(kind, S.by[2], g[2]))
            BY <1>4, <1>5, <2>1, PlainFits
      <2> DEFINE s == Sub(kind, S.by[2], g[2])
                 e == INFO_DST(g[1])
      <2> HIDE DEF s, e
      <2>4. SubsOk(S, No, kind, <<e, s>>) /\ <<e, s>> # <<>>
            BY <1>4, <1>5, <2>2, <2>3, TwoSubs DEF s, e
      <2> QED  BY <1>5, <2>4 DEF s, e
<1>6. \A part \in ToSet(parts) : part[1] = kind /\ part[2] = q  BY OneIn
<1> HIDE DEF q, parts, to
<1> QED  BY <1>1, <1>2, <1>5, <1>6, SendKeeps

\* The messages of send_cache_change: the submessages before the data, with
\* everything in one message or with fragments.
LEMMA CacheChangeKeeps ==
    ASSUME IInv, NEW by \in situation.writers, NEW target, NEW options \in situation.options,
           send_cache_change(by, target, options)
    PROVE  IInv'
<1> DEFINE aimed == target # GUID_UNKNOWN
           stamped == options.stamped
           to == IF aimed THEN {target} ELSE matched_readers(by)
           id == IF aimed THEN target[2] ELSE UNKNOWN
           ts == IF stamped THEN <<INFO_TS>> ELSE <<>>
           dst == IF aimed THEN <<INFO_DST(target[1])>> ELSE <<>>
           someGap == aimed /\ options.gaps
           gapSub == Sub("GAP", by[2], id)
           gap == IF someGap THEN <<gapSub>> ELSE <<>>
           hbSub == Sub("HEARTBEAT", by[2], id)
           hb == <<hbSub>>
           data == data_msg("DATA", by, id)
           frag == data_msg("DATAFRAG", by, id)
           whole == ts \o dst \o gap \o <<data>> \o hb
           gapMsg == <<"GAP", dst \o gap>>
           fragMsg == <<"DATAFRAG", ts \o dst \o <<frag>>>>
           hbMsg == <<"HEARTBEAT", hb>>
           before == IF gap = <<>> THEN <<>> ELSE <<gapMsg>>
           parts == IF ~options.fragmented THEN <<<<"DATA", whole>>>> ELSE before \o <<fragMsg, hbMsg>>
<1>1. /\ aimed => target \in matched_readers(by)
      /\ by[2] = "volatile_w" => aimed
      /\ send_messages(by, to, aimed, stamped, parts)
      BY DEF send_cache_change
<1>2. /\ situation \in Situations /\ by = <<by[1], by[2]>> /\ by[1] \in Prefix /\ by[2] \in {"w", "volatile_w"}
      /\ by[2] \in WriterIds
      BY Senders
<1>3. stamped \in BOOLEAN /\ someGap \in BOOLEAN /\ aimed \in BOOLEAN /\ options.fragmented \in BOOLEAN
      <2>1. options \in [fragmented : BOOLEAN, stamped : BOOLEAN, gaps : BOOLEAN]
            BY <1>2, SituationFacts
      <2> QED  BY <2>1
<1>4. ASSUME aimed
      PROVE  /\ target = <<target[1], target[2]>> /\ target[1] # UNKNOWN /\ target[2] # UNKNOWN
             /\ by[2] = "volatile_w" => target[2] = "volatile_r"
      <2>1. PICK pair \in matched[by[1]] : pair[1] = by[2] /\ pair[2] = target
            BY <1>1, <1>4 DEF matched_readers
      <2>2. /\ pair[2] = <<pair[2][1], pair[2][2]>> /\ pair[2][2] # UNKNOWN /\ pair[2][1] # UNKNOWN
            /\ \/ pair[1] = "volatile_w" /\ pair[2][2] = "volatile_r"
               \/ pair[1] = "volatile_r" /\ pair[2][2] = "volatile_w"
               \/ pair[1] \in UserIds
            BY <1>2, MatchedFacts DEF IInv
      <2> QED  BY <2>1, <2>2, EntityIds
<1> HIDE DEF data, frag, gapSub, hbSub
<1>5. ASSUME NEW S, S.by = by, S.to = to, S.aimed = aimed, S.stamped = stamped
      PROVE  /\ SubsOk(S, No, "DATA", whole) /\ whole # <<>>
             /\ someGap => SubsOk(S, No, "GAP", dst \o gap) /\ dst \o gap # <<>>
             /\ SubsOk(S, No, "DATAFRAG", ts \o dst \o <<frag>>) /\ ts \o dst \o <<frag>> # <<>>
             /\ SubsOk(S, No, "HEARTBEAT", hb) /\ hb # <<>>
      <2>1. Addressed(S, id)
            <3>1. CASE aimed
                  BY <1>2, <1>4, <1>5, <3>1 DEF Addressed, BuiltinReaders, BuiltinWriters
            <3>2. CASE ~aimed
                  BY <1>5, <3>2 DEF Addressed
            <3> QED  BY <3>1, <3>2
      <2>2. S.by[2] = by[2] /\ S.by[2] \in WriterIds /\ "DATA" \in Datas /\ "DATAFRAG" \in Datas
            BY <1>2, <1>5, Kinds
      <2>3. SubOk(S, No, "DATA", data) /\ SubOk(S, No, "DATAFRAG", frag)
            <3>1. SubOk(S, No, "DATA", data_msg("DATA", S.by, id))  BY <1>2, <2>1, <2>2, DataFits
            <3>2. SubOk(S, No, "DATAFRAG", data_msg("DATAFRAG", S.by, id))  BY <1>2, <2>1, <2>2, DataFits
            <3> QED  BY <1>5, <3>1, <3>2 DEF data, frag
      <2>4. /\ \A k \in {"DATA", "GAP"} : SubOk(S, No, k, gapSub)
            /\ \A k \in {"DATA", "HEARTBEAT"} : SubOk(S, No, k, hbSub)
            <3>1. "GAP" \notin ReaderKinds /\ "HEARTBEAT" \notin ReaderKinds  BY Kinds
            <3>2. ASSUME NEW k \in {"DATA", "GAP"} PROVE SubOk(S, No, k, Sub("GAP", S.by[2], id))
                  BY <2>1, <3>1, PlainFits
            <3>3. ASSUME NEW k \in {"DATA", "HEARTBEAT"} PROVE SubOk(S, No, k, Sub("HEARTBEAT", S.by[2], id))
                  BY <2>1, <3>1, PlainFits
            <3> QED  BY <2>2, <3>2, <3>3 DEF gapSub, hbSub
      <2>5. {data.kind, frag.kind, gapSub.kind, hbSub.kind} \subseteq PlainKinds
            BY Kinds DEF data, frag, gapSub, hbSub, data_msg, Sub
      <2>6. \A i \in DOMAIN ts : ts[i].kind \notin PlainKinds
            <3>1. CASE ts = <<>>  BY <3>1, EmptyIsSeq
            <3>2. CASE ts = <<INFO_TS>>
                  <4>1. INFO_TS.kind = "INFO_TS"  BY DEF INFO_TS
                  <4>2. DOMAIN <<INFO_TS>> = {1} /\ <<INFO_TS>>[1] = INFO_TS  BY OneIsSeq
                  <4> QED  BY <3>2, <4>1, <4>2, Kinds
            <3> QED  BY <3>1, <3>2
      <2>7. ASSUME NEW k PROVE Built(S, No, k, ts, stamped, FALSE)
            <3>1. CASE stamped
                  <4>1. SubOk(S, No, k, INFO_TS) /\ INFO_TS.kind = "INFO_TS"  BY <1>5, <3>1, StampFits
                  <4>2. Fits(S, No, k, INFO_TS, FALSE, FALSE)  BY <4>1, Kinds DEF Fits
                  <4>3. Built(S, No, k, <<INFO_TS>>, TRUE, FALSE)  BY <4>1, <4>2, BuiltFirst DEF Built
                  <4> QED  BY <3>1, <4>3 DEF Built
            <3>2. CASE ~stamped
                  <4>1. Built(S, No, k, <<>>, FALSE, FALSE)  BY BuiltNone
                  <4> QED  BY <3>2, <4>1 DEF Built
            <3> QED  BY <3>1, <3>2
      <2> HIDE DEF ts
      <2>8. ASSUME NEW k PROVE Built(S, No, k, ts \o dst, stamped, aimed)
            <3> DEFINE e == INFO_DST(target[1])
            <3>1. aimed => SubOk(S, No, k, e) /\ e.kind = "INFO_DST"  BY <1>4, <1>5, DestinationFits
            <3>2. aimed => Fits(S, No, k, e, stamped, FALSE)  BY <3>1, Kinds DEF Fits
            <3>3. Built(S, No, k, ts, stamped, FALSE)  BY <2>7
            <3> DEFINE d == FALSE
            <3>4. Fits(S, No, k, e, stamped, d) \/ ~aimed  BY <3>2
            <3>5. Built(S, No, k, ts, stamped, d) /\ d \in BOOLEAN  BY <3>3
            <3> HIDE DEF e, d
            <3>6. Built(S, No, k, ts \o (IF aimed THEN <<e>> ELSE <<>>),
                        stamped \/ (aimed /\ e.kind = "INFO_TS"), d \/ (aimed /\ e.kind = "INFO_DST"))
                  <4> HIDE DEF aimed, stamped
                  <4>1. aimed => Fits(S, No, k, e, stamped, d)  BY <3>4
                  <4>2. stamped \in BOOLEAN /\ aimed \in BOOLEAN  BY <1>3
                  <4> QED  BY <2>6, <3>5, <4>1, <4>2, BuiltOption, Zenon
            <3>7. Built(S, No, k, ts \o (IF aimed THEN <<e>> ELSE <<>>), stamped, aimed)
                  BY <3>1, <3>6 DEF Built
            <3> QED  BY <3>7 DEF e
      <2>9. ASSUME NEW k PROVE Built(S, No, k, dst, FALSE, aimed)
            <3>1. CASE aimed
                  <4> DEFINE e == INFO_DST(target[1])
                  <4>1. SubOk(S, No, k, e) /\ e.kind = "INFO_DST"  BY <1>4, <1>5, <3>1, DestinationFits
                  <4>2. Fits(S, No, k, e, FALSE, FALSE)  BY <4>1, Kinds DEF Fits
                  <4> HIDE DEF e
                  <4>3. Built(S, No, k, <<e>>, FALSE, TRUE)  BY <4>1, <4>2, BuiltFirst DEF Built
                  <4> QED  BY <3>1, <4>3 DEF Built, e
            <3>2. CASE ~aimed
                  <4>1. Built(S, No, k, <<>>, FALSE, FALSE)  BY BuiltNone
                  <4> QED  BY <3>2, <4>1 DEF Built
            <3> QED  BY <3>1, <3>2
      <2> HIDE DEF dst, aimed, stamped
      <2>10. SubsOk(S, No, "DATA", whole) /\ whole # <<>>
            <3> DEFINE q == ts \o dst
                       r == q \o gap
                       u == r \o <<data>>
            <3>1. Built(S, No, "DATA", q, stamped, aimed)  BY <2>8
            <3>2. /\ Fits(S, No, "DATA", gapSub, stamped, aimed) /\ Fits(S, No, "DATA", data, stamped, aimed)
                  /\ Fits(S, No, "DATA", hbSub, stamped, aimed)
                  BY <1>5, <2>3, <2>4 DEF Fits
            <3> HIDE DEF q, someGap
            <3>3. Built(S, No, "DATA", r, stamped \/ (someGap /\ gapSub.kind = "INFO_TS"),
                        aimed \/ (someGap /\ gapSub.kind = "INFO_DST"))
                  BY <1>3, <2>5, <3>1, <3>2, BuiltOption
            <3>4. Built(S, No, "DATA", r, stamped, aimed)  BY <3>3 DEF Built
            <3> HIDE DEF r
            <3>5. Built(S, No, "DATA", u, stamped \/ data.kind = "INFO_TS", aimed \/ data.kind = "INFO_DST")
                  BY <1>3, <2>5, <3>2, <3>4, BuiltMore
            <3>6. Built(S, No, "DATA", u, stamped, aimed)  BY <3>5 DEF Built
            <3> HIDE DEF u
            <3>7. /\ Built(S, No, "DATA", u \o <<hbSub>>, stamped \/ hbSub.kind = "INFO_TS",
                           aimed \/ hbSub.kind = "INFO_DST")
                  /\ u \o <<hbSub>> # <<>>
                  BY <1>3, <2>5, <3>2, <3>6, BuiltMore
            <3>8. whole = u \o <<hbSub>>  BY DEF u, r, q, gap
            <3> HIDE DEF whole
            <3> QED  BY <3>7, <3>8 DEF Built
      <2>11. ASSUME someGap PROVE SubsOk(S, No, "GAP", dst \o gap) /\ dst \o gap # <<>>
            <3>1. gap = <<gapSub>>  BY <2>11
            <3>2. Built(S, No, "GAP", dst, FALSE, aimed)  BY <2>9
            <3>3. Fits(S, No, "GAP", gapSub, FALSE, aimed)  BY <1>5, <2>4, Kinds DEF Fits
            <3> HIDE DEF gap
            <3>4. /\ Built(S, No, "GAP", dst \o <<gapSub>>, FALSE \/ gapSub.kind = "INFO_TS",
                           aimed \/ gapSub.kind = "INFO_DST")
                  /\ dst \o <<gapSub>> # <<>>
                  BY <1>3, <2>5, <3>2, <3>3, BuiltMore
            <3> QED  BY <3>1, <3>4 DEF Built
      <2>12. SubsOk(S, No, "DATAFRAG", ts \o dst \o <<frag>>) /\ ts \o dst \o <<frag>> # <<>>
            <3> DEFINE q == ts \o dst
            <3>1. Built(S, No, "DATAFRAG", q, stamped, aimed)  BY <2>8
            <3>2. Fits(S, No, "DATAFRAG", frag, stamped, aimed)  BY <1>5, <2>3 DEF Fits
            <3> HIDE DEF q
            <3>3. /\ Built(S, No, "DATAFRAG", q \o <<frag>>, stamped \/ frag.kind = "INFO_TS",
                           aimed \/ frag.kind = "INFO_DST")
                  /\ q \o <<frag>> # <<>>
                  BY <1>3, <2>5, <3>1, <3>2, BuiltMore
            <3> QED  BY <3>3 DEF Built, q
      <2>13. SubsOk(S, No, "HEARTBEAT", hb) /\ hb # <<>>
            <3>1. Fits(S, No, "HEARTBEAT", hbSub, FALSE, FALSE)  BY <2>4, Kinds DEF Fits
            <3>2. Built(S, No, "HEARTBEAT", <<hbSub>>, hbSub.kind = "INFO_TS", hbSub.kind = "INFO_DST")
                  /\ <<hbSub>> # <<>>
                  BY <3>1, BuiltFirst
            <3> QED  BY <3>2 DEF Built
      <2> QED  BY <2>10, <2>11, <2>12, <2>13
<1>6. ASSUME NEW part \in ToSet(parts)
      PROVE  \/ part[1] = "DATA" /\ part[2] = whole
             \/ someGap /\ part[1] = "GAP" /\ part[2] = dst \o gap
             \/ part[1] = "DATAFRAG" /\ part[2] = ts \o dst \o <<frag>>
             \/ part[1] = "HEARTBEAT" /\ part[2] = hb
      <2> HIDE DEF whole, dst, ts, hb
      <2>1. CASE ~options.fragmented
            <3>1. ToSet(parts) = {<<"DATA", whole>>}  BY <2>1, OneIn
            <3> HIDE DEF parts
            <3>2. part = <<"DATA", whole>>  BY <3>1
            <3> QED  BY <3>2
      <2>2. CASE options.fragmented
            <3> DEFINE after == <<fragMsg, hbMsg>>
            <3>1. IsSeq(after) /\ ToSet(after) = {fragMsg, hbMsg}  BY TwoIn
            <3>2. IsSeq(before) /\ ToSet(before) \subseteq {gapMsg} /\ (~someGap => ToSet(before) = {})
                  <4>1. CASE someGap
                        <5>1. gap # <<>>
                              <6>1. gap = <<gapSub>>  BY <4>1
                              <6> HIDE DEF gap
                              <6> QED  BY <6>1
                        <5>2. before = <<gapMsg>>  BY <5>1
                        <5> HIDE DEF before, gapMsg
                        <5> QED  BY <4>1, <5>2, OneIsSeq, OneIn
                  <4>2. CASE ~someGap
                        <5>1. before = <<>>  BY <4>2
                        <5>2. ToSet(<<>>) = {}  BY DEF ToSet
                        <5> HIDE DEF before
                        <5> QED  BY <5>1, <5>2, EmptyIsSeq
                  <4> QED  BY <4>1, <4>2
            <3>3. parts = before \o after  BY <2>2
            <3> HIDE DEF before, after, parts
            <3>4. part \in ToSet(before) \cup ToSet(after)  BY <3>1, <3>2, <3>3, InConcat
            <3>5. (part = gapMsg /\ someGap) \/ part = fragMsg \/ part = hbMsg  BY <3>1, <3>2, <3>4
            <3> HIDE DEF gap, someGap
            <3> QED  BY <3>5
      <2> QED  BY <2>1, <2>2
<1>7. \A S : S.by = by /\ S.to = to /\ S.aimed = aimed /\ S.stamped = stamped =>
                     \A part \in ToSet(parts) : SubsOk(S, No, part[1], part[2]) /\ part[2] # <<>>
      <2> HIDE DEF parts, whole, dst, ts, hb, gap, someGap, to, aimed, stamped
      <2> QED  BY <1>5, <1>6
<1>8. by[2] \in WriterIds \cup ReaderIds  BY <1>2
<1> HIDE DEF parts, to, aimed, stamped
<1> QED  BY <1>1, <1>2, <1>7, <1>8, SendKeeps


-----------------------------------------------------------------------------
(* Receiving *)

LEMMA ReceiverFields ==
    DOMAIN NewReceiver = {"dest", "source", "timestamp", "secure", "special", "queue"}
BY DEF NewReceiver

\* Parsing a message: the queue is what the message says.
LEMMA ParsedQueue ==
    ASSUME IInv, NEW x \in Prefix, NEW m \in net, NEW subs, NEW isProtected,
           isProtected = (x \in Secured /\ m.subs[1].kind = "SRTPS_PREFIX"),
           subs = IF isProtected THEN decode_rtps_message(x, m.source, m.subs) ELSE m.subs,
           subs # <<>>
    PROVE  /\ IsSeq(subs) /\ Ordered(sent[m.no], m.kind, subs, FALSE, FALSE)
           /\ \A i \in DOMAIN subs : /\ ElemOk(sent[m.no], m.no, m.kind, subs[i])
                                     /\ x \in Secured => SealedOk(sent[m.no], m.no, m.kind, subs[i])
           /\ isProtected /\ situation.rtps_origin => x \in {g[1] : g \in sent[m.no].to}
<1> DEFINE S == sent[m.no]
<1>1. MessageOk(situation, S, m) /\ situation \in Situations  BY DEF IInv, NetInv, KeysInv
<1> HIDE DEF S
<1>2. CASE ~isProtected
      <2>1. subs = m.subs /\ PublicOk(S, m.no, m.kind, subs)  BY <1>1, <1>2 DEF MessageOk
      <2>2. x \in Secured => SecretOk(S, m.no, m.kind, subs)  BY <1>1, <1>2, <2>1 DEF MessageOk
      <2> QED  BY <1>2, <2>1, <2>2 DEF PublicOk, SecretOk, S
<1>3. CASE isProtected
      <2> DEFINE mat == select(ParticipantMaterials(m.source, x), "message")
                 last == m.subs[Len(m.subs)]
                 plain == unprotect(mat, m.subs[1], SubSeq(m.subs, 2, Len(m.subs) - 1), last)
      <2>1. ProtectedOk(situation, S, m) /\ m.source = S.by[1]  BY <1>1, <1>3 DEF MessageOk
      <2>2. subs = decode_secure_message(mat, m.source, m.subs)
            BY <1>3 DEF decode_rtps_message
      <2>3. plain # <<>> /\ validate_receiver_specific_mac(mat, last) /\ subs = Tail(plain)
            BY <2>2 DEF decode_secure_message
      <2>4. last.mac = [key |-> mat.key, of |-> plain]
            BY <2>3 DEF unprotect
      <2>5. subs = Inside(m)
            <3> HIDE DEF plain, last
            <3>1. last.mac.of = plain  BY <2>4
            <3> QED  BY <2>3, <3>1 DEF Inside, last
      <2>6. SecretOk(S, m.no, m.kind, subs)  BY <2>1, <2>5 DEF ProtectedOk
      <2>7. ASSUME situation.rtps_origin PROVE x \in {g[1] : g \in S.to}
            <3>0. mat = ParticipantMaterials(m.source, x)[1]  BY <1>1, ParticipantKeys
            <3>1. mat.rid = ReceiverKey(ParticipantKey(m.source), x)
                  <4>1. ParticipantMaterials(m.source, x)[1].rid =
                           IF situation.rtps_origin THEN ReceiverKey(ParticipantKey(m.source), x) ELSE Zero
                        BY <1>1, ParticipantKeys
                  <4> HIDE DEF mat
                  <4> QED  BY <2>7, <3>0, <4>1
            <3>2. mat.rid # Zero  BY <3>1 DEF ReceiverKey, Zero
            <3> HIDE DEF mat, plain
            <3>3. mat.rid \in last.receiver_macs  BY <2>3, <3>2 DEF validate_receiver_specific_mac
            <3>4. last.receiver_macs \subseteq {ReceiverKey(ParticipantKey(m.source), g[1]) : g \in S.to}
                  BY <2>1, <2>7 DEF ProtectedOk
            <3>5. PICK g \in S.to : ReceiverKey(ParticipantKey(m.source), x) = ReceiverKey(ParticipantKey(m.source), g[1])
                  BY <3>1, <3>3, <3>4
            <3>6. x = g[1]  BY <3>5 DEF ReceiverKey
            <3> QED  BY <3>6
      <2> QED  BY <2>6, <2>7 DEF SecretOk, PublicOk, S
<1> QED  BY <1>2, <1>3

LEMMA PacketKeeps ==
    ASSUME IInv, NEW x \in Prefix, NEW m \in net, handle_received_packet(x, m)
    PROVE  IInv'
<1> DEFINE secured == x \in Secured
           isProtected == secured /\ m.subs[1].kind = "SRTPS_PREFIX"
           subs == IF isProtected THEN decode_rtps_message(x, m.source, m.subs) ELSE m.subs
           S == sent[m.no]
           special == IF isProtected /\ subs = <<>> THEN rx[x].special
                      ELSE secured /\ ~isProtected /\ ~rtps_not_protected
           st == rx'[x]
<1>1. UNCHANGED <<situation, crypto, matched, acks, log, net, sent, left>>
      BY DEF handle_received_packet, handle_parsed_message
<1>2. rx' = [rx EXCEPT ![x] =
                     [reset(@) EXCEPT !.dest = x, !.source = m.source, !.queue = subs, !.special = special]]
      BY DEF handle_received_packet, handle_parsed_message
<1>3. DOMAIN rx = Prefix /\ \A y \in Prefix : DOMAIN rx[y] = DOMAIN NewReceiver  BY DEF IInv, RxInv
<1> HIDE DEF special, subs, isProtected
<1>4. /\ DOMAIN rx' = Prefix /\ \A y \in Prefix \ {x} : rx'[y] = rx[y]
      /\ DOMAIN st = DOMAIN NewReceiver
      /\ st.dest = x /\ st.source = m.source /\ st.timestamp = 0 /\ st.secure = <<>>
      /\ st.queue = subs /\ st.special = special
      BY <1>2, <1>3, ReceiverFields DEF reset
<1> HIDE DEF st
<1>5. ASSUME subs # <<>> PROVE HandlingOk(situation, x, S, m, st)
      <2>1. /\ IsSeq(subs) /\ Ordered(S, m.kind, subs, FALSE, FALSE)
            /\ \A i \in DOMAIN subs : /\ ElemOk(S, m.no, m.kind, subs[i])
                                      /\ x \in Secured => SealedOk(S, m.no, m.kind, subs[i])
            /\ isProtected /\ situation.rtps_origin => x \in {g[1] : g \in S.to}
            <3>1. /\ isProtected = (x \in Secured /\ m.subs[1].kind = "SRTPS_PREFIX")
                  /\ subs = IF isProtected THEN decode_rtps_message(x, m.source, m.subs) ELSE m.subs
                  BY DEF isProtected, subs
            <3> QED  BY <1>5, <3>1, ParsedQueue
      <2>2. m.no \in DOMAIN sent /\ IsSeq(sent)  BY DEF IInv, NetInv
      <2>3. m.no # 0  BY <2>2, IsSeqFacts
      <2>4. (st.timestamp = m.no) = FALSE  BY <1>4, <2>3
      <2>5. Ordered(S, m.kind, subs, FALSE, \A g \in S.to : g[1] = st.dest)
            BY <2>1 DEF Ordered
      <2>6. Ordered(S, m.kind, st.queue, st.timestamp = m.no, \A g \in S.to : g[1] = st.dest)
            BY <1>4, <2>4, <2>5
      <2>7. st.source = m.source /\ st.dest # UNKNOWN  BY <1>4, PrefixAssumption
      <2>8. x \in Secured /\ situation.rtps # "NONE" /\ situation.rtps_origin =>
               st.special \/ x \in {g[1] : g \in S.to}
            BY <1>4, <1>5, <2>1 DEF special, rtps_not_protected
      <2>9. IsSeq(st.secure) /\ DOMAIN st.secure = {}  BY <1>4, EmptyIsSeq
      <2> HIDE DEF S
      <2> QED  BY <1>4, <2>1, <2>6, <2>7, <2>8, <2>9 DEF HandlingOk
<1>6. RxInv'
      <2>1. ASSUME NEW y \in Prefix, rx'[y].queue # <<>>
            PROVE  \E mm \in net' : HandlingOk(situation', y, sent'[mm.no], mm, rx'[y])
            <3>1. CASE y = x  BY <1>1, <1>4, <1>5, <2>1, <3>1 DEF st
            <3>2. CASE y # x
                  <4>1. rx'[y] = rx[y]  BY <1>4, <3>2
                  <4>2. \E mm \in net : HandlingOk(situation, y, sent[mm.no], mm, rx[y])
                        BY <2>1, <4>1 DEF IInv, RxInv
                  <4> QED  BY <1>1, <4>1, <4>2
            <3> QED  BY <3>1, <3>2
      <2> QED  BY <1>3, <1>4, <2>1 DEF RxInv, st
<1>7. KeysInv' /\ NetInv' /\ AckInv' /\ LogInv'
      BY <1>1 DEF IInv, KeysInv, NetInv, AckInv, LogInv
<1> QED  BY <1>6, <1>7 DEF IInv

\* Matched to an endpoint, and so a user's only with a user's.
LEMMA MatchedEndpoint ==
    ASSUME KeysInv, NEW x \in Prefix, NEW id, NEW g, g = <<g[1], g[2]>>, <<id, g>> \in matched[x]
    PROVE  /\ id \in SpecialCase => g[2] \in SpecialCase
           /\ id \notin SpecialCase /\ x \in Secured /\ Restricted => g[1] \in Secured
           /\ id \notin SpecialCase => g[2] \notin SpecialCase
<1> DEFINE pair == <<id, g>>
<1>1. pair[1] = id /\ pair[2] = g /\ pair \in matched[x]  OBVIOUS
<1> HIDE DEF pair
<1>2. \/ pair[1] = "volatile_w" /\ pair[2][2] = "volatile_r"
      \/ pair[1] = "volatile_r" /\ pair[2][2] = "volatile_w"
      \/ /\ pair[1] \in UserIds /\ pair[2][2] \in UserIds
         /\ x \in Secured /\ Restricted => pair[2][1] \in Secured
      BY <1>1, MatchedFacts
<1> QED  BY <1>1, <1>2, EntityIds

\* What the message was when a submessage of it is handed over.
AtHand(S, m, st) ==
    /\ S.stamped /\ m.kind \in Datas => st.timestamp = m.no
    /\ S.aimed /\ m.kind # "HEARTBEAT" => \A g \in S.to : g[1] = st.dest

\* handle_writer_submessage gives a Reader what was sent to it.
LEMMA GivenToReader ==
    ASSUME IInv, NEW x \in Prefix, NEW m \in net, NEW S, S = sent[m.no],
           HandlingOk(situation, x, S, m, rx[x]), AtHand(S, m, rx[x]),
           NEW s, PlainOk(S, m.no, m.kind, s), s.kind \in WriterKinds,
           NEW id, s.to # UNKNOWN => id = s.to, s.to = UNKNOWN => contains_writer(x, id, s.from),
           x \in Secured /\ IsUser(S.by) /\ situation.submessage_origin /\ situation.submessage # "NONE" =>
               id \in SpecialCase \/ x \in {g[1] : g \in S.to},
           NEW e \in handle_writer_submessage(x, id, s)
    PROVE  e.content \in DOMAIN sent /\ EntryOk(situation, sent[e.content], e)
<1> DEFINE st == rx[x]
           from == <<st.source, s.from>>
<1>1. MessageOk(situation, S, m) /\ m.no \in DOMAIN sent /\ KeysInv  BY DEF IInv, NetInv
<1>2. st.source = m.source /\ st.dest # UNKNOWN /\ (~S.stamped => st.timestamp = 0)  BY DEF HandlingOk
<1>3. from = S.by /\ s.from = S.by[2]  BY <1>1, <1>2 DEF MessageOk, PlainOk
<1>4. /\ IsForMe(x) /\ (st.special => id \in SpecialCase)
      /\ <<id, from>> \in matched[x] \/ (s.kind = "DATA" /\ s.from \in BuiltinWriters)
      /\ e = [at |-> <<x, id>>, from |-> from, kind |-> s.kind,
              timestamp |-> IF s.kind \in Datas THEN st.timestamp ELSE 0,
              content |-> IF s.kind \in Datas THEN Content(s.payload) ELSE s.content]
      BY DEF handle_writer_submessage, Datas
<1>5. /\ e.at = <<x, id>> /\ e.at[1] = x /\ e.at[2] = id /\ e.from = S.by /\ e.kind = s.kind
      /\ s.kind \in Datas => e.timestamp = st.timestamp
      /\ e.content = m.no
      BY <1>3, <1>4 DEF PlainOk
<1> HIDE DEF from
<1>6. st.dest = x  BY <1>2, <1>4 DEF IsForMe
<1>7. s.kind \in Datas => e.timestamp = (IF S.stamped THEN e.content ELSE 0)
      BY <1>2, <1>5 DEF PlainOk, AtHand
<1>8. S.aimed => \E g \in S.to : e.at[2] = g[2] /\ (e.kind # "HEARTBEAT" => e.at = g)
      <2> SUFFICES ASSUME S.aimed PROVE \E g \in S.to : e.at[2] = g[2] /\ (e.kind # "HEARTBEAT" => e.at = g)
          OBVIOUS
      <2>1. PICK g \in S.to : g = <<g[1], s.to>> /\ s.to # UNKNOWN  BY DEF PlainOk
      <2>2. g[2] = s.to /\ id = s.to  BY <2>1
      <2>3. s.kind # "HEARTBEAT" => g[1] = x  BY <1>6 DEF PlainOk, AtHand
      <2>4. s.kind # "HEARTBEAT" => <<x, id>> = g  BY <2>1, <2>2, <2>3
      <2> QED  BY <1>5, <2>2, <2>4
<1>9. ASSUME id \in SpecialCase PROVE ~IsUser(S.by)
      <2>1. CASE <<id, from>> \in matched[x]
            <3>1. S.by = <<S.by[1], S.by[2]>>  BY <1>1 DEF MessageOk
            <3>2. S.by[2] \in SpecialCase  BY <1>1, <1>3, <1>9, <2>1, <3>1, MatchedEndpoint
            <3> QED  BY <3>2 DEF IsUser
      <2>2. CASE s.from \in BuiltinWriters  BY <1>3, <2>2 DEF IsUser, SpecialCase
      <2> QED  BY <1>4, <2>1, <2>2
<1>10. ASSUME x \in Secured, IsUser(S.by),
              \/ situation.rtps_origin /\ situation.rtps # "NONE"
              \/ situation.submessage_origin /\ situation.submessage # "NONE"
       PROVE  x \in {g[1] : g \in S.to}
      BY <1>4, <1>9, <1>10 DEF HandlingOk
<1>11. ASSUME id \notin SpecialCase, x \in Secured, RestrictedBy(situation) PROVE S.by[1] \in Secured
      <2>0. Restricted  BY <1>11 DEF Restricted, RestrictedBy
      <2>1. S.by = <<S.by[1], S.by[2]>>  BY <1>1 DEF MessageOk
      <2>2. CASE <<id, from>> \in matched[x]
            BY <1>1, <1>3, <1>11, <2>0, <2>1, <2>2, MatchedEndpoint
      <2>3. CASE s.from \in BuiltinWriters
            <3>1. s.to \in BuiltinReaders \cup {UNKNOWN}  BY <2>3 DEF PlainOk
            <3>2. s.to = UNKNOWN  BY <1>11, <3>1 DEF SpecialCase
            <3>3. contains_writer(x, id, s.from)  BY <3>2
            <3>4. id # "spdp_r"  BY <1>11, EntityIds
            <3>5. PICK pair \in matched[x] : pair[1] = id /\ pair[2][2] = s.from
                  BY <3>3, <3>4 DEF contains_writer
            <3>6. pair = <<id, pair[2]>> /\ pair[2] = <<pair[2][1], pair[2][2]>>
                  <4>1. pair = <<pair[1], pair[2]>> /\ pair[2] = <<pair[2][1], pair[2][2]>>
                        BY <1>1, MatchedFacts
                  <4> QED  BY <3>5, <4>1
            <3>7. pair[2][2] \notin SpecialCase  BY <1>1, <1>11, <3>5, <3>6, MatchedEndpoint
            <3> QED  BY <2>3, <3>5, <3>7 DEF SpecialCase
      <2> QED  BY <1>4, <2>2, <2>3
<1>12. EntryOk(situation, S, e)
      <2>1. IsUser(e.at) => id \notin SpecialCase  BY <1>5 DEF IsUser
      <2> QED  BY <1>5, <1>7, <1>8, <1>10, <1>11, <2>1 DEF EntryOk
<1> QED  BY <1>1, <1>5, <1>12

\* Before a submessage comes what is said about it.
LEMMA NowAtHand ==
    ASSUME NEW x, NEW S, NEW m, NEW st, HandlingOk(situation, x, S, m, st), st.queue # <<>>,
           st.queue[1].kind \in PlainKinds \cup {"SEC_POSTFIX"}
    PROVE  AtHand(S, m, st)
<1>1. 1 \in DOMAIN st.queue  BY IsSeqFacts DEF HandlingOk
<1>2. 1 .. 1 - 1 = {}  OBVIOUS
<1>3. /\ S.stamped /\ m.kind \in Datas => st.timestamp = m.no
      /\ S.aimed /\ m.kind # "HEARTBEAT" => \A g \in S.to : g[1] = st.dest
      BY <1>1, <1>2 DEF HandlingOk, Ordered
<1> QED  BY <1>3 DEF AtHand

\* An ACKNACK in the channel is from whom it says, for a Writer here.
LEMMA AcknackQueued ==
    ASSUME IInv, NEW x \in Prefix, NEW m \in net, NEW S, S = sent[m.no],
           HandlingOk(situation, x, S, m, rx[x]), AtHand(S, m, rx[x]),
           NEW s, PlainOk(S, m.no, m.kind, s), s.kind \in ReaderKinds,
           handle_reader_submessage(x, s), sent' = sent
    PROVE  AckInv'
<1>1. CASE acks' = acks  BY <1>1 DEF IInv, AckInv
<1>2. CASE acks' # acks
      <2> DEFINE a == [source |-> rx[x].source, ack |-> s]
      <2>1. /\ IsForMe(x) /\ s.kind = "ACKNACK"
            /\ acks' = [acks EXCEPT ![x] = Append(acks[x], a)]
            BY <1>2 DEF handle_reader_submessage
      <2>2. MessageOk(situation, S, m) /\ m.no \in DOMAIN sent  BY DEF IInv, NetInv
      <2>3. rx[x].source = m.source /\ rx[x].dest # UNKNOWN  BY DEF HandlingOk
      <2>4. S.aimed /\ s.content = m.no /\ s.from = S.by[2] /\ m.kind # "HEARTBEAT"
            BY <2>1, Kinds DEF PlainOk
      <2>5. <<rx[x].source, s.from>> = S.by  BY <2>2, <2>3, <2>4 DEF MessageOk
      <2>6. S.to = {<<x, s.to>>}
            <3>1. PICK g \in S.to : S.to = {g} /\ g = <<g[1], s.to>>  BY <2>4 DEF PlainOk
            <3>2. g[1] = x  BY <2>1, <2>3, <2>4 DEF AtHand, IsForMe
            <3> QED  BY <3>1, <3>2
      <2>7. a.source = rx[x].source /\ a.ack = s  OBVIOUS
      <2> HIDE DEF a
      <2>8. a.ack.content \in DOMAIN sent /\ AckOk(sent[a.ack.content], x, a)
            BY <2>2, <2>4, <2>5, <2>6, <2>7 DEF AckOk
      <2>9. DOMAIN acks = Prefix /\ IsSeq(acks[x])  BY DEF IInv, AckInv
      <2> DEFINE q == Append(acks[x], a)
      <2>10. IsSeq(q) /\ \A i \in DOMAIN q : \/ i \in DOMAIN acks[x] /\ q[i] = acks[x][i]
                                             \/ q[i] = a
            <3>1. /\ IsSeq(q) /\ DOMAIN q = 1 .. Len(acks[x]) + 1
                  /\ (\A i \in DOMAIN acks[x] : q[i] = acks[x][i]) /\ q[Len(acks[x]) + 1] = a
                  BY <2>9, AppendFacts
            <3>2. Len(acks[x]) \in Nat /\ DOMAIN acks[x] = 1 .. Len(acks[x])  BY <2>9, IsSeqFacts
            <3> HIDE DEF q
            <3> QED  BY <3>1, <3>2
      <2>11. DOMAIN acks' = Prefix /\ acks'[x] = q /\ \A y \in Prefix \ {x} : acks'[y] = acks[y]
            BY <2>1, <2>9
      <2> HIDE DEF q
      <2>12. ASSUME NEW y \in Prefix
             PROVE  /\ IsSeq(acks'[y])
                    /\ \A i \in DOMAIN acks'[y] :
                          /\ acks'[y][i].ack.content \in DOMAIN sent'
                          /\ AckOk(sent'[acks'[y][i].ack.content], y, acks'[y][i])
            <3>1. CASE y = x
                  <4>1. \A i \in DOMAIN acks[x] : /\ acks[x][i].ack.content \in DOMAIN sent
                                                  /\ AckOk(sent[acks[x][i].ack.content], x, acks[x][i])
                        BY DEF IInv, AckInv
                  <4> QED  BY <2>8, <2>10, <2>11, <3>1, <4>1
            <3>2. CASE y # x  BY <2>11, <3>2 DEF IInv, AckInv
            <3> QED  BY <3>1, <3>2
      <2> QED  BY <2>11, <2>12 DEF AckInv
<1> QED  BY <1>1, <1>2

\* A plain submessage, the next one.
LEMMA PlainHandled ==
    ASSUME IInv, NEW x \in Prefix, NEW m \in net, NEW S, S = sent[m.no],
           HandlingOk(situation, x, S, m, rx[x]), rx[x].queue # <<>>,
           NEW s, s = rx[x].queue[1], s.kind \in PlainKinds,
           handle_plain_submessage(x, s), sent' = sent, situation' = situation
    PROVE  LogInv' /\ AckInv'
<1>1. AtHand(S, m, rx[x])  BY NowAtHand
<1>2. PlainOk(S, m.no, m.kind, s)
      <2>1. 1 \in DOMAIN rx[x].queue  BY IsSeqFacts DEF HandlingOk
      <2> QED  BY <2>1 DEF HandlingOk, ElemOk
<1>3. AckInv'
      <2>1. CASE s.kind \in ReaderKinds /\ handle_reader_submessage(x, s)
            BY <1>1, <1>2, <2>1, AcknackQueued
      <2>2. CASE acks' = acks  BY <2>2 DEF IInv, AckInv
      <2> QED  BY <2>1, <2>2 DEF handle_plain_submessage
<1>4. LogInv'
      <2> SUFFICES ASSUME NEW e \in log'
                   PROVE  e.content \in DOMAIN sent' /\ EntryOk(situation', sent'[e.content], e)
          BY DEF LogInv
      <2>1. CASE e \in log  BY <2>1 DEF IInv, LogInv
      <2>2. CASE e \notin log
            <3> DEFINE open(id) == x \in Secured => submessage_not_protected(x, <<rx[x].dest, id>>)
                       targets == IF s.to = UNKNOWN
                                  THEN {id \in available_readers(x) : contains_writer(x, id, s.from)}
                                  ELSE {s.to}
            <3>1. /\ s.kind \in WriterKinds
                  /\ e \in UNION {handle_writer_submessage(x, id, s) : id \in {id \in targets : open(id)}}
                  BY <2>2 DEF handle_plain_submessage
            <3>2. PICK id \in targets : open(id) /\ e \in handle_writer_submessage(x, id, s)
                  BY <3>1
            <3>3. /\ s.to # UNKNOWN => id = s.to
                  /\ s.to = UNKNOWN => contains_writer(x, id, s.from)
                  OBVIOUS
            <3>4. x \in Secured /\ situation.submessage # "NONE" => id \in SpecialCase
                  <4>1. x \in Secured => submessage_kind(id) = "NONE"
                        BY <3>2 DEF submessage_not_protected
                  <4> QED  BY <4>1, EntityIds DEF submessage_kind
            <3> HIDE DEF targets
            <3> QED  BY <1>1, <1>2, <3>1, <3>2, <3>3, <3>4, GivenToReader
      <2> QED  BY <2>1, <2>2
<1> QED  BY <1>3, <1>4

LEMMA MinOfSome == ASSUME NEW I \in SUBSET (1 .. 4), I # {} PROVE Min(I) \in I
<1>1. \E i \in I : \A j \in I : i <= j
      <2>1. CASE 1 \in I  BY <2>1
      <2>2. CASE 1 \notin I /\ 2 \in I  BY <2>2
      <2>3. CASE 1 \notin I /\ 2 \notin I /\ 3 \in I  BY <2>3
      <2>4. CASE 1 \notin I /\ 2 \notin I /\ 3 \notin I
            <3>1. \A i \in I : i = 4
                  <4>1. \A i \in I : i \in 1 .. 4  OBVIOUS
                  <4> QED  BY <2>4, <4>1
            <3>2. 4 \in I  BY <3>1
            <3> QED  BY <3>1, <3>2
      <2> QED  BY <2>1, <2>2, <2>3, <2>4
<1> QED  BY <1>1 DEF Min

\* Keys of the same id are the same key, but for the receiver.
LEMMA SameKeys ==
    ASSUME NEW x, NEW source, NEW id,
           NEW h, h[2] = source, NEW m, KeyOk(situation, x, h, m), m.id = id,
           NEW h2, h2[2] = source, NEW m2, KeyOk(situation, x, h2, m2), m2.id = id
    PROVE  m.key = m2.key /\ m.kind = m2.kind
<1>1. \A g : EndpointKey(g) # Zero  BY DEF EndpointKey, Zero
<1>2. CASE id = Zero
      <2>1. m.key = SharedSecretKey({x, h[2]}) /\ m.kind = "GCM"  BY <1>1, <1>2 DEF KeyOk
      <2>2. m2.key = SharedSecretKey({x, h2[2]}) /\ m2.kind = "GCM"  BY <1>1, <1>2 DEF KeyOk
      <2> QED  BY <2>1, <2>2
<1>3. CASE id # Zero
      <2>1. m.key = id /\ m.kind = situation.submessage  BY <1>3 DEF KeyOk
      <2>2. m2.key = id /\ m2.kind = situation.submessage  BY <1>3 DEF KeyOk
      <2> QED  BY <2>1, <2>2
<1> QED  BY <1>2, <1>3

LEMMA MaterialFound ==
    ASSUME KeysInv, NEW x \in Prefix, NEW source, NEW id, NEW f \in matching_decode_materials(x, source, id)
    PROVE  \E h : h[2] = source /\ KeyOk(situation, x, h, f.material) /\ f.material.id = id
<1>1. PICK h \in DOMAIN crypto[x].decode :
         /\ h[2] = source /\ select(crypto[x].decode[h], "submessage").id = id
         /\ f.material = select(crypto[x].decode[h], "submessage")
      BY DEF matching_decode_materials
<1>2. select(crypto[x].decode[h], "submessage") = crypto[x].decode[h][1]  BY DEF select
<1>3. KeyOk(situation, x, h, crypto[x].decode[h][1])  BY DEF KeysInv
<1> QED  BY <1>1, <1>2, <1>3

\* What decode_submessage returns was in the submessage, and it is for the
\* endpoints whose keys it is under.
LEMMA Decoded ==
    ASSUME KeysInv, NEW x \in Prefix, NEW source, NEW header, NEW body, NEW postfix,
           NEW d, d = decode_submessage(x, source, header, body, postfix), d.ok,
           body.kind = "SEC_BODY" => body.ciphertext_of = <<body.ciphertext_of[1]>>
    PROVE  /\ d.body = body \/ (body.kind = "SEC_BODY" /\ d.body = body.ciphertext_of[1])
           /\ \A id \in d.approved : \E h, m :
                 /\ KeyOk(situation, x, h, m) /\ m.id = header.id
                 /\ validate_receiver_specific_mac(m, postfix)
<1> DEFINE fits == matching_decode_materials(x, source, header.id)
           plain == {unprotect(f.material, header, <<body>>, postfix) : f \in fits}
           approved == {f.local : f \in {f \in fits : validate_receiver_specific_mac(f.material, postfix)}}
           keys == {f.material.key : f \in fits}
<1>1. /\ Cardinality(keys) = 1 /\ plain # {<<>>}
      /\ d = [ok |-> TRUE, body |-> (CHOOSE b \in plain : TRUE)[1], approved |-> approved]
      <2>1. CASE source \in crypto[x].participants /\ Cardinality(keys) = 1 /\ plain # {<<>>}
            BY <2>1 DEF decode_submessage
      <2>2. CASE ~(source \in crypto[x].participants /\ Cardinality(keys) = 1 /\ plain # {<<>>})
            <3>1. d = [ok |-> FALSE]  BY <2>2 DEF decode_submessage
            <3> QED  BY <3>1
      <2> QED  BY <2>1, <2>2
<1>2. fits # {}
      <2>1. ASSUME fits = {} PROVE keys = {}  BY <2>1
      <2> HIDE DEF keys, fits
      <2>2. ASSUME keys = {} PROVE Cardinality(keys) = 0  BY <2>2, FS_EmptySet, Zenon
      <2> QED  BY <1>1, <2>1, <2>2
<1> HIDE DEF fits
<1>3. ASSUME NEW f \in fits PROVE \E h : h[2] = source /\ KeyOk(situation, x, h, f.material) /\ f.material.id = header.id
      BY MaterialFound DEF fits
<1>4. ASSUME NEW f \in fits, NEW f2 \in fits
      PROVE  unprotect(f.material, header, <<body>>, postfix) = unprotect(f2.material, header, <<body>>, postfix)
      <2>1. PICK h : h[2] = source /\ KeyOk(situation, x, h, f.material) /\ f.material.id = header.id  BY <1>3
      <2>2. PICK h2 : h2[2] = source /\ KeyOk(situation, x, h2, f2.material) /\ f2.material.id = header.id  BY <1>3
      <2>3. f.material.key = f2.material.key /\ f.material.kind = f2.material.kind  BY <2>1, <2>2, SameKeys
      <2> QED  BY <2>1, <2>2, <2>3 DEF unprotect
<1>5. PICK f \in fits : TRUE  BY <1>2
<1> DEFINE b == unprotect(f.material, header, <<body>>, postfix)
<1>6. plain = {b}  BY <1>4
<1>7. b # <<>> /\ d.body = b[1] /\ d.approved = approved  BY <1>1, <1>6
<1>8. b = <<body>> \/ (body.kind = "SEC_BODY" /\ b = body.ciphertext_of)
      BY <1>7 DEF unprotect
<1> HIDE DEF b
<1>9. d.body = body \/ (body.kind = "SEC_BODY" /\ d.body = body.ciphertext_of[1])
      BY <1>7, <1>8
<1>10. ASSUME NEW id \in d.approved
       PROVE  \E h, m : KeyOk(situation, x, h, m) /\ m.id = header.id /\ validate_receiver_specific_mac(m, postfix)
      <2>1. PICK ff \in fits : validate_receiver_specific_mac(ff.material, postfix)  BY <1>7
      <2> QED  BY <1>3, <2>1
<1> QED  BY <1>9, <1>10

\* A protected submessage, decoded after its postfix.
LEMMA SecureHandled ==
    ASSUME IInv, NEW x \in Prefix, x \in Secured, NEW m \in net, NEW S, S = sent[m.no],
           HandlingOk(situation, x, S, m, rx[x]), rx[x].queue # <<>>, Len(rx[x].secure) = 2,
           NEW postfix, postfix = rx[x].queue[1], postfix.kind = "SEC_POSTFIX",
           NEW rest, handle_secure_submessage(x, rx[x].secure[1], rx[x].secure[2], postfix, rest),
           sent' = sent, situation' = situation
    PROVE  LogInv' /\ AckInv' /\ rx' = [rx EXCEPT ![x] = rest]
<1> DEFINE header == rx[x].secure[1]
           body == rx[x].secure[2]
           d == decode_submessage(x, rx[x].source, header, body, postfix)
           s == d.body
           I == {i \in 1 .. Len(EntityOrder) :
                    /\ EntityOrder[i] \in available_readers(x) /\ EntityOrder[i] \in d.approved
                    /\ contains_writer(x, EntityOrder[i], s.from)}
           first == IF I # {} THEN Min(I) ELSE 0
           target == IF s.to # UNKNOWN THEN s.to ELSE IF first = 0 THEN UNKNOWN ELSE EntityOrder[first]
<1>1. AtHand(S, m, rx[x])  BY NowAtHand
<1>2. /\ header.kind = "SEC_PREFIX"
      /\ SealedOk(S, m.no, m.kind, header)
      /\ ElemOk(S, m.no, m.kind, body) /\ SealedOk(S, m.no, m.kind, body)
      /\ SealedOk(S, m.no, m.kind, postfix)
      /\ body.kind \notin InterpreterKinds
      <2>1. IsSeq(rx[x].secure) /\ IsSeq(rx[x].queue)  BY DEF HandlingOk
      <2>2. 1 \in DOMAIN rx[x].secure /\ 2 \in DOMAIN rx[x].secure /\ rx[x].secure # <<>>
            BY <2>1, IsSeqFacts
      <2>3. 1 \in DOMAIN rx[x].queue  BY <2>1, IsSeqFacts
      <2> QED  BY <2>2, <2>3 DEF HandlingOk
<1>3. KeysInv  BY DEF IInv
<1>4. body.kind = "SEC_BODY" =>
         /\ body.ciphertext_of = <<body.ciphertext_of[1]>>
         /\ body.ciphertext_of[1].kind \in PlainKinds /\ PlainOk(S, m.no, m.kind, body.ciphertext_of[1])
      BY <1>2 DEF SealedOk
<1>5. /\ log' = log \cup IF d.ok /\ s.kind \in WriterKinds /\ target \in d.approved \cap ReaderIds
                         THEN handle_writer_submessage(x, target, s) ELSE {}
      /\ \/ d.ok /\ s.kind \in ReaderKinds /\ handle_reader_submessage(x, s)
         \/ acks' = acks
      /\ rx' = [rx EXCEPT ![x] = IF d.ok /\ s.kind \in InterpreterKinds
                                 THEN handle_interpreter_submessage(rest, s, x) ELSE rest]
      <2>1. first = SelectInSeq(EntityOrder, LAMBDA id :
                    id \in available_readers(x) /\ id \in d.approved
                    /\ contains_writer(x, id, s.from))
            BY DEF SelectInSeq
      <2> QED  BY <2>1 DEF handle_secure_submessage
<1> HIDE DEF header, body, target, I
<1>6. ASSUME d.ok
      PROVE  /\ s.kind \in PlainKinds => PlainOk(S, m.no, m.kind, s)
             /\ s.kind \notin InterpreterKinds
             /\ \A id \in d.approved : \E h, mm :
                   /\ KeyOk(situation, x, h, mm) /\ mm.id = header.id
                   /\ validate_receiver_specific_mac(mm, postfix)
      <2> HIDE DEF d
      <2>1. /\ d.body = body \/ (body.kind = "SEC_BODY" /\ d.body = body.ciphertext_of[1])
            /\ \A id \in d.approved : \E h, mm :
                 /\ KeyOk(situation, x, h, mm) /\ mm.id = header.id
                 /\ validate_receiver_specific_mac(mm, postfix)
            <3>1. d = decode_submessage(x, rx[x].source, header, body, postfix)  BY DEF d
            <3> QED  BY <1>3, <1>4, <1>6, <3>1, Decoded
      <2>2. body.kind \in PlainKinds => PlainOk(S, m.no, m.kind, body)  BY <1>2 DEF ElemOk
      <2> QED  BY <1>2, <1>4, <2>1, <2>2, Kinds
<1> HIDE DEF d
<1>7. ASSUME d.ok, NEW id \in d.approved, IsUser(S.by), situation.submessage_origin
      PROVE  x \in {g[1] : g \in S.to}
      <2>1. PICK h, mm : /\ KeyOk(situation, x, h, mm) /\ mm.id = header.id
                         /\ validate_receiver_specific_mac(mm, postfix)
            BY <1>6, <1>7
      <2>2. header.id = EndpointKey(S.by)  BY <1>2, <1>7 DEF SealedOk
      <2>3. EndpointKey(S.by) # Zero  BY DEF EndpointKey, Zero
      <2>4. mm.key = mm.id /\ mm.rid = ReceiverKey(mm.id, x)
            BY <1>7, <2>1, <2>2, <2>3 DEF KeyOk
      <2>5. mm.rid # Zero
            <3>1. \A key : ReceiverKey(key, x) # Zero  BY DEF ReceiverKey, Zero
            <3> QED  BY <2>4, <3>1, Zenon
      <2>6. mm.rid \in postfix.receiver_macs  BY <2>1, <2>5 DEF validate_receiver_specific_mac
      <2>7. postfix.receiver_macs \subseteq {ReceiverKey(EndpointKey(S.by), g[1]) : g \in S.to}
            BY <1>2 DEF SealedOk
      <2>8. PICK g \in S.to : ReceiverKey(EndpointKey(S.by), x) = ReceiverKey(EndpointKey(S.by), g[1])
            BY <2>1, <2>2, <2>4, <2>6, <2>7
      <2>9. x = g[1]  BY <2>8 DEF ReceiverKey
      <2> QED  BY <2>9
<1>8. AckInv'
      <2>1. CASE d.ok /\ s.kind \in ReaderKinds /\ handle_reader_submessage(x, s)
            <3>1. PlainOk(S, m.no, m.kind, s)  BY <1>6, <2>1 DEF PlainKinds
            <3> HIDE DEF s
            <3> QED  BY <1>1, <2>1, <3>1, AcknackQueued
      <2>2. CASE acks' = acks  BY <2>2 DEF IInv, AckInv
      <2> QED  BY <1>5, <2>1, <2>2
<1>9. LogInv'
      <2> SUFFICES ASSUME NEW e \in log'
                   PROVE  e.content \in DOMAIN sent' /\ EntryOk(situation', sent'[e.content], e)
          BY DEF LogInv
      <2>1. CASE e \in log  BY <2>1 DEF IInv, LogInv
      <2>2. CASE e \notin log
            <3>1. d.ok /\ s.kind \in WriterKinds /\ target \in d.approved \cap ReaderIds
                  /\ e \in handle_writer_submessage(x, target, s)
                  BY <1>5, <2>2
            <3>2. PlainOk(S, m.no, m.kind, s)  BY <1>6, <3>1 DEF PlainKinds
            <3>3. s.to # UNKNOWN => target = s.to  BY DEF target
            <3>4. ASSUME s.to = UNKNOWN PROVE contains_writer(x, target, s.from)
                  <4>1. UNKNOWN \notin ReaderIds  BY EntityIds DEF UNKNOWN
                  <4>2. I # {} /\ target = EntityOrder[Min(I)]  BY <3>1, <3>4, <4>1 DEF target
                  <4>3. I \in SUBSET (1 .. 4)  BY EntityIds DEF I
                  <4>4. Min(I) \in I  BY <4>2, <4>3, MinOfSome
                  <4> QED  BY <4>2, <4>4 DEF I
            <3>5. IsUser(S.by) /\ situation.submessage_origin => x \in {g[1] : g \in S.to}
                  BY <1>7, <3>1
            <3> HIDE DEF s
            <3> QED  BY <1>1, <3>1, <3>2, <3>3, <3>4, <3>5, GivenToReader
      <2> QED  BY <2>1, <2>2
<1>10. rx' = [rx EXCEPT ![x] = rest]  BY <1>5, <1>6
<1> QED  BY <1>8, <1>9, <1>10

\* What is left of a message, once its first submessage was handled.
LEMMA OrderedTail ==
    ASSUME NEW S, NEW k, NEW q, IsSeq(q), q # <<>>,
           NEW stamp, NEW dest, Ordered(S, k, q, stamp, dest),
           NEW stamp2, NEW dest2,
           q[1].kind = "INFO_TS" \/ (stamp /\ q[1].kind # "INFO_SRC") => stamp2,
           stamp2 => stamp \/ q[1].kind = "INFO_TS",
           dest \/ q[1].kind = "INFO_DST" => dest2
    PROVE  Ordered(S, k, Tail(q), stamp2, dest2)
<1> DEFINE t == Tail(q)
<1>1. /\ DOMAIN t = 1 .. Len(q) - 1 /\ 1 \in DOMAIN q
      /\ DOMAIN q = 1 .. Len(q) /\ Len(q) \in Nat
      /\ \A i \in DOMAIN t : i + 1 \in DOMAIN q /\ t[i] = q[i + 1]
      BY TailFacts, IsSeqFacts
<1>2. q[1].kind = "INFO_SRC" => ~stamp  BY <1>1 DEF Ordered
<1> HIDE DEF t
<1>3. ASSUME NEW i \in DOMAIN t, NEW kind, \E j \in 1 .. (i + 1) - 1 : q[j].kind = kind
      PROVE  q[1].kind = kind \/ \E j \in 1 .. i - 1 : t[j].kind = kind
      <2>1. PICK j \in 1 .. (i + 1) - 1 : q[j].kind = kind  BY <1>3
      <2>2. CASE j = 1  BY <2>1, <2>2
      <2>3. CASE j # 1
            <3>1. i \in Nat /\ j \in Nat  BY <1>1
            <3>2. j - 1 \in 1 .. i - 1 /\ j - 1 \in DOMAIN t /\ (j - 1) + 1 = j  BY <1>1, <2>3, <3>1
            <3>3. t[j - 1] = q[(j - 1) + 1]  BY <1>1, <3>2
            <3> QED  BY <2>1, <3>2, <3>3
      <2> QED  BY <2>2, <2>3
<1>4. ASSUME NEW i \in DOMAIN t
      PROVE  /\ t[i].kind \in PlainKinds \cup {"SEC_POSTFIX"} =>
                   /\ S.stamped /\ k \in Datas => stamp2 \/ \E j \in 1 .. i - 1 : t[j].kind = "INFO_TS"
                   /\ S.aimed /\ k # "HEARTBEAT" => dest2 \/ \E j \in 1 .. i - 1 : t[j].kind = "INFO_DST"
             /\ t[i].kind = "INFO_SRC" => ~stamp2 /\ \A j \in 1 .. i - 1 : t[j].kind # "INFO_TS"
             /\ t[i].kind \in InterpreterKinds =>
                   \A j \in 1 .. i - 1 : t[j].kind \notin PlainKinds \cup {"SEC_PREFIX"}
      <2> DEFINE before(kind) == \E j \in 1 .. (i + 1) - 1 : q[j].kind = kind
      <2>1. i + 1 \in DOMAIN q /\ t[i] = q[i + 1] /\ i \in Nat /\ i >= 1  BY <1>1
      <2>2. /\ t[i].kind \in PlainKinds \cup {"SEC_POSTFIX"} =>
                  /\ S.stamped /\ k \in Datas => stamp \/ before("INFO_TS")
                  /\ S.aimed /\ k # "HEARTBEAT" => dest \/ before("INFO_DST")
            /\ t[i].kind = "INFO_SRC" => ~stamp /\ ~before("INFO_TS")
            /\ t[i].kind \in InterpreterKinds =>
                  \A kind : before(kind) => kind \notin PlainKinds \cup {"SEC_PREFIX"}
            BY <2>1 DEF Ordered
      <2>3. \A kind : before(kind) => q[1].kind = kind \/ \E j \in 1 .. i - 1 : t[j].kind = kind
            BY <1>3
      <2>4. q[1].kind = "INFO_TS" => before("INFO_TS")  BY <2>1
      <2>5. ASSUME NEW j \in 1 .. i - 1 PROVE before(t[j].kind)
            <3>1. j \in DOMAIN t /\ j + 1 \in 1 .. (i + 1) - 1  BY <1>1, <2>1
            <3>2. t[j] = q[j + 1]  BY <1>1, <3>1
            <3> QED  BY <3>1, <3>2
      <2> HIDE DEF before
      <2> QED  BY <1>2, <2>2, <2>3, <2>4, <2>5
<1> QED  BY <1>4 DEF Ordered, t

\* The state of the interpreter after a submessage, for the rest.
LEMMA InterpretedRest ==
    ASSUME NEW x \in Prefix, NEW m, NEW S, NEW st, NEW st2, HandlingOk(situation, x, S, m, st),
           m.source = S.by[1], m.no # 0, st.queue # <<>>,
           st2.queue = Tail(st.queue), st2.secure = <<>>, st2.special = st.special,
           NEW s, s = st.queue[1],
           \/ /\ s.kind \notin InterpreterKinds
              /\ st2.source = st.source /\ st2.dest = st.dest /\ st2.timestamp = st.timestamp
           \/ /\ s.kind = "INFO_TS" /\ st2.timestamp = s.timestamp
              /\ st2.source = st.source /\ st2.dest = st.dest
           \/ /\ s.kind = "INFO_SRC" /\ st2.source = s.prefix /\ st2.timestamp = 0
              /\ st2.dest = st.dest
           \/ /\ s.kind = "INFO_DST" /\ st2.dest = (IF s.prefix = UNKNOWN THEN x ELSE s.prefix)
              /\ st2.source = st.source /\ st2.timestamp = st.timestamp
    PROVE  HandlingOk(situation, x, S, m, st2)
<1> DEFINE q == st.queue
           stamp == st.timestamp = m.no
           dest == \A g \in S.to : g[1] = st.dest
           stamp2 == st2.timestamp = m.no
           dest2 == \A g \in S.to : g[1] = st2.dest
<1>1. /\ IsSeq(q) /\ st.source = m.source /\ st.dest # UNKNOWN
      /\ Ordered(S, m.kind, q, stamp, dest) /\ (~S.stamped => st.timestamp = 0)
      BY DEF HandlingOk
<1>2. /\ IsSeq(Tail(q)) /\ 1 \in DOMAIN q
      /\ \A i \in DOMAIN Tail(q) : i + 1 \in DOMAIN q /\ Tail(q)[i] = q[i + 1]
      BY <1>1, TailFacts
<1>3. ElemOk(S, m.no, m.kind, s)  BY <1>2 DEF HandlingOk
<1>4. s.kind \notin InterpreterKinds => s.kind \notin {"INFO_TS", "INFO_SRC", "INFO_DST"}
      BY DEF InterpreterKinds
<1>5. st2.source = m.source /\ st2.dest # UNKNOWN /\ (~S.stamped => st2.timestamp = 0)
      BY <1>1, <1>3 DEF ElemOk
<1>6. /\ s.kind = "INFO_TS" \/ (stamp /\ s.kind # "INFO_SRC") => stamp2
      /\ stamp2 => stamp \/ s.kind = "INFO_TS"
      BY <1>3, <1>4 DEF ElemOk
<1>7. dest \/ s.kind = "INFO_DST" => dest2
      BY <1>3, <1>4 DEF ElemOk
<1> HIDE DEF stamp, dest, stamp2, dest2, q
<1>8. Ordered(S, m.kind, Tail(q), stamp2, dest2)
      <2>1. s = q[1] /\ q # <<>>  BY DEF q
      <2> QED  BY <1>1, <1>6, <1>7, <2>1, OrderedTail
<1>9. \A i \in DOMAIN Tail(q) : /\ ElemOk(S, m.no, m.kind, Tail(q)[i])
                                /\ x \in Secured => SealedOk(S, m.no, m.kind, Tail(q)[i])
      BY <1>2 DEF HandlingOk, q
<1>10. IsSeq(st2.secure) /\ DOMAIN st2.secure = {}  BY EmptyIsSeq
<1>11. x \in Secured /\ situation.rtps # "NONE" /\ situation.rtps_origin =>
          st2.special \/ x \in {g[1] : g \in S.to}
      BY DEF HandlingOk
<1>12. st2.queue = Tail(q)  BY DEF q
<1> QED  BY <1>2, <1>5, <1>8, <1>9, <1>10, <1>11, <1>12 DEF HandlingOk, stamp2, dest2

\* The receiver of another participant is left alone.
LEMMA OtherReceivers ==
    ASSUME IInv, UNCHANGED <<situation, net, sent>>, NEW x \in Prefix, NEW st,
           rx' = [rx EXCEPT ![x] = st], DOMAIN st = DOMAIN NewReceiver,
           st.queue # <<>> => \E m \in net : HandlingOk(situation, x, sent[m.no], m, st)
    PROVE  RxInv'
<1>1. DOMAIN rx = Prefix /\ \A y \in Prefix : DOMAIN rx[y] = DOMAIN NewReceiver  BY DEF IInv, RxInv
<1>2. DOMAIN rx' = Prefix /\ rx'[x] = st /\ \A y \in Prefix \ {x} : rx'[y] = rx[y]  BY <1>1
<1>3. ASSUME NEW y \in Prefix, rx'[y].queue # <<>>
      PROVE  \E m \in net' : HandlingOk(situation', y, sent'[m.no], m, rx'[y])
      <2>1. CASE y = x  BY <1>2, <1>3, <2>1
      <2>2. CASE y # x
            <3>1. rx'[y] = rx[y]  BY <1>2, <2>2
            <3>2. \E m \in net : HandlingOk(situation, y, sent[m.no], m, rx[y])
                  BY <1>3, <3>1 DEF IInv, RxInv
            <3> QED  BY <3>1, <3>2
      <2> QED  BY <2>1, <2>2
<1>4. \A y \in Prefix : DOMAIN rx'[y] = DOMAIN NewReceiver  BY <1>1, <1>2
<1> QED  BY <1>2, <1>3, <1>4 DEF RxInv

LEMMA SubmessageKeeps ==
    ASSUME IInv, NEW x \in Prefix, handle_submessage(x), UNCHANGED <<net, sent, heard, left>>
    PROVE  IInv'
<1> DEFINE st == rx[x]
           s == Head(st.queue)
           rest == [st EXCEPT !.queue = Tail(@), !.secure = <<>>]
<1>1. st.queue # <<>> /\ UNCHANGED <<situation, crypto, matched, net, sent>>
      BY DEF handle_submessage
<1>2. PICK m \in net : HandlingOk(situation, x, sent[m.no], m, st)  BY <1>1 DEF IInv, RxInv
<1> DEFINE S == sent[m.no]
<1>3. /\ IsSeq(st.queue) /\ IsSeq(st.secure) /\ 1 \in DOMAIN st.queue /\ s = st.queue[1]
      BY <1>1, <1>2, TailFacts DEF HandlingOk
<1>4. MessageOk(situation, S, m) /\ m.no \in DOMAIN sent /\ IsSeq(sent)  BY DEF IInv, NetInv
<1>5. m.source = S.by[1] /\ m.no # 0  BY <1>4, IsSeqFacts DEF MessageOk
<1>6. DOMAIN st = {"dest", "source", "timestamp", "secure", "special", "queue"}
      BY ReceiverFields DEF IInv, RxInv
<1>7. /\ DOMAIN rest = DOMAIN NewReceiver /\ rest.queue = Tail(st.queue) /\ rest.secure = <<>>
      /\ rest.special = st.special /\ rest.source = st.source /\ rest.dest = st.dest
      /\ rest.timestamp = st.timestamp
      BY <1>6, ReceiverFields
<1>8. KeysInv' /\ NetInv'
      BY <1>1 DEF IInv, KeysInv, NetInv
<1>9. acks' = acks => AckInv'
      BY <1>1 DEF IInv, AckInv
<1>10. log' = log => LogInv'
      BY <1>1 DEF IInv, LogInv
<1>11. HandlingOk(situation, x, S, m, st)  BY <1>2
<1> HIDE DEF S, s, rest
<1>12. s.kind \notin InterpreterKinds => HandlingOk(situation, x, S, m, rest)
      BY <1>1, <1>3, <1>5, <1>7, <1>11, InterpretedRest
<1>13. ASSUME s.kind = "SEC_PREFIX" \/ st.secure # <<>>, NEW i \in DOMAIN rest.queue
       PROVE  rest.queue[i].kind \notin InterpreterKinds
      <2>1. i + 1 \in DOMAIN st.queue /\ rest.queue[i] = st.queue[i + 1]
            BY <1>1, <1>3, <1>7, TailFacts
      <2>2. CASE st.secure # <<>>  BY <1>11, <2>1, <2>2 DEF HandlingOk
      <2>3. CASE s.kind = "SEC_PREFIX"
            <3>1. 1 \in 1 .. (i + 1) - 1
                  <4>1. i \in 1 .. Len(st.queue) - 1 /\ Len(st.queue) \in Nat
                        BY <1>1, <1>3, <1>7, TailFacts, IsSeqFacts
                  <4> QED  BY <4>1
            <3> QED  BY <1>3, <1>11, <2>1, <2>3, <3>1 DEF HandlingOk, Ordered
      <2> QED  BY <1>13, <2>2, <2>3
<1>14. CASE /\ st.secure = <<>> /\ s.kind \in InterpreterKinds
            /\ rx' = [rx EXCEPT ![x] = handle_interpreter_submessage(rest, s, x)]
            /\ UNCHANGED <<acks, log>>
      <2> DEFINE st2 == handle_interpreter_submessage(rest, s, x)
      <2>1. s.kind \in {"INFO_TS", "INFO_SRC", "INFO_DST"}  BY <1>14 DEF InterpreterKinds
      <2>2. /\ DOMAIN st2 = DOMAIN NewReceiver /\ st2.queue = Tail(st.queue)
            /\ st2.secure = <<>> /\ st2.special = st.special
            /\ \/ /\ s.kind = "INFO_TS" /\ st2.timestamp = s.timestamp
                  /\ st2.source = st.source /\ st2.dest = st.dest
               \/ /\ s.kind = "INFO_SRC" /\ st2.source = s.prefix /\ st2.timestamp = 0
                  /\ st2.dest = st.dest
               \/ /\ s.kind = "INFO_DST" /\ st2.dest = (IF s.prefix = UNKNOWN THEN x ELSE s.prefix)
                  /\ st2.source = st.source /\ st2.timestamp = st.timestamp
            <3>0. DOMAIN rest = {"dest", "source", "timestamp", "secure", "special", "queue"}
                  BY <1>7, ReceiverFields
            <3>1. CASE s.kind = "INFO_TS"
                  <4>1. st2 = [rest EXCEPT !.timestamp = s.timestamp]
                        BY <3>1 DEF handle_interpreter_submessage
                  <4> HIDE DEF st2
                  <4> QED  BY <1>7, <3>0, <3>1, <4>1
            <3>2. CASE s.kind = "INFO_SRC"
                  <4>1. st2 = [rest EXCEPT !.source = s.prefix, !.timestamp = 0]
                        BY <3>2 DEF handle_interpreter_submessage
                  <4> HIDE DEF st2
                  <4> QED  BY <1>7, <3>0, <3>2, <4>1
            <3>3. CASE s.kind = "INFO_DST"
                  <4>1. st2 = [rest EXCEPT !.dest = IF s.prefix = UNKNOWN THEN x ELSE s.prefix]
                        BY <3>3 DEF handle_interpreter_submessage
                  <4> HIDE DEF st2
                  <4> QED  BY <1>7, <3>0, <3>3, <4>1
            <3> QED  BY <2>1, <3>1, <3>2, <3>3
      <2> HIDE DEF st2
      <2>3. HandlingOk(situation, x, S, m, st2)
            BY <1>1, <1>3, <1>5, <1>11, <2>2, InterpretedRest
      <2>4. rx' = [rx EXCEPT ![x] = st2]  BY <1>14 DEF st2
      <2>5. RxInv'  BY <1>1, <2>2, <2>3, <2>4, OtherReceivers DEF S
      <2> QED  BY <1>8, <1>9, <1>10, <1>14, <2>5 DEF IInv
<1>15. CASE /\ st.secure = <<>> /\ s.kind \in WriterKinds \cup ReaderKinds
            /\ handle_plain_submessage(x, s) /\ rx' = [rx EXCEPT ![x] = rest]
      <2>1. s.kind \in PlainKinds /\ s.kind \notin InterpreterKinds
            BY <1>15 DEF PlainKinds, InterpreterKinds, WriterKinds, ReaderKinds
      <2>2. LogInv' /\ AckInv'
            BY <1>1, <1>3, <1>11, <1>15, <2>1, PlainHandled DEF S
      <2>3. RxInv'  BY <1>1, <1>7, <1>12, <1>15, <2>1, OtherReceivers DEF S
      <2> QED  BY <1>8, <2>2, <2>3 DEF IInv
<1>16. CASE /\ st.secure = <<>> /\ s.kind \notin InterpreterKinds \cup WriterKinds \cup ReaderKinds
            /\ rx' = [rx EXCEPT ![x] = [rest EXCEPT !.secure =
                         IF IsForMe(x) /\ s.kind = "SEC_PREFIX" THEN <<s>> ELSE <<>>]]
            /\ UNCHANGED <<acks, log>>
      <2> DEFINE new == IF IsForMe(x) /\ s.kind = "SEC_PREFIX" THEN <<s>> ELSE <<>>
                 st2 == [rest EXCEPT !.secure = new]
      <2>1. HandlingOk(situation, x, S, m, rest)  BY <1>12, <1>16
      <2>2. /\ IsSeq(new) /\ (new # <<>> => new[1].kind = "SEC_PREFIX")
            /\ \A i \in DOMAIN new : new[i] = s
            <3>1. CASE new = <<>>  BY <3>1, EmptyIsSeq
            <3>2. CASE new = <<s>> /\ s.kind = "SEC_PREFIX"
                  <4>1. IsSeq(<<s>>)  BY OneIsSeq
                  <4> HIDE DEF new
                  <4>2. DOMAIN new = {1} /\ new[1] = s  BY <3>2
                  <4> QED  BY <3>2, <4>1, <4>2
            <3> QED  BY <3>1, <3>2
      <2> HIDE DEF new
      <2>3. /\ DOMAIN st2 = DOMAIN NewReceiver /\ st2.queue = rest.queue /\ st2.secure = new
            /\ st2.special = rest.special /\ st2.source = rest.source /\ st2.dest = rest.dest
            /\ st2.timestamp = rest.timestamp
            BY <1>7, ReceiverFields
      <2> HIDE DEF st2
      <2>4. ElemOk(S, m.no, m.kind, s) /\ (x \in Secured => SealedOk(S, m.no, m.kind, s))
            BY <1>3, <1>11 DEF HandlingOk
      <2>5. HandlingOk(situation, x, S, m, st2)
            <3>1. new # <<>> => \A i \in DOMAIN rest.queue : rest.queue[i].kind \notin InterpreterKinds
                  BY <1>13 DEF new
            <3>2. \A i \in DOMAIN new : new[i].kind \notin InterpreterKinds  BY <1>16, <2>2
            <3> QED  BY <2>1, <2>2, <2>3, <2>4, <3>1, <3>2 DEF HandlingOk
      <2>6. rx' = [rx EXCEPT ![x] = st2]  BY <1>16 DEF st2, new
      <2>7. RxInv'  BY <1>1, <2>3, <2>5, <2>6, OtherReceivers DEF S
      <2> QED  BY <1>8, <1>9, <1>10, <1>16, <2>7 DEF IInv
<1>17. CASE /\ Len(st.secure) = 1
            /\ rx' = [rx EXCEPT ![x] = [rest EXCEPT !.secure = Append(st.secure, s)]]
            /\ UNCHANGED <<acks, log>>
      <2> DEFINE new == Append(st.secure, s)
                 st2 == [rest EXCEPT !.secure = new]
      <2>0. st.secure # <<>>
            <3>1. CASE st.secure = <<>>
                  <4>1. Len(st.secure) = 0  BY <3>1, EmptySeq
                  <4> QED  BY <1>17, <4>1
            <3> QED  BY <3>1
      <2>1. s.kind \notin InterpreterKinds  BY <1>3, <1>11, <2>0 DEF HandlingOk
      <2>2. HandlingOk(situation, x, S, m, rest)  BY <1>12, <2>1
      <2>3. 1 \in DOMAIN st.secure /\ DOMAIN st.secure = 1 .. 1  BY <1>3, <1>17, IsSeqFacts
      <2>4. /\ IsSeq(new) /\ DOMAIN new = 1 .. 2 /\ new[1] = st.secure[1] /\ new[2] = s
            <3>1. /\ IsSeq(new) /\ DOMAIN new = 1 .. Len(st.secure) + 1
                  /\ (\A i \in DOMAIN st.secure : new[i] = st.secure[i]) /\ new[Len(st.secure) + 1] = s
                  BY <1>3, AppendFacts
            <3> HIDE DEF new
            <3> QED  BY <1>17, <2>3, <3>1
      <2> HIDE DEF new
      <2>5. /\ DOMAIN st2 = DOMAIN NewReceiver /\ st2.queue = rest.queue /\ st2.secure = new
            /\ st2.special = rest.special /\ st2.source = rest.source /\ st2.dest = rest.dest
            /\ st2.timestamp = rest.timestamp
            BY <1>7, ReceiverFields
      <2> HIDE DEF st2
      <2>6. \A i \in DOMAIN new : /\ ElemOk(S, m.no, m.kind, new[i])
                                  /\ x \in Secured => SealedOk(S, m.no, m.kind, new[i])
            BY <1>3, <1>11, <2>3, <2>4 DEF HandlingOk
      <2>7. new[1].kind = "SEC_PREFIX"  BY <1>11, <2>0, <2>4 DEF HandlingOk
      <2>8. \A i \in DOMAIN rest.queue : rest.queue[i].kind \notin InterpreterKinds
            BY <1>13, <2>0
      <2>9. HandlingOk(situation, x, S, m, st2)
            <3>1. st.secure[1].kind \notin InterpreterKinds  BY <1>11, <2>0, <2>3 DEF HandlingOk
            <3>2. \A i \in DOMAIN new : new[i].kind \notin InterpreterKinds  BY <2>1, <2>4, <3>1
            <3> QED  BY <2>2, <2>4, <2>5, <2>6, <2>7, <2>8, <3>2 DEF HandlingOk
      <2>10. rx' = [rx EXCEPT ![x] = st2]  BY <1>17 DEF st2, new
      <2>11. RxInv'  BY <1>1, <2>5, <2>9, <2>10, OtherReceivers DEF S
      <2> QED  BY <1>8, <1>9, <1>10, <1>17, <2>11 DEF IInv
<1>18. CASE /\ Len(st.secure) = 2
            /\ IF s.kind = "SEC_POSTFIX" /\ x \in Secured
               THEN handle_secure_submessage(x, st.secure[1], st.secure[2], s, rest)
               ELSE rx' = [rx EXCEPT ![x] = rest] /\ UNCHANGED <<acks, log>>
      <2>0. st.secure # <<>>
            <3>1. CASE st.secure = <<>>
                  <4>1. Len(st.secure) = 0  BY <3>1, EmptySeq
                  <4> QED  BY <1>18, <4>1
            <3> QED  BY <3>1
      <2>1. s.kind \notin InterpreterKinds  BY <1>3, <1>11, <2>0 DEF HandlingOk
      <2>2. LogInv' /\ AckInv' /\ rx' = [rx EXCEPT ![x] = rest]
            <3>1. CASE s.kind = "SEC_POSTFIX" /\ x \in Secured
                  BY <1>1, <1>3, <1>11, <1>18, <3>1, SecureHandled DEF S
            <3>2. CASE ~(s.kind = "SEC_POSTFIX" /\ x \in Secured)  BY <1>9, <1>10, <1>18, <3>2
            <3> QED  BY <3>1, <3>2
      <2>3. RxInv'  BY <1>1, <1>7, <1>12, <2>1, <2>2, OtherReceivers DEF S
      <2> QED  BY <1>8, <2>2, <2>3 DEF IInv
<1> QED  BY <1>14, <1>15, <1>16, <1>17, <1>18 DEF handle_submessage, s, rest

\* The event loop takes an acknowledgement out of the channel.
LEMMA AcknackActionKeeps ==
    ASSUME IInv, NEW x \in Prefix, handle_writer_acknack_action(x), UNCHANGED <<net, sent, heard, left>>
    PROVE  IInv'
<1> DEFINE q == acks[x]
           a == Head(q)
           g == <<a.source, a.ack.from>>
           e == [at |-> <<x, a.ack.to>>, from |-> g, kind |-> "ACKNACK",
                 timestamp |-> 0, content |-> a.ack.content]
<1>1. /\ q # <<>> /\ acks' = [acks EXCEPT ![x] = Tail(q)]
      /\ log' = log \cup IF <<a.ack.to, g>> \in matched[x] THEN {e} ELSE {}
      /\ UNCHANGED <<situation, crypto, matched, rx, net, sent>>
      BY DEF handle_writer_acknack_action
<1>2. DOMAIN acks = Prefix /\ IsSeq(q)  BY DEF IInv, AckInv
<1>3. /\ IsSeq(Tail(q)) /\ a = q[1] /\ 1 \in DOMAIN q
      /\ \A i \in DOMAIN Tail(q) : i + 1 \in DOMAIN q /\ Tail(q)[i] = q[i + 1]
      BY <1>1, <1>2, TailFacts
<1>4. a.ack.content \in DOMAIN sent /\ AckOk(sent[a.ack.content], x, a)
      BY <1>3 DEF IInv, AckInv
<1>5. KeysInv' /\ NetInv' /\ RxInv'
      BY <1>1 DEF IInv, KeysInv, NetInv, RxInv
<1> HIDE DEF q, a
<1>6. AckInv'
      <2>1. DOMAIN acks' = Prefix /\ acks'[x] = Tail(q) /\ \A y \in Prefix \ {x} : acks'[y] = acks[y]
            BY <1>1, <1>2
      <2>2. ASSUME NEW y \in Prefix
            PROVE  /\ IsSeq(acks'[y])
                   /\ \A i \in DOMAIN acks'[y] :
                         /\ acks'[y][i].ack.content \in DOMAIN sent'
                         /\ AckOk(sent'[acks'[y][i].ack.content], y, acks'[y][i])
            <3>1. CASE y = x
                  <4>1. \A i \in DOMAIN q : /\ q[i].ack.content \in DOMAIN sent
                                            /\ AckOk(sent[q[i].ack.content], x, q[i])
                        BY DEF IInv, AckInv, q
                  <4> QED  BY <1>1, <1>3, <2>1, <3>1, <4>1
            <3>2. CASE y # x  BY <1>1, <2>1, <3>2 DEF IInv, AckInv
            <3> QED  BY <3>1, <3>2
      <2> QED  BY <2>1, <2>2 DEF AckInv
<1>7. ASSUME <<a.ack.to, g>> \in matched[x]
      PROVE  e.content \in DOMAIN sent /\ EntryOk(situation, sent[e.content], e)
      <2> DEFINE S == sent[a.ack.content]
      <2>1. g = S.by /\ S.aimed /\ S.to = {<<x, a.ack.to>>}  BY <1>4 DEF AckOk
      <2>2. /\ e.at = <<x, a.ack.to>> /\ e.at[1] = x /\ e.at[2] = a.ack.to /\ e.from = S.by
            /\ e.kind = "ACKNACK" /\ e.content = a.ack.content
            BY <2>1
      <2>3. g = <<g[1], g[2]>> /\ KeysInv  BY DEF IInv
      <2> HIDE DEF S, g, e
      <2>4. a.ack.to \notin SpecialCase /\ x \in Secured /\ Restricted => g[1] \in Secured
            BY <1>7, <2>3, MatchedEndpoint
      <2>5. IsUser(e.at) /\ e.at[1] \in Secured /\ RestrictedBy(situation) => e.from[1] \in Secured
            BY <2>1, <2>2, <2>4 DEF IsUser, Restricted, RestrictedBy
      <2>6. e.at \in S.to /\ e.at[1] \in {h[1] : h \in S.to}  BY <2>1, <2>2
      <2>7. EntryOk(situation, S, e)  BY <2>2, <2>5, <2>6, Kinds DEF EntryOk
      <2> QED  BY <1>4, <2>2, <2>7 DEF S
<1>8. LogInv'
      <2> HIDE DEF e
      <2>1. \A f \in log' : f \in log \/ (<<a.ack.to, g>> \in matched[x] /\ f = e)  BY <1>1
      <2>2. \A f \in log' : f.content \in DOMAIN sent /\ EntryOk(situation, sent[f.content], f)
            BY <1>7, <2>1 DEF IInv, LogInv
      <2> QED  BY <1>1, <2>2 DEF LogInv
<1> QED  BY <1>5, <1>6, <1>8 DEF IInv

-----------------------------------------------------------------------------
(* Matching and keys *)

\* Whatever else happens to one participant's keys and matches, those that are
\* new have to be as they should.
LEMMA ExchangeKeeps ==
    ASSUME IInv, UNCHANGED <<situation, rx, acks, log, net, sent>>,
           NEW x \in Prefix, DOMAIN crypto' = Prefix, DOMAIN matched' = Prefix,
           \A y \in Prefix \ {x} : crypto'[y] = crypto[y] /\ matched'[y] = matched[y],
           DOMAIN crypto'[x] = DOMAIN NoKeys,
           \A pair \in matched'[x] : pair \in matched[x] \/ PairOk(situation, x, pair),
           \A h \in DOMAIN crypto'[x].decode :
              \/ h \in DOMAIN crypto[x].decode /\ crypto'[x].decode[h] = crypto[x].decode[h]
              \/ KeyOk(situation, x, h, crypto'[x].decode[h][1])
    PROVE  IInv'
<1>1. /\ situation \in Situations
      /\ \A y \in Prefix : /\ DOMAIN crypto[y] = DOMAIN NoKeys
                           /\ \A pair \in matched[y] : PairOk(situation, y, pair)
                           /\ \A h \in DOMAIN crypto[y].decode :
                                 KeyOk(situation, y, h, crypto[y].decode[h][1])
      BY DEF IInv, KeysInv
<1>2. ASSUME NEW y \in Prefix
      PROVE  /\ DOMAIN crypto'[y] = DOMAIN NoKeys
             /\ \A pair \in matched'[y] : PairOk(situation, y, pair)
             /\ \A h \in DOMAIN crypto'[y].decode : KeyOk(situation, y, h, crypto'[y].decode[h][1])
      <2>1. CASE y = x  BY <1>1, <2>1
      <2>2. CASE y # x  BY <1>1, <2>2
      <2> QED  BY <2>1, <2>2
<1>3. KeysInv'  BY <1>1, <1>2 DEF KeysInv
<1>4. NetInv' /\ RxInv' /\ AckInv' /\ LogInv'
      BY DEF IInv, NetInv, RxInv, AckInv, LogInv
<1> QED  BY <1>3, <1>4 DEF IInv

LEMMA KeyFields ==
    ASSUME IInv, NEW x \in Prefix
    PROVE  /\ DOMAIN crypto = Prefix /\ DOMAIN matched = Prefix /\ situation \in Situations
           /\ DOMAIN crypto[x] = {"participants", "participant_keys", "handles", "encode", "decode"}
           /\ DOMAIN NoKeys = {"participants", "participant_keys", "handles", "encode", "decode"}
BY DEF IInv, KeysInv, NoKeys

LEMMA RegisterParticipantKeeps ==
    ASSUME IInv, NEW x \in Prefix, NEW y \in Prefix, register_remote_to_crypto(x, y)
    PROVE  IInv'
<1> DEFINE V == {<<pair[1], y>> : pair \in VolatilePairs(y)}
           keys == crypto[x].decode
           materials == derive_volatile_key_materials(x, y)
<1>1. /\ crypto' = [crypto EXCEPT
             ![x].participants = @ \cup {y}, ![x].handles = @ \cup VolatilePairs(y),
             ![x].encode = @ \cup V, ![x].decode = WithKeys(@, V, materials)]
      /\ UNCHANGED <<situation, matched, rx, acks, log, net, sent>>
      BY DEF register_remote_to_crypto
<1>2. /\ DOMAIN crypto = Prefix /\ DOMAIN matched = Prefix
      /\ DOMAIN crypto[x] = DOMAIN NoKeys
      /\ DOMAIN NoKeys = {"participants", "participant_keys", "handles", "encode", "decode"}
      BY KeyFields
<1>3. \A h \in V : h[2] = y  OBVIOUS
<1> HIDE DEF V, materials
<1>4. /\ DOMAIN crypto' = Prefix /\ DOMAIN matched' = Prefix
      /\ \A z \in Prefix \ {x} : crypto'[z] = crypto[z] /\ matched'[z] = matched[z]
      /\ DOMAIN crypto'[x] = DOMAIN NoKeys /\ crypto'[x].decode = WithKeys(keys, V, materials)
      /\ matched'[x] = matched[x]
      BY <1>1, <1>2
<1>5. \A pair \in matched'[x] : pair \in matched[x] \/ PairOk(situation, x, pair)
      BY <1>4
<1>6. ASSUME NEW h \in V PROVE KeyOk(situation, x, h, materials[1])
      <2>1. materials[1] = VolatileMaterial(x, y)  BY VolatileKeys DEF materials
      <2> QED  BY <1>3, <2>1 DEF KeyOk, VolatileMaterial
<1>7. ASSUME NEW h \in DOMAIN crypto'[x].decode
      PROVE  \/ h \in DOMAIN crypto[x].decode /\ crypto'[x].decode[h] = crypto[x].decode[h]
             \/ KeyOk(situation, x, h, crypto'[x].decode[h][1])
      <2> DEFINE new == WithKeys(keys, V, materials)
      <2> HIDE DEF keys
      <2>1. /\ DOMAIN new = DOMAIN keys \cup V /\ \A g \in V : new[g] = materials
            /\ \A g \in DOMAIN keys \ V : new[g] = keys[g]
            BY DEF WithKeys
      <2> HIDE DEF new
      <2>2. crypto'[x].decode = new /\ crypto[x].decode = keys  BY <1>4 DEF new, keys
      <2>3. CASE h \in V  BY <1>6, <2>1, <2>2, <2>3
      <2>4. CASE h \notin V  BY <2>1, <2>2, <2>4
      <2> QED  BY <2>3, <2>4
<1> QED  BY <1>1, <1>4, <1>5, <1>7, ExchangeKeeps

LEMMA UpdateParticipantKeeps ==
    ASSUME IInv, NEW x \in Prefix, NEW y \in Prefix, update_participant(x, y)
    PROVE  IInv'
<1>1. /\ matched' = [matched EXCEPT ![x] = @ \cup VolatilePairs(y)]
      /\ UNCHANGED <<situation, crypto, rx, acks, log, net, sent>>
      BY DEF update_participant
<1>2. /\ DOMAIN crypto = Prefix /\ DOMAIN matched = Prefix
      /\ DOMAIN crypto[x] = DOMAIN NoKeys
      BY KeyFields
<1>3. /\ DOMAIN crypto' = Prefix /\ DOMAIN matched' = Prefix
      /\ \A z \in Prefix \ {x} : crypto'[z] = crypto[z] /\ matched'[z] = matched[z]
      /\ DOMAIN crypto'[x] = DOMAIN NoKeys /\ crypto'[x].decode = crypto[x].decode
      /\ matched'[x] = matched[x] \cup VolatilePairs(y)
      BY <1>1, <1>2
<1>4. \A pair \in matched'[x] : pair \in matched[x] \/ PairOk(situation, x, pair)
      BY <1>3 DEF PairOk
<1> QED  BY <1>1, <1>3, <1>4, ExchangeKeeps

LEMMA ParticipantTokensKeep ==
    ASSUME IInv, NEW x \in Prefix, NEW y \in Prefix, set_remote_participant_crypto_tokens(x, y)
    PROVE  IInv'
<1>1. /\ crypto' = [crypto EXCEPT ![x].participant_keys = @ \cup {y}]
      /\ UNCHANGED <<situation, matched, rx, acks, log, net, sent>>
      BY DEF set_remote_participant_crypto_tokens
<1>2. /\ DOMAIN crypto = Prefix /\ DOMAIN matched = Prefix
      /\ DOMAIN crypto[x] = DOMAIN NoKeys
      /\ DOMAIN NoKeys = {"participants", "participant_keys", "handles", "encode", "decode"}
      BY KeyFields
<1>3. /\ DOMAIN crypto' = Prefix /\ DOMAIN matched' = Prefix
      /\ \A z \in Prefix \ {x} : crypto'[z] = crypto[z] /\ matched'[z] = matched[z]
      /\ DOMAIN crypto'[x] = DOMAIN NoKeys /\ crypto'[x].decode = crypto[x].decode
      /\ matched'[x] = matched[x]
      BY <1>1, <1>2
<1> QED  BY <1>1, <1>3, ExchangeKeeps

\* The pairs of a situation: a user's Writer and a user's Reader.
LEMMA UserPairFacts ==
    ASSUME situation \in Situations, NEW x \in Prefix, NEW pair \in UserPairs(x)
    PROVE  /\ pair \in UserIds \X (Prefix \X UserIds)
           /\ pair = <<pair[1], pair[2]>> /\ pair[2] = <<pair[2][1], pair[2][2]>>
           /\ pair[1] \in UserIds /\ pair[2][1] \in Prefix /\ pair[2][2] \in UserIds
<1>1. situation.pairs \subseteq (Prefix \X {"w"}) \X (Prefix \X UserReaders)  BY SituationFacts
<1>2. UserReaders \subseteq UserIds /\ "w" \in UserIds  BY DEF UserIds
<1>3. pair \in UserIds \X (Prefix \X UserIds)
      <2>1. CASE \E pr \in situation.pairs : pair = <<pr[1][2], pr[2]>>  BY <1>1, <1>2, <2>1
      <2>2. CASE \E pr \in situation.pairs : pair = <<pr[2][2], pr[1]>>  BY <1>1, <1>2, <2>2
      <2> QED  BY <2>1, <2>2 DEF UserPairs
<1> QED  BY <1>3

LEMMA MatchKeeps ==
    ASSUME IInv, NEW x \in Prefix, NEW pair \in UserPairs(x), Match(x, pair)
    PROVE  IInv'
<1>1. /\ x \in Secured => pair[2][1] \in Secured \/ ~Restricted
      /\ matched' = [matched EXCEPT ![x] = @ \cup {pair}]
      /\ UNCHANGED <<situation, crypto, rx, acks, log, net, sent>>
      BY DEF Match
<1>2. /\ DOMAIN crypto = Prefix /\ DOMAIN matched = Prefix /\ DOMAIN crypto[x] = DOMAIN NoKeys
      /\ situation \in Situations
      BY KeyFields
<1>3. /\ DOMAIN crypto' = Prefix /\ DOMAIN matched' = Prefix
      /\ \A z \in Prefix \ {x} : crypto'[z] = crypto[z] /\ matched'[z] = matched[z]
      /\ DOMAIN crypto'[x] = DOMAIN NoKeys /\ crypto'[x].decode = crypto[x].decode
      /\ matched'[x] = matched[x] \cup {pair}
      BY <1>1, <1>2
<1>4. PairOk(situation, x, pair)
      <2>1. pair \in UserIds \X (Prefix \X UserIds)  BY <1>2, UserPairFacts
      <2>2. x \in Secured /\ RestrictedBy(situation) => pair[2][1] \in Secured
            BY <1>1 DEF Restricted, RestrictedBy
      <2> QED  BY <2>1, <2>2 DEF PairOk
<1> QED  BY <1>1, <1>3, <1>4, ExchangeKeeps

LEMMA RegisterEndpointKeeps ==
    ASSUME IInv, NEW x \in Prefix, NEW pair, register_matched_remote_endpoint(x, pair)
    PROVE  IInv'
<1>1. /\ crypto' = [crypto EXCEPT ![x].handles = @ \cup {pair},
                                  ![x].encode = @ \cup {<<pair[1], pair[2][1]>>}]
      /\ UNCHANGED <<situation, matched, rx, acks, log, net, sent>>
      BY DEF register_matched_remote_endpoint
<1>2. /\ DOMAIN crypto = Prefix /\ DOMAIN matched = Prefix
      /\ DOMAIN crypto[x] = DOMAIN NoKeys
      /\ DOMAIN NoKeys = {"participants", "participant_keys", "handles", "encode", "decode"}
      BY KeyFields
<1>3. /\ DOMAIN crypto' = Prefix /\ DOMAIN matched' = Prefix
      /\ \A z \in Prefix \ {x} : crypto'[z] = crypto[z] /\ matched'[z] = matched[z]
      /\ DOMAIN crypto'[x] = DOMAIN NoKeys /\ crypto'[x].decode = crypto[x].decode
      /\ matched'[x] = matched[x]
      BY <1>1, <1>2
<1> QED  BY <1>1, <1>3, ExchangeKeeps

LEMMA EndpointTokensKeep ==
    ASSUME IInv, NEW x \in Prefix, NEW pair \in UserPairs(x), set_remote_endpoint_crypto_tokens(x, pair)
    PROVE  IInv'
<1> DEFINE y == pair[2][1]
           id == pair[2][2]
           h0 == <<pair[1], y>>
           keys == crypto[x].decode
           materials == EndpointMaterials(y, id, x)
<1>1. /\ crypto' = [crypto EXCEPT ![x].decode = WithKeys(@, {h0}, materials)]
      /\ UNCHANGED <<situation, matched, rx, acks, log, net, sent>>
      BY DEF set_remote_endpoint_crypto_tokens
<1>2. /\ DOMAIN crypto = Prefix /\ DOMAIN matched = Prefix /\ situation \in Situations
      /\ DOMAIN crypto[x] = DOMAIN NoKeys
      /\ DOMAIN NoKeys = {"participants", "participant_keys", "handles", "encode", "decode"}
      BY KeyFields
<1>3. id \in UserIds /\ h0[2] = y  BY <1>2, UserPairFacts
<1> HIDE DEF materials, h0, y, id
<1>4. /\ DOMAIN crypto' = Prefix /\ DOMAIN matched' = Prefix
      /\ \A z \in Prefix \ {x} : crypto'[z] = crypto[z] /\ matched'[z] = matched[z]
      /\ DOMAIN crypto'[x] = DOMAIN NoKeys /\ crypto'[x].decode = WithKeys(keys, {h0}, materials)
      /\ matched'[x] = matched[x]
      BY <1>1, <1>2
<1>5. KeyOk(situation, x, h0, materials[1])
      <2>1. materials[1] = UserMaterial(y, id, x)  BY <1>2, <1>3, UserKeys DEF materials
      <2> QED  BY <1>3, <2>1 DEF KeyOk, UserMaterial
<1>6. ASSUME NEW h \in DOMAIN crypto'[x].decode
      PROVE  \/ h \in DOMAIN crypto[x].decode /\ crypto'[x].decode[h] = crypto[x].decode[h]
             \/ KeyOk(situation, x, h, crypto'[x].decode[h][1])
      <2> DEFINE V == {h0}
                 new == WithKeys(keys, V, materials)
      <2> HIDE DEF keys
      <2>1. /\ DOMAIN new = DOMAIN keys \cup V /\ \A g \in V : new[g] = materials
            /\ \A g \in DOMAIN keys \ V : new[g] = keys[g]
            BY DEF WithKeys
      <2> HIDE DEF new
      <2>2. crypto'[x].decode = new /\ crypto[x].decode = keys  BY <1>4 DEF new, keys
      <2>3. CASE h = h0  BY <1>5, <2>1, <2>2, <2>3
      <2>4. CASE h # h0  BY <2>1, <2>2, <2>4
      <2> QED  BY <2>3, <2>4
<1> QED  BY <1>1, <1>4, <1>6, ExchangeKeeps

LEMMA LeaveKeeps ==
    ASSUME IInv, NEW x \in Prefix, NEW pair, matched_reader_remove(x, pair)
    PROVE  IInv'
<1> DEFINE handle == <<pair[1], pair[2][1]>>
           keys == crypto[x].decode
<1>1. /\ crypto' = IF pair \notin crypto[x].handles THEN crypto
                   ELSE [crypto EXCEPT ![x].handles = @ \ {pair}, ![x].encode = @ \ {handle},
                            ![x].decode = [h \in DOMAIN @ \ {handle} |-> @[h]]]
      /\ matched' = [matched EXCEPT ![x] = @ \ {pair}]
      /\ UNCHANGED <<situation, rx, acks, log, net, sent>>
      BY DEF matched_reader_remove
<1>2. /\ DOMAIN crypto = Prefix /\ DOMAIN matched = Prefix
      /\ DOMAIN crypto[x] = DOMAIN NoKeys
      /\ DOMAIN NoKeys = {"participants", "participant_keys", "handles", "encode", "decode"}
      BY KeyFields
<1> HIDE DEF handle
<1>3. /\ DOMAIN crypto' = Prefix /\ DOMAIN matched' = Prefix
      /\ \A z \in Prefix \ {x} : crypto'[z] = crypto[z] /\ matched'[z] = matched[z]
      /\ DOMAIN crypto'[x] = DOMAIN NoKeys /\ matched'[x] = matched[x] \ {pair}
      /\ crypto'[x].decode = keys \/ crypto'[x].decode = [h \in DOMAIN keys \ {handle} |-> keys[h]]
      BY <1>1, <1>2
<1>4. \A h \in DOMAIN crypto'[x].decode :
         h \in DOMAIN crypto[x].decode /\ crypto'[x].decode[h] = crypto[x].decode[h]
      BY <1>3
<1> QED  BY <1>1, <1>3, <1>4, ExchangeKeeps

-----------------------------------------------------------------------------
(* The specification *)

LEMMA InitKeeps == Init => IInv
<1> SUFFICES ASSUME Init PROVE IInv  OBVIOUS
<1>1. /\ situation \in Situations /\ crypto = [x \in Prefix |-> NoKeys]
      /\ matched = [x \in Prefix |-> {}] /\ rx = [x \in Prefix |-> NewReceiver]
      /\ acks = [x \in Prefix |-> <<>>] /\ log = {} /\ net = {} /\ sent = <<>>
      BY DEF Init
<1>2. KeysInv
      <2>1. DOMAIN NoKeys.decode = {}  BY DEF NoKeys
      <2> QED  BY <1>1, <2>1 DEF KeysInv
<1>3. NetInv  BY <1>1, EmptyIsSeq DEF NetInv
<1>4. RxInv
      <2>1. NewReceiver.queue = <<>>  BY DEF NewReceiver
      <2> QED  BY <1>1, <2>1 DEF RxInv
<1>5. AckInv  BY <1>1, EmptyIsSeq DEF AckInv
<1>6. LogInv  BY <1>1 DEF LogInv
<1> QED  BY <1>2, <1>3, <1>4, <1>5, <1>6 DEF IInv

LEMMA NextKeeps == IInv /\ [Next]_vars => IInv'
<1> SUFFICES ASSUME IInv, [Next]_vars PROVE IInv'  OBVIOUS
<1>1. CASE Exchange
      <2>1. PICK x \in Prefix :
               \/ \E y \in Prefix :
                     \/ register_remote_to_crypto(x, y) \/ update_participant(x, y)
                     \/ set_remote_participant_crypto_tokens(x, y)
               \/ \E pair \in UserPairs(x) :
                     \/ Match(x, pair) \/ register_matched_remote_endpoint(x, pair)
                     \/ set_remote_endpoint_crypto_tokens(x, pair)
            BY <1>1 DEF Exchange
      <2>2. CASE \E y \in Prefix :
                    \/ register_remote_to_crypto(x, y) \/ update_participant(x, y)
                    \/ set_remote_participant_crypto_tokens(x, y)
            BY <2>2, RegisterParticipantKeeps, UpdateParticipantKeeps, ParticipantTokensKeep
      <2>3. CASE \E pair \in UserPairs(x) :
                    \/ Match(x, pair) \/ register_matched_remote_endpoint(x, pair)
                    \/ set_remote_endpoint_crypto_tokens(x, pair)
            BY <2>3, MatchKeeps, RegisterEndpointKeeps, EndpointTokensKeep
      <2> QED  BY <2>1, <2>2, <2>3
<1>2. CASE Leave  BY <1>2, LeaveKeeps DEF Leave
<1>3. CASE Send
      <2>1. CASE \E by \in situation.writers :
                    \/ \E target \in {GUID_UNKNOWN} \cup matched_readers(by), options \in situation.options :
                          send_cache_change(by, target, options)
                    \/ handle_heartbeat_tick(by)
                    \/ send_spdp(by[1])
            BY <2>1, CacheChangeKeeps, HeartbeatKeeps, SpdpKeeps
      <2>2. CASE \E by \in situation.acking, kind \in ReaderKinds :
                    \E g \in {pair[2] : pair \in matched[by[1]]} : send_acknack_to(by, kind, g)
            BY <2>2, AcknackKeeps
      <2> QED  BY <1>3, <2>1, <2>2 DEF Send
<1>4. CASE Receive
      <2>1. PICK x \in Listeners :
               \/ \E m \in net : m.source # x /\ handle_received_packet(x, m)
               \/ handle_submessage(x) /\ UNCHANGED <<net, sent, heard, left>>
               \/ handle_writer_acknack_action(x) /\ UNCHANGED <<net, sent, heard, left>>
            BY <1>4 DEF Receive
      <2>2. x \in Prefix  BY ListenersAssumption
      <2> QED  BY <2>1, <2>2, PacketKeeps, SubmessageKeeps, AcknackActionKeeps
<1>5. CASE UNCHANGED vars
      BY <1>5 DEF vars, receiver, IInv, KeysInv, NetInv, RxInv, AckInv, LogInv
<1> QED  BY <1>1, <1>2, <1>3, <1>4, <1>5 DEF Next

\* Every state of the messages on their way, of the MessageReceivers and of the
\* keys is as the invariant says: messages carry what their sender put into
\* them, under its keys, and a MessageReceiver in the middle of a message has
\* the source, the timestamp and the destination that belong to the rest of it
\* (message_receiver.rs: handle_parsed_message, handle_submessage).
THEOREM InvariantHolds == Spec => []IInv
BY InitKeeps, NextKeeps, PTL DEF Spec

LEMMA InvDelivers == IInv => DeliveredAsSent
<1> SUFFICES ASSUME IInv, NEW e \in log, NEW s, s = sent[e.content]
             PROVE  /\ e.from = s.by
                    /\ e.kind \in {"DATA", "DATAFRAG"} => e.timestamp = (IF s.stamped THEN e.content ELSE 0)
                    /\ s.aimed => \E g \in s.to : e.at[2] = g[2] /\ (e.kind # "HEARTBEAT" => e.at = g)
                    /\ e.at[1] \in Secured /\ IsUser(s.by) /\ OriginAuthenticated =>
                          e.at[1] \in {g[1] : g \in s.to}
                    /\ IsUser(e.at) /\ e.at[1] \in Secured /\ Restricted => e.from[1] \in Secured
    BY DEF DeliveredAsSent
<1>1. EntryOk(situation, s, e)  BY DEF IInv, LogInv
<1> QED  BY <1>1 DEF EntryOk, Datas, OriginAuthenticated, Restricted, RestrictedBy

\* What a Reader or a Writer is given was sent as it is given: from the endpoint
\* it names as its source, with the timestamp sent along or none, to the Reader
\* it was for and to no participant it was not for if origins are authenticated,
\* and not by a participant without plugins if the domain demands protection
\* (MessageReceiver: reset, handle_submessage, decode_submessage), however the
\* messages of any number of participants are lost, repeated and reordered.
THEOREM ReceivedIsAsSent == Spec => []DeliveredAsSent
BY InvariantHolds, InvDelivers, PTL

LEMMA InvHides == IInv => NothingInClear
<1> SUFFICES ASSUME IInv, NEW m \in net, m.source \in Secured
             PROVE  /\ "GCM" \in {situation.rtps, situation.submessage} => Readable(m) = {}
                    /\ situation.payload = "GCM" =>
                          \A s \in Readable(m) : s.kind \in {"DATA", "DATAFRAG"} => IsSealed(s.payload)
    BY DEF NothingInClear
<1>1. \A i \in DOMAIN m.subs : ClearOk(situation, m.subs[i])  BY DEF IInv, NetInv, MessageOk
<1>2. ASSUME NEW s \in Readable(m)
      PROVE  /\ "GCM" \notin {situation.rtps, situation.submessage}
             /\ situation.payload = "GCM" /\ s.kind \in Datas => IsSealed(s.payload)
      <2>1. s \in ToSet(m.subs) /\ "from" \in DOMAIN s /\ s.from \notin SpecialCase  BY DEF Readable
      <2>2. PICK i \in DOMAIN m.subs : s = m.subs[i]  BY <2>1 DEF ToSet
      <2> QED  BY <1>1, <2>1, <2>2 DEF ClearOk
<1> QED  BY <1>2 DEF Datas

\* In no message of a participant with plugins can a user's submessage be read
\* if messages or submessages are encrypted, and no payload if payloads are
\* (security_encode, encode_message, encode_submessage, data_msg).
THEOREM NothingIsSentInClear == Spec => []NothingInClear
BY InvariantHolds, InvHides, PTL

=============================================================================
