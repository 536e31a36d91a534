------------------------ MODULE LossyDeliveryProofs ------------------------
(***************************************************************************)
(* What the Writer takes as acknowledged is complete and as it was         *)
(* written, for payloads and fragments of any size, any numbers, losses,   *)
(* repetitions and garbage collections.                                    *)
(***************************************************************************)
EXTENDS LossyDelivery, WriterProxyProofs, SequenceTheorems, TLAPS

----------------------------------------------------------------------------
(* The inductive invariant *)

Size == H_LEN + ValueSize

\* Byte i of sample sn, header and value counted through.
Byte(sn, i) == IF i <= H_LEN THEN i ELSE i + sn

\* The bytes that fragment f carries.
Span(f) == {i \in 1 .. Size : (f - 1) * FragSize < i /\ i <= f * FragSize}

\* The part of sample sn that has arrived is where it belongs.
Filled(b, sn) ==
    /\ b = [buffer_bytes |-> b.buffer_bytes, fragment_count |-> b.fragment_count,
            received_bitmap |-> b.received_bitmap]
    /\ b.buffer_bytes \in [1 .. Size -> Int]
    /\ b.fragment_count = num_frags(Size, FragSize)
    /\ \A f \in b.received_bitmap :
          f \in Frags /\ \A i \in Span(f) : b.buffer_bytes[i] = Byte(sn, i)

BufferInv ==
    /\ DOMAIN buffers = Fragmented
    /\ \A s \in Fragmented : buffers[s] = NoBuffer \/ Filled(buffers[s], s)

\* A fragmented sample is never sent as DATA.
NetInv ==
    /\ data_net \subseteq SN \ Fragmented
    /\ hb_net \in 0 .. MaxSN

TypeInv ==
    /\ setting \in Settings
    /\ last_seq \in 0 .. setting.written
    /\ rp \in ReaderProxyType
    /\ Consistent(wp)

\* The Reader says of no number that it has it before it does.
AckInv ==
    /\ rp.all_acked_before <= wp.ack_base
    /\ \A m \in acknack_net :
          m.base \in 1 .. MaxSN + 1 /\ m.set \subseteq SN /\ m.base <= wp.ack_base

\* What arrived for good is what was written.
Written(s) == {[kind |-> setting.kind, payload |-> Change(setting.kind, s).payload]}

AssembledInv ==
    /\ DOMAIN assembled = Fragmented
    /\ \A s \in Fragmented : s \in Known(wp) => assembled[s] = Written(s)

IInv == TypeInv /\ NetInv /\ AckInv /\ BufferInv /\ AssembledInv

----------------------------------------------------------------------------
(* Arithmetic *)

LEMMA SizeFacts ==
    /\ Size \in Nat \ {0} /\ Size >= H_LEN /\ H_LEN = 4
    /\ FragSize \in Nat \ {0}
    /\ FragSize <= Size
    /\ ValueSize \in Nat
BY LossyDeliveryAssumption DEF Size, H_LEN

LEMMA DivMod ==
    ASSUME NEW n \in Nat, NEW k \in Nat \ {0}
    PROVE  /\ n \div k \in Nat /\ n % k \in 0 .. k - 1
           /\ n = k * (n \div k) + (n % k)
OBVIOUS

\* Fragments end where the next one begins.
LEMMA Consecutive ==
    ASSUME NEW f \in Nat \ {0}, NEW k \in Nat \ {0}
    PROVE  /\ (f - 1) * k \in Nat /\ f * k \in Nat
           /\ f * k = (f - 1) * k + k
OBVIOUS

LEMMA TimesMonotone ==
    ASSUME NEW a \in Nat, NEW b \in Nat, NEW k \in Nat \ {0}, a <= b
    PROVE  a * k <= b * k
OBVIOUS

LEMMA TimesReflects ==
    ASSUME NEW a \in Nat, NEW b \in Nat, NEW k \in Nat \ {0}, a * k < b * k
    PROVE  a < b
OBVIOUS

\* The last fragment reaches to the end of the sample, and begins before it.
LEMMA LastFragment ==
    LET n == num_frags(Size, FragSize)
    IN  /\ n \in Nat \ {0}
        /\ (n - 1) * FragSize < Size
        /\ Size <= n * FragSize
<1> DEFINE q == Size \div FragSize
           r == Size % FragSize
           n == num_frags(Size, FragSize)
<1>1. Size \in Nat \ {0} /\ FragSize \in Nat \ {0} /\ FragSize <= Size
      BY SizeFacts
<1>2. q \in Nat /\ r \in 0 .. FragSize - 1 /\ Size = FragSize * q + r
      BY <1>1, DivMod
<1>3. n = IF r # 0 THEN q + 1 ELSE q
      BY <1>2 DEF num_frags
<1> HIDE DEF q, r, n
<1>4. FragSize * q = q * FragSize /\ q * FragSize \in Nat
      BY <1>1, <1>2
<1>5. ASSUME r # 0 PROVE n \in Nat \ {0} /\ (n - 1) * FragSize < Size /\ Size <= n * FragSize
      <2>1. n = q + 1 /\ n - 1 = q
            BY <1>2, <1>3, <1>5
      <2>2. (n - 1) * FragSize = q * FragSize
            BY <2>1
      <2>3. n * FragSize = q * FragSize + FragSize
            BY <2>1, <1>1, <1>2
      <2>4. Size = q * FragSize + r
            BY <1>2, <1>4
      <2> QED  BY <2>1, <2>2, <2>3, <2>4, <1>1, <1>2, <1>4, <1>5
<1>6. ASSUME r = 0 PROVE n \in Nat \ {0} /\ (n - 1) * FragSize < Size /\ Size <= n * FragSize
      <2>1. n = q /\ Size = q * FragSize
            BY <1>1, <1>2, <1>3, <1>4, <1>6
      <2>2. q # 0
            BY <2>1, <1>1, <1>2
      <2>3. q * FragSize = (q - 1) * FragSize + FragSize /\ (q - 1) * FragSize \in Nat
            BY <2>2, <1>1, <1>2, Consecutive
      <2>4. (n - 1) * FragSize = (q - 1) * FragSize /\ n * FragSize = q * FragSize
            BY <2>1
      <2> QED  BY <2>1, <2>2, <2>3, <2>4, <1>1, <1>2
<1>7. n \in Nat \ {0} /\ (n - 1) * FragSize < Size /\ Size <= n * FragSize
      BY <1>5, <1>6
<1> QED  BY <1>7 DEF n

\* Every byte is in some fragment.
LEMMA EveryByte ==
    ASSUME NEW i \in 1 .. Size
    PROVE  \E f \in Frags : i \in Span(f)
<1> DEFINE q == (i - 1) \div FragSize
           r == (i - 1) % FragSize
           n == num_frags(Size, FragSize)
<1>1. Size \in Nat \ {0} /\ FragSize \in Nat \ {0} /\ i \in Nat /\ i - 1 \in Nat
      BY SizeFacts
<1>2. q \in Nat /\ r \in 0 .. FragSize - 1 /\ i - 1 = FragSize * q + r
      BY <1>1, DivMod
<1>3. n \in Nat \ {0} /\ Size <= n * FragSize
      BY LastFragment
<1>4. Frags = 1 .. n
      BY DEF Frags, Size
<1> HIDE DEF q, r, n
<1>5. FragSize * q = q * FragSize /\ (q + 1) * FragSize = q * FragSize + FragSize
      BY <1>1, <1>2
<1>6. q * FragSize \in Nat /\ n * FragSize \in Nat
      BY <1>1, <1>2, <1>3
<1>7. q * FragSize < i /\ i <= (q + 1) * FragSize
      BY <1>1, <1>2, <1>5, <1>6
<1>8. q * FragSize < n * FragSize
      BY <1>1, <1>3, <1>6, <1>7
<1>9. q < n
      BY <1>1, <1>2, <1>3, <1>8, TimesReflects
<1>10. q + 1 \in Frags /\ (q + 1) - 1 = q
      BY <1>2, <1>3, <1>4, <1>9
<1>11. i \in Span(q + 1)
      BY <1>7, <1>10 DEF Span
<1> QED  BY <1>10, <1>11

----------------------------------------------------------------------------
(* Fragments *)

\* The header and the value of a sample are sequences of its bytes.
LEMMA PayloadBytes ==
    ASSUME NEW kind, NEW sn \in SN
    PROVE  LET p == Change(kind, sn).payload
           IN  /\ p.header \in Seq(Int) /\ Len(p.header) = H_LEN
               /\ \A i \in 1 .. H_LEN : p.header[i] = Byte(sn, i)
               /\ p.value \in Seq(Int) /\ Len(p.value) = ValueSize
               /\ \A i \in 1 .. ValueSize : p.value[i] = Byte(sn, H_LEN + i)
<1> DEFINE h == [i \in 1 .. H_LEN |-> i]
           v == [i \in 1 .. ValueSize |-> H_LEN + i + sn]
           p == Change(kind, sn).payload
<1>1. p.header = h /\ p.value = v
      BY DEF Change
<1>2. H_LEN \in Nat /\ ValueSize \in Nat /\ sn \in Int
      BY SizeFacts DEF SN
<1>3. h \in [1 .. H_LEN -> Int] /\ v \in [1 .. ValueSize -> Int]
      BY <1>2
<1>4. h \in Seq(Int) /\ v \in Seq(Int)
      BY <1>2, <1>3, SeqDef
<1>5. Len(h) = H_LEN /\ Len(v) = ValueSize
      BY <1>2, <1>4, LenProperties
<1>6. \A i \in 1 .. H_LEN : h[i] = Byte(sn, i)
      BY <1>2 DEF Byte
<1>7. \A i \in 1 .. ValueSize : v[i] = Byte(sn, H_LEN + i)
      BY <1>2 DEF Byte
<1> QED  BY <1>1, <1>4, <1>5, <1>6, <1>7

\* bytes_slice cuts out the bytes from start up to to, wherever the header ends.
LEMMA SliceBytes ==
    ASSUME NEW kind, NEW sn \in SN, NEW start \in Nat, NEW to \in Nat,
           start < to, to <= Size
    PROVE  LET b == bytes_slice(Change(kind, sn).payload, start, to)
           IN  /\ Len(b) = to - start
               /\ \A j \in 1 .. to - start : b[j] = Byte(sn, start + j)
               /\ \A j \in 1 .. to - start : b[j] \in Int
<1> DEFINE p == Change(kind, sn).payload
           b == bytes_slice(p, start, to)
           front == SubSeq(p.value, 1, to - H_LEN)
<1>1. /\ p.header \in Seq(Int) /\ Len(p.header) = H_LEN
      /\ \A i \in 1 .. H_LEN : p.header[i] = Byte(sn, i)
      /\ p.value \in Seq(Int) /\ Len(p.value) = ValueSize
      /\ \A i \in 1 .. ValueSize : p.value[i] = Byte(sn, H_LEN + i)
      BY PayloadBytes
<1> HIDE DEF p
<1>2. H_LEN = 4 /\ H_LEN \in Nat /\ ValueSize \in Nat /\ Size = H_LEN + ValueSize
      BY SizeFacts DEF Size
<1>3. Lesser(to, len_serialized(p)) = to /\ Lesser(start, to) = start
      BY <1>1, <1>2 DEF Lesser, len_serialized
<1>4. b = IF start >= H_LEN THEN SubSeq(p.value, start - H_LEN + 1, to - H_LEN)
          ELSE SubSeq(p.header \o front, start + 1, to)
      BY <1>3 DEF bytes_slice
<1>5. \A i \in Int : Byte(sn, i) \in Int
      BY DEF Byte, SN
<1>10. \A i \in 1 .. ValueSize : p.value[i] \in Int
      BY <1>1, LenProperties
<1> HIDE DEF b
<1>6. ASSUME start >= H_LEN
      PROVE  Len(b) = to - start /\ \A j \in 1 .. to - start : b[j] = Byte(sn, start + j)
      <2> DEFINE m == start - H_LEN + 1
                 n == to - H_LEN
      <2>1. m \in Int /\ n \in Int /\ m <= n /\ 1 <= m /\ n <= ValueSize
            BY <1>2, <1>6
      <2>2. \A i \in m .. n : p.value[i] \in Int
            BY <2>1, <1>2, <1>10
      <2>3. b = SubSeq(p.value, m, n)
            BY <1>4, <1>6
      <2>4. n - m + 1 = to - start
            BY <1>2
      <2>5. /\ Len(SubSeq(p.value, m, n)) = n - m + 1
            /\ \A i \in 1 .. n - m + 1 : SubSeq(p.value, m, n)[i] = p.value[m + i - 1]
            BY <2>1, <2>2, SubSeqProperties
      <2>6. ASSUME NEW j \in 1 .. to - start
            PROVE  p.value[m + j - 1] = Byte(sn, start + j)
            <3>1. m + j - 1 = start - H_LEN + j /\ start - H_LEN + j \in 1 .. ValueSize
                  BY <1>2, <1>6
            <3>2. H_LEN + (start - H_LEN + j) = start + j
                  BY <1>2
            <3> QED  BY <3>1, <3>2, <1>1
      <2> HIDE DEF m, n
      <2> QED  BY <2>3, <2>4, <2>5, <2>6
<1>7. ASSUME start < H_LEN
      PROVE  Len(b) = to - start /\ \A j \in 1 .. to - start : b[j] = Byte(sn, start + j)
      <2> DEFINE whole == p.header \o front
      <2>1. \A i \in 1 .. to - H_LEN : p.value[i] \in Int
            BY <1>2, <1>10
      <2>2. /\ front \in Seq(Int)
            /\ Len(front) = IF 1 <= to - H_LEN THEN to - H_LEN - 1 + 1 ELSE 0
            /\ \A i \in 1 .. to - H_LEN - 1 + 1 : front[i] = p.value[1 + i - 1]
            BY <2>1, <1>2, SubSeqProperties
      <2> HIDE DEF front
      <2>11. p.header \in Seq(Int) /\ front \in Seq(Int)
            BY <2>2, <1>1
      <2>10. \A i \in 1 .. Len(p.header) + Len(front) : whole[i] =
                  IF i <= Len(p.header) THEN p.header[i] ELSE front[i - Len(p.header)]
            BY <2>11, ConcatProperties
      <2>3. \A i \in 1 .. H_LEN + Len(front) : whole[i] =
                  IF i <= H_LEN THEN p.header[i] ELSE front[i - H_LEN]
            BY <2>10, <1>1, Zenon
      <2> HIDE DEF whole
      <2>4. ASSUME NEW i \in 1 .. to PROVE whole[i] = Byte(sn, i)
            <3>1. CASE i <= H_LEN
                  <4>1. i \in 1 .. H_LEN + Len(front)
                        BY <3>1, <2>2, <1>2
                  <4> QED  BY <4>1, <3>1, <2>3, <1>1
            <3>2. CASE i > H_LEN
                  <4>1. /\ i \in 1 .. H_LEN + Len(front)
                        /\ ~(i <= H_LEN)
                        /\ i - H_LEN \in 1 .. to - H_LEN - 1 + 1
                        BY <3>2, <2>2, <1>2
                  <4>2. whole[i] = p.value[1 + (i - H_LEN) - 1]
                        BY <4>1, <2>2, <2>3
                  <4>3. /\ 1 + (i - H_LEN) - 1 = i - H_LEN
                        /\ i - H_LEN \in 1 .. ValueSize /\ H_LEN + (i - H_LEN) = i
                        BY <3>2, <1>2
                  <4> QED  BY <4>2, <4>3, <1>1
            <3>3. i <= H_LEN \/ i > H_LEN
                  BY <1>2
            <3> QED  BY <3>1, <3>2, <3>3
      <2>5. \A i \in start + 1 .. to : whole[i] \in Int
            BY <2>4, <1>5
      <2>6. /\ Len(SubSeq(whole, start + 1, to)) = to - (start + 1) + 1
            /\ \A i \in 1 .. to - (start + 1) + 1 :
                  SubSeq(whole, start + 1, to)[i] = whole[start + 1 + i - 1]
            BY <2>5, SubSeqProperties
      <2>7. b = SubSeq(whole, start + 1, to)
            <3>1. ~(start >= H_LEN)
                  BY <1>2, <1>7
            <3> QED  BY <3>1, <1>4, Zenon DEF whole
      <2>8. to - (start + 1) + 1 = to - start
            OBVIOUS
      <2>9. ASSUME NEW j \in 1 .. to - start PROVE b[j] = Byte(sn, start + j)
            <3>1. b[j] = whole[start + 1 + j - 1]
                  BY <2>6, <2>7, <2>8
            <3>2. start + 1 + j - 1 = start + j /\ start + j \in 1 .. to
                  OBVIOUS
            <3> QED  BY <3>1, <3>2, <2>4
      <2> QED  BY <2>6, <2>7, <2>8, <2>9
<1>8. Len(b) = to - start /\ \A j \in 1 .. to - start : b[j] = Byte(sn, start + j)
      BY <1>2, <1>6, <1>7
<1>9. ASSUME NEW j \in 1 .. to - start PROVE b[j] \in Int
      <2>1. start + j \in Int
            OBVIOUS
      <2> QED  BY <2>1, <1>5, <1>8
<1> QED  BY <1>8, <1>9 DEF b, p

\* m is fragment f of sample sn.
IsFragment(m, kind, sn, f) ==
    /\ m.writer_sn = sn
    /\ m.fragment_starting_num = f /\ m.fragments_in_submessage = 1
    /\ m.data_size = Size /\ m.fragment_size = FragSize
    /\ m.key_flag = (kind = "key")
    /\ Len(m.serialized_payload) = Lesser(f * FragSize, Size) - (f - 1) * FragSize
    /\ \A i \in Span(f) : /\ m.serialized_payload[i - (f - 1) * FragSize] = Byte(sn, i)
                          /\ Byte(sn, i) \in Int

\* Where a fragment begins and ends.
LEMMA SpanBounds ==
    ASSUME NEW f \in Frags
    PROVE  /\ f \in Nat \ {0}
           /\ (f - 1) * FragSize \in Nat /\ f * FragSize \in Nat
           /\ f * FragSize = (f - 1) * FragSize + FragSize
           /\ (f - 1) * FragSize < Size
<1> DEFINE n == num_frags(Size, FragSize)
<1>1. n \in Nat \ {0} /\ (n - 1) * FragSize < Size
      BY LastFragment
<1>2. Frags = 1 .. n
      BY DEF Frags, Size
<1> HIDE DEF n
<1>3. Size \in Nat /\ FragSize \in Nat \ {0}
      BY SizeFacts
<1>4. f \in Nat \ {0} /\ f - 1 \in Nat /\ n - 1 \in Nat /\ f - 1 <= n - 1
      BY <1>1, <1>2
<1>5. /\ (f - 1) * FragSize \in Nat /\ f * FragSize \in Nat
      /\ f * FragSize = (f - 1) * FragSize + FragSize
      BY <1>3, <1>4, Consecutive
<1>6. (f - 1) * FragSize <= (n - 1) * FragSize
      BY <1>3, <1>4, TimesMonotone
<1>7. (n - 1) * FragSize \in Nat
      BY <1>1, <1>3, Consecutive
<1> QED  BY <1>1, <1>3, <1>4, <1>5, <1>6, <1>7

\* A DATAFRAG of a change carries the bytes of its span.
LEMMA FragmentOfChange ==
    ASSUME NEW kind \in {"data", "key"}, NEW sn \in SN, NEW f \in Frags,
           NEW m \in data_frag_msg(Change(kind, sn), f, FragSize)
    PROVE  IsFragment(m, kind, sn, f)
<1> DEFINE p == Change(kind, sn).payload
           a == (f - 1) * FragSize
           z == Lesser(f * FragSize, Size)
           b == bytes_slice(p, a, z)
<1>1. Size \in Nat /\ FragSize \in Nat \ {0}
      BY SizeFacts
<1>2. /\ a \in Nat /\ f * FragSize \in Nat
      /\ f * FragSize = a + FragSize /\ a < Size
      BY SpanBounds
<1>3. Change(kind, sn).kind = kind /\ Change(kind, sn).sn = sn
      BY DEF Change
<1>4. Len(p.value) = ValueSize
      BY PayloadBytes
<1>5. len_serialized(p) = Size
      BY <1>4 DEF len_serialized, Size
<1>6. kind # "key_hash"
      OBVIOUS
<1>7. m = [writer_sn               |-> sn,
           fragment_starting_num   |-> f,
           fragments_in_submessage |-> 1,
           data_size               |-> Size,
           fragment_size           |-> FragSize,
           key_flag                |-> kind = "key",
           serialized_payload      |-> b]
      BY <1>3, <1>5, <1>6, Zenon DEF data_frag_msg
<1> HIDE DEF b, p
<1>8. /\ m.writer_sn = sn
      /\ m.fragment_starting_num = f /\ m.fragments_in_submessage = 1
      /\ m.data_size = Size /\ m.fragment_size = FragSize
      /\ m.key_flag = (kind = "key")
      /\ m.serialized_payload = b
      BY <1>7, Zenon
<1> HIDE DEF a
<1>9. z \in Nat /\ a < z /\ z <= Size /\ z <= f * FragSize
      /\ \A i \in 1 .. Size : i <= f * FragSize => i <= z
      BY <1>1, <1>2 DEF Lesser
<1> HIDE DEF z
<1>10. /\ Len(b) = z - a
       /\ \A j \in 1 .. z - a : b[j] = Byte(sn, a + j)
       /\ \A j \in 1 .. z - a : b[j] \in Int
      BY <1>2, <1>9, SliceBytes DEF b, p
<1>11. ASSUME NEW i \in Span(f)
       PROVE  b[i - a] = Byte(sn, i) /\ Byte(sn, i) \in Int
      <2>1. i \in 1 .. Size /\ a < i /\ i <= f * FragSize
            BY DEF Span, a
      <2>2. i - a \in 1 .. z - a /\ a + (i - a) = i
            BY <2>1, <1>1, <1>2, <1>9
      <2> QED  BY <2>2, <1>10
<1>12. Len(m.serialized_payload) = Lesser(f * FragSize, Size) - (f - 1) * FragSize
      BY <1>8, <1>10 DEF a, z
<1>13. ASSUME NEW i \in Span(f)
       PROVE  m.serialized_payload[i - (f - 1) * FragSize] = Byte(sn, i) /\ Byte(sn, i) \in Int
      BY <1>8, <1>11 DEF a
<1> HIDE DEF a, b, z, p
<1> QED  BY <1>8, <1>12, <1>13, Zenon DEF IsFragment

----------------------------------------------------------------------------
(* Assembly *)

\* A new buffer has the size of the sample and nothing in it.
LEMMA NewIsFilled ==
    ASSUME NEW kind, NEW sn \in SN, NEW f \in Frags, NEW m, IsFragment(m, kind, sn, f)
    PROVE  Filled(NewAssemblyBuffer(m), sn)
<1> DEFINE zeros == [i \in 1 .. Size |-> 0]
           b == NewAssemblyBuffer(m)
<1>1. m.data_size = Size /\ m.fragment_size = FragSize
      BY DEF IsFragment
<1>2. FragSize \in Nat \ {0}
      BY SizeFacts
<1>3. ~(FragSize < 1)
      BY <1>2
<1>4. total_number_of_fragments(m) = num_frags(Size, FragSize)
      BY <1>1, <1>3, Zenon DEF total_number_of_fragments
<1>5. b = [buffer_bytes |-> zeros, fragment_count |-> num_frags(Size, FragSize),
           received_bitmap |-> {}]
      BY <1>1, <1>4, Zenon DEF NewAssemblyBuffer
<1>6. zeros \in [1 .. Size -> Int]
      OBVIOUS
<1> HIDE DEF zeros, b
<1>7. /\ b.buffer_bytes = zeros /\ b.fragment_count = num_frags(Size, FragSize)
      /\ b.received_bitmap = {}
      BY <1>5, Zenon
<1>8. b = [buffer_bytes |-> b.buffer_bytes, fragment_count |-> b.fragment_count,
           received_bitmap |-> b.received_bitmap]
      BY <1>5, <1>7, Zenon
<1>9. Filled(b, sn)
      BY <1>6, <1>7, <1>8, Zenon DEF Filled
<1> QED  BY <1>9 DEF b

\* A fragment that joins a buffer goes where it belongs, and nothing else
\* changes.
LEMMA InsertFills ==
    ASSUME NEW kind, NEW sn \in SN, NEW f \in Frags, NEW m, IsFragment(m, kind, sn, f),
           NEW b, Filled(b, sn)
    PROVE  /\ Filled(insert_frags(b, m, FragSize), sn)
           /\ f \in insert_frags(b, m, FragSize).received_bitmap
<1> DEFINE a == (f - 1) * FragSize
           size == Lesser(1 * FragSize, Len(m.serialized_payload))
           z == Lesser(a + size, Len(b.buffer_bytes))
           bytes == [i \in 1 .. Size |->
                        IF i \in a + 1 .. z THEN m.serialized_payload[i - a]
                        ELSE b.buffer_bytes[i]]
           bitmap == b.received_bitmap \cup {f}
           c == insert_frags(b, m, FragSize)
<1>1. Size \in Nat /\ FragSize \in Nat \ {0}
      BY SizeFacts
<1>2. /\ f \in Nat \ {0} /\ a \in Nat /\ f * FragSize \in Nat
      /\ f * FragSize = a + FragSize /\ a < Size
      BY SpanBounds
<1>3. /\ m.fragment_starting_num = f /\ m.fragments_in_submessage = 1
      /\ Len(m.serialized_payload) = Lesser(f * FragSize, Size) - a
      /\ \A i \in Span(f) : m.serialized_payload[i - a] = Byte(sn, i) /\ Byte(sn, i) \in Int
      BY DEF IsFragment
<1>4. /\ b.buffer_bytes \in [1 .. Size -> Int] /\ DOMAIN b.buffer_bytes = 1 .. Size
      /\ b.fragment_count = num_frags(Size, FragSize)
      BY DEF Filled
<1>5. Len(b.buffer_bytes) = Size
      <2>1. b.buffer_bytes \in Seq(Int)
            BY <1>1, <1>4, SeqDef
      <2>2. Len(b.buffer_bytes) \in Nat /\ 1 .. Len(b.buffer_bytes) = 1 .. Size
            BY <2>1, <1>4, LenProperties
      <2> QED  BY <2>2, <1>1
<1>6. {f + g : g \in 0 .. 1 - 1} = {f}
      <2>1. 0 .. 1 - 1 = {0} /\ f + 0 = f
            BY <1>2
      <2> QED  BY <2>1
<1>7. c = [b EXCEPT !.buffer_bytes = bytes, !.received_bitmap = bitmap]
      BY <1>3, <1>4, <1>6, Zenon DEF insert_frags
<1> HIDE DEF a, c
<1>8. \A i \in 1 .. Size : i \in a + 1 .. z <=> i \in Span(f)
      <2>1. \A i \in 1 .. Size : i \in Span(f) <=> a < i /\ i <= f * FragSize
            BY DEF Span, a
      <2> HIDE DEF z
      <2>4. 1 * FragSize = FragSize
            BY <1>1
      <2>5. ASSUME f * FragSize < Size PROVE z = Lesser(f * FragSize, Size)
            <3>1. Lesser(f * FragSize, Size) = f * FragSize
                  BY <2>5 DEF Lesser
            <3>2. Len(m.serialized_payload) = FragSize
                  BY <3>1, <1>1, <1>2, <1>3
            <3>3. size = FragSize
                  BY <3>2, <2>4 DEF Lesser
            <3>4. z = f * FragSize
                  BY <3>3, <2>5, <1>1, <1>2, <1>5 DEF Lesser, z
            <3> QED  BY <3>1, <3>4
      <2>6. ASSUME ~(f * FragSize < Size) PROVE z = Lesser(f * FragSize, Size)
            <3>1. Lesser(f * FragSize, Size) = Size
                  BY <2>6 DEF Lesser
            <3>2. Len(m.serialized_payload) = Size - a /\ Size - a <= FragSize
                  BY <3>1, <2>6, <1>1, <1>2, <1>3
            <3>3. size = Size - a
                  BY <3>2, <2>4, <1>1, <1>2 DEF Lesser
            <3>4. z = Size
                  BY <3>3, <1>1, <1>2, <1>5 DEF Lesser, z
            <3> QED  BY <3>1, <3>4
      <2>2. z = Lesser(f * FragSize, Size)
            BY <2>5, <2>6
      <2>3. \A i \in 1 .. Size : i \in a + 1 .. Lesser(f * FragSize, Size)
                                   <=> a < i /\ i <= f * FragSize
            BY <1>1, <1>2 DEF Lesser
      <2> QED  BY <2>1, <2>2, <2>3, Zenon
<1> HIDE DEF z
<1>9. ASSUME NEW i \in 1 .. Size
      PROVE  /\ i \in Span(f) => bytes[i] = Byte(sn, i)
             /\ i \notin Span(f) => bytes[i] = b.buffer_bytes[i]
             /\ bytes[i] \in Int
      <2>1. bytes[i] = IF i \in a + 1 .. z THEN m.serialized_payload[i - a]
                       ELSE b.buffer_bytes[i]
            OBVIOUS
      <2>2. b.buffer_bytes[i] \in Int
            BY <1>4
      <2> HIDE DEF bytes
      <2> QED  BY <2>1, <2>2, <1>3, <1>8, Zenon
<1>10. bytes \in [1 .. Size -> Int]
      BY <1>9
<1> HIDE DEF bytes, bitmap
<1>11. /\ c = [buffer_bytes |-> bytes, fragment_count |-> b.fragment_count,
               received_bitmap |-> bitmap]
       /\ c.buffer_bytes = bytes /\ c.received_bitmap = bitmap
       /\ c.fragment_count = b.fragment_count
      <2>1. b = [buffer_bytes |-> b.buffer_bytes, fragment_count |-> b.fragment_count,
                 received_bitmap |-> b.received_bitmap]
            BY DEF Filled
      <2>2. c = [buffer_bytes |-> bytes, fragment_count |-> b.fragment_count,
                 received_bitmap |-> bitmap]
            BY <2>1, <1>7
      <2> QED  BY <2>2
<1>12. ASSUME NEW g \in c.received_bitmap
       PROVE  g \in Frags /\ \A i \in Span(g) : c.buffer_bytes[i] = Byte(sn, i)
      <2>1. g \in b.received_bitmap \/ g = f
            BY <1>11 DEF bitmap
      <2>2. g \in Frags
            BY <2>1 DEF Filled
      <2>3. ASSUME NEW i \in Span(g) PROVE bytes[i] = Byte(sn, i)
            <3>1. i \in 1 .. Size
                  BY DEF Span
            <3>2. CASE i \in Span(f)
                  BY <3>1, <3>2, <1>9
            <3>3. CASE i \notin Span(f)
                  <4>1. g \in b.received_bitmap
                        BY <2>1, <3>3
                  <4>2. b.buffer_bytes[i] = Byte(sn, i)
                        BY <4>1 DEF Filled
                  <4> QED  BY <4>2, <3>1, <3>3, <1>9
            <3> QED  BY <3>2, <3>3
      <2> QED  BY <2>2, <2>3, <1>11
<1>13. f \in c.received_bitmap
      BY <1>11 DEF bitmap
<1>14. c = [buffer_bytes |-> c.buffer_bytes, fragment_count |-> c.fragment_count,
            received_bitmap |-> c.received_bitmap]
      BY <1>11, Zenon
<1>15. Filled(c, sn)
      BY <1>4, <1>10, <1>11, <1>12, <1>14, Zenon DEF Filled
<1> QED  BY <1>13, <1>15 DEF c

\* The buffer of a sample once a fragment has joined it, opened if need be.
LEMMA WithDatafragFills ==
    ASSUME NEW kind, NEW sn \in SN, NEW f \in Frags, NEW m, IsFragment(m, kind, sn, f),
           NEW b, b = NoBuffer \/ Filled(b, sn)
    PROVE  Filled(with_datafrag(b, m, FragSize), sn)
<1>1. CASE b = NoBuffer
      <2>1. with_datafrag(b, m, FragSize) = insert_frags(NewAssemblyBuffer(m), m, FragSize)
            BY <1>1, Zenon DEF with_datafrag
      <2> QED  BY <2>1, NewIsFilled, InsertFills, Zenon
<1>2. CASE b # NoBuffer
      <2>1. with_datafrag(b, m, FragSize) = insert_frags(b, m, FragSize)
            BY <1>2, Zenon DEF with_datafrag
      <2> QED  BY <2>1, <1>2, InsertFills, Zenon
<1> QED  BY <1>1, <1>2

\* When no fragment is missing, the sample is what was written.
LEMMA CompleteIsWritten ==
    ASSUME NEW kind \in {"data", "key"}, NEW sn \in SN, NEW f, NEW m, IsFragment(m, kind, sn, f),
           NEW b, Filled(b, sn), is_complete(b)
    PROVE  assembled_data(b, m) = {[kind |-> kind, payload |-> Change(kind, sn).payload]}
<1> DEFINE bytes == b.buffer_bytes
           h == SubSeq(bytes, 1, H_LEN)
           v == SubSeq(bytes, H_LEN + 1, Len(bytes))
           p == Change(kind, sn).payload
<1>1. Size \in Nat /\ Size = H_LEN + ValueSize /\ H_LEN = 4 /\ ValueSize \in Nat
      BY SizeFacts DEF Size
<1>2. bytes \in [1 .. Size -> Int]
      BY DEF Filled
<1>3. \A i \in 1 .. Size : bytes[i] = Byte(sn, i)
      <2>1. b.received_bitmap = Frags
            BY DEF is_complete, Filled, Frags, Size
      <2> SUFFICES ASSUME NEW i \in 1 .. Size PROVE bytes[i] = Byte(sn, i)
            OBVIOUS
      <2>2. PICK g \in Frags : i \in Span(g)
            BY EveryByte
      <2> QED  BY <2>1, <2>2 DEF Filled
<1>4. bytes \in Seq(Int)
      BY <1>1, <1>2, SeqDef
<1>5. Len(bytes) = Size
      <2>1. Len(bytes) \in Nat /\ 1 .. Len(bytes) = 1 .. Size
            BY <1>2, <1>4, LenProperties
      <2> QED  BY <2>1, <1>1
<1>6. /\ p.header \in Seq(Int) /\ Len(p.header) = H_LEN
      /\ \A i \in 1 .. H_LEN : p.header[i] = Byte(sn, i)
      /\ p.value \in Seq(Int) /\ Len(p.value) = ValueSize
      /\ \A i \in 1 .. ValueSize : p.value[i] = Byte(sn, H_LEN + i)
      BY PayloadBytes
<1>7. p = [header |-> p.header, value |-> p.value]
      BY DEF Change
<1> HIDE DEF bytes, p
<1>8. h = p.header
      <2>1. \A i \in 1 .. H_LEN : bytes[i] \in Int
            BY <1>1, <1>2
      <2>2. /\ h \in Seq(Int) /\ Len(h) = H_LEN
            /\ \A i \in 1 .. H_LEN - 1 + 1 : h[i] = bytes[1 + i - 1]
            BY <2>1, <1>1, SubSeqProperties
      <2> HIDE DEF h
      <2>3. ASSUME NEW i \in 1 .. H_LEN PROVE h[i] = p.header[i]
            <3>1. i \in 1 .. H_LEN - 1 + 1 /\ 1 + i - 1 = i /\ i \in 1 .. Size
                  BY <1>1
            <3> QED  BY <3>1, <2>2, <1>3, <1>6
      <2> QED  BY <2>2, <2>3, <1>6, SeqEqual
<1>9. v = p.value
      <2>1. \A i \in H_LEN + 1 .. Len(bytes) : bytes[i] \in Int
            BY <1>1, <1>2, <1>5
      <2>2. Len(bytes) - (H_LEN + 1) + 1 = ValueSize
            BY <1>1, <1>5
      <2>3. /\ v \in Seq(Int) /\ Len(v) = ValueSize
            /\ \A i \in 1 .. Len(bytes) - (H_LEN + 1) + 1 : v[i] = bytes[H_LEN + 1 + i - 1]
            BY <2>1, <2>2, <1>1, <1>5, SubSeqProperties
      <2> HIDE DEF v
      <2>4. ASSUME NEW i \in 1 .. ValueSize PROVE v[i] = p.value[i]
            <3>1. H_LEN + 1 + i - 1 = H_LEN + i /\ H_LEN + i \in 1 .. Size
                  BY <1>1
            <3>2. v[i] = bytes[H_LEN + i]
                  BY <3>1, <2>2, <2>3
            <3> QED  BY <3>1, <3>2, <1>3, <1>6
      <2> QED  BY <2>3, <2>4, <1>6, SeqEqual
<1>10. ~(Len(bytes) < H_LEN)
      BY <1>1, <1>5
<1>11. from_bytes(bytes) = {[header |-> h, value |-> v]}
      BY <1>10, Zenon DEF from_bytes
<1>12. from_bytes(bytes) = {p}
      BY <1>7, <1>8, <1>9, <1>11, Zenon
<1>13. (IF m.key_flag THEN "key" ELSE "data") = kind
      BY DEF IsFragment
<1>14. assembled_data(b, m) = {[kind |-> kind, payload |-> q] : q \in from_bytes(bytes)}
      BY <1>13, Zenon DEF assembled_data, bytes
<1>15. assembled_data(b, m) = {[kind |-> kind, payload |-> p]}
      BY <1>12, <1>14
<1> QED  BY <1>15 DEF p

----------------------------------------------------------------------------
(* The steps *)

\* What the constants say about a setting.
LEMMA SettingFacts ==
    ASSUME setting \in Settings
    PROVE  /\ setting.written \in SN /\ Fragmented \subseteq SN
           /\ setting.kind \in {"data", "key"}
BY LossyDeliveryAssumption DEF Fragmented

\* A sample that has arrived is known, and no other has become so.
LEMMA ReceivedKnows ==
    ASSUME Consistent(wp), NEW sn \in SN
    PROVE  /\ Consistent(Received(sn))
           /\ Known(Received(sn)) = Known(wp) \cup {sn}
           /\ Received(sn).ack_base >= wp.ack_base
<1>1. CASE should_ignore_change(wp, sn)
      <2>1. Received(sn) = wp
            BY <1>1 DEF Received
      <2>2. sn \in Known(wp)
            BY <1>1 DEF Known
      <2>3. wp.ack_base \in Int
            BY DEF Consistent, WriterProxyType
      <2> QED  BY <2>1, <2>2, <2>3
<1>2. CASE ~should_ignore_change(wp, sn)
      <2>1. Received(sn) = received_changes_add(wp, sn)
            BY <1>2 DEF Received
      <2> QED  BY <2>1, <1>2, ReceivedChangesAdd
<1> QED  BY <1>1, <1>2

\* The base of an ACKNACK is ack_base, whichever numbers are missing.
LEMMA HeartbeatAnswer ==
    ASSUME Consistent(wp), NEW last \in 0 .. MaxSN
    PROVE  LET m == AckNackFor(missing_seqnums(wp, 1, last))
           IN  m.base = wp.ack_base /\ m.set \subseteq SN
<1> DEFINE missing == missing_seqnums(wp, 1, last)
           m == AckNackFor(missing)
<1>1. wp.ack_base \in 1 .. MaxSN + 1 /\ wp.ack_base \notin wp.changes /\ MaxSN \in Nat
      BY MaxSNAssumption DEF Consistent, WriterProxyType
<1>2. /\ missing \subseteq SN
      /\ \A s \in missing : wp.ack_base <= s
      /\ missing # {} => wp.ack_base \in missing
      BY <1>1 DEF missing_seqnums, SN
<1> HIDE DEF missing
<1>3. missing # {} => First(missing) = wp.ack_base
      <2>1. SUFFICES ASSUME missing # {} PROVE First(missing) = wp.ack_base
            OBVIOUS
      <2>2. \E s \in missing : \A t \in missing : s <= t
            BY <2>1, <1>2
      <2>3. First(missing) \in missing /\ \A t \in missing : First(missing) <= t
            BY <2>2, Zenon DEF First
      <2> DEFINE f == First(missing)
      <2> HIDE DEF f
      <2>4. f \in missing /\ \A t \in missing : f <= t
            BY <2>3 DEF f
      <2>5. f \in SN
            BY <2>4, <1>2
      <2>6. f \in Int /\ wp.ack_base \in Int
            BY <2>5, <1>1 DEF SN
      <2>7. f = wp.ack_base
            BY <2>1, <2>4, <2>6, <1>2
      <2> QED  BY <2>7 DEF f
<1>4. m.base = wp.ack_base
      BY <1>3 DEF AckNackFor
<1>5. m.set \subseteq missing
      BY DEF AckNackFor
<1> QED  BY <1>2, <1>4, <1>5 DEF missing

LEMMA SampleSent ==
    ASSUME NEW sn \in SN, data_net \subseteq SN \ Fragmented, SendSample(sn), setting' = setting
    PROVE  data_net' \subseteq SN \ Fragmented'
BY DEF SendSample, SendDataFrags, SendData, Fragmented

LEMMA InitInv == Init => IInv
<1> SUFFICES ASSUME Init PROVE IInv
      OBVIOUS
<1>1. setting \in Settings
      BY DEF Init
<1>2. setting.written \in SN /\ MaxSN \in Nat \ {0}
      BY <1>1, SettingFacts, MaxSNAssumption
<1>3. Consistent(wp) /\ wp.ack_base = 1 /\ wp.changes = {}
      BY <1>2 DEF Init, NewWriterProxy, Consistent, WriterProxyType
<1>4. rp \in ReaderProxyType /\ rp.all_acked_before = 0
      BY <1>2 DEF Init, NewReaderProxy, ReaderProxyType
<1>5. TypeInv
      BY <1>1, <1>2, <1>3, <1>4 DEF Init, TypeInv, SN
<1>6. NetInv
      BY <1>2 DEF Init, NetInv
<1>7. AckInv
      BY <1>3, <1>4 DEF Init, AckInv
<1>8. BufferInv
      BY DEF Init, BufferInv
<1>9. AssembledInv
      <2>1. Known(wp) = {}
            BY <1>3 DEF Known, should_ignore_change, SN
      <2> QED  BY <2>1 DEF Init, AssembledInv
<1> QED  BY <1>5, <1>6, <1>7, <1>8, <1>9 DEF IInv

\* What concerns the Reader's side alone.
LEMMA ReaderSame ==
    ASSUME IInv, setting' = setting, UNCHANGED readerVars
    PROVE  /\ Consistent(wp') /\ wp' = wp
           /\ BufferInv' /\ AssembledInv'
<1>1. wp' = wp /\ buffers' = buffers /\ assembled' = assembled
      BY DEF readerVars
<1>2. Fragmented' = Fragmented
      BY DEF Fragmented
<1>3. Consistent(wp')
      BY <1>1 DEF IInv, TypeInv
<1>4. BufferInv'
      BY <1>1, <1>2 DEF IInv, BufferInv
<1>5. AssembledInv'
      <2>1. \A s : Written(s)' = Written(s)
            BY DEF Written
      <2> QED  BY <2>1, <1>1, <1>2, Zenon DEF IInv, AssembledInv
<1> QED  BY <1>1, <1>3, <1>4, <1>5

\* The Writer's steps leave what the Reader has, and take as acknowledged what
\* an ACKNACK says.
LEMMA WriterStep ==
    ASSUME IInv, setting' = setting, UNCHANGED readerVars,
           last_seq' \in 0 .. setting.written,
           rp' \in ReaderProxyType,
           \/ rp'.all_acked_before = rp.all_acked_before
           \/ \E m \in acknack_net : rp'.all_acked_before = m.base,
           data_net' \subseteq SN \ Fragmented',
           hb_net' \in 0 .. MaxSN, acknack_net' \subseteq acknack_net
    PROVE  IInv'
<1>1. Consistent(wp') /\ wp' = wp /\ BufferInv' /\ AssembledInv'
      BY ReaderSame
<1>2. TypeInv'
      BY <1>1 DEF IInv, TypeInv
<1>3. NetInv'
      BY DEF NetInv
<1>4. AckInv'
      <2>1. rp'.all_acked_before <= wp.ack_base
            BY DEF IInv, AckInv
      <2> QED  BY <2>1, <1>1 DEF IInv, AckInv
<1> QED  BY <1>1, <1>2, <1>3, <1>4 DEF IInv

LEMMA StepWrite == ASSUME IInv, Fixed(Write) PROVE IInv'
<1>1. /\ setting' = setting /\ UNCHANGED readerVars /\ acknack_net' = acknack_net
      /\ last_seq' = last_seq + 1 /\ hb_net' = last_seq + 1 /\ last_seq < setting.written
      /\ rp' = notify_new_cache_change(rp, last_seq + 1)
      /\ SendSample(last_seq + 1)
      BY DEF Fixed, Write
<1>2. setting.written \in SN /\ last_seq \in 0 .. setting.written /\ MaxSN \in Nat
      BY SettingFacts, MaxSNAssumption DEF IInv, TypeInv
<1>3. last_seq + 1 \in SN /\ last_seq + 1 \in 0 .. setting.written /\ last_seq + 1 \in 0 .. MaxSN
      BY <1>1, <1>2 DEF SN
<1>4. rp \in ReaderProxyType
      BY DEF IInv, TypeInv
<1>5. rp' \in ReaderProxyType /\ rp'.all_acked_before = rp.all_acked_before
      BY <1>1, <1>3, <1>4 DEF notify_new_cache_change, ReaderProxyType
<1>6. data_net' \subseteq SN \ Fragmented'
      BY <1>1, <1>3, SampleSent DEF IInv, NetInv
<1> QED  BY <1>1, <1>3, <1>5, <1>6, WriterStep

LEMMA StepHeartbeatTick == ASSUME IInv, Fixed(HeartbeatTick) PROVE IInv'
<1>1. /\ setting' = setting /\ UNCHANGED readerVars /\ acknack_net' = acknack_net
      /\ last_seq' = last_seq /\ hb_net' = last_seq /\ rp' = rp /\ data_net' = data_net
      BY DEF Fixed, HeartbeatTick, writerVars
<1>2. setting.written \in SN /\ last_seq \in 0 .. setting.written /\ MaxSN \in Nat
      BY SettingFacts, MaxSNAssumption DEF IInv, TypeInv
<1>3. last_seq \in 0 .. MaxSN
      BY <1>2 DEF SN
<1>4. rp' \in ReaderProxyType /\ data_net' \subseteq SN \ Fragmented'
      BY <1>1 DEF IInv, TypeInv, NetInv, Fragmented
<1> QED  BY <1>1, <1>2, <1>3, <1>4, WriterStep

LEMMA StepHandleAckNack == ASSUME IInv, HandleSomeAckNack PROVE IInv'
<1>1. PICK m \in acknack_net : HandleAckNack(m) /\ setting' = setting
      BY DEF HandleSomeAckNack, Fixed
<1> DEFINE p == handle_ack_nack(rp, m.base, m.set, last_seq)
<1>2. /\ UNCHANGED readerVars /\ acknack_net' = acknack_net \ {m}
      /\ last_seq' = last_seq /\ hb_net' = hb_net /\ data_net' = data_net
      /\ rp' = [p EXCEPT !.repair_mode = ~(p.all_acked_before > last_seq)]
      BY <1>1 DEF HandleAckNack
<1>3. rp \in ReaderProxyType /\ m.base \in 1 .. MaxSN + 1 /\ m.set \subseteq SN /\ MaxSN \in Nat
      BY MaxSNAssumption DEF IInv, TypeInv, AckInv
<1>4. p \in ReaderProxyType /\ p.all_acked_before = m.base
      <2> DEFINE unsent == {s \in {u \in rp.unsent_changes : u >= m.base} \cup m.set : s <= last_seq}
                 gap == {s \in rp.pending_gap : s >= m.base}
      <2>1. unsent \subseteq SN /\ gap \subseteq SN
            BY <1>3 DEF ReaderProxyType
      <2>2. p = [rp EXCEPT !.all_acked_before = m.base, !.unsent_changes = unsent,
                           !.pending_gap = gap]
            BY DEF handle_ack_nack
      <2>3. m.base \in 0 .. MaxSN + 1
            BY <1>3
      <2> HIDE DEF unsent, gap, p
      <2> QED  BY <2>1, <2>2, <2>3, <1>3 DEF ReaderProxyType
<1> HIDE DEF p
<1>5. rp' \in ReaderProxyType /\ rp'.all_acked_before = m.base
      BY <1>2, <1>4 DEF ReaderProxyType
<1>6. /\ last_seq' \in 0 .. setting.written /\ hb_net' \in 0 .. MaxSN
      /\ data_net' \subseteq SN \ Fragmented'
      BY <1>1, <1>2 DEF IInv, TypeInv, NetInv, Fragmented
<1> QED  BY <1>1, <1>2, <1>5, <1>6, WriterStep

LEMMA StepRepairDataSend == ASSUME IInv, Fixed(RepairDataSend) PROVE IInv'
<1>1. /\ setting' = setting /\ UNCHANGED readerVars /\ acknack_net' = acknack_net
      /\ last_seq' = last_seq /\ hb_net' = hb_net
      BY DEF Fixed, RepairDataSend
<1>2. /\ last_seq' \in 0 .. setting.written /\ hb_net' \in 0 .. MaxSN
      BY <1>1 DEF IInv, TypeInv, NetInv
<1>3. rp \in ReaderProxyType /\ data_net \subseteq SN \ Fragmented
      BY DEF IInv, TypeInv, NetInv
<1>4. CASE rp.unsent_changes = {}
      <2>1. rp' = [rp EXCEPT !.repair_mode = FALSE] /\ data_net' = data_net
            BY <1>4 DEF Fixed, RepairDataSend
      <2>2. rp' \in ReaderProxyType /\ rp'.all_acked_before = rp.all_acked_before
            BY <2>1, <1>3 DEF ReaderProxyType
      <2>3. data_net' \subseteq SN \ Fragmented'
            BY <2>1, <1>1, <1>3 DEF Fragmented
      <2> QED  BY <2>2, <2>3, <1>1, <1>2, WriterStep
<1>5. CASE rp.unsent_changes # {}
      <2> DEFINE sn == First(rp.unsent_changes)
      <2>1. rp' = mark_change_sent(rp, {sn}) /\ SendSample(sn)
            BY <1>5 DEF Fixed, RepairDataSend
      <2>2. rp.unsent_changes \subseteq SN
            BY <1>3 DEF ReaderProxyType
      <2>3. \E s \in rp.unsent_changes : \A t \in rp.unsent_changes : s <= t
            BY <2>2, <1>5, LeastNatural DEF SN
      <2>4. sn \in rp.unsent_changes
            BY <2>3, Zenon DEF First
      <2>5. sn \in SN
            BY <2>2, <2>4
      <2> HIDE DEF sn
      <2>6. rp' \in ReaderProxyType /\ rp'.all_acked_before = rp.all_acked_before
            BY <2>1, <1>3 DEF ReaderProxyType, mark_change_sent
      <2>7. data_net' \subseteq SN \ Fragmented'
            BY <2>1, <2>5, <1>1, <1>3, SampleSent
      <2> QED  BY <2>6, <2>7, <1>1, <1>2, WriterStep
<1> QED  BY <1>4, <1>5

LEMMA StepRepairFragsSend == ASSUME IInv, Fixed(RepairFragsSend) PROVE IInv'
<1>1. /\ setting' = setting /\ UNCHANGED readerVars /\ acknack_net' = acknack_net
      /\ last_seq' = last_seq /\ hb_net' = hb_net /\ rp' = rp /\ data_net' = data_net
      BY DEF Fixed, RepairFragsSend
<1>2. /\ last_seq' \in 0 .. setting.written /\ hb_net' \in 0 .. MaxSN
      /\ rp' \in ReaderProxyType /\ data_net' \subseteq SN \ Fragmented'
      BY <1>1 DEF IInv, TypeInv, NetInv, Fragmented
<1> QED  BY <1>1, <1>2, WriterStep

LEMMA StepLose == ASSUME IInv, Fixed(Lose /\ UNCHANGED <<writerVars, readerVars>>) PROVE IInv'
<1>1. /\ setting' = setting /\ UNCHANGED readerVars
      /\ last_seq' = last_seq /\ rp' = rp
      BY DEF Fixed, writerVars
<1>2. /\ data_net' \subseteq data_net /\ acknack_net' \subseteq acknack_net
      /\ hb_net' \in {0, hb_net}
      BY DEF Fixed, Lose
<1>3. /\ last_seq' \in 0 .. setting.written /\ hb_net' \in 0 .. MaxSN
      /\ rp' \in ReaderProxyType /\ data_net' \subseteq SN \ Fragmented'
      BY <1>1, <1>2, MaxSNAssumption DEF IInv, TypeInv, NetInv, Fragmented
<1> QED  BY <1>1, <1>2, <1>3, WriterStep

LEMMA StepHandleHeartbeat == ASSUME IInv, Fixed(HandleHeartbeat) PROVE IInv'
<1> DEFINE m == AckNackFor(missing_seqnums(wp, 1, hb_net))
<1>1. /\ setting' = setting /\ UNCHANGED readerVars /\ hb_net' = 0
      /\ last_seq' = last_seq /\ rp' = rp /\ data_net' = data_net
      /\ acknack_net' = acknack_net \cup {m}
      BY DEF Fixed, HandleHeartbeat, writerVars
<1>2. Consistent(wp) /\ hb_net \in 0 .. MaxSN /\ MaxSN \in Nat
      BY MaxSNAssumption DEF IInv, TypeInv, NetInv
<1>3. m.base = wp.ack_base /\ m.set \subseteq SN
      BY <1>2, HeartbeatAnswer
<1> HIDE DEF m
<1>4. Consistent(wp') /\ wp' = wp /\ BufferInv' /\ AssembledInv'
      BY <1>1, ReaderSame
<1>5. wp.ack_base \in 1 .. MaxSN + 1
      BY <1>2 DEF Consistent, WriterProxyType
<1>6. TypeInv'
      BY <1>1, <1>4 DEF IInv, TypeInv
<1>7. NetInv'
      BY <1>1, <1>2 DEF IInv, NetInv, Fragmented
<1>8. AckInv'
      BY <1>1, <1>2, <1>3, <1>4, <1>5 DEF IInv, AckInv
<1> QED  BY <1>4, <1>6, <1>7, <1>8 DEF IInv

\* What was acknowledged stays so while ack_base moves forward.
LEMMA AckForward ==
    ASSUME IInv, rp' = rp, acknack_net' = acknack_net, Consistent(wp'),
           wp'.ack_base >= wp.ack_base
    PROVE  AckInv'
<1>1. wp.ack_base \in Int /\ wp'.ack_base \in Int /\ rp.all_acked_before \in Int
      BY DEF IInv, TypeInv, Consistent, WriterProxyType, ReaderProxyType
<1>2. rp.all_acked_before <= wp.ack_base
      BY DEF IInv, AckInv
<1>3. ASSUME NEW m \in acknack_net
      PROVE  m.base \in 1 .. MaxSN + 1 /\ m.set \subseteq SN /\ m.base <= wp'.ack_base
      <2>1. m.base \in 1 .. MaxSN + 1 /\ m.set \subseteq SN /\ m.base <= wp.ack_base
            BY DEF IInv, AckInv
      <2> QED  BY <2>1, <1>1, MaxSNAssumption
<1> QED  BY <1>1, <1>2, <1>3 DEF AckInv

\* A DATA is of a sample that is not fragmented.
LEMMA StepHandleData ==
    ASSUME IInv, NEW sn \in SN, Fixed(HandleData(sn))
    PROVE  IInv'
<1>1. /\ setting' = setting /\ sn \in data_net /\ data_net' \subseteq data_net
      /\ wp' = Received(sn) /\ last_seq' = last_seq /\ rp' = rp
      /\ buffers' = buffers /\ assembled' = assembled
      /\ hb_net' = hb_net /\ acknack_net' = acknack_net
      BY DEF Fixed, HandleData, writerVars
<1>2. Consistent(wp) /\ sn \notin Fragmented
      BY <1>1 DEF IInv, TypeInv, NetInv
<1>3. Consistent(wp') /\ Known(wp') = Known(wp) \cup {sn} /\ wp'.ack_base >= wp.ack_base
      BY <1>1, <1>2, ReceivedKnows
<1>4. Fragmented' = Fragmented /\ \A s : Written(s)' = Written(s)
      BY <1>1 DEF Fragmented, Written
<1>5. TypeInv'
      BY <1>1, <1>3 DEF IInv, TypeInv
<1>6. NetInv'
      BY <1>1, <1>4 DEF IInv, NetInv
<1>7. AckInv'
      BY <1>1, <1>2, <1>3, AckForward
<1>8. BufferInv'
      BY <1>1, <1>4 DEF IInv, BufferInv
<1>9. AssembledInv'
      <2>1. \A s \in Fragmented : s \in Known(wp') => s \in Known(wp)
            BY <1>2, <1>3
      <2> QED  BY <2>1, <1>1, <1>4, Zenon DEF IInv, AssembledInv
<1> QED  BY <1>5, <1>6, <1>7, <1>8, <1>9 DEF IInv

\* Garbage collection only takes buffers away.
LEMMA CollectKeeps ==
    ASSUME setting' = setting, NEW candidates, NEW bufs, Collect(candidates, bufs),
           \A s \in Fragmented : bufs[s] = NoBuffer \/ Filled(bufs[s], s)
    PROVE  BufferInv'
<1>1. Fragmented' = Fragmented
      BY DEF Fragmented
<1>2. PICK quiet : buffers' = [s \in Fragmented |-> IF s \in quiet THEN NoBuffer ELSE bufs[s]]
      BY DEF Collect
<1>3. DOMAIN buffers' = Fragmented'
      BY <1>1, <1>2
<1>4. ASSUME NEW s \in Fragmented PROVE buffers'[s] = NoBuffer \/ Filled(buffers'[s], s)
      <2>1. buffers'[s] = IF s \in quiet THEN NoBuffer ELSE bufs[s]
            BY <1>2
      <2> QED  BY <2>1
<1> QED  BY <1>1, <1>3, <1>4 DEF BufferInv

\* The other parts of the invariant, when the Reader has dealt with a fragment.
LEMMA FragStep ==
    ASSUME IInv, setting' = setting, UNCHANGED <<writerVars, data_net, hb_net, acknack_net>>,
           Consistent(wp'), wp'.ack_base >= wp.ack_base, BufferInv', AssembledInv'
    PROVE  IInv'
<1>1. /\ data_net' = data_net /\ last_seq' = last_seq /\ rp' = rp
      /\ hb_net' = hb_net /\ acknack_net' = acknack_net
      BY DEF writerVars
<1>2. TypeInv'
      BY <1>1 DEF IInv, TypeInv
<1>3. NetInv'
      BY <1>1 DEF IInv, NetInv, Fragmented
<1>4. AckInv'
      BY <1>1, AckForward
<1> QED  BY <1>2, <1>3, <1>4 DEF IInv

LEMMA StepOfOther == ASSUME IInv, Fixed(HandleDataFragOfOther) PROVE IInv'
<1>1. /\ setting' = setting /\ wp' = wp /\ assembled' = assembled
      /\ UNCHANGED <<writerVars, data_net, hb_net, acknack_net>>
      /\ Collect(Fragmented, buffers)
      BY DEF Fixed, HandleDataFragOfOther
<1>2. BufferInv'
      BY <1>1, CollectKeeps DEF IInv, BufferInv
<1>3. AssembledInv'
      <2>1. Fragmented' = Fragmented /\ \A s : Written(s)' = Written(s)
            BY <1>1 DEF Fragmented, Written
      <2> QED  BY <2>1, <1>1, Zenon DEF IInv, AssembledInv
<1>4. Consistent(wp') /\ wp'.ack_base >= wp.ack_base
      BY <1>1 DEF IInv, TypeInv, Consistent, WriterProxyType
<1> QED  BY <1>1, <1>2, <1>3, <1>4, FragStep

\* A fragment: the last one that was missing makes the sample known, with the
\* bytes that were written.
LEMMA StepHandleDataFrag ==
    ASSUME IInv, NEW sn \in Fragmented, NEW f \in Frags, Fixed(HandleDataFrag(sn, f))
    PROVE  IInv'
<1> DEFINE kind == setting.kind
<1>1. /\ setting' = setting
      /\ UNCHANGED <<writerVars, data_net, hb_net, acknack_net>>
      BY DEF Fixed, HandleDataFrag
<1>2. kind \in {"data", "key"} /\ sn \in SN /\ Fragmented \subseteq SN /\ Consistent(wp)
      BY SettingFacts DEF IInv, TypeInv
<1>3. PICK m \in data_frag_msg(Change(kind, sn), f, FragSize) : NewDataFrag(m)
      <2>1. DataFragMsg[<<kind, sn, f>>] = data_frag_msg(Change(kind, sn), f, FragSize)
            BY <1>2 DEF DataFragMsg
      <2>2. PICK sent \in DataFragMsg[<<kind, sn, f>>] : \E m \in deserialize(sent) : NewDataFrag(m)
            BY DEF Fixed, HandleDataFrag
      <2>3. \A m \in deserialize(sent) : m = sent
            BY DEF deserialize
      <2> QED  BY <2>1, <2>2, <2>3
<1>4. IsFragment(m, kind, sn, f)
      BY <1>2, <1>3, FragmentOfChange
<1>5. m.writer_sn = sn
      BY <1>4 DEF IsFragment
<1> DEFINE buffer == with_datafrag(buffers[sn], m, FragSize)
<1>6. Filled(buffer, sn)
      <2>1. buffers[sn] = NoBuffer \/ Filled(buffers[sn], sn)
            BY DEF IInv, BufferInv
      <2> QED  BY <2>1, <1>2, <1>4, WithDatafragFills
<1>7. Fragmented' = Fragmented /\ \A s : Written(s)' = Written(s)
      BY <1>1 DEF Fragmented, Written
<1>8. DOMAIN buffers = Fragmented /\ DOMAIN assembled = Fragmented
      BY DEF IInv, BufferInv, AssembledInv
<1>9. IF is_complete(buffer)
      THEN /\ buffers' = [buffers EXCEPT ![sn] = NoBuffer]
           /\ wp' = Received(sn)
           /\ assembled' = [assembled EXCEPT
                  ![sn] = IF should_ignore_change(wp, sn) THEN @
                          ELSE assembled_data(buffer, m)]
      ELSE /\ Collect(Fragmented \ {sn}, [buffers EXCEPT ![sn] = buffer])
           /\ wp' = wp /\ assembled' = assembled
      BY <1>3, <1>5 DEF NewDataFrag
<1> HIDE DEF buffer, kind
<1>10. CASE is_complete(buffer)
      <2>1. /\ buffers' = [buffers EXCEPT ![sn] = NoBuffer]
            /\ wp' = Received(sn)
            /\ assembled' = [assembled EXCEPT
                  ![sn] = IF should_ignore_change(wp, sn) THEN @
                          ELSE assembled_data(buffer, m)]
            BY <1>9, <1>10
      <2>2. Consistent(wp') /\ Known(wp') = Known(wp) \cup {sn} /\ wp'.ack_base >= wp.ack_base
            BY <2>1, <1>2, ReceivedKnows
      <2>3. BufferInv'
            BY <2>1, <1>7, <1>8 DEF IInv, BufferInv
      <2>4. assembled_data(buffer, m) = Written(sn)
            BY <1>2, <1>4, <1>6, <1>10, CompleteIsWritten DEF Written, kind
      <2>5. ASSUME NEW s \in Fragmented, s \in Known(wp') PROVE assembled'[s] = Written(s)
            <3>1. CASE s # sn
                  <4>1. s \in Known(wp) /\ assembled'[s] = assembled[s]
                        BY <3>1, <2>1, <2>2, <2>5, <1>8
                  <4> QED  BY <4>1 DEF IInv, AssembledInv
            <3>2. CASE s = sn /\ should_ignore_change(wp, sn)
                  <4>1. sn \in Known(wp)
                        BY <3>2, <1>2 DEF Known
                  <4>2. assembled'[s] = assembled[s]
                        BY <3>2, <2>1, <1>8
                  <4> QED  BY <3>2, <4>1, <4>2 DEF IInv, AssembledInv
            <3>3. CASE s = sn /\ ~should_ignore_change(wp, sn)
                  <4>1. assembled'[s] = assembled_data(buffer, m)
                        BY <3>3, <2>1, <1>8
                  <4> QED  BY <3>3, <4>1, <2>4
            <3> QED  BY <3>1, <3>2, <3>3
      <2>6. DOMAIN assembled' = Fragmented
            BY <2>1, <1>8
      <2>7. AssembledInv'
            BY <2>5, <2>6, <1>7, Zenon DEF AssembledInv
      <2> QED  BY <2>2, <2>3, <2>7, <1>1, FragStep
<1>11. CASE ~is_complete(buffer)
      <2> DEFINE bufs == [buffers EXCEPT ![sn] = buffer]
      <2>1. Collect(Fragmented \ {sn}, bufs) /\ wp' = wp /\ assembled' = assembled
            BY <1>9, <1>11
      <2>2. ASSUME NEW s \in Fragmented PROVE bufs[s] = NoBuffer \/ Filled(bufs[s], s)
            <3>1. bufs[s] = IF s = sn THEN buffer ELSE buffers[s]
                  BY <1>8
            <3>2. buffers[s] = NoBuffer \/ Filled(buffers[s], s)
                  BY DEF IInv, BufferInv
            <3> HIDE DEF bufs
            <3> QED  BY <3>1, <3>2, <1>6, Zenon
      <2> HIDE DEF bufs
      <2>3. BufferInv'
            BY <2>1, <2>2, <1>1, CollectKeeps
      <2>4. AssembledInv'
            BY <2>1, <1>7, Zenon DEF IInv, AssembledInv
      <2>5. Consistent(wp') /\ wp'.ack_base >= wp.ack_base
            BY <2>1, <1>2 DEF Consistent, WriterProxyType
      <2> QED  BY <2>3, <2>4, <2>5, <1>1, FragStep
<1> QED  BY <1>10, <1>11

\* Every step keeps the invariant.
LEMMA StepInv == IInv /\ [Next]_vars => IInv'
<1> SUFFICES ASSUME IInv, [Next]_vars PROVE IInv'
      OBVIOUS
<1>1. CASE UNCHANGED vars
      <2>1. /\ setting' = setting /\ UNCHANGED readerVars /\ last_seq' = last_seq /\ rp' = rp
            /\ data_net' = data_net /\ hb_net' = hb_net /\ acknack_net' = acknack_net
            BY <1>1 DEF vars, writerVars
      <2>2. /\ last_seq' \in 0 .. setting.written /\ hb_net' \in 0 .. MaxSN
            /\ rp' \in ReaderProxyType /\ data_net' \subseteq SN \ Fragmented'
            BY <2>1 DEF IInv, TypeInv, NetInv, Fragmented
      <2> QED  BY <2>1, <2>2, WriterStep
<1>2. ASSUME NEW sn \in SN, Fixed(HandleData(sn)) PROVE IInv'
      BY <1>2, StepHandleData
<1>3. ASSUME NEW sn \in Fragmented, NEW f \in Frags, Fixed(HandleDataFrag(sn, f)) PROVE IInv'
      BY <1>3, StepHandleDataFrag
<1> QED  BY <1>1, <1>2, <1>3, StepWrite, StepHeartbeatTick, StepHandleAckNack,
            StepRepairDataSend, StepRepairFragsSend, StepLose, StepHandleHeartbeat, StepOfOther
         DEF Next

----------------------------------------------------------------------------
(* The theorems *)

\* The invariant holds for payloads, fragments and numbers of any size and
\* whatever is lost, late or collected.
THEOREM InvariantHolds == Spec => []IInv
<1>1. IInv /\ [Next]_vars => IInv'
      BY StepInv
<1> QED  BY InitInv, <1>1, PTL DEF Spec

\* What the Writer takes as acknowledged the Reader has, and a fragmented
\* sample was put together byte by byte as it was written, for any size of
\* payload and fragment and whatever order, loss, repetition and garbage
\* collection its fragments met (reader.rs:926-962,
\* fragment_assembler.rs:65-214).
THEOREM AcknowledgedIsComplete == Spec => []AckedIsComplete
<1>1. IInv => AckedIsComplete
      <2> SUFFICES ASSUME IInv PROVE AckedIsComplete
            OBVIOUS
      <2>1. rp.all_acked_before <= wp.ack_base
            BY DEF IInv, AckInv
      <2>2. ASSUME NEW s \in Fragmented, s < wp.ack_base PROVE assembled[s] = Written(s)
            <3>1. s \in SN
                  BY SettingFacts DEF IInv, TypeInv
            <3>2. s \in Known(wp)
                  BY <3>1, <2>2 DEF Known, should_ignore_change
            <3> QED  BY <3>2 DEF IInv, AssembledInv
      <2> QED  BY <2>1, <2>2, Zenon DEF AckedIsComplete, Written
<1> QED  BY InvariantHolds, <1>1, PTL

=============================================================================
