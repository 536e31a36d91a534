--------------------------- MODULE Fragmentation ---------------------------
(***************************************************************************)
(* How a sample too large for one DATA is cut into DATAFRAGs and put       *)
(* together again: rtps/message.rs, messages/submessages/data_frag.rs,     *)
(* rtps/fragment_assembler.rs and the payload they slice.                  *)
(*                                                                         *)
(* A payload is a header of H_LEN bytes and a value, a byte is a number.   *)
(* Something that may be absent is a set of at most one element.           *)
(***************************************************************************)
EXTENDS Integers, Sequences

H_LEN == 4

Lesser(a, b) == IF a < b THEN a ELSE b

len_serialized(payload) == H_LEN + Len(payload.value)

\* Bytes from (counted from 0) up to but not including to_before, of header
\* and value together.
bytes_slice(payload, from, to_before) ==
    LET to    == Lesser(to_before, len_serialized(payload))
        start == Lesser(from, to)
    IN  IF start >= H_LEN
        THEN SubSeq(payload.value, start - H_LEN + 1, to - H_LEN)
        ELSE SubSeq(payload.header \o SubSeq(payload.value, 1, to - H_LEN),
                    start + 1, to)

\* SerializedPayload::from_bytes: too few bytes are no payload.
from_bytes(bytes) ==
    IF Len(bytes) < H_LEN THEN {}
    ELSE {[header |-> SubSeq(bytes, 1, H_LEN),
           value  |-> SubSeq(bytes, H_LEN + 1, Len(bytes))]}

num_frags(data_size, fragment_size) ==
    data_size \div fragment_size
        + IF data_size % fragment_size # 0 THEN 1 ELSE 0

\* Fragment number num of a change.  A disposal by key hash has no payload to
\* cut and gives no submessage; one by key is told apart by the Key flag.
data_frag_msg(cc, num, fragment_size) ==
    LET sample_size == len_serialized(cc.payload)
    IN  IF cc.kind = "key_hash" THEN {}
        ELSE {[writer_sn               |-> cc.sn,
               fragment_starting_num   |-> num,
               fragments_in_submessage |-> 1,
               data_size               |-> sample_size,
               fragment_size           |-> fragment_size,
               key_flag                |-> cc.kind = "key",
               serialized_payload      |->
                   bytes_slice(cc.payload, (num - 1) * fragment_size,
                               Lesser(num * fragment_size, sample_size))]}

\* DataFrag::total_number_of_fragments, 0 standing for INVALID.
total_number_of_fragments(m) ==
    IF m.fragment_size < 1 THEN 0 ELSE num_frags(m.data_size, m.fragment_size)

\* DataFrag::deserialize discards what cannot be a fragment.
deserialize(m) ==
    {d \in {m} :
        /\ d.writer_sn >= 1
        /\ d.fragment_size \in 1 .. d.data_size
        /\ d.fragment_starting_num \in 1 .. total_number_of_fragments(d)}

NoBuffer == [buffer_bytes |-> <<>>, fragment_count |-> 0, received_bitmap |-> {}]

\* AssemblyBuffer::new: room for the whole sample, filled with zeros.
NewAssemblyBuffer(m) ==
    [buffer_bytes    |-> [i \in 1 .. m.data_size |-> 0],
     fragment_count  |-> total_number_of_fragments(m),
     received_bitmap |-> {}]

\* Copies the payload to its place, cut at the end of the buffer.  frag_size
\* is that of the first DATAFRAG the Writer ever sent.
insert_frags(buffer, m, frag_size) ==
    LET from == (m.fragment_starting_num - 1) * frag_size
        size == Lesser(m.fragments_in_submessage * frag_size,
                       Len(m.serialized_payload))
        to   == Lesser(from + size, Len(buffer.buffer_bytes))
    IN  [buffer EXCEPT
           !.buffer_bytes = [i \in DOMAIN @ |->
               IF i \in from + 1 .. to THEN m.serialized_payload[i - from]
               ELSE @[i]],
           !.received_bitmap = @ \cup
               {m.fragment_starting_num + f : f \in 0 .. m.fragments_in_submessage - 1}]

\* The buffer of the sample of m, opened if need be, once m has joined it.
with_datafrag(buffer, m, frag_size) ==
    insert_frags(IF buffer = NoBuffer THEN NewAssemblyBuffer(m) ELSE buffer,
                 m, frag_size)

is_complete(buffer) == buffer.received_bitmap = 1 .. buffer.fragment_count

\* The data that new_datafrag returns for a complete buffer; the flags are
\* those of the DATAFRAG that completed it.
assembled_data(buffer, m) ==
    {[kind |-> IF m.key_flag THEN "key" ELSE "data", payload |-> p] :
        p \in from_bytes(buffer.buffer_bytes)}

=============================================================================
