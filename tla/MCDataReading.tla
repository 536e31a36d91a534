--------------------------- MODULE MCDataReading ---------------------------
(***************************************************************************)
(* Small instances of DataReading.                                         *)
(***************************************************************************)
EXTENDS DataReading

Value   == [kind |-> "value", key |-> 1]
Other   == [kind |-> "value", key |-> 2]
Dispose == [kind |-> "dispose", key |-> 1]
Hash    == [kind |-> "hash", key |-> 1]
Bad     == [kind |-> "bad", key |-> 1]
Empty   == [kind |-> "empty", key |-> 1]

Poll       == [op |-> "poll", not_read |-> TRUE, max |-> 1, by |-> "all", key |-> 1]
SimplePoll == [Poll EXCEPT !.op = "simple"]
ReadNext   == [Poll EXCEPT !.op = "read"]
TakeAll    == [Poll EXCEPT !.op = "take", !.not_read = FALSE, !.max = 3]
TakeFirst  == [TakeAll EXCEPT !.by = "smallest"]
ReadOne    == [Poll EXCEPT !.op = "read", !.by = "this"]
TakeAfter  == [TakeAll EXCEPT !.by = "next"]

\* A reliable stream that joins late, with a default history of one.
LateStream ==
    [reliable |-> TRUE, volatile |-> TRUE, no_key |-> FALSE, simple |-> FALSE,
     depth |-> 1, max_samples |-> 2, payloads |-> {Value}, calls |-> {Poll},
     samples |-> 3, losses |-> 0]

\* A Writer is lost and found, and sends its history again.
Rematch == [LateStream EXCEPT !.volatile = FALSE, !.depth = 0, !.max_samples = 1,
                              !.calls = {ReadNext, TakeAll}, !.samples = 2, !.losses = 1]

\* Values, disposals and what cannot be decoded, in a stream without a cache.
Undecodable == [LateStream EXCEPT !.simple = TRUE, !.calls = {SimplePoll},
                                  !.payloads = {Value, Hash, Bad, Empty}, !.samples = 2]

\* Two instances, accessed by key.
Instances == [LateStream EXCEPT !.volatile = FALSE, !.depth = 2,
                                !.payloads = {Other, Value, Dispose},
                                !.calls = {TakeFirst, ReadOne, TakeAfter}, !.samples = 2]

\* A best-effort reader of a topic without keys.
BestEffort == [LateStream EXCEPT !.reliable = FALSE, !.no_key = TRUE, !.losses = 1,
                                 !.payloads = {Value, Dispose}, !.samples = 2]

SomeSituations == {LateStream, Rematch, Undecodable, Instances, BestEffort}

=============================================================================
