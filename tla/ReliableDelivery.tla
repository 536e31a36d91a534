------------------------- MODULE ReliableDelivery -------------------------
(***************************************************************************)
(* What a reliable DataReader promises about one Writer, without saying    *)
(* how: samples are handed over in the order of their numbers, each at     *)
(* most once, and a number is passed over only after it was given up.      *)
(* DataReading implements it.                                              *)
(***************************************************************************)
EXTENDS Integers

CONSTANT Numbers       \* the sequence numbers, a set of numbers from 1 on

VARIABLES
    last,     \* the newest number handed over, 0 at first
    given,    \* all numbers handed over
    lost      \* numbers that need not be handed over any more

vars == <<last, given, lost>>

Init == last = 0 /\ given = {} /\ lost \in SUBSET Numbers

\* Numbers are given up: removed by the Writer or dropped at a limit.
GiveUp ==
    /\ lost' \in SUBSET Numbers
    /\ lost \subseteq lost'
    /\ UNCHANGED <<last, given>>

Deliver(s) ==
    /\ s > last
    /\ \A t \in Numbers : last < t /\ t < s => t \in lost
    /\ last' = s
    /\ given' = given \cup {s}
    /\ UNCHANGED lost

Next == GiveUp \/ \E s \in Numbers : Deliver(s)

Spec == Init /\ [][Next]_vars

===========================================================================
