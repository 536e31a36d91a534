-------------------------- MODULE MCLossyDelivery --------------------------
(***************************************************************************)
(* Small instances of LossyDelivery.                                       *)
(***************************************************************************)
EXTENDS LossyDelivery

\* Two samples of one DATA each; any of them may be lost at any time.
TwoData ==
    [written |-> 2, fragmented |-> {}, kind |-> "data",
     lost |-> 0, collected |-> 0]

\* One fragmented sample; the network loses up to n DATAFRAGs.
OneFragmented(n) ==
    [written |-> 1, fragmented |-> {1}, kind |-> "data",
     lost |-> n, collected |-> 0]

\* One fragmented disposal, and a garbage collection that drops its half-full
\* buffer.
Collected ==
    [written |-> 1, fragmented |-> {1}, kind |-> "key",
     lost |-> 0, collected |-> 1]

RepairedSettings == {TwoData, OneFragmented(2), Collected}
ThreeLosses      == {OneFragmented(3)}

=============================================================================
