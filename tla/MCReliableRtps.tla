--------------------------- MODULE MCReliableRtps ---------------------------
(***************************************************************************)
(* Small instances of ReliableRtps.                                        *)
(***************************************************************************)
EXTENDS ReliableRtps

CONSTANTS r1, r2    \* model values for the Readers

=============================================================================
