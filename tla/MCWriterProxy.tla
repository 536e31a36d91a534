--------------------------- MODULE MCWriterProxy ---------------------------
(***************************************************************************)
(* One writer proxy over the numbers 1 .. MaxSN, against any remote Writer.*)
(***************************************************************************)
EXTENDS WriterProxyTracking
=============================================================================
