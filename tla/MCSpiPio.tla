------------------------------- MODULE MCSpiPio -------------------------------
(***************************************************************************)
(* Buffers of up to six bytes: the length of three, which write_buffer    *)
(* takes for a header unless it keeps one already, and more than a FIFO    *)
(* holds.  Accesses follow each other without a bound.                     *)
(***************************************************************************)
EXTENDS SpiPioProps
=============================================================================
