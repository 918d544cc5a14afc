------------------------------ MODULE MCRxRing ------------------------------
(***************************************************************************)
(* A small instance of the ring: 11-bit ids 0x200 (bit 9) and 0x100 (bit   *)
(* 8), and the filter of the README's example, id 0x200, mask 0x7F0.       *)
(***************************************************************************)
EXTENDS RxRingProps, TLC

BusIds == {{9}, {8}}
OnlyBit9 == {9}
UpperBits == 4..10
=============================================================================
