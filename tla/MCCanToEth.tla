------------------------------ MODULE MCCanToEth ------------------------------
(***************************************************************************)
(* A small instance of the bridge.  The peer sends a command that lacks    *)
(* its newline and seven of its bytes, and a shorter one with a wrong      *)
(* length.  One of each fills the buffer, and the parser runs off its end; *)
(* behind it lies a NUL or a text.                                         *)
(***************************************************************************)
EXTENDS CanToEthProps

BusIds == {{9}, {8}}
OnlyBit9 == {9}
UpperBits == 4..10

Pieces == {<<"7", "f", ",", " ", "[", "8", "]", " ", "a", "b">>,
           <<"7", ",", " ", "[", "9", "]", " ", "B", "\n">>}
Texts == {<<>>, <<"5", " ", "6", "\n">>}

Eff(digits) == <<8, 0, 0, 0>> \o digits
SomeCommands ==
  {[id |-> <<7, 15, 15>>, data |-> <<10>>],
   [id |-> <<1>>, data |-> <<5>>],
   [id |-> <<>>, data |-> <<0, 255>>],
   [id |-> <<8, 0, 0>>, data |-> <<1>>],
   [id |-> Eff(<<0, 1, 2, 3>>), data |-> <<35>>],
   [id |-> <<10>> \o Tail(Eff(<<0, 0, 0, 0>>)), data |-> <<1>>]}

(* What the parser does depends on g_rx_buf alone, and each of its values  *)
(* is reached when a call of the first connection has just read a piece,   *)
(* before the first frame: the other states are left out.                  *)
FirstCommandDecidesUnheard == heard = 0 /\ opened = 1 /\ rx = <<>> => FirstCommandDecides
=============================================================================
