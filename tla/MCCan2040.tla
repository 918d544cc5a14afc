----------------------------- MODULE MCCan2040 -----------------------------
(***************************************************************************)
(* Small instances of the CAN driver for TLC: two messages of this node    *)
(* and, from other nodes, one that wins every arbitration and one that     *)
(* wrongly shares an id with this node.                                    *)
(***************************************************************************)
EXTENDS Can2040Props, TLC

First == [id |-> 2, data |-> 1]
Second == [id |-> 3, data |-> 1]
Clash == [id |-> 2, data |-> 2]
Urgent == [id |-> 1, data |-> 1]

AllMsgs == {First, Second, Clash, Urgent}
OwnMsgs == {First, Second}
OneMsg == {First}
OtherMsgs == {Clash, Urgent}
UrgentMsg == {Urgent}
ClashMsg == {Clash}
=============================================================================
