---------------------------- MODULE MCWireBits ----------------------------
(* Messages for TLC.  The frames of one byte, over all its values, use     *)
(* every entry of the crc table; the others have the longest runs, the     *)
(* most stuff bits, and all lengths of the data fields.                    *)
EXTENDS WireBitsProps

Msg(id, dlc, data) ==
  [id |-> id, dlc |-> dlc, data |-> [i \in 1..8 |-> IF i <= Len(data) THEN data[i] ELSE {}]]
Same(n, b) == [i \in 1..n |-> b]

Second == Msg({0, 2, 4, 9}, 2, <<{0, 7}, {1, 2, 3, 4, 5}>>)
Runs == Msg({EFF}, 8, Same(8, {}))
MostStuff == Msg({EFF} \cup {i \in 0..28 : (i \div 4) % 2 = 0}, 8, Same(8, {0, 1, 2, 3}))
Remote == Msg({EFF, RTR, 29, 28, 3}, 7, Same(8, {3}))
High == Msg(0..10, 15, Same(8, 0..7))
Flag29 == Msg({29, 11, 5}, 5, <<{6}, {}, 0..7, {}, {1, 5}>>)
Lengths == {Msg({1, 6}, n, [i \in 1..n |-> {i - 1, 7}]) : n \in 0..8}
OneByte == {Msg({3, 4}, 1, <<b>>) : b \in SUBSET (0..7)}

Ids == {Msg(id, 0, <<>>) : id \in SUBSET (2..8)}
Hard == {Runs, MostStuff, Remote, Flag29}

MCPairs ==
  {<<m, Second>> : m \in OneByte \cup Ids \cup Lengths \cup Hard \cup {High}}
    \cup {<<Second, m>> : m \in Hard}
MCDisturbed == {<<m, Second>> : m \in Lengths \cup Hard}
=============================================================================
