---------------------------- MODULE CanToEthProps ----------------------------
(***************************************************************************)
(* What the bridge has to guarantee, over CanToEth.                        *)
(***************************************************************************)
EXTENDS CanToEth

CONSTANTS
  Commands    (* commands as a peer means them: an id as hexadecimal       *)
              (* digits without leading zeros, and one to eight bytes      *)

(* The text of a command, as the viewer of the repository sends it         *)
(* (can_id, "[dlc]", the bytes, each in two digits, and a newline).        *)
Hex(n) == HexChars[n + 1]
Written(c) ==
  (IF c.id = <<>> THEN <<"0">> ELSE [i \in DOMAIN c.id |-> Hex(c.id[i])])
    \o <<",", " ", "[", Hex(Len(c.data)), "]">>
    \o FoldLeft(LAMBDA s, b : s \o <<" ", Hex(b \div 16), Hex(b % 16)>>, <<>>, c.data)
    \o <<"\n">>

(* Every variable has its type.  Outside the reset and pop_rbuf the loop   *)
(* is where the state of the socket has sent it; what was handed to the    *)
(* driver is a frame it can send.                                          *)
TypeOK ==
  /\ working_mode \in Modes
  /\ sr \in {"SOCK_CLOSED", "SOCK_INIT", "SOCK_LISTEN"} \cup Connected
  /\ Len(rx) <= RxSize
  /\ DOMAIN g_rx_buf = 0..(BufSize - 1)
  /\ at \in {"loop", "answer", "ask", "send"}
  /\ at \in {"answer", "ask"} => pc = "open"
  /\ at = "send" => pc \in {"pop", "open"}
  /\ sr = "SOCK_INIT" => pc = "closed" /\ at = "loop"
  /\ sr \in {"SOCK_LISTEN"} \cup Connected => pc \notin {"boot", "closed"}
  /\ tx_msg # NoMsg =>
       IdFits(tx_msg.id) /\ tx_msg.dlc \in 1..8 /\ tx_msg.data \in [1..tx_msg.dlc -> 0..255]

(* The first command of what recv returned decides: whatever an older,     *)
(* longer command left in g_rx_buf, which is neither cleared nor           *)
(* terminated, whatever came in the same piece behind it, up to a buffer   *)
(* that is full, and whatever lies behind that, the command is sent with   *)
(* its id and its bytes, or refused for its id.                            *)
Meant(c) ==
  [ret |-> IF IdFits(c.id) THEN 0 ELSE CAN_ERR_ID_OVERFLOW,
   msg |-> [id |-> c.id, dlc |-> Len(c.data), data |-> c.data]]
FirstCommandDecides ==
  \A c \in Commands, more \in {<<>>} \cup {Written(d) : d \in Commands}, behind \in Behind :
     LET r == parse_can_msg(InMemory(Received(Written(c) \o more, g_rx_buf), behind))
     IN Len(Written(c)) <= BufSize =>
        /\ r.ret = Meant(c).ret
        /\ r.ret = 0 => r.msg = Meant(c).msg

(* A peer gets no frame of an earlier connection: what it is sent was on   *)
(* the bus after the ring began to be reset for it.  The server resets the *)
(* ring when it starts to listen, long before the peer connects, and the   *)
(* interrupt fills the ring at every point of the reset and after it.      *)
FramesOfThisConnection == \A k \in DOMAIN got : got[k].data # 0 => got[k].data > mark

(* A peer gets a cleared message, which was never on the bus, only for a   *)
(* frame that came while the ring was being reset.                         *)
ClearedOnlyByReset ==
  Cardinality({k \in DOMAIN got : got[k].data = 0}) <= upto - mark

(* While a peer stays, what it sends is read again and again, and once it  *)
(* pauses the frames that wait in the ring are sent: an accepted command   *)
(* returns before the ring is looked at, so a peer that never pauses gets  *)
(* no frames.                                                              *)
Served ==
  /\ <>[](sr = "SOCK_ESTABLISHED") => []<>(rx = <<>>)
  /\ <>[](sr = "SOCK_ESTABLISHED" /\ rx = <<>>) => <>[](pop_idx = push_idx)
=============================================================================
