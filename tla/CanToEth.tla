------------------------------- MODULE CanToEth -------------------------------
(***************************************************************************)
(* The bridge: process_tcp_server and process_tcp_client (can_to_eth.c),   *)
(* called by the main loop, between the TCP socket of the W5500 and the    *)
(* CAN driver.  Frames come through the ring of received frames (RxRing,   *)
(* whose variables and steps are part of this module); commands of the     *)
(* peer are read by send_can_msg (CanParser) and handed to                 *)
(* can2040_transmit.                                                       *)
(*                                                                         *)
(* The chip and the peer act at any time.  Between two of their steps the  *)
(* main loop makes one call of the socket library or one access to the     *)
(* ring; where it stands inside a call is kept in at and in the pc of      *)
(* RxRing.                                                                 *)
(***************************************************************************)
EXTENDS CanParser

CONSTANTS
  N, Ids, FilterSpec, FilterId, FilterMask, Frames, Connections,  (* RxRing *)
  Segments,   (* what the peer may send in one piece: sequences of         *)
              (* characters                                                *)
  RxSize,     (* characters the chip holds unread, 2 KB in the code        *)
  BufSize,    (* DATA_BUF_MAX_SIZE cells of g_rx_buf, 2048 in the code     *)
  Behind      (* what may lie in memory behind g_rx_buf, up to a NUL       *)

VARIABLES
  rx_flag, push_idx, pop_idx, msg_buf, can_filter, pc, wiped, opened, heard, out,
  working_mode,  (* connection_config.working_mode as loaded at boot:      *)
                 (* set_devinfo.cgi restarts the device when it changed it *)
  sr,            (* getSn_SR: the state of the socket                      *)
  rx,            (* received by the chip and not yet read                  *)
  g_rx_buf,      (* the buffer of recv                                     *)
  at,            (* where a call stands: "loop", "answer", "ask", "send"   *)
  tx_msg,        (* last handed to can2040_transmit                        *)
  got,           (* frames sent to the peer of this connection             *)
  mark, upto     (* frames heard when the last reset began and ended       *)

Ring == INSTANCE RxRing
RV == <<rx_flag, push_idx, pop_idx, msg_buf, can_filter, pc, wiped, opened, heard, out>>
command == <<g_rx_buf, tx_msg>>
history == <<got, mark, upto>>
vars == <<RV, working_mode, sr, rx, command, at, history>>

ASSUME CanToEthAssumption ==
  /\ Ring!RxRingAssumption
  /\ RxSize \in Nat /\ BufSize \in Nat \ {0}
  /\ \A s \in Segments : Len(s) <= RxSize
  /\ Behind # {} /\ \A s \in Behind : Len(s) \in Nat

Modes == {"ETH_TCP_SERVER", "ETH_TCP_CLIENT"}
Connected == {"SOCK_ESTABLISHED", "SOCK_CLOSE_WAIT"}
NoMsg == [id |-> <<>>, dlc |-> 0, data |-> <<>>]

Init ==
  /\ Ring!Init
  /\ working_mode \in Modes
  /\ sr = "SOCK_CLOSED" /\ rx = <<>>
  /\ g_rx_buf = [p \in 0..(BufSize - 1) |-> NUL]
  /\ at = "loop" /\ tx_msg = NoMsg
  /\ got = <<>> /\ mark = 0 /\ upto = 0
-----------------------------------------------------------------------------
(* The peer, the chip and the CAN bus.                                     *)

PeerConnect ==
  /\ sr = "SOCK_LISTEN"
  /\ sr' = "SOCK_ESTABLISHED"
  /\ UNCHANGED <<RV, working_mode, rx, command, at, history>>

PeerSend(s) ==
  /\ sr = "SOCK_ESTABLISHED" /\ Len(rx) + Len(s) <= RxSize
  /\ rx' = rx \o s
  /\ UNCHANGED <<RV, working_mode, sr, command, at, history>>

PeerClose ==
  /\ sr = "SOCK_ESTABLISHED"
  /\ sr' = "SOCK_CLOSE_WAIT"
  /\ UNCHANGED <<RV, working_mode, rx, command, at, history>>

(* A reset by the peer, or a timeout of the chip.                          *)
PeerReset ==
  /\ sr \in Connected
  /\ sr' = "SOCK_CLOSED" /\ rx' = <<>>
  /\ UNCHANGED <<RV, working_mode, command, at, history>>

Interrupt ==
  /\ \E id \in Ids, ext \in BOOLEAN : Ring!can2040_cb(id, ext)
  /\ UNCHANGED <<working_mode, sr, rx, command, at, history>>

-----------------------------------------------------------------------------
(* The main loop up to and after a connection.                             *)

Start ==
  /\ Ring!set_can_filter
  /\ UNCHANGED <<working_mode, sr, rx, command, at, history>>

(* SOCK_CLOSED: socket() opens the socket or fails.  A connection that the *)
(* chip has ended is left here.                                            *)
SocketClosed ==
  /\ at = "loop" /\ sr = "SOCK_CLOSED"
  /\ sr' \in {"SOCK_INIT", "SOCK_CLOSED"}
  /\ \/ Ring!Disconnect
     \/ pc = "closed" /\ UNCHANGED RV
  /\ UNCHANGED <<working_mode, rx, command, at, history>>

(* SOCK_INIT: listen() or connect() succeeded, and the reset of the ring   *)
(* begins.                                                                 *)

(* Mutant: the reset leaves push_idx where it is.                          *)
SocketInit_forgotten ==
  /\ at = "loop" /\ sr = "SOCK_INIT"
  /\ sr' = IF working_mode = "ETH_TCP_SERVER" THEN "SOCK_LISTEN" ELSE "SOCK_ESTABLISHED"
  /\ pc = "closed" /\ opened < Connections
  /\ opened' = opened + 1 /\ pc' = "pop_idx"
  /\ mark' = heard /\ upto' = heard /\ got' = <<>>
  /\ UNCHANGED <<rx_flag, push_idx, pop_idx, msg_buf, can_filter, wiped, heard, out,
                 working_mode, rx, command, at>>

(* Mutant: the ring is reset for the first connection only.                *)
SocketInit_once ==
  /\ at = "loop" /\ sr = "SOCK_INIT"
  /\ sr' = IF working_mode = "ETH_TCP_SERVER" THEN "SOCK_LISTEN" ELSE "SOCK_ESTABLISHED"
  /\ \/ opened = 0 /\ Ring!ResetPushIdx
     \/ /\ pc = "closed" /\ opened \in 1..(Connections - 1)
        /\ opened' = opened + 1 /\ pc' = "open"
        /\ UNCHANGED <<rx_flag, push_idx, pop_idx, msg_buf, can_filter, wiped, heard, out>>
  /\ mark' = heard /\ upto' = heard /\ got' = <<>>
  /\ UNCHANGED <<working_mode, rx, command, at>>

SocketInit ==
  /\ at = "loop" /\ sr = "SOCK_INIT"
  /\ sr' = IF working_mode = "ETH_TCP_SERVER" THEN "SOCK_LISTEN" ELSE "SOCK_ESTABLISHED"
  /\ Ring!ResetPushIdx
  /\ mark' = heard /\ upto' = heard /\ got' = <<>>
  /\ UNCHANGED <<working_mode, rx, command, at>>

(* ... or failed: the call returns and nothing is reset.                   *)
SocketInitFails ==
  /\ at = "loop" /\ sr = "SOCK_INIT" /\ pc = "closed"
  /\ sr' = "SOCK_CLOSED"
  /\ UNCHANGED <<RV, working_mode, rx, command, at, history>>

Reset ==
  /\ \/ (Ring!ResetPopIdx \/ Ring!Memset) /\ UNCHANGED upto
     \/ Ring!SetRxFlag /\ upto' = heard
  /\ UNCHANGED <<working_mode, sr, rx, command, at, got, mark>>

(* SOCK_CLOSE_WAIT: disconnect(), whatever the chip still holds.           *)
SocketCloseWait ==
  /\ at = "loop" /\ sr = "SOCK_CLOSE_WAIT"
  /\ Ring!Disconnect
  /\ sr' = "SOCK_CLOSED" /\ rx' = <<>>
  /\ UNCHANGED <<working_mode, command, at, history>>
-----------------------------------------------------------------------------
(* SOCK_ESTABLISHED.                                                       *)

(* What recv leaves in the buffer: what the chip holds and the buffer can  *)
(* take, then what was there before, without a NUL between the two.        *)
Received(s, buf) == [p \in DOMAIN buf |-> IF p < Len(s) THEN s[p + 1] ELSE buf[p]]

(* The parser is not told where the buffer ends: without a NUL in it, or   *)
(* with its only one behind a delimiter, it reads on in the memory behind. *)
InMemory(buf, behind) ==
  [p \in 0..(BufSize + Len(behind) + 1) |->
     CASE p < BufSize -> buf[p]
       [] p \in BufSize..(BufSize + Len(behind) - 1) -> behind[p - BufSize + 1]
       [] OTHER -> NUL]

(* recv and send_can_msg.  A command that is accepted ends the call, the   *)
(* ring is not looked at; whether can2040_transmit had room is ignored.    *)
CommandReady == at = "loop" /\ pc = "open" /\ sr = "SOCK_ESTABLISHED" /\ rx # <<>>

Recv ==
  /\ CommandReady
  /\ rx' = SubSeq(rx, BufSize + 1, Len(rx))
  /\ \E r \in {parse_can_msg(InMemory(Received(rx, g_rx_buf), b)) : b \in Behind} :
       /\ g_rx_buf' = [p \in DOMAIN g_rx_buf |-> r.buf[p]]
       /\ tx_msg' = IF r.ret = 0 THEN r.msg ELSE tx_msg
       /\ at' = IF r.ret = 0 THEN "loop" ELSE "answer"
  /\ UNCHANGED <<RV, working_mode, sr, history>>

(* send() takes the text, or reports SOCK_BUSY while the chip still sends, *)
(* which is not negative and passes for success; or it fails, and the      *)
(* socket is closed.                                                       *)
SendReturns == sr \in Connected /\ UNCHANGED <<RV, sr, rx>>

SendFails ==
  /\ Ring!Disconnect
  /\ sr' = "SOCK_CLOSED" /\ rx' = <<>>

(* The error text; then the ring is asked in the same call.                *)
Answer ==
  /\ at = "answer"
  /\ \/ SendReturns /\ at' = "ask"
     \/ SendFails /\ at' = "loop"
  /\ UNCHANGED <<working_mode, command, history>>

Asking ==
  \/ at = "ask"
  \/ at = "loop" /\ sr = "SOCK_ESTABLISHED" /\ rx = <<>>

(* Mutant: the ring is asked only after a wrong command.                   *)
PopTest_answered ==
  /\ at = "ask" /\ Ring!PopTest
  /\ at' = "send"
  /\ UNCHANGED <<working_mode, sr, rx, command, history>>

(* pop_rbuf: the test ...                                                  *)
PopTest ==
  /\ Asking /\ Ring!PopTest
  /\ at' = "send"
  /\ UNCHANGED <<working_mode, sr, rx, command, history>>

PopEmpty ==
  /\ at = "ask" /\ pop_idx = push_idx
  /\ at' = "loop"
  /\ UNCHANGED <<RV, working_mode, sr, rx, command, history>>

(* ... and the copy.                                                       *)
Pop ==
  /\ Ring!pop_rbuf
  /\ UNCHANGED <<working_mode, sr, rx, command, at, history>>

(* The frame as text.  SOCK_BUSY loses it.                                 *)
SendFrame ==
  /\ at = "send" /\ pc = "open"
  /\ \/ SendReturns /\ got' \in {got, Append(got, out[Len(out)])}
     \/ SendFails /\ got' = got
  /\ at' = "loop"
  /\ UNCHANGED <<working_mode, command, mark, upto>>
-----------------------------------------------------------------------------
Loop ==
  \/ Start \/ SocketClosed \/ SocketInit \/ SocketInitFails \/ Reset \/ SocketCloseWait
  \/ Answer \/ PopTest \/ PopEmpty \/ Pop \/ SendFrame

Outside ==
  \/ PeerConnect \/ PeerClose \/ PeerReset \/ Interrupt
  \/ \E s \in Segments : PeerSend(s)

Next == Recv \/ Loop \/ Outside

Spec == Init /\ [][Next]_vars

(* main runs forever: whenever the loop has a step to make, it makes one.  *)
(* The second part is WF_vars(Recv), with ENABLED written out.             *)
FairSpec ==
  /\ Spec
  /\ WF_vars(Loop)
  /\ []<>~CommandReady \/ []<><<Recv>>_vars
=============================================================================
