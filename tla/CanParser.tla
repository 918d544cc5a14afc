------------------------------ MODULE CanParser ------------------------------
(***************************************************************************)
(* The text commands that the bridge receives, as can_parser.c and         *)
(* can_parser.h take them apart and send_can_msg (canHandler.c) reads them *)
(* out of the receive buffer:                                              *)
(*                                                                         *)
(*    <id in hex>, [<length>] <byte in hex> <byte in hex> ...\n            *)
(*                                                                         *)
(* What the parser reads is a function from positions 0..B to characters,  *)
(* a character a string of length one, NUL the empty string; it ends with  *)
(* two NULs, behind the receive buffer if that has none (InMemory).        *)
(* A number of up to 32 bits is the sequence of its hexadecimal digits     *)
(* without leading zeros.                                                  *)
(***************************************************************************)
EXTENDS Integers, SequencesExt

NUL == ""
NULL == -1

HexChars ==
  <<"0", "1", "2", "3", "4", "5", "6", "7", "8", "9", "A", "B", "C", "D", "E", "F">>

LowerChars == SubSeq(HexChars, 1, 10) \o <<"a", "b", "c", "d", "e", "f">>

hex_char_to_int(c) ==
  LET is(n) == c \in {HexChars[n + 1], LowerChars[n + 1]}
  IN IF \E n \in 0..15 : is(n) THEN CHOOSE n \in 0..15 : is(n) ELSE -1

(* Invalid characters and more than 32 bits give zero.                     *)
string_to_hex32(s) ==
  LET value == [i \in DOMAIN s |-> hex_char_to_int(s[i])]
      first == Min({i \in DOMAIN s : value[i] # 0} \cup {Len(s) + 1})
      digits == SubSeq(value, first, Len(s))
  IN IF (\E i \in DOMAIN s : value[i] = -1) \/ Len(digits) > 8 THEN <<>> ELSE digits

(* What is left of a number in the uint8_t data[i].                        *)
Low8(n) ==
  CASE Len(n) = 0 -> 0
    [] Len(n) = 1 -> n[1]
    [] OTHER -> 16 * n[Len(n) - 1] + n[Len(n)]

(* atoi of decimal digits, which end at the first other character.         *)
atoi(s) ==
  LET value == [i \in DOMAIN s |-> hex_char_to_int(s[i])]
      end == Min({i \in DOMAIN s : value[i] \notin 0..9} \cup {Len(s) + 1})
  IN FoldLeft(LAMBDA n, d : 10 * n + d, 0, SubSeq(value, 1, end - 1))
-----------------------------------------------------------------------------
(* Where a scan from position p ends: at a delimiter or at a NUL.          *)
StopAt(buf, p, delim) ==
  LET stop(q) == buf[q] = NUL \/ buf[q] \in delim
  IN CHOOSE q \in p..(Cardinality(DOMAIN buf) - 1) : stop(q) /\ \A r \in p..(q - 1) : ~stop(r)

(* The C string that starts at p.                                          *)
CString(buf, p) == [i \in 1..(StopAt(buf, p, {}) - p) |-> buf[p + i - 1]]

(* Mutant: the end of a token is not marked in the buffer.                 *)
Cut_not(buf, q) == buf

Cut(buf, q) == [buf EXCEPT ![q] = NUL]

(* custom_strtok from position next.  A delimiter in front of the token is *)
(* cut, and the character behind it opens the token without being looked   *)
(* at, whatever it is.                                                     *)
custom_strtok(buf, next, delim) ==
  LET skip == buf[next] \in delim
      first == IF skip THEN next + 1 ELSE next
      text == IF skip THEN Cut(buf, next) ELSE buf
      end == StopAt(buf, IF skip THEN next + 2 ELSE next, delim)
  IN IF next = NULL THEN [token |-> NULL, buf |-> buf, next |-> NULL]
     ELSE IF buf[end] # NUL
     THEN [token |-> first, buf |-> Cut(text, end), next |-> end + 1]
     ELSE [token |-> IF buf[first] # NUL THEN first ELSE NULL,
           buf |-> text,
           next |-> IF buf[first] # NUL THEN NULL ELSE end]
-----------------------------------------------------------------------------
CAN_ERR_FORMAT == -1
CAN_ERR_ID_OVERFLOW == -2

Comma == {","}
Blank == {" ", "\n"}

(* The data loop: up to dlc tokens, none after the first that is missing.  *)
DataTokens(buf, next, dlc) ==
  LET read[i \in 0..dlc] ==
        IF i = 0 THEN [ended |-> FALSE, buf |-> buf, next |-> next, data |-> <<>>]
        ELSE LET r == read[i - 1]
                 t == custom_strtok(r.buf, r.next, Blank)
             IN IF r.ended THEN r
                ELSE [ended |-> t.token = NULL, buf |-> t.buf, next |-> t.next,
                      data |-> IF t.token = NULL THEN r.data
                               ELSE Append(r.data, Low8(string_to_hex32(CString(t.buf, t.token))))]
  IN read[dlc]

(* Mutant: nine bytes are let through.                                     *)
DlcFits_nine(dlc) == dlc <= 9

DlcFits(dlc) == dlc <= 8

(* An 11-bit id, or a 29-bit id with CAN2040_ID_EFF (bit 31) set.          *)
IdFits(id) ==
  \/ Len(id) < 3
  \/ Len(id) = 3 /\ id[1] <= 7
  \/ Len(id) = 8 /\ id[1] \in {8, 9}

(* send_can_msg up to can2040_transmit: its result, the buffer it leaves,  *)
(* and the message if the result is 0.                                     *)
parse_can_msg(buf) ==
  LET id == custom_strtok(buf, 0, Comma)
      len == custom_strtok(id.buf, id.next, Blank)
      dlc == atoi(Tail(CString(len.buf, len.token)))
      rest == DataTokens(len.buf, len.next, dlc)
      msg == [id |-> string_to_hex32(CString(id.buf, id.token)), dlc |-> dlc,
              data |-> [i \in 1..dlc |-> IF i <= Len(rest.data) THEN rest.data[i] ELSE 0]]
  IN CASE id.token = NULL -> [ret |-> CAN_ERR_FORMAT, buf |-> id.buf]
       [] id.token # NULL /\ (len.token = NULL \/ len.buf[len.token] # "[") ->
            [ret |-> CAN_ERR_FORMAT, buf |-> len.buf]
       [] OTHER ->
            IF ~DlcFits(dlc) THEN [ret |-> CAN_ERR_FORMAT, buf |-> len.buf]
            ELSE IF dlc = 0 THEN [ret |-> CAN_ERR_FORMAT, buf |-> rest.buf]
            ELSE IF ~IdFits(msg.id) THEN [ret |-> CAN_ERR_ID_OVERFLOW, buf |-> rest.buf]
            ELSE [ret |-> 0, buf |-> rest.buf, msg |-> msg]
=============================================================================
