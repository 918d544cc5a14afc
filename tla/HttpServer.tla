----------------------------- MODULE HttpServer -----------------------------
(***************************************************************************)
(* The web server of httpServer.c: httpServer_run, which the main loop     *)
(* calls for one socket after the other, with the handler of a request and *)
(* the parts of a page, over the TCP sockets of the W5x00 chip, and its    *)
(* use of ConfigStore by set_devinfo.cgi, which ends in a reboot.          *)
(*                                                                         *)
(* The clients, the chip and the supply are the environment.  A call of    *)
(* httpServer_run is one step, except where it waits: for the transmit     *)
(* buffer to drain and for the flash.                                      *)
(***************************************************************************)
EXTENDS ConfigStore, Sequences

CONSTANTS
  Sockets,          (* HTTP_SOCKET_MAX_NUM sockets, served in turn         *)
  DATA_BUF_SIZE,
  Pages,            (* names of the registered pages                       *)
  content_len,      (* their lengths                                       *)
  Connections       (* bound: connections clients open                     *)

ASSUME HttpAssumption ==
  /\ Sockets \in Nat \ {0}
  /\ DATA_BUF_SIZE \in Nat /\ DATA_BUF_SIZE > 1
  /\ content_len \in [Pages -> Nat]
  /\ Connections \in Nat

VARIABLES
  sock,     (* the sockets of the chip                                     *)
  http,     (* HTTPSock_Status                                             *)
  main,     (* the main loop: where it is, the socket it serves, and       *)
            (* whether set_devinfo has set something                       *)
  opened,   (* connections so far                                          *)
  answered  (* the configuration that the last answer said was saved       *)

vars == <<dev_config, flash, store, power, sock, http, main, opened, answered>>

Seqnums == 0..(Sockets - 1)

(* What a client may ask, as parse_http_request and find_http_uri_type     *)
(* tell requests apart; GET and HEAD are treated alike.                    *)
Nothing == [method |-> "none"]
Requests ==
  {[method |-> "ERR"], [method |-> "GET_CGI"], [method |-> "POST_OTHER"]}
    \cup [method : {"GET"}, uri : Pages \cup {"unknown"}]
    \cup [method : {"SET"}, param : Changes]

(* A socket: its status register, the request in its receive buffer,       *)
(* whether its transmit buffer holds something that is not acknowledged,   *)
(* and, of the current connection, the request that was served, what was   *)
(* handed to send(), and which of these calls, counted from 1, came back   *)
(* with SOCK_BUSY: the client never gets their data.                       *)
Closed == [SR |-> "CLOSED", rx |-> Nothing, tx |-> FALSE,
           asked |-> Nothing, sent |-> <<>>, busy |-> {}]

(* file_start names the page.  storage_type is not kept: it is CODEFLASH   *)
(* whenever a body is sent.                                                *)
NoFile == ""
Reset == [sock_status |-> "IDLE", file_start |-> NoFile, file_len |-> 0, file_offset |-> 0]

AtBoot == [pc |-> "boot", seqnum |-> 0, val |-> FALSE]

Init ==
  /\ InitConfig
  /\ sock = [s \in Seqnums |-> Closed]
  /\ http = [s \in Seqnums |-> Reset]
  /\ main = AtBoot
  /\ opened = 0
  /\ answered = {}

-----------------------------------------------------------------------------
(* Answers.  A world w = [h, k] is the state of the server for one socket  *)
(* and the socket itself.                                                  *)

(* The chip takes the data, or refuses it while it still sends the last    *)
(* (~free): the server looks at no result of send().                       *)
send(k, what, free) ==
  IF k.SR \in {"ESTABLISHED", "CLOSE_WAIT"}
  THEN [k EXCEPT !.sent = Append(@, what), !.tx = TRUE,
                 !.busy = IF k.tx /\ ~free THEN @ \cup {Len(k.sent) + 1} ELSE @]
  ELSE k

Status(text) == [status |-> text]
Part(page, from, len) == [page |-> page, from |-> from, len |-> len]

(* The text of a part is closed by a zero byte in the same buffer.         *)
PartMax == DATA_BUF_SIZE - 1

(* The first part (file_len is 0) of page, or the next one of the file in  *)
(* progress.  A file of one part leaves its length as its offset, and a    *)
(* part that was refused counts as sent.                                   *)
send_http_response_body(w, page, len, free) ==
  LET first == w.h.file_len = 0
      file == IF first /\ len > PartMax
              THEN [w.h EXCEPT !.file_start = page, !.file_len = len]
              ELSE w.h
      rest == IF first THEN len ELSE file.file_len - file.file_offset
      n == IF rest > PartMax THEN PartMax ELSE rest
      shown == IF file.file_len > 0 THEN file.file_start ELSE page
  IN [h |-> IF n = 0 \/ (~first /\ rest <= PartMax)
            THEN [file EXCEPT !.file_start = NoFile, !.file_len = 0, !.file_offset = 0]
            ELSE [file EXCEPT !.file_offset = @ + n],
      k |-> IF n = 0 THEN w.k ELSE send(w.k, Part(shown, file.file_offset, n), free)]

(* Every request but set_devinfo.cgi.                                      *)
http_process_handler(w, req, free) ==
  CASE req.method = "ERR"        -> [w EXCEPT !.k = send(@, Status("400"), free)]
    [] req.method = "POST_OTHER" -> [w EXCEPT !.k = send(@, Status("404"), free)]
    [] req.method = "GET_CGI"    -> [w EXCEPT !.k = send(@, Status("cgi"), free)]
    [] req.method = "GET" ->
         IF req.uri \in Pages
         THEN send_http_response_body([w EXCEPT !.k = send(@, Status("200"), free)],
                                      req.uri, content_len[req.uri], free)
         ELSE [w EXCEPT !.k = send(@, Status("404"), free)]

-----------------------------------------------------------------------------
(* The main loop.  Serving(s): httpServer_run(s) has been called.          *)

Serving(s) == main.pc = "run" /\ main.seqnum = s

(* Mutant: the loop over the sockets runs one too far.                     *)
Done_long == main' = [main EXCEPT !.pc = "run", !.seqnum = (@ + 1) % (Sockets + 1)]

Done == main' = [main EXCEPT !.pc = "run", !.seqnum = (@ + 1) % Sockets]

Boot ==
  /\ main.pc = "boot" /\ load_DevConfig_from_storage
  /\ main' = [main EXCEPT !.pc = "saved"]
  /\ UNCHANGED <<sock, http, opened, answered>>

StartServer ==
  /\ main.pc = "saved" /\ store = "ready"
  /\ main' = [main EXCEPT !.pc = "run"]
  /\ UNCHANGED <<cvars, sock, http, opened, answered>>

FlashStep ==
  /\ Erase \/ Program
  /\ UNCHANGED <<sock, http, main, opened, answered>>

(* SOCK_ESTABLISHED, STATE_HTTP_IDLE: recv and http_process_handler ...    *)
RunIdle(s) ==
  \E free \in BOOLEAN :
  LET req == sock[s].rx
      w == http_process_handler(
             [h |-> http[s], k |-> [sock[s] EXCEPT !.rx = Nothing, !.asked = req]], req, free)
  IN /\ Serving(s) /\ sock[s].SR = "ESTABLISHED" /\ http[s].sock_status = "IDLE"
     /\ req.method \notin {"none", "SET"}
     /\ http' = [http EXCEPT ![s] = w.h]
     /\ sock' = [sock EXCEPT ![s] = w.k]
     /\ main' = [main EXCEPT !.pc = "drain"]
     /\ UNCHANGED <<cvars, opened, answered>>

(* Mutant: the answer is not waited for.                                   *)
RunDrained_early(s) ==
  /\ main.pc = "drain" /\ main.seqnum = s
  /\ http' = [http EXCEPT ![s].sock_status =
                IF http[s].file_len > 0 THEN "RES_INPROC" ELSE "RES_DONE"]
  /\ Done
  /\ UNCHANGED <<cvars, sock, opened, answered>>

(* ... until the transmit buffer is empty: httpServer_tick_1s stands still *)
(* and the wait has no timeout.                                            *)
RunDrained(s) ==
  /\ main.pc = "drain" /\ main.seqnum = s /\ ~sock[s].tx
  /\ http' = [http EXCEPT ![s].sock_status =
                IF http[s].file_len > 0 THEN "RES_INPROC" ELSE "RES_DONE"]
  /\ Done
  /\ UNCHANGED <<cvars, sock, opened, answered>>

RunSet(s) ==
  LET req == sock[s].rx
  IN /\ Serving(s) /\ sock[s].SR = "ESTABLISHED" /\ http[s].sock_status = "IDLE"
     /\ req.method = "SET"
     /\ sock' = [sock EXCEPT ![s].rx = Nothing, ![s].asked = req]
     /\ dev_config' = set_devinfo(dev_config, req.param)
     /\ main' = [main EXCEPT !.pc = "set", !.val = DOMAIN req.param # {}]
     /\ IF DOMAIN req.param = {}
        THEN UNCHANGED <<store, answered>>
        ELSE store' = "erase" /\ answered' = {}
     /\ UNCHANGED <<flash, power, http, opened>>

(* Mutant: the answer does not wait for the flash.                         *)
RunSetAnswer_early(s) ==
  /\ main.pc = "set" /\ main.seqnum = s
  /\ \E free \in BOOLEAN : sock' = [sock EXCEPT ![s] = send(@, Status("cgi"), free)]
  /\ answered' = IF main.val THEN {dev_config} ELSE answered
  /\ main' = [main EXCEPT !.pc = "reset"]
  /\ UNCHANGED <<cvars, http, opened>>

(* send_http_response_cgi with the result of set_devinfo, after the save.  *)
RunSetAnswer(s) ==
  /\ main.pc = "set" /\ main.seqnum = s /\ store = "ready"
  /\ \E free \in BOOLEAN : sock' = [sock EXCEPT ![s] = send(@, Status("cgi"), free)]
  /\ answered' = IF main.val THEN {dev_config} ELSE answered
  /\ main' = [main EXCEPT !.pc = "reset"]
  /\ UNCHANGED <<cvars, http, opened>>

(* The chip, the RAM and the sockets are reset.                            *)
Restart ==
  /\ sock' = [s \in Seqnums |-> Closed]
  /\ http' = [s \in Seqnums |-> Reset]
  /\ main' = AtBoot
  /\ UNCHANGED opened

(* HTTP_RESET: 100 ms later, HTTPServer_ReStart.                           *)
RunReset ==
  /\ main.pc = "reset"
  /\ dev_config' = Uniform(0)
  /\ store' = "off"
  /\ Restart
  /\ UNCHANGED <<flash, power, answered>>

(* Nothing waits for the part before.                                      *)
RunResInproc(s) ==
  \E free \in BOOLEAN :
  LET w == send_http_response_body([h |-> http[s], k |-> sock[s]], NoFile, 0, free)
  IN /\ Serving(s) /\ sock[s].SR = "ESTABLISHED" /\ http[s].sock_status = "RES_INPROC"
     /\ http' = [http EXCEPT ![s] =
                   IF w.h.file_len = 0 THEN [w.h EXCEPT !.sock_status = "RES_DONE"] ELSE w.h]
     /\ sock' = [sock EXCEPT ![s] = w.k]
     /\ Done
     /\ UNCHANGED <<cvars, opened, answered>>

(* Mutant: the offset of the last page stays.                              *)
RunResDone_keep(s) ==
  /\ Serving(s) /\ sock[s].SR = "ESTABLISHED" /\ http[s].sock_status = "RES_DONE"
  /\ http' = [http EXCEPT ![s].sock_status = "IDLE"]
  /\ sock' = [sock EXCEPT ![s].SR = "FIN_WAIT"]
  /\ Done
  /\ UNCHANGED <<cvars, opened, answered>>

(* Mutant: the connection is left to the client.                           *)
RunResDone_open(s) ==
  /\ Serving(s) /\ sock[s].SR = "ESTABLISHED" /\ http[s].sock_status = "RES_DONE"
  /\ http' = [http EXCEPT ![s] = Reset]
  /\ Done
  /\ UNCHANGED <<cvars, sock, opened, answered>>

(* http_disconnect does not wait for the other side.                       *)
RunResDone(s) ==
  /\ Serving(s) /\ sock[s].SR = "ESTABLISHED" /\ http[s].sock_status = "RES_DONE"
  /\ http' = [http EXCEPT ![s] = Reset]
  /\ sock' = [sock EXCEPT ![s].SR = "FIN_WAIT"]
  /\ Done
  /\ UNCHANGED <<cvars, opened, answered>>

(* SOCK_CLOSE_WAIT: disconnect; the state of the page stays.               *)
RunCloseWait(s) ==
  /\ Serving(s) /\ sock[s].SR = "CLOSE_WAIT"
  /\ sock' = [sock EXCEPT ![s] = Closed]
  /\ Done
  /\ UNCHANGED <<cvars, http, opened, answered>>

(* SOCK_CLOSED: socket.  SOCK_INIT: listen.                                *)
RunOpen(s) ==
  /\ Serving(s) /\ sock[s].SR \in {"CLOSED", "INIT"}
  /\ sock' = [sock EXCEPT ![s].SR = IF @ = "CLOSED" THEN "INIT" ELSE "LISTEN"]
  /\ Done
  /\ UNCHANGED <<cvars, http, opened, answered>>

RunNothing(s) ==
  /\ Serving(s)
  /\ \/ sock[s].SR \in {"LISTEN", "FIN_WAIT"}
     \/ sock[s].SR = "ESTABLISHED" /\ http[s].sock_status = "IDLE" /\ sock[s].rx = Nothing
  /\ Done
  /\ UNCHANGED <<cvars, sock, http, opened, answered>>

Run(s) ==
  \/ RunIdle(s) \/ RunDrained(s) \/ RunSet(s) \/ RunSetAnswer(s)
  \/ RunResInproc(s) \/ RunResDone(s) \/ RunCloseWait(s) \/ RunOpen(s) \/ RunNothing(s)

Main == Boot \/ StartServer \/ FlashStep \/ RunReset \/ \E s \in Seqnums : Run(s)

-----------------------------------------------------------------------------
(* The environment.                                                        *)

Connect(s) ==
  /\ sock[s].SR = "LISTEN" /\ opened < Connections
  /\ opened' = opened + 1
  /\ sock' = [sock EXCEPT ![s].SR = "ESTABLISHED"]
  /\ UNCHANGED <<cvars, http, main, answered>>

(* A client asks once: the server reads no second request of a connection, *)
(* it hangs up after the first.                                            *)
Ask(s, req) ==
  /\ sock[s].SR = "ESTABLISHED" /\ sock[s].rx = Nothing /\ sock[s].asked = Nothing
  /\ sock' = [sock EXCEPT ![s].rx = req]
  /\ UNCHANGED <<cvars, http, main, opened, answered>>

(* The client has acknowledged everything.                                 *)
Acknowledge(s) ==
  /\ sock[s].tx
  /\ sock' = [sock EXCEPT ![s].tx = FALSE]
  /\ UNCHANGED <<cvars, http, main, opened, answered>>

Finish(s) ==
  /\ sock[s].SR = "ESTABLISHED"
  /\ sock' = [sock EXCEPT ![s].SR = "CLOSE_WAIT"]
  /\ UNCHANGED <<cvars, http, main, opened, answered>>

(* The other side's FIN, a reset, or the end of the retransmissions.       *)
Gone(s) ==
  /\ sock[s].SR \in {"ESTABLISHED", "CLOSE_WAIT", "FIN_WAIT"}
  /\ sock' = [sock EXCEPT ![s] = Closed]
  /\ UNCHANGED <<cvars, http, main, opened, answered>>

PowerFail ==
  /\ \E left \in FlashAfterPowerFail : LosePower(left)
  /\ Restart
  /\ UNCHANGED answered

Environment ==
  \/ \E s \in Seqnums :
       \/ Connect(s) \/ Acknowledge(s) \/ Finish(s) \/ Gone(s)
       \/ \E req \in Requests : Ask(s, req)
  \/ PowerFail

Next == Main \/ Environment

Spec == Init /\ [][Next]_vars

(* The main loop runs on; whoever was sent something acknowledges it or is *)
(* given up by the chip.                                                   *)
Fairness == WF_vars(Main) /\ \A s \in Seqnums : WF_vars(Acknowledge(s))
FairSpec == Spec /\ Fairness
=============================================================================
