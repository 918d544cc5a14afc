--------------------------- MODULE HttpServerProps ---------------------------
(***************************************************************************)
(* What the web server and the configuration store have to guarantee, over *)
(* HttpServer.                                                             *)
(***************************************************************************)
EXTENDS HttpServer

(* Every variable has the type of the C object or register it stands for.  *)
TypeOK ==
  /\ dev_config \in DevConfigs
  /\ flash \in DevConfigs
  /\ store \in {"off", "erase", "program", "ready"}
  /\ power \in [fails : 0..PowerFails, mixed : BOOLEAN]
  /\ \A s \in Seqnums :
       /\ sock[s].SR \in {"CLOSED", "INIT", "LISTEN", "ESTABLISHED", "CLOSE_WAIT", "FIN_WAIT"}
       /\ {sock[s].rx, sock[s].asked} \subseteq Requests \cup {Nothing}
       /\ sock[s].tx \in BOOLEAN
       /\ sock[s].busy \subseteq 1..Len(sock[s].sent)
       /\ http[s] \in [sock_status : {"IDLE", "RES_INPROC", "RES_DONE"},
                       file_start : Pages \cup {NoFile}, file_len : Nat, file_offset : Nat]
  /\ main \in [pc : {"boot", "saved", "run", "drain", "set", "reset"},
               seqnum : Seqnums, val : BOOLEAN]
  /\ answered \subseteq DevConfigs

(* The page in progress of a socket survives connections that come and go  *)
(* and the traffic of the other sockets without ever being mixed with      *)
(* another one: an idle socket has none (or its next request would get the *)
(* rest of the last file), and while one is sent the offset is inside it.  *)
Draining(s) == main.pc = "drain" /\ main.seqnum = s
InProgress(h) ==
  /\ h.file_start \in Pages
  /\ h.file_len = content_len[h.file_start]
  /\ h.file_offset \in 1..(h.file_len - 1)
FileStateSound ==
  \A s \in Seqnums :
    CASE Draining(s) -> http[s].file_len > 0 => InProgress(http[s])
      [] http[s].sock_status = "IDLE" /\ ~Draining(s) -> http[s] = Reset
      [] http[s].sock_status = "RES_INPROC" /\ ~Draining(s) -> InProgress(http[s])
      [] OTHER -> http[s].file_len = 0

(* For a client that asked for a page, send() is called with a header and  *)
(* then with the parts of that page, each once and in order, none longer   *)
(* than the buffer with its closing zero, and the server hangs up only     *)
(* after the last of them.  What the chip refuses of these is lost, but    *)
(* never the header, which finds it idle, nor the second part (call 3),    *)
(* which is sent when the answer has drained: the client misses the first  *)
(* part, or one from the third on, that came too soon after the last.      *)
End(part) == part.from + part.len
PageFollows(sent, page) ==
  /\ sent[1] = Status("200")
  /\ \A i \in 2..Len(sent) :
       /\ sent[i].page = page
       /\ sent[i].from = IF i = 2 THEN 0 ELSE End(sent[i - 1])
       /\ sent[i].len \in 1..(DATA_BUF_SIZE - 1)
       /\ End(sent[i]) <= content_len[page]
PageInParts ==
  \A s \in Seqnums :
    LET k == sock[s]
    IN k.asked.method = "GET" /\ k.asked.uri \in Pages =>
         /\ PageFollows(k.sent, k.asked.uri)
         /\ k.busy \cap {1, 3} = {}
         /\ k.SR = "FIN_WAIT" /\ content_len[k.asked.uri] > 0
              => End(k.sent[Len(k.sent)]) = content_len[k.asked.uri]

(* While the main loop serves, it runs on the configuration that is stored *)
(* (a restart changes nothing), with every setting in its range; unless    *)
(* power failed inside a write and left a mixture with a plausible size.   *)
ConfigInRange(c) ==
  /\ c.size = SizeOfDevConfig
  /\ c.mode \in 0..(ETH_MODE_MAX - 1)
  /\ c.baud \in 0..(CAN_BDRATE_MAX - 1)
  /\ c.spec \in 0..(CAN_SPEC_MAX - 1)
RunsOnStoredConfig ==
  main.pc \in {"run", "drain"} =>
    flash = dev_config /\ (ConfigInRange(dev_config) \/ power.mixed)

(* What set_devinfo.cgi answered to have been set is in the flash, and     *)
(* stays there through its restart and any power failure, until the next   *)
(* request that sets something.                                            *)
AnsweredIsStored == \A c \in answered : flash = c

(* Every request comes to an end: its connection is closed by the server   *)
(* (after an answer or instead of one), or it is gone.                     *)
RequestEnds ==
  \A s \in Seqnums :
    sock[s].rx # Nothing \/ sock[s].asked # Nothing ~> sock[s].SR # "ESTABLISHED"

(* Nobody gets the rest of somebody else's page: the comment of            *)
(* STATE_HTTP_RES_INPROC, "Repeatedly send remaining data to client".      *)
RemainderToItsClient == \A s \in Seqnums : sock[s].sent # <<>> => sock[s].asked # Nothing
=============================================================================
