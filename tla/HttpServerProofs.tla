-------------------------- MODULE HttpServerProofs --------------------------
(***************************************************************************)
(* Theorems about the web server: the stored configuration, for any        *)
(* changes and power failures, and the pages it sends, for any pages,      *)
(* lengths and buffer size; any number of sockets and connections.         *)
(***************************************************************************)
EXTENDS HttpServerProps, TLAPS

IsSock(k) == DOMAIN k = {"SR", "rx", "tx", "asked", "sent", "busy"}

(* What is asked of a socket is a request the parser knows.                *)
SocketInv ==
  /\ DOMAIN sock = Seqnums
  /\ \A s \in Seqnums : IsSock(sock[s]) /\ sock[s].rx \in Requests \cup {Nothing}

IsConfig(c) == c \in [size : Int, net : Int, mode : Int, baud : Int, spec : Int, filt : Int]

Trusted(c) == ConfigInRange(c) \/ power.mixed

(* Where the main loop and the store are, seen together.                   *)
PlaceInv ==
  /\ DOMAIN main = {"pc", "seqnum", "val"}
  /\ power \in [fails : Nat, mixed : BOOLEAN]
  /\ (store = "off") <=> (main.pc = "boot")
  /\ store \in {"off", "erase", "program", "ready"}
  /\ main.pc \in {"run", "drain", "reset"} => store = "ready"
  /\ store \in {"erase", "program"} => answered = {}

(* The inductive strengthening of RunsOnStoredConfig and AnsweredIsStored. *)
(* A copy with the size that load accepts has its settings in range or is  *)
(* a known mixture; the copy in RAM is such a copy from boot on.           *)
CopyInv ==
  /\ IsConfig(dev_config) /\ IsConfig(flash)
  /\ store = "ready" => flash = dev_config
  /\ store # "off" => dev_config.size = SizeOfDevConfig /\ Trusted(dev_config)
  /\ store = "off" => dev_config = Uniform(0)
  /\ flash.size = SizeOfDevConfig => Trusted(flash)
  /\ \A c \in answered : flash = c /\ c.size = SizeOfDevConfig

ConfigInv == SocketInv /\ PlaceInv /\ CopyInv
-----------------------------------------------------------------------------
(* set_devinfo keeps a configuration in range, whatever the parameters,    *)
(* and without parameters changes nothing.                                 *)
LEMMA SetDevinfoInRange ==
  ASSUME NEW c, IsConfig(c), NEW p \in Changes
  PROVE  /\ IsConfig(set_devinfo(c, p))
         /\ set_devinfo(c, p).size = c.size
         /\ ConfigInRange(c) => ConfigInRange(set_devinfo(c, p))
         /\ DOMAIN p = {} => set_devinfo(c, p) = c
<1> DEFINE Given(f) == f \in DOMAIN p
           spec == IF ~Given("spec") THEN c.spec
                   ELSE IF ToByte(p.spec) < CAN_SPEC_MAX THEN ToByte(p.spec) ELSE CAN_SPEC_A
           mode == IF Given("mode") /\ ToByte(p.mode) < ETH_MODE_MAX THEN ToByte(p.mode) ELSE c.mode
           baud == IF ~Given("baud") THEN c.baud
                   ELSE IF ToByte(p.baud) < CAN_BDRATE_MAX THEN ToByte(p.baud) ELSE CAN_BDRATE_125
           net == IF Given("net") THEN p.net ELSE c.net
           filt == IF ~Given("filt") THEN c.filt
                   ELSE IF spec = CAN_SPEC_A /\ p.filt > FourDigits THEN 0 ELSE p.filt
<1>1. \A f \in DOMAIN p : p[f] \in Nat /\ ToByte(p[f]) \in Nat
  BY ConfigAssumption DEF ToByte
<1>2. /\ net \in Int /\ mode \in Int /\ baud \in Int /\ spec \in Int /\ filt \in Int
  BY <1>1 DEF IsConfig, CAN_BDRATE_125, CAN_SPEC_A
<1>3. ConfigInRange(c) => /\ mode \in 0..(ETH_MODE_MAX - 1)
                          /\ baud \in 0..(CAN_BDRATE_MAX - 1)
                          /\ spec \in 0..(CAN_SPEC_MAX - 1)
  BY <1>1 DEF ConfigInRange, ETH_MODE_MAX, CAN_BDRATE_MAX, CAN_BDRATE_125,
              CAN_SPEC_MAX, CAN_SPEC_A
<1>4. DOMAIN p = {} => /\ net = c.net /\ mode = c.mode /\ baud = c.baud
                       /\ spec = c.spec /\ filt = c.filt
  OBVIOUS
<1>5. set_devinfo(c, p) = [c EXCEPT !.net = net, !.mode = mode, !.baud = baud,
                                    !.spec = spec, !.filt = filt]
  BY SMT DEF set_devinfo
<1> HIDE DEF net, mode, baud, spec, filt
<1>6. IsConfig(set_devinfo(c, p)) /\ set_devinfo(c, p).size = c.size
  BY <1>2, <1>5 DEF IsConfig
<1>7. ConfigInRange(c) => ConfigInRange(set_devinfo(c, p))
  BY <1>2, <1>3, <1>5 DEF ConfigInRange, IsConfig
<1>8. DOMAIN p = {} => set_devinfo(c, p) = c
  BY <1>4, <1>5 DEF IsConfig
<1> QED
  BY <1>6, <1>7, <1>8

(* The factory value is in range, and no uniform sector has its size.      *)
LEMMA FactoryInRange ==
  /\ IsConfig(Factory) /\ ConfigInRange(Factory)
  /\ IsConfig(Uniform(0)) /\ Uniform(0).size = 0
  /\ IsConfig(Uniform(Erased)) /\ Uniform(Erased).size = -1
  /\ IsConfig(Uniform(Scrap))
<1>1. IsConfig(Factory) /\ ConfigInRange(Factory)
  BY DEF Factory, IsConfig, ConfigInRange, SizeOfDevConfig,
         ETH_MODE_MAX, CAN_BDRATE_MAX, CAN_SPEC_MAX
<1>2. \A v \in Int : IsConfig(Uniform(v)) /\ Uniform(v).size = v
  BY DEF IsConfig, Uniform
<1> QED
  BY <1>1, <1>2 DEF Erased, Scrap

(* A mixture is a configuration.                                           *)
LEMMA MixtureIsConfig ==
  ASSUME NEW from, IsConfig(from), NEW to, IsConfig(to), NEW c \in Mixtures(from, to)
  PROVE  IsConfig(c)
<1>1. PICK rest \in {from, to, Uniform(Scrap)}, size \in {from.size, to.size} :
        c = [rest EXCEPT !.size = size]
  BY DEF Mixtures
<1>2. IsConfig(rest)
  BY FactoryInRange
<1> QED
  BY <1>1, <1>2 DEF IsConfig
-----------------------------------------------------------------------------
(* The main loop at boot.                                                  *)
LEMMA BootStep == ConfigInv /\ Boot => PlaceInv' /\ CopyInv'
<1> SUFFICES ASSUME ConfigInv, Boot PROVE PlaceInv' /\ CopyInv'
  OBVIOUS
<1> USE DEF ConfigInv, Boot, load_DevConfig_from_storage
<1>1. PlaceInv' /\ power' = [power EXCEPT !.mixed = @ /\ flash.size = SizeOfDevConfig]
  BY DEF PlaceInv, CopyInv
<1> QED
  BY <1>1, FactoryInRange DEF PlaceInv, CopyInv, Trusted, ConfigInRange

(* The server starts when the configuration is loaded and saved.           *)
LEMMA StartStep == ConfigInv /\ StartServer => PlaceInv' /\ CopyInv'
BY DEF ConfigInv, StartServer, cvars, PlaceInv, CopyInv, Trusted

(* The sector is erased, then programmed: nothing is promised meanwhile.   *)
LEMMA FlashInv == ConfigInv /\ FlashStep => PlaceInv' /\ CopyInv'
<1> SUFFICES ASSUME ConfigInv, FlashStep PROVE PlaceInv' /\ CopyInv'
  OBVIOUS
<1> USE DEF ConfigInv, PlaceInv, CopyInv, Trusted
<1>1. CASE Erase
  <2>1. flash' = Uniform(Erased) /\ flash'.size # SizeOfDevConfig
    BY <1>1, FactoryInRange DEF Erase, SizeOfDevConfig
  <2> QED
    BY <1>1, <2>1, FactoryInRange DEF Erase, FlashStep
<1>2. CASE Program
  BY <1>2 DEF Program, FlashStep
<1> QED
  BY <1>1, <1>2 DEF FlashStep

(* A power failure spoils the flash only inside a write, when nothing is   *)
(* promised; what has the right size then is trusted or a mixture.         *)
LEMMA PowerStep == ConfigInv /\ PowerFail => PlaceInv' /\ CopyInv'
<1> SUFFICES ASSUME ConfigInv, PowerFail PROVE PlaceInv' /\ CopyInv'
  OBVIOUS
<1>1. PICK left \in FlashAfterPowerFail : LosePower(left)
  BY DEF PowerFail
<1>2. IsConfig(left)
  <2>1. CASE store = "erase"
    BY <2>1, MixtureIsConfig, FactoryInRange DEF FlashAfterPowerFail, ConfigInv, CopyInv
  <2>2. CASE store = "program"
    BY <2>2, MixtureIsConfig DEF FlashAfterPowerFail, ConfigInv, CopyInv
  <2>3. CASE store \notin {"erase", "program"}
    BY <2>3 DEF FlashAfterPowerFail, ConfigInv, CopyInv
  <2> QED
    BY <2>1, <2>2, <2>3
<1>3. answered # {} => left = flash
  BY DEF FlashAfterPowerFail, ConfigInv, PlaceInv
<1>4. /\ flash' = left /\ dev_config' = Uniform(0) /\ store' = "off"
      /\ answered' = answered /\ main' = AtBoot
      /\ power'.mixed = (power.mixed \/ left \notin {flash, Uniform(Erased), dev_config})
      /\ power' \in [fails : Nat, mixed : BOOLEAN]
  BY <1>1 DEF LosePower, PowerFail, Restart, ConfigInv, PlaceInv
<1>5. left.size = SizeOfDevConfig => Trusted(left)'
  <2> SUFFICES ASSUME left.size = SizeOfDevConfig, ~power'.mixed
               PROVE  ConfigInRange(left)
    BY DEF Trusted, ConfigInRange
  <2>1. ~power.mixed /\ left \in {flash, Uniform(Erased), dev_config}
    BY <1>4
  <2>2. left # Uniform(Erased) /\ left # Uniform(0)
    BY FactoryInRange DEF SizeOfDevConfig
  <2> QED
    BY <2>1, <2>2 DEF ConfigInv, CopyInv, PlaceInv, Trusted
<1> QED
  BY <1>2, <1>3, <1>4, <1>5, FactoryInRange DEF ConfigInv, PlaceInv, CopyInv, AtBoot, Trusted
-----------------------------------------------------------------------------
(* Every step but those above and the three of set_devinfo.cgi leaves the  *)
(* configuration alone.                                                    *)
LEMMA QuietStep ==
  ASSUME ConfigInv, UNCHANGED <<dev_config, flash, store, power, answered>>,
         DOMAIN main' = DOMAIN main,
         main'.pc = main.pc \/ (main.pc \in {"run", "drain"} /\ main'.pc \in {"run", "drain"})
  PROVE  PlaceInv' /\ CopyInv'
BY DEF ConfigInv, PlaceInv, CopyInv, Trusted

(* The steps of httpServer_run that do not touch the configuration.        *)
PageStep(s) ==
  \/ RunIdle(s) \/ RunDrained(s) \/ RunResInproc(s) \/ RunResDone(s)
  \/ RunCloseWait(s) \/ RunOpen(s) \/ RunNothing(s)
ClientStep(s) ==
  \/ Connect(s) \/ Acknowledge(s) \/ Finish(s) \/ Gone(s)
  \/ \E req \in Requests : Ask(s, req)

(* Pages and clients leave the configuration alone.                        *)
LEMMA ServeStep ==
  ASSUME ConfigInv, NEW s \in Seqnums, PageStep(s) \/ ClientStep(s)
  PROVE  PlaceInv' /\ CopyInv'
<1>1. UNCHANGED <<dev_config, flash, store, power, answered>>
  BY DEF PageStep, ClientStep, RunIdle, RunDrained, RunResInproc, RunResDone, RunCloseWait,
         RunOpen, RunNothing, Connect, Acknowledge, Finish, Gone, Ask, cvars
<1>2. \/ main' = main
      \/ main.pc \in {"run", "drain"} /\ Done
      \/ main.pc = "run" /\ main' = [main EXCEPT !.pc = "drain"]
  BY DEF PageStep, ClientStep, RunIdle, RunDrained, RunResInproc, RunResDone, RunCloseWait,
         RunOpen, RunNothing, Connect, Acknowledge, Finish, Gone, Ask, Serving
<1>3. /\ DOMAIN main' = DOMAIN main
      /\ main'.pc = main.pc \/ (main.pc \in {"run", "drain"} /\ main'.pc \in {"run", "drain"})
  BY <1>2 DEF Done, ConfigInv, PlaceInv
<1> QED
  BY <1>1, <1>3, QuietStep

(* set_devinfo.cgi: the changed configuration is written before it is      *)
(* answered for, and the restart reads it back.                            *)
LEMMA SetStep ==
  ASSUME ConfigInv, NEW s \in Seqnums, RunSet(s)
  PROVE  PlaceInv' /\ CopyInv'
<1> DEFINE req == sock[s].rx
<1>1. req.param \in Changes
  <2>1. req \in Requests \cup {Nothing} /\ req.method = "SET"
    BY DEF RunSet, ConfigInv, SocketInv
  <2> QED
    BY <2>1 DEF Requests, Nothing
<1>2. /\ main.pc = "run" /\ store = "ready"
      /\ dev_config' = set_devinfo(dev_config, req.param)
      /\ main' = [main EXCEPT !.pc = "set", !.val = DOMAIN req.param # {}]
      /\ UNCHANGED <<flash, power>>
      /\ \/ DOMAIN req.param = {} /\ UNCHANGED <<store, answered>>
         \/ store' = "erase" /\ answered' = {}
  BY DEF RunSet, Serving, ConfigInv, PlaceInv
<1>3. /\ IsConfig(dev_config') /\ dev_config'.size = SizeOfDevConfig
      /\ Trusted(dev_config)'
      /\ DOMAIN req.param = {} => dev_config' = dev_config
  <2>1. IsConfig(dev_config) /\ dev_config.size = SizeOfDevConfig /\ Trusted(dev_config)
    BY <1>2 DEF ConfigInv, CopyInv
  <2> HIDE DEF req
  <2> QED
    BY <1>1, <1>2, <2>1, SetDevinfoInRange DEF Trusted
<1>4. PlaceInv'
  BY <1>2 DEF ConfigInv, PlaceInv
<1>5. CopyInv'
  BY <1>2, <1>3 DEF ConfigInv, CopyInv, Trusted
<1> QED
  BY <1>4, <1>5

(* The answer promises what is in the flash.                               *)
LEMMA AnswerStep ==
  ASSUME ConfigInv, NEW s \in Seqnums, RunSetAnswer(s)
  PROVE  PlaceInv' /\ CopyInv'
BY DEF RunSetAnswer, cvars, ConfigInv, PlaceInv, CopyInv, Trusted

(* The restart forgets the copy in RAM and keeps the flash.                *)
LEMMA ResetStep == ConfigInv /\ RunReset => PlaceInv' /\ CopyInv'
BY FactoryInRange DEF RunReset, Restart, AtBoot, ConfigInv, PlaceInv, CopyInv, Trusted
-----------------------------------------------------------------------------
(* Sending changes nothing of a socket but its transmit side.              *)
LEMMA SendKeeps ==
  ASSUME NEW k, IsSock(k), NEW what, NEW free
  PROVE  IsSock(send(k, what, free)) /\ send(k, what, free).rx = k.rx
BY DEF IsSock, send

\* A part of a page leaves the receive side of the socket alone.
LEMMA BodyKeeps ==
  ASSUME NEW w, IsSock(w.k), NEW page, NEW len, NEW free
  PROVE  LET v == send_http_response_body(w, page, len, free)
         IN IsSock(v.k) /\ v.k.rx = w.k.rx
<1>1. \/ send_http_response_body(w, page, len, free).k = w.k
      \/ \E what : send_http_response_body(w, page, len, free).k = send(w.k, what, free)
  BY DEF send_http_response_body
<1> QED
  BY <1>1, SendKeeps

\* So does the answer to any request but set_devinfo.cgi.
LEMMA HandlerKeeps ==
  ASSUME NEW h, NEW k, IsSock(k), NEW req \in Requests, req.method # "SET",
         NEW free
  PROVE  LET v == http_process_handler([h |-> h, k |-> k], req, free)
         IN IsSock(v.k) /\ v.k.rx = k.rx
<1> DEFINE w == [h |-> h, k |-> k]
           Sent(text) == [w EXCEPT !.k = send(@, Status(text), free)]
<1>1. \A text : Sent(text) = [h |-> h, k |-> send(k, Status(text), free)]
  OBVIOUS
<1>2. req.method \in {"ERR", "POST_OTHER", "GET_CGI", "GET"}
  BY DEF Requests
<1>3. \/ \E text : http_process_handler(w, req, free) = Sent(text)
      \/ http_process_handler(w, req, free) =
           send_http_response_body(Sent("200"), req.uri, content_len[req.uri], free)
  BY <1>2 DEF http_process_handler
<1>4. \A text : IsSock(Sent(text).k) /\ Sent(text).k.rx = k.rx
  BY <1>1, SendKeeps
<1>5. LET v == send_http_response_body(Sent("200"), req.uri, content_len[req.uri], free)
      IN IsSock(v.k) /\ v.k.rx = k.rx
  <2> HIDE DEF Sent
  <2>1. IsSock(Sent("200").k) /\ Sent("200").k.rx = k.rx
    BY <1>4
  <2> QED
    BY <2>1, BodyKeeps
<1> HIDE DEF Sent
<1> QED
  BY <1>3, <1>4, <1>5

(* The requests in the receive buffers stay requests the parser knows.     *)
LEMMA SocketStep == SocketInv /\ [Next]_vars => SocketInv'
<1> SUFFICES ASSUME SocketInv, [Next]_vars PROVE SocketInv'
  OBVIOUS
<1> DEFINE Ok(k) == IsSock(k) /\ k.rx \in Requests \cup {Nothing}
<1> USE DEF SocketInv
<1>1. ASSUME NEW s \in Seqnums, NEW k, Ok(k), sock' = [sock EXCEPT ![s] = k] PROVE SocketInv'
  BY <1>1
<1>2. CASE sock' = sock
  BY <1>2
<1>3. CASE Restart
  BY <1>3 DEF Restart, Closed, IsSock
<1>4. ASSUME NEW s \in Seqnums, PageStep(s) \/ ClientStep(s) \/ RunSet(s) \/ RunSetAnswer(s)
      PROVE  SocketInv'
  <2>1. Ok(sock[s])
    OBVIOUS
  <2>2. CASE RunIdle(s)
    <3> DEFINE req == sock[s].rx
               k == [sock[s] EXCEPT !.rx = Nothing, !.asked = req]
    <3>1. IsSock(k) /\ k.rx = Nothing
      BY <2>1 DEF IsSock
    <3>2. req \in Requests /\ req.method # "SET"
      BY <2>1, <2>2 DEF RunIdle, Nothing
    <3>0. PICK free \in BOOLEAN :
            sock' = [sock EXCEPT ![s] =
                       http_process_handler([h |-> http[s], k |-> k], req, free).k]
      BY <2>2 DEF RunIdle
    <3> DEFINE v == http_process_handler([h |-> http[s], k |-> k], req, free)
    <3>3. sock' = [sock EXCEPT ![s] = v.k]
      BY <3>0
    <3> HIDE DEF req, k
    <3>4. IsSock(v.k) /\ v.k.rx = k.rx
      BY <3>1, <3>2, HandlerKeeps
    <3> HIDE DEF v
    <3> QED
      BY <1>1, <3>1, <3>3, <3>4
  <2>3. CASE RunResInproc(s)
    <3>0. PICK free \in BOOLEAN :
            sock' = [sock EXCEPT ![s] =
                       send_http_response_body([h |-> http[s], k |-> sock[s]], NoFile, 0, free).k]
      BY <2>3 DEF RunResInproc
    <3> DEFINE v == send_http_response_body([h |-> http[s], k |-> sock[s]], NoFile, 0, free)
    <3>1. sock' = [sock EXCEPT ![s] = v.k]
      BY <3>0
    <3>2. Ok(v.k)
      BY <2>1, BodyKeeps
    <3> HIDE DEF v
    <3> QED
      BY <1>1, <3>1, <3>2
  <2>4. CASE RunSetAnswer(s)
    <3>1. PICK free \in BOOLEAN : sock' = [sock EXCEPT ![s] = send(sock[s], Status("cgi"), free)]
      BY <2>4 DEF RunSetAnswer
    <3>2. Ok(send(sock[s], Status("cgi"), free))
      BY <2>1, SendKeeps
    <3> QED
      BY <1>1, <3>1, <3>2
  <2>5. CASE RunSet(s)
    <3>1. sock' = [sock EXCEPT ![s] = [sock[s] EXCEPT !.rx = Nothing, !.asked = sock[s].rx]]
      BY <2>5 DEF RunSet
    <3>2. Ok([sock[s] EXCEPT !.rx = Nothing, !.asked = sock[s].rx])
      BY <2>1 DEF IsSock
    <3> QED
      BY <1>1, <3>1, <3>2
  <2>6. CASE RunDrained(s) \/ RunNothing(s)
    BY <1>2, <2>6 DEF RunDrained, RunNothing
  <2>7. CASE RunResDone(s) \/ RunOpen(s) \/ Connect(s) \/ Finish(s)
    <3>1. PICK to : sock' = [sock EXCEPT ![s] = [sock[s] EXCEPT !.SR = to]]
      BY <2>7 DEF RunResDone, RunOpen, Connect, Finish
    <3>2. Ok([sock[s] EXCEPT !.SR = to])
      BY <2>1 DEF IsSock
    <3> QED
      BY <1>1, <3>1, <3>2
  <2>8. CASE RunCloseWait(s) \/ Gone(s)
    <3>1. sock' = [sock EXCEPT ![s] = Closed] /\ Ok(Closed)
      BY <2>8 DEF RunCloseWait, Gone, Closed, IsSock
    <3> QED
      BY <1>1, <3>1
  <2>9. CASE Acknowledge(s)
    <3>1. /\ sock' = [sock EXCEPT ![s] = [sock[s] EXCEPT !.tx = FALSE]]
          /\ Ok([sock[s] EXCEPT !.tx = FALSE])
      BY <2>1, <2>9 DEF Acknowledge, IsSock
    <3> QED
      BY <1>1, <3>1
  <2>10. CASE \E req \in Requests : Ask(s, req)
    <3>1. PICK req \in Requests : sock' = [sock EXCEPT ![s] = [sock[s] EXCEPT !.rx = req]]
      BY <2>10 DEF Ask
    <3>2. Ok([sock[s] EXCEPT !.rx = req])
      BY <2>1 DEF IsSock
    <3> QED
      BY <1>1, <3>1, <3>2
  <2> QED
    BY <1>4, <2>2, <2>3, <2>4, <2>5, <2>6, <2>7, <2>8, <2>9, <2>10 DEF PageStep, ClientStep
<1>5. CASE Next
  BY <1>2, <1>3, <1>4, <1>5 DEF Next, Main, Environment, Run, PageStep, ClientStep, Boot,
     StartServer, FlashStep, RunReset, PowerFail
<1> QED
  BY <1>2, <1>5 DEF vars

(* The configuration invariant is inductive.                               *)
LEMMA ConfigStep == ConfigInv /\ [Next]_vars => ConfigInv'
<1> SUFFICES ASSUME ConfigInv, [Next]_vars PROVE PlaceInv' /\ CopyInv'
  BY SocketStep DEF ConfigInv
<1>1. CASE UNCHANGED vars
  BY <1>1 DEF vars, ConfigInv, PlaceInv, CopyInv, Trusted
<1>2. CASE Next
  <2>1. \A s \in Seqnums : PageStep(s) \/ ClientStep(s) => PlaceInv' /\ CopyInv'
    BY ServeStep
  <2>2. \A s \in Seqnums : RunSet(s) \/ RunSetAnswer(s) => PlaceInv' /\ CopyInv'
    BY SetStep, AnswerStep
  <2> QED
    BY <1>2, <2>1, <2>2, BootStep, StartStep, FlashInv, ResetStep, PowerStep
       DEF Next, Main, Environment, Run, PageStep, ClientStep
<1> QED
  BY <1>1, <1>2

(* An erased flash and a device without a configuration.                   *)
LEMMA ConfigInit == Init => ConfigInv
<1> SUFFICES ASSUME Init PROVE ConfigInv
  OBVIOUS
<1>1. SocketInv
  BY DEF Init, SocketInv, Closed, IsSock
<1>2. PlaceInv
  BY DEF Init, InitConfig, PlaceInv, AtBoot
<1>3. CopyInv
  BY FactoryInRange DEF Init, InitConfig, CopyInv, SizeOfDevConfig
<1> QED
  BY <1>1, <1>2, <1>3 DEF ConfigInv

(* The main loop runs on the stored configuration, in range unless a power *)
(* failure mixed it up, for any requests and any number of failures.       *)
THEOREM RunsOnStored == Spec => []RunsOnStoredConfig
<1>1. ConfigInv => RunsOnStoredConfig
  BY DEF ConfigInv, PlaceInv, CopyInv, Trusted, RunsOnStoredConfig
<1> QED
  BY <1>1, ConfigInit, ConfigStep, PTL DEF Spec

(* What was answered to be set stays in the flash.                         *)
THEOREM AnsweredStays == Spec => []AnsweredIsStored
<1>1. ConfigInv => AnsweredIsStored
  BY DEF ConfigInv, CopyInv, AnsweredIsStored
<1> QED
  BY <1>1, ConfigInit, ConfigStep, PTL DEF Spec
-----------------------------------------------------------------------------
(* The pages.                                                              *)

HttpStates ==
  [sock_status : {"IDLE", "RES_INPROC", "RES_DONE"},
   file_start : Pages \cup {NoFile}, file_len : Nat, file_offset : Nat]

Sent == [status : {"200", "400", "404", "cgi"}]
          \cup [page : Pages \cup {NoFile}, from : Nat, len : Nat]

Socks ==
  [SR : {"CLOSED", "INIT", "LISTEN", "ESTABLISHED", "CLOSE_WAIT", "FIN_WAIT"},
   rx : Requests \cup {Nothing}, tx : BOOLEAN,
   asked : Requests \cup {Nothing}, sent : Seq(Sent), busy : SUBSET Nat]

Mains ==
  [pc : {"boot", "saved", "run", "drain", "set", "reset"},
   seqnum : Seqnums, val : BOOLEAN]

(* How much of its page a client was sent.                                 *)
SentTo(sent) == IF Len(sent) = 1 THEN 0 ELSE End(sent[Len(sent)])

(* FileStateSound for one socket.                                          *)
FileOk(s) ==
  CASE Draining(s) -> http[s].file_len > 0 => InProgress(http[s])
    [] http[s].sock_status = "IDLE" /\ ~Draining(s) -> http[s] = Reset
    [] http[s].sock_status = "RES_INPROC" /\ ~Draining(s) -> InProgress(http[s])
    [] OTHER -> http[s].file_len = 0

(* The server stands where the client's page stands: the offset is what    *)
(* was sent, no file in progress means that all of it was.                 *)
Linked(k, h, draining) ==
  k.asked.method = "GET" /\ k.asked.uri \in Pages =>
    /\ Len(k.sent) > 0 /\ PageFollows(k.sent, k.asked.uri) /\ SentTo(k.sent) \in Nat
    /\ k.SR \in {"ESTABLISHED", "CLOSE_WAIT", "FIN_WAIT"}
    /\ k.SR # "FIN_WAIT" /\ h.file_len > 0 =>
         /\ h.file_start = k.asked.uri /\ h.file_len = content_len[k.asked.uri]
         /\ h.file_offset = SentTo(k.sent)
    /\ k.SR = "FIN_WAIT" \/ h.file_len = 0 => SentTo(k.sent) = content_len[k.asked.uri]
    /\ k.SR # "FIN_WAIT" /\ h.file_len = 0 => draining \/ h.sock_status = "RES_DONE"

(* Nothing was sent where nothing was asked, but for the rest of an older  *)
(* page and the answer before the restart.                                 *)
Unsent(s) ==
  /\ sock[s].SR \in {"CLOSED", "INIT", "LISTEN"} => sock[s].sent = <<>>
  /\ sock[s].SR = "ESTABLISHED" /\ http[s].sock_status = "IDLE" /\ ~Draining(s)
       => sock[s].sent = <<>> \/ main.pc = "reset"

SockOk(s) == FileOk(s) /\ Linked(sock[s], http[s], Draining(s)) /\ Unsent(s)

ServerTyped ==
  /\ sock \in [Seqnums -> Socks]
  /\ http \in [Seqnums -> HttpStates]
  /\ main \in Mains

(* The socket that waits for the flash was not asked for a page.           *)
SetKept == main.pc = "set" => sock[main.seqnum].asked.method \in {"SET", "none"}

PageInv == ServerTyped /\ SetKept /\ \A s \in Seqnums : SockOk(s)
-----------------------------------------------------------------------------
(* A call of send() is noted, on a connection, with its result, and        *)
(* changes nothing else that counts.                                       *)
LEMMA SendTyped ==
  ASSUME NEW k \in Socks, NEW what \in Sent, NEW free \in BOOLEAN
  PROVE  /\ send(k, what, free) \in Socks
         /\ send(k, what, free).SR = k.SR /\ send(k, what, free).rx = k.rx
         /\ send(k, what, free).asked = k.asked
         /\ send(k, what, free).sent = IF k.SR \in {"ESTABLISHED", "CLOSE_WAIT"}
                                       THEN Append(k.sent, what) ELSE k.sent
         /\ send(k, what, free).busy \subseteq
              k.busy \cup IF k.tx THEN {Len(k.sent) + 1} ELSE {}
<1>1. Append(k.sent, what) \in Seq(Sent) /\ Len(k.sent) + 1 \in Nat
  BY DEF Socks
<1> QED
  BY <1>1 DEF send, Socks

IsState(h, status, start, len, offset) ==
  /\ h \in HttpStates
  /\ h.sock_status = status /\ h.file_start = start /\ h.file_len = len /\ h.file_offset = offset

(* A page that is complete is forgotten.                                   *)
LEMMA Cleared ==
  ASSUME NEW h \in HttpStates, NEW g,
         g = [h EXCEPT !.file_start = NoFile, !.file_len = 0, !.file_offset = 0]
  PROVE  IsState(g, h.sock_status, NoFile, 0, 0)
<1>1. ASSUME NEW a \in Pages \cup {NoFile}
      PROVE  LET f == [h EXCEPT !.file_start = a, !.file_len = 0, !.file_offset = 0]
             IN /\ f \in HttpStates /\ f.sock_status = h.sock_status
                /\ f.file_start = a /\ f.file_len = 0 /\ f.file_offset = 0
  BY <1>1 DEF HttpStates
<1> QED
  BY <1>1 DEF IsState

(* The first part of a page, or all of it.                                 *)
LEMMA BodyFirst ==
  ASSUME NEW w, w.h = Reset, NEW page \in Pages, NEW len \in Nat, NEW free
  PROVE  LET v == send_http_response_body(w, page, len, free)
             n == IF len > PartMax THEN PartMax ELSE len
         IN /\ IsState(v.h, "IDLE", IF len > PartMax THEN page ELSE NoFile,
                       IF len > PartMax THEN len ELSE 0, n)
            /\ v.k = IF n = 0 THEN w.k ELSE send(w.k, Part(page, 0, n), free)
<1> DEFINE v == send_http_response_body(w, page, len, free)
<1>1. PartMax \in Nat /\ PartMax > 0
  BY HttpAssumption DEF PartMax
<1> HIDE DEF PartMax
<1>2. IsState(w.h, "IDLE", NoFile, 0, 0)
  BY DEF Reset, IsState, HttpStates
<1>3. CASE len = 0
  <2>1. ~(len > PartMax) /\ (len = 0 \/ len > PartMax)
    BY <1>1, <1>3
  <2>2. v.h = [w.h EXCEPT !.file_start = NoFile, !.file_len = 0, !.file_offset = 0] /\ v.k = w.k
    BY <1>2, <1>3, <2>1 DEF send_http_response_body, IsState
  <2> HIDE DEF v
  <2>3. IsState(v.h, "IDLE", NoFile, 0, 0)
    BY <1>2, <2>2 DEF IsState, HttpStates
  <2> QED
    BY <1>3, <2>1, <2>2, <2>3 DEF v
<1>4. CASE len > 0 /\ ~(len > PartMax)
  <2>1. v.h = [w.h EXCEPT !.file_offset = len] /\ v.k = send(w.k, Part(page, 0, len), free)
    BY <1>1, <1>2, <1>4 DEF send_http_response_body, IsState
  <2> HIDE DEF v
  <2>2. IsState(v.h, "IDLE", NoFile, 0, len)
    BY <1>2, <2>1 DEF IsState, HttpStates
  <2> QED
    BY <1>1, <1>4, <2>1, <2>2 DEF v
<1>5. CASE len > PartMax
  <2> DEFINE file == [w.h EXCEPT !.file_start = page, !.file_len = len]
  <2>1. IsState(file, "IDLE", page, len, 0)
    BY <1>2 DEF IsState, HttpStates
  <2>2. /\ v.h = [file EXCEPT !.file_offset = @ + PartMax]
        /\ v.k = send(w.k, Part(page, 0, PartMax), free)
    <3>1. file.file_len = len /\ file.file_start = page /\ file.file_offset = 0
      BY <2>1 DEF IsState
    <3>2. w.h.file_len = 0 /\ len > PartMax /\ len # 0 /\ PartMax # 0 /\ len > 0
      BY <1>1, <1>2, <1>5 DEF IsState
    <3> QED
      BY <3>1, <3>2 DEF send_http_response_body
  <2> HIDE DEF v, file
  <2>3. IsState(v.h, "IDLE", page, len, PartMax)
    BY <1>1, <2>1, <2>2 DEF IsState, HttpStates
  <2> QED
    BY <1>1, <1>5, <2>2, <2>3 DEF v
<1> QED
  BY <1>1, <1>3, <1>4, <1>5

(* The next part of a page, or the rest of it.                             *)
LEMMA BodyNext ==
  ASSUME NEW w, w.h \in HttpStates, InProgress(w.h), NEW free
  PROVE  LET v == send_http_response_body(w, NoFile, 0, free)
             rest == w.h.file_len - w.h.file_offset
             n == IF rest > PartMax THEN PartMax ELSE rest
         IN /\ IF rest > PartMax
               THEN IsState(v.h, w.h.sock_status, w.h.file_start, w.h.file_len, w.h.file_offset + n)
               ELSE IsState(v.h, w.h.sock_status, NoFile, 0, 0)
            /\ v.k = send(w.k, Part(w.h.file_start, w.h.file_offset, n), free)
            /\ n \in 1..PartMax
<1> DEFINE v == send_http_response_body(w, NoFile, 0, free)
<1>1. w.h.file_len \in Nat /\ w.h.file_offset \in Nat /\ w.h.file_len - w.h.file_offset > 0 /\ w.h.file_len > 0
  BY DEF InProgress, HttpStates
<1>2. PartMax \in Nat /\ PartMax > 0
  BY HttpAssumption DEF PartMax
<1> HIDE DEF PartMax
<1>3. CASE w.h.file_len - w.h.file_offset > PartMax
  <2>1. /\ v.h = [w.h EXCEPT !.file_offset = @ + PartMax]
        /\ v.k = send(w.k, Part(w.h.file_start, w.h.file_offset, PartMax), free)
    BY <1>1, <1>2, <1>3 DEF send_http_response_body
  <2> HIDE DEF v
  <2>2. IsState(v.h, w.h.sock_status, w.h.file_start, w.h.file_len, w.h.file_offset + PartMax)
    BY <1>1, <1>2, <2>1 DEF IsState, HttpStates
  <2> QED
    BY <1>1, <1>2, <1>3, <2>1, <2>2 DEF v
<1>4. CASE ~(w.h.file_len - w.h.file_offset > PartMax)
  <2>1. v.h = [w.h EXCEPT !.file_start = NoFile, !.file_len = 0, !.file_offset = 0]
    <3>1. /\ w.h.file_len # 0 /\ w.h.file_len - w.h.file_offset <= PartMax
          /\ ~(w.h.file_len - w.h.file_offset > PartMax)
      BY <1>1, <1>2, <1>4
    <3> QED
      BY <3>1, Zenon DEF send_http_response_body
  <2>2. v.k = send(w.k, Part(w.h.file_start, w.h.file_offset, w.h.file_len - w.h.file_offset), free)
    BY <1>1, <1>2, <1>4 DEF send_http_response_body
  <2> HIDE DEF v
  <2>3. IsState(v.h, w.h.sock_status, NoFile, 0, 0)
    BY <2>1, Cleared
  <2> QED
    BY <1>1, <1>2, <1>4, <2>2, <2>3 DEF v
<1> QED
  BY <1>3, <1>4

(* A page that is followed by its next part is followed still.             *)
LEMMA FollowsOn ==
  ASSUME NEW p \in Pages, NEW seq \in Seq(Sent), Len(seq) > 0, PageFollows(seq, p),
         SentTo(seq) \in Nat, NEW n \in 1..PartMax, SentTo(seq) + n <= content_len[p],
         NEW more, more = Append(seq, Part(p, SentTo(seq), n))
  PROVE  /\ PageFollows(more, p) /\ Len(more) > 0
         /\ SentTo(more) = SentTo(seq) + n
<1> DEFINE e == Part(p, SentTo(seq), n)
<1>1. e.page = p /\ e.from = SentTo(seq) /\ e.len = n
  BY DEF Part
<1> HIDE DEF e
<1>2. /\ Len(more) = Len(seq) + 1 /\ Len(seq) \in Nat
      /\ \A i \in 1..Len(seq) : more[i] = seq[i]
      /\ more[Len(seq) + 1] = e
  BY DEF e
<1>0. Len(seq) \in Nat /\ Len(seq) > 0 /\ Len(more) = Len(seq) + 1
  BY <1>2
<1>3. SentTo(more) = SentTo(seq) + n
  BY <1>1, <1>2 DEF SentTo, End
<1>4. n \in 1..(DATA_BUF_SIZE - 1)
  BY DEF PartMax
<1>5. ASSUME NEW i \in 2..Len(more)
      PROVE  /\ more[i].page = p
             /\ more[i].from = IF i = 2 THEN 0 ELSE End(more[i - 1])
             /\ more[i].len \in 1..(DATA_BUF_SIZE - 1)
             /\ End(more[i]) <= content_len[p]
  <2>1. CASE i <= Len(seq)
    <3>1. i \in 2..Len(seq) /\ more[i] = seq[i] /\ more[i - 1] = seq[i - 1]
      BY <1>2, <2>1
    <3> QED
      BY <3>1 DEF PageFollows
  <2>2. CASE i = Len(seq) + 1
    <3>1. End(more[i]) = SentTo(seq) + n
      BY <1>1, <1>2, <2>2 DEF End
    <3>2. SentTo(seq) = IF i = 2 THEN 0 ELSE End(more[i - 1])
      <4> DEFINE l == Len(seq)
      <4>0. l \in Nat /\ l > 0 /\ i = l + 1
        BY <1>0, <2>2
      <4> HIDE DEF l
      <4>1. l = i - 1 /\ i - 1 \in 1..l /\ (i = 2 <=> l = 1)
        BY <4>0
      <4>2. more[i - 1] = seq[Len(seq)]
        BY <1>2, <4>1 DEF l
      <4> QED
        BY <4>1, <4>2 DEF SentTo, l
    <3> QED
      BY <1>1, <1>2, <1>4, <2>2, <3>1, <3>2
  <2> QED
    BY <1>2, <1>5, <2>1, <2>2
<1>6. more[1] = Status("200")
  BY <1>2 DEF PageFollows
<1> QED
  BY <1>2, <1>3, <1>5, <1>6 DEF PageFollows
-----------------------------------------------------------------------------
(* A step of one socket leaves the others as they were.                    *)
LEMMA OneSocket ==
  ASSUME PageInv, NEW s \in Seqnums, NEW k \in Socks, NEW h \in HttpStates,
         sock' = [sock EXCEPT ![s] = k], http' = [http EXCEPT ![s] = h],
         main' \in Mains, SetKept', SockOk(s)',
         \A t \in Seqnums : t # s => (Draining(t)' <=> Draining(t)),
         main.pc = "reset" => main'.pc = "reset"
  PROVE  PageInv'
<1>1. ServerTyped'
  BY DEF PageInv, ServerTyped
<1>2. ASSUME NEW t \in Seqnums, t # s PROVE SockOk(t)'
  <2>1. sock'[t] = sock[t] /\ http'[t] = http[t] /\ (Draining(t)' <=> Draining(t))
    BY <1>2 DEF PageInv, ServerTyped
  <2>2. SockOk(t)
    BY DEF PageInv
  <2>3. FileOk(t)'
    BY <2>1, <2>2 DEF SockOk, FileOk
  <2>4. Linked(sock'[t], http'[t], Draining(t)')
    BY <2>1, <2>2 DEF SockOk, Linked
  <2>5. Unsent(t)'
    BY <2>1, <2>2 DEF SockOk, Unsent
  <2> QED
    BY <2>3, <2>4, <2>5 DEF SockOk
<1> QED
  BY <1>1, <1>2 DEF PageInv

(* The answer to a request on a connection where nothing was sent.         *)
LEMMA Answered ==
  ASSUME NEW k \in Socks, k.SR = "ESTABLISHED", k.sent = <<>>, k.asked \in Requests,
         k.asked.method \notin {"none", "SET"}, NEW free \in BOOLEAN,
         NEW w, w = [h |-> Reset, k |-> k]
  PROVE  LET v == http_process_handler(w, k.asked, free)
         IN /\ v.h \in HttpStates /\ v.k \in Socks
            /\ v.k.SR = "ESTABLISHED"
            /\ v.h.file_len > 0 => InProgress(v.h)
            /\ Linked(v.k, v.h, TRUE)
<1> DEFINE req == k.asked
           v == http_process_handler(w, req, free)
           text == IF req.method = "ERR" THEN "400" ELSE IF req.method = "GET_CGI" THEN "cgi" ELSE "404"
<1>0. Reset \in HttpStates /\ Reset.file_len = 0
  BY DEF Reset, HttpStates
<1>1. CASE req.method = "GET" /\ req.uri \in Pages
  <2> DEFINE k1 == send(k, Status("200"), free)
             w1 == [w EXCEPT !.k = send(@, Status("200"), free)]
             p == req.uri
             len == content_len[p]
             n == IF len > PartMax THEN PartMax ELSE len
             e == Part(p, 0, n)
  <2>1. Status("200") \in Sent
    BY DEF Status, Sent
  <2>2. /\ k1 \in Socks /\ k1.SR = "ESTABLISHED" /\ k1.asked = req
        /\ k1.sent = <<Status("200")>>
    <3>1. /\ k1 \in Socks /\ k1.SR = k.SR /\ k1.asked = k.asked
          /\ k1.sent = Append(k.sent, Status("200"))
      BY <2>1, SendTyped
    <3> HIDE DEF k1
    <3> QED
      BY <3>1
  <2>3. w1.h = Reset /\ w1.k = k1
    OBVIOUS
  <2>4. v = send_http_response_body(w1, p, len, free)
    BY <1>1 DEF http_process_handler
  <2>5. len \in Nat /\ p \in Pages /\ PartMax \in Nat /\ PartMax > 0
    BY <1>1, HttpAssumption DEF PartMax
  <2> HIDE DEF k1, w1, p, PartMax
  <2>6. /\ IsState(v.h, "IDLE", IF len > PartMax THEN p ELSE NoFile, IF len > PartMax THEN len ELSE 0, n)
        /\ v.k = IF n = 0 THEN k1 ELSE send(k1, e, free)
    BY <2>3, <2>4, <2>5, BodyFirst
  <2> HIDE DEF v
  <2>7. v.h.file_len > 0 => InProgress(v.h)
    BY <2>5, <2>6 DEF IsState, InProgress
  <2>8. /\ PageFollows(k1.sent, p) /\ Len(k1.sent) = 1 /\ SentTo(k1.sent) = 0
        /\ k1.sent \in Seq(Sent)
    BY <2>1, <2>2 DEF PageFollows, SentTo
  <2>9. CASE n = 0
    <3>1. v.k = k1 /\ len = 0 /\ v.h.file_len = 0
      BY <2>5, <2>6, <2>9 DEF IsState
    <3>2. Linked(v.k, v.h, TRUE)
      <4>1. /\ v.k.asked.uri = p /\ v.k.SR = "ESTABLISHED" /\ v.h.file_len = 0
            /\ Len(v.k.sent) = 1 /\ PageFollows(v.k.sent, p) /\ SentTo(v.k.sent) = 0
            /\ content_len[p] = 0
        BY <2>2, <2>8, <3>1 DEF p
      <4> HIDE DEF len, n, e
      <4> QED
        BY <4>1 DEF Linked
    <3>3. v.h \in HttpStates
      BY <2>6 DEF IsState
    <3> QED
      BY <2>2, <2>7, <3>1, <3>2, <3>3 DEF v
  <2>10. CASE n # 0
    <3>1. n \in 1..PartMax /\ n <= len /\ n \in Nat
      BY <2>5, <2>10
    <3>2. e \in Sent
      BY <2>5, <3>1 DEF Part, Sent
    <3>3. /\ v.k \in Socks /\ v.k.SR = "ESTABLISHED" /\ v.k.asked = req
          /\ v.k.sent = Append(k1.sent, e)
      <4> HIDE DEF e, n
      <4>1. v.k = send(k1, e, free)
        BY <2>6, <2>10
      <4>2. /\ send(k1, e, free) \in Socks /\ send(k1, e, free).SR = k1.SR /\ send(k1, e, free).asked = k1.asked
            /\ send(k1, e, free).sent = IF k1.SR \in {"ESTABLISHED", "CLOSE_WAIT"}
                                  THEN Append(k1.sent, e) ELSE k1.sent
        BY <2>2, <3>2, SendTyped
      <4> QED
        BY <2>2, <4>1, <4>2
    <3>4. PageFollows(v.k.sent, p) /\ Len(v.k.sent) > 0 /\ SentTo(v.k.sent) = n
      <4> HIDE DEF n
      <4>1. SentTo(k1.sent) \in Nat /\ SentTo(k1.sent) + n <= content_len[p] /\ Len(k1.sent) > 0
        BY <2>5, <2>8, <3>1
      <4>2. v.k.sent = Append(k1.sent, Part(p, SentTo(k1.sent), n))
        BY <2>8, <3>3
      <4>3. /\ PageFollows(v.k.sent, p) /\ Len(v.k.sent) > 0
            /\ SentTo(v.k.sent) = SentTo(k1.sent) + n
        BY <2>5, <2>8, <3>1, <4>1, <4>2, FollowsOn
      <4> QED
        BY <2>8, <3>1, <4>3
    <3>5. /\ v.h.file_len > 0 => v.h.file_start = p /\ v.h.file_len = len /\ v.h.file_offset = n
          /\ v.h.file_len = 0 => n = len
      BY <2>5, <2>6 DEF IsState
    <3>6. Linked(v.k, v.h, TRUE)
      <4> HIDE DEF n
      <4> QED
        BY <3>1, <3>3, <3>4, <3>5 DEF Linked, p
    <3>7. v.h \in HttpStates
      BY <2>6 DEF IsState
    <3> QED
      BY <2>7, <3>3, <3>6, <3>7 DEF v
  <2> QED
    BY <2>9, <2>10
<1>2. CASE ~(req.method = "GET" /\ req.uri \in Pages)
  <2>1. req.method \in {"ERR", "GET_CGI", "POST_OTHER", "GET"}
    BY DEF Requests
  <2>2. v = [w EXCEPT !.k = send(@, Status(text), free)]
    BY <1>2, <2>1 DEF http_process_handler
  <2>3. Status(text) \in Sent
    BY DEF Status, Sent
  <2>4. v.h = Reset /\ v.k = send(k, Status(text), free)
    BY <2>2
  <2> HIDE DEF v, text
  <2>5. v.k \in Socks /\ v.k.SR = "ESTABLISHED" /\ v.k.asked = req
    BY <2>3, <2>4, SendTyped
  <2>6. Linked(v.k, v.h, TRUE)
    BY <1>2, <2>5 DEF Linked
  <2>7. v.h \in HttpStates /\ ~(v.h.file_len > 0)
    BY <1>0, <2>4
  <2> QED
    BY <2>5, <2>6, <2>7 DEF v
<1> QED
  BY <1>1, <1>2
-----------------------------------------------------------------------------
(* What a socket that is served is like.                                   *)
LEMMA Served ==
  ASSUME PageInv, NEW s \in Seqnums
  PROVE  /\ sock[s] \in Socks /\ http[s] \in HttpStates /\ main \in Mains /\ SockOk(s)
         /\ sock[s].rx \in Requests \cup {Nothing} /\ sock[s].sent \in Seq(Sent)
         /\ sock[s].asked \in Requests \cup {Nothing}
BY DEF PageInv, ServerTyped, Socks

(* The main loop goes on to the next socket.                               *)
LEMMA DoneTyped ==
  ASSUME PageInv, Done
  PROVE  main' \in Mains /\ main'.pc = "run"
<1>1. (main.seqnum + 1) % Sockets \in Seqnums
  BY HttpAssumption DEF PageInv, ServerTyped, Mains, Seqnums
<1> QED
  BY <1>1 DEF Done, PageInv, ServerTyped, Mains

(* A request is answered.                                                  *)
LEMMA IdleStep == ASSUME PageInv, NEW s \in Seqnums, RunIdle(s) PROVE PageInv'
<1> DEFINE req == sock[s].rx
           k == [sock[s] EXCEPT !.rx = Nothing, !.asked = req]
           w == [h |-> http[s], k |-> k]
<1>0. PICK free \in BOOLEAN :
        LET v == http_process_handler(w, req, free)
        IN http' = [http EXCEPT ![s] = v.h] /\ sock' = [sock EXCEPT ![s] = v.k]
  BY DEF RunIdle
<1> DEFINE v == http_process_handler(w, req, free)
<1>1. /\ main.pc = "run" /\ sock[s].SR = "ESTABLISHED" /\ http[s].sock_status = "IDLE"
      /\ req.method \notin {"none", "SET"}
      /\ http' = [http EXCEPT ![s] = v.h] /\ sock' = [sock EXCEPT ![s] = v.k]
      /\ main' = [main EXCEPT !.pc = "drain"] /\ main.seqnum = s
  BY <1>0 DEF RunIdle, Serving
<1>2. ~Draining(s)
  BY <1>1 DEF Draining
<1>3. http[s] = Reset /\ sock[s].sent = <<>>
  BY <1>1, <1>2, Served DEF SockOk, FileOk, Unsent
<1>4. req \in Requests
  BY <1>1, Served DEF Nothing
<1>5. /\ k \in Socks /\ k.SR = "ESTABLISHED" /\ k.sent = <<>> /\ k.asked = req
  BY <1>1, <1>3, <1>4, Served DEF Socks
<1> HIDE DEF k
<1>6. w = [h |-> Reset, k |-> k]
  BY <1>3
<1> HIDE DEF w
<1>7. /\ v.h \in HttpStates /\ v.k \in Socks /\ v.k.SR = "ESTABLISHED"
      /\ v.h.file_len > 0 => InProgress(v.h)
      /\ Linked(v.k, v.h, TRUE)
  <2> HIDE DEF req
  <2>1. k.asked \in Requests /\ k.asked.method \notin {"none", "SET"}
    BY <1>1, <1>4, <1>5
  <2>2. v = http_process_handler(w, k.asked, free)
    BY <1>5
  <2> QED
    BY <1>5, <1>6, <2>1, <2>2, Answered
<1> HIDE DEF v
<1>8. main' \in Mains /\ main'.pc = "drain" /\ main'.seqnum = s
  BY <1>1, Served DEF Mains
<1>9. Draining(s)' /\ sock'[s] = v.k /\ http'[s] = v.h
  BY <1>1, <1>8 DEF Draining, PageInv, ServerTyped
<1>10. FileOk(s)' /\ Unsent(s)'
  BY <1>7, <1>9 DEF FileOk, Unsent
<1>11. Linked(sock'[s], http'[s], Draining(s)')
  BY <1>7, <1>9 DEF Linked
<1>12. SockOk(s)'
  BY <1>10, <1>11 DEF SockOk
<1>13. \A t \in Seqnums : t # s => (Draining(t)' <=> Draining(t))
  BY <1>1, <1>8 DEF Draining
<1>14. SetKept'
  BY <1>8 DEF SetKept
<1> QED
  BY <1>1, <1>7, <1>8, <1>12, <1>13, <1>14, OneSocket

(* The transmit buffer is empty: the page goes on, or is done.             *)
LEMMA DrainedStep == ASSUME PageInv, NEW s \in Seqnums, RunDrained(s) PROVE PageInv'
<1> DEFINE status == IF http[s].file_len > 0 THEN "RES_INPROC" ELSE "RES_DONE"
           h == [http[s] EXCEPT !.sock_status = status]
<1>1. Draining(s) /\ main' \in Mains /\ main'.pc = "run" /\ main.pc = "drain" /\ main.seqnum = s
  BY DoneTyped DEF RunDrained, Draining
<1>2. sock' = [sock EXCEPT ![s] = sock[s]] /\ http' = [http EXCEPT ![s] = h]
  BY DEF RunDrained, PageInv, ServerTyped
<1>3. /\ h \in HttpStates /\ h.sock_status = status
      /\ h.file_start = http[s].file_start /\ h.file_len = http[s].file_len
      /\ h.file_offset = http[s].file_offset /\ h.file_len \in Nat
  BY Served DEF HttpStates
<1>4. sock'[s] = sock[s] /\ http'[s] = h /\ ~Draining(s)'
  BY <1>1, <1>2 DEF PageInv, ServerTyped, Draining
<1> HIDE DEF h
<1>5. FileOk(s)'
  BY <1>1, <1>3, <1>4, Served DEF SockOk, FileOk, InProgress
<1>6. Linked(sock'[s], http'[s], Draining(s)')
  BY <1>3, <1>4, Served DEF SockOk, Linked
<1>7. Unsent(s)'
  BY <1>3, <1>4, Served DEF SockOk, Unsent
<1>8. SockOk(s)'
  BY <1>5, <1>6, <1>7 DEF SockOk
<1>9. \A t \in Seqnums : t # s => (Draining(t)' <=> Draining(t))
  BY <1>1 DEF Draining
<1>10. SetKept'
  BY <1>1 DEF SetKept
<1> QED
  BY <1>1, <1>2, <1>3, <1>8, <1>9, <1>10, Served, OneSocket

(* The next part is sent, of the page of whoever is connected.             *)
LEMMA InprocStep == ASSUME PageInv, NEW s \in Seqnums, RunResInproc(s) PROVE PageInv'
<1> DEFINE k == sock[s]
           h == http[s]
           w == [h |-> http[s], k |-> sock[s]]
           after(v) == IF v.h.file_len = 0 THEN [v.h EXCEPT !.sock_status = "RES_DONE"] ELSE v.h
<1>0. PICK free \in BOOLEAN :
        LET v == send_http_response_body(w, NoFile, 0, free)
        IN http' = [http EXCEPT ![s] = after(v)] /\ sock' = [sock EXCEPT ![s] = v.k]
  BY DEF RunResInproc
<1> DEFINE v == send_http_response_body(w, NoFile, 0, free)
           rest == h.file_len - h.file_offset
           n == IF rest > PartMax THEN PartMax ELSE rest
           e == Part(h.file_start, h.file_offset, n)
           new == after(v)
<1>1. /\ main.pc = "run" /\ main.seqnum = s
      /\ k.SR = "ESTABLISHED" /\ h.sock_status = "RES_INPROC"
      /\ http' = [http EXCEPT ![s] = new] /\ sock' = [sock EXCEPT ![s] = v.k]
      /\ Done
  BY <1>0 DEF RunResInproc, Serving
<1>2. main' \in Mains /\ main'.pc = "run" /\ ~Draining(s) /\ ~Draining(s)'
  BY <1>1, DoneTyped DEF Draining
<1>3. k \in Socks /\ h \in HttpStates /\ k.sent \in Seq(Sent) /\ InProgress(h)
  BY <1>1, <1>2, Served DEF SockOk, FileOk
<1>4. w.h = h /\ w.k = k
  OBVIOUS
<1>5. /\ IF rest > PartMax
         THEN IsState(v.h, h.sock_status, h.file_start, h.file_len, h.file_offset + n)
         ELSE IsState(v.h, h.sock_status, NoFile, 0, 0)
      /\ v.k = send(k, e, free)
      /\ n \in 1..PartMax
  BY <1>3, <1>4, BodyNext
<1> HIDE DEF w, v
<1>6. PartMax \in Nat /\ PartMax > 0
  BY HttpAssumption DEF PartMax
<1> HIDE DEF PartMax
<1>7. /\ h.file_start \in Pages /\ h.file_len \in Nat /\ h.file_offset \in Nat
      /\ h.file_len = content_len[h.file_start] /\ h.file_len > 0
      /\ rest > 0 /\ n \in Nat /\ n > 0 /\ h.file_offset + n <= h.file_len
      /\ rest > PartMax => h.file_offset + n < h.file_len
      /\ ~(rest > PartMax) => h.file_offset + n = h.file_len
  BY <1>3, <1>6 DEF InProgress, HttpStates
<1>8. e \in Sent
  BY <1>7 DEF Part, Sent
<1> HIDE DEF e
<1>9. /\ v.k \in Socks /\ v.k.SR = "ESTABLISHED" /\ v.k.asked = k.asked
      /\ v.k.sent = Append(k.sent, e)
  <2>1. /\ send(k, e, free) \in Socks /\ send(k, e, free).SR = k.SR /\ send(k, e, free).asked = k.asked
        /\ send(k, e, free).sent = IF k.SR \in {"ESTABLISHED", "CLOSE_WAIT"}
                             THEN Append(k.sent, e) ELSE k.sent
    BY <1>3, <1>8, SendTyped
  <2> HIDE DEF k
  <2> QED
    BY <1>1, <1>5, <2>1
<1>10. /\ new \in HttpStates
       /\ IF rest > PartMax
          THEN /\ new.sock_status = "RES_INPROC" /\ new.file_start = h.file_start
               /\ new.file_len = h.file_len /\ new.file_offset = h.file_offset + n
          ELSE new.sock_status = "RES_DONE" /\ new.file_len = 0
  <2>1. CASE rest > PartMax
    <3>1. IsState(v.h, h.sock_status, h.file_start, h.file_len, h.file_offset + n)
      BY <1>5, <2>1
    <3>2. v.h.file_len # 0
      BY <1>7, <3>1 DEF IsState
    <3> HIDE DEF n, h
    <3> QED
      BY <1>1, <2>1, <3>1, <3>2 DEF IsState
  <2>2. CASE ~(rest > PartMax)
    <3>1. IsState(v.h, h.sock_status, NoFile, 0, 0)
      BY <1>5, <2>2
    <3>2. new = [v.h EXCEPT !.sock_status = "RES_DONE"]
      BY <3>1 DEF IsState
    <3> HIDE DEF new
    <3> QED
      BY <2>2, <3>1, <3>2 DEF IsState, HttpStates
  <2> QED
    BY <2>1, <2>2
<1> HIDE DEF new
<1>11. sock'[s] = v.k /\ http'[s] = new
  BY <1>1 DEF PageInv, ServerTyped
<1>12. FileOk(s)' /\ Unsent(s)'
  <2>1. rest > PartMax => InProgress(new)
    <3> HIDE DEF h
    <3> QED
      BY <1>7, <1>10 DEF InProgress
  <2>2. IF new.sock_status = "RES_INPROC" THEN InProgress(new)
        ELSE new.sock_status = "RES_DONE" /\ new.file_len = 0
    BY <1>10, <2>1
  <2> QED
    BY <1>2, <1>9, <1>11, <2>2 DEF FileOk, Unsent
<1>13. Linked(v.k, new, FALSE)
  <2> SUFFICES ASSUME k.asked.method = "GET", k.asked.uri \in Pages
               PROVE  Linked(v.k, new, FALSE)
    BY <1>9 DEF Linked
  <2> DEFINE p == k.asked.uri
             seq == k.sent
  <2>1. /\ Len(seq) > 0 /\ PageFollows(seq, p) /\ SentTo(seq) \in Nat
        /\ h.file_start = p /\ h.file_len = content_len[p] /\ h.file_offset = SentTo(seq)
    BY <1>1, <1>7, Served DEF SockOk, Linked
  <2>2. v.k.sent = Append(seq, Part(p, SentTo(seq), n))
    BY <1>9, <2>1 DEF e
  <2>3. p \in Pages /\ seq \in Seq(Sent) /\ SentTo(seq) + n <= content_len[p]
    BY <1>3, <1>7, <2>1
  <2> HIDE DEF p, seq, n
  <2>4. /\ PageFollows(v.k.sent, p) /\ Len(v.k.sent) > 0
        /\ SentTo(v.k.sent) = SentTo(seq) + n
    BY <1>5, <2>1, <2>2, <2>3, FollowsOn
  <2>5. IF rest > PartMax
        THEN new.file_start = p /\ new.file_len = content_len[p]
             /\ new.file_offset = SentTo(v.k.sent) /\ new.file_len > 0
        ELSE new.file_len = 0 /\ SentTo(v.k.sent) = content_len[p]
             /\ new.sock_status = "RES_DONE"
    BY <1>7, <1>10, <2>1, <2>4
  <2>6. SentTo(v.k.sent) \in Nat
    BY <1>7, <2>1, <2>4
  <2>7. v.k.asked.uri = p /\ v.k.SR = "ESTABLISHED"
    BY <1>9 DEF p
  <2> HIDE DEF k, h
  <2> QED
    BY <2>4, <2>5, <2>6, <2>7 DEF Linked
<1>14. SockOk(s)'
  BY <1>2, <1>11, <1>12, <1>13 DEF SockOk, Linked
<1>15. \A t \in Seqnums : t # s => (Draining(t)' <=> Draining(t))
  BY <1>1, <1>2 DEF Draining
<1>16. SetKept'
  BY <1>2 DEF SetKept
<1>17. main.pc = "reset" => main'.pc = "reset"
  BY <1>1
<1> QED
  BY <1>1, <1>2, <1>9, <1>10, <1>14, <1>15, <1>16, <1>17, OneSocket

(* The page is complete: the server hangs up.                              *)
LEMMA ResDoneStep == ASSUME PageInv, NEW s \in Seqnums, RunResDone(s) PROVE PageInv'
<1> DEFINE k == [sock[s] EXCEPT !.SR = "FIN_WAIT"]
<1>1. /\ main.pc = "run" /\ sock[s].SR = "ESTABLISHED" /\ http[s].sock_status = "RES_DONE"
      /\ http' = [http EXCEPT ![s] = Reset] /\ Done
      /\ sock' = [sock EXCEPT ![s] = k]
  BY DEF RunResDone, Serving, PageInv, ServerTyped
<1>2. main' \in Mains /\ main'.pc = "run" /\ ~Draining(s) /\ ~Draining(s)'
  BY <1>1, DoneTyped DEF Draining
<1>3. /\ k \in Socks /\ k.SR = "FIN_WAIT" /\ k.asked = sock[s].asked /\ k.sent = sock[s].sent
  BY Served DEF Socks
<1> HIDE DEF k
<1>4. Reset \in HttpStates /\ Reset.sock_status = "IDLE" /\ Reset.file_len = 0
  BY DEF Reset, HttpStates
<1>5. sock'[s] = k /\ http'[s] = Reset
  BY <1>1 DEF PageInv, ServerTyped
<1>6. http[s].file_len = 0
  BY <1>1, <1>2, Served DEF SockOk, FileOk
<1>7. FileOk(s)' /\ Unsent(s)'
  BY <1>2, <1>3, <1>4, <1>5 DEF FileOk, Unsent
<1>8. Linked(sock'[s], http'[s], Draining(s)')
  BY <1>1, <1>3, <1>5, <1>6, Served DEF SockOk, Linked
<1>9. SockOk(s)'
  BY <1>7, <1>8 DEF SockOk
<1>10. \A t \in Seqnums : t # s => (Draining(t)' <=> Draining(t))
  BY <1>1, <1>2 DEF Draining
<1>11. SetKept' /\ (main.pc = "reset" => main'.pc = "reset")
  BY <1>1, <1>2 DEF SetKept
<1> QED
  BY <1>1, <1>2, <1>3, <1>4, <1>9, <1>10, <1>11, OneSocket

(* A socket is opened or closed, or keeps what it was asked and sent.      *)
KeepsPage(k, old) ==
  \/ k = Closed
  \/ /\ k.asked = old.asked /\ k.sent = old.sent
     /\ \/ k.SR = old.SR
        \/ k.SR = "CLOSE_WAIT" /\ old.SR = "ESTABLISHED"
        \/ k.SR = "ESTABLISHED" /\ old.SR = "LISTEN"
        \/ k.SR = "INIT" /\ old.SR = "CLOSED"
        \/ k.SR = "LISTEN" /\ old.SR = "INIT"

(* The main loop stands still or goes on to the next socket.               *)
StaysOrGoesOn == main' = main \/ (Done /\ main.pc = "run")

LEMMA SocketMoves ==
  ASSUME PageInv, NEW s \in Seqnums, NEW k \in Socks,
         sock' = [sock EXCEPT ![s] = k], http' = http,
         StaysOrGoesOn, KeepsPage(k, sock[s])
  PROVE  PageInv'
<1>1. main' \in Mains /\ (main' = main \/ (main.pc = "run" /\ main'.pc = "run"))
  BY DoneTyped, Served DEF StaysOrGoesOn
<1>2. \A t \in Seqnums : Draining(t)' <=> Draining(t)
  BY <1>1 DEF Draining
<1>3. sock'[s] = k /\ http'[s] = http[s]
  BY DEF PageInv, ServerTyped
<1>4. FileOk(s)'
  BY <1>2, <1>3, Served DEF SockOk, FileOk
<1>5. Closed.SR = "CLOSED" /\ Closed.sent = <<>> /\ Closed.asked.method = "none"
  BY DEF Closed, Nothing
<1>6. Linked(sock'[s], http'[s], Draining(s)')
  BY <1>2, <1>3, <1>5, Served DEF SockOk, Linked, KeepsPage
<1>7. Unsent(s)'
  BY <1>1, <1>2, <1>3, <1>5, Served DEF SockOk, Unsent, KeepsPage
<1>8. SockOk(s)'
  BY <1>4, <1>6, <1>7 DEF SockOk
<1>9. SetKept'
  <2> SUFFICES ASSUME main'.pc = "set" PROVE sock'[main'.seqnum].asked.method \in {"SET", "none"}
    BY DEF SetKept
  <2>1. main' = main /\ main.pc = "set"
    BY <1>1
  <2>2. sock[main.seqnum].asked.method \in {"SET", "none"} /\ main.seqnum \in Seqnums
    BY <2>1 DEF PageInv, SetKept, ServerTyped, Mains
  <2> QED
    BY <1>3, <1>5, <2>1, <2>2 DEF PageInv, ServerTyped, KeepsPage
<1> DEFINE h == http[s]
<1>10. http' = [http EXCEPT ![s] = h] /\ h \in HttpStates
  BY Served DEF PageInv, ServerTyped
<1>11. main.pc = "reset" => main'.pc = "reset"
  BY <1>1
<1>12. main' \in Mains /\ \A t \in Seqnums : t # s => (Draining(t)' <=> Draining(t))
  BY <1>1, <1>2
<1> HIDE DEF h
<1> QED
  BY <1>8, <1>9, <1>10, <1>11, <1>12, OneSocket

(* What the clients and the chip do, and the calls of httpServer_run that  *)
(* only open or close a socket or find nothing to do.                      *)
Openings(s) ==
  \/ RunCloseWait(s) \/ RunOpen(s) \/ RunNothing(s)
  \/ Connect(s) \/ Acknowledge(s) \/ Finish(s) \/ Gone(s)
  \/ \E req \in Requests : Ask(s, req)

LEMMA OpeningStep ==
  ASSUME PageInv, NEW s \in Seqnums, Openings(s)
  PROVE  PageInv'
<1>1. Closed \in Socks
  BY DEF Closed, Socks
<1>2. /\ sock[s] \in Socks /\ sock \in [Seqnums -> Socks]
  BY Served DEF PageInv, ServerTyped
<1>3. CASE RunCloseWait(s) \/ Gone(s)
  <2>1. sock' = [sock EXCEPT ![s] = Closed] /\ http' = http
        /\ StaysOrGoesOn
    BY <1>3 DEF RunCloseWait, Gone, Serving, StaysOrGoesOn
  <2> QED
    BY <1>1, <2>1, SocketMoves DEF KeepsPage
<1>4. CASE RunOpen(s)
  <2> DEFINE k == [sock[s] EXCEPT !.SR = IF @ = "CLOSED" THEN "INIT" ELSE "LISTEN"]
  <2>1. /\ sock' = [sock EXCEPT ![s] = k] /\ http' = http /\ StaysOrGoesOn
        /\ sock[s].SR \in {"CLOSED", "INIT"}
    BY <1>2, <1>4 DEF RunOpen, Serving, StaysOrGoesOn
  <2>2. /\ k \in Socks /\ k.asked = sock[s].asked /\ k.sent = sock[s].sent
        /\ k.SR = IF sock[s].SR = "CLOSED" THEN "INIT" ELSE "LISTEN"
    BY <1>2 DEF Socks
  <2> HIDE DEF k
  <2> QED
    BY <2>1, <2>2, SocketMoves DEF KeepsPage
<1>5. CASE RunNothing(s)
  <2>1. sock' = [sock EXCEPT ![s] = sock[s]] /\ http' = http /\ StaysOrGoesOn
    BY <1>2, <1>5 DEF RunNothing, Serving, StaysOrGoesOn
  <2> QED
    BY <1>2, <2>1, SocketMoves DEF KeepsPage
<1>6. CASE Connect(s) \/ Finish(s)
  <2> DEFINE to == IF Connect(s) THEN "ESTABLISHED" ELSE "CLOSE_WAIT"
             k == [sock[s] EXCEPT !.SR = to]
  <2>1. /\ sock' = [sock EXCEPT ![s] = k] /\ http' = http /\ StaysOrGoesOn
        /\ sock[s].SR = IF Connect(s) THEN "LISTEN" ELSE "ESTABLISHED"
    BY <1>2, <1>6 DEF Connect, Finish, StaysOrGoesOn
  <2>2. k \in Socks /\ k.asked = sock[s].asked /\ k.sent = sock[s].sent /\ k.SR = to
    BY <1>2 DEF Socks
  <2> HIDE DEF k
  <2> QED
    BY <2>1, <2>2, SocketMoves DEF KeepsPage
<1>7. CASE Acknowledge(s)
  <2> DEFINE k == [sock[s] EXCEPT !.tx = FALSE]
  <2>1. sock' = [sock EXCEPT ![s] = k] /\ http' = http /\ StaysOrGoesOn
    BY <1>2, <1>7 DEF Acknowledge, StaysOrGoesOn
  <2>2. k \in Socks /\ k.asked = sock[s].asked /\ k.sent = sock[s].sent /\ k.SR = sock[s].SR
    BY <1>2 DEF Socks
  <2> HIDE DEF k
  <2> QED
    BY <2>1, <2>2, SocketMoves DEF KeepsPage
<1>8. CASE \E req \in Requests : Ask(s, req)
  <2>1. PICK req \in Requests : Ask(s, req)
    BY <1>8
  <2> DEFINE k == [sock[s] EXCEPT !.rx = req]
  <2>2. sock' = [sock EXCEPT ![s] = k] /\ http' = http /\ StaysOrGoesOn
    BY <1>2, <2>1 DEF Ask, StaysOrGoesOn
  <2>3. k \in Socks /\ k.asked = sock[s].asked /\ k.sent = sock[s].sent /\ k.SR = sock[s].SR
    BY <1>2 DEF Socks
  <2> HIDE DEF k
  <2> QED
    BY <2>2, <2>3, SocketMoves DEF KeepsPage
<1> QED
  BY <1>3, <1>4, <1>5, <1>6, <1>7, <1>8 DEF Openings

(* set_devinfo.cgi: the request is taken, and the socket waits.            *)
LEMMA DevinfoStep == ASSUME PageInv, NEW s \in Seqnums, RunSet(s) PROVE PageInv'
<1> DEFINE k == [sock[s] EXCEPT !.rx = Nothing, !.asked = sock[s].rx]
<1>1. /\ main.pc = "run" /\ sock[s].SR = "ESTABLISHED" /\ main.seqnum = s
      /\ http[s].sock_status = "IDLE" /\ sock[s].rx.method = "SET"
      /\ sock' = [sock EXCEPT ![s] = k] /\ http' = http
      /\ main' = [main EXCEPT !.pc = "set", !.val = DOMAIN sock[s].rx.param # {}]
  BY DEF RunSet, Serving, PageInv, ServerTyped
<1>2. /\ main' \in Mains /\ main'.pc = "set" /\ main'.seqnum = s
      /\ \A t \in Seqnums : ~Draining(t) /\ ~Draining(t)'
  BY <1>1, Served DEF Mains, Draining
<1>3. /\ k \in Socks /\ k.SR = "ESTABLISHED" /\ k.asked.method = "SET"
      /\ k.sent = sock[s].sent
  BY <1>1, Served DEF Socks
<1> HIDE DEF k
<1>4. sock'[s] = k /\ http'[s] = http[s]
  BY <1>1 DEF PageInv, ServerTyped
<1>5. FileOk(s)' /\ Linked(sock'[s], http'[s], Draining(s)') /\ Unsent(s)'
  BY <1>1, <1>2, <1>3, <1>4, Served DEF SockOk, FileOk, Linked, Unsent
<1>6. SockOk(s)'
  BY <1>5 DEF SockOk
<1>7. SetKept'
  BY <1>2, <1>3, <1>4 DEF SetKept
<1>8. http' = [http EXCEPT ![s] = http[s]] /\ http[s] \in HttpStates
  BY <1>1, Served DEF PageInv, ServerTyped
<1>9. \A t \in Seqnums : t # s => (Draining(t)' <=> Draining(t))
  BY <1>2
<1>10. main.pc = "reset" => main'.pc = "reset"
  BY <1>1
<1> QED
  BY <1>1, <1>2, <1>3, <1>6, <1>7, <1>8, <1>9, <1>10, OneSocket

(* The answer of set_devinfo.cgi: the last before the restart.             *)
LEMMA SetAnswerStep == ASSUME PageInv, NEW s \in Seqnums, RunSetAnswer(s) PROVE PageInv'
<1>0. PICK free \in BOOLEAN : sock' = [sock EXCEPT ![s] = send(@, Status("cgi"), free)]
  BY DEF RunSetAnswer
<1> DEFINE k == send(sock[s], Status("cgi"), free)
<1>1. /\ main.pc = "set" /\ main.seqnum = s
      /\ sock' = [sock EXCEPT ![s] = k] /\ http' = http
      /\ main' = [main EXCEPT !.pc = "reset"]
  BY <1>0 DEF RunSetAnswer, PageInv, ServerTyped
<1>2. /\ main' \in Mains /\ main'.pc = "reset"
      /\ \A t \in Seqnums : ~Draining(t) /\ ~Draining(t)'
  BY <1>1, Served DEF Mains, Draining
<1>3. /\ k \in Socks /\ k.SR = sock[s].SR /\ k.asked = sock[s].asked
      /\ k.sent = IF sock[s].SR \in {"ESTABLISHED", "CLOSE_WAIT"}
                  THEN Append(sock[s].sent, Status("cgi")) ELSE sock[s].sent
  <2>1. Status("cgi") \in Sent
    BY DEF Status, Sent
  <2> QED
    BY <2>1, Served, SendTyped
<1> HIDE DEF k
<1>4. sock'[s] = k /\ http'[s] = http[s] /\ k.asked.method \in {"SET", "none"}
  BY <1>1, <1>3 DEF PageInv, ServerTyped, SetKept
<1>5. FileOk(s)'
  BY <1>2, <1>4, Served DEF SockOk, FileOk
<1>6. Linked(sock'[s], http'[s], Draining(s)')
  BY <1>4 DEF Linked
<1>7. Unsent(s)'
  BY <1>2, <1>3, <1>4, Served DEF SockOk, Unsent
<1>8. SockOk(s)' /\ SetKept'
  BY <1>2, <1>5, <1>6, <1>7 DEF SockOk, SetKept
<1>9. http' = [http EXCEPT ![s] = http[s]] /\ http[s] \in HttpStates
  BY <1>1, Served DEF PageInv, ServerTyped
<1>10. \A t \in Seqnums : t # s => (Draining(t)' <=> Draining(t))
  BY <1>2
<1>11. main.pc = "reset" => main'.pc = "reset"
  BY <1>1
<1> QED
  BY <1>1, <1>2, <1>3, <1>8, <1>9, <1>10, <1>11, OneSocket

(* After a restart or a power failure all sockets are closed and no page   *)
(* is in progress.                                                         *)
AtRest ==
  /\ sock = [s \in Seqnums |-> Closed]
  /\ http = [s \in Seqnums |-> Reset]
  /\ main = AtBoot

LEMMA AllClosed == AtRest => PageInv
<1> SUFFICES ASSUME AtRest PROVE PageInv
  OBVIOUS
<1> USE DEF AtRest
<1>1. Closed \in Socks /\ Reset \in HttpStates
  BY DEF Closed, Socks, Reset, HttpStates
<1>2. AtBoot \in Mains /\ AtBoot.pc = "boot"
  BY HttpAssumption DEF AtBoot, Mains, Seqnums
<1>3. ServerTyped /\ SetKept
  BY <1>1, <1>2 DEF ServerTyped, SetKept
<1>4. ASSUME NEW s \in Seqnums PROVE SockOk(s)
  <2>1. /\ Closed.SR = "CLOSED" /\ Closed.sent = <<>> /\ Closed.asked.method = "none"
        /\ Reset.sock_status = "IDLE" /\ ~Draining(s)
    BY <1>2 DEF Closed, Nothing, Reset, Draining
  <2>2. FileOk(s) /\ Unsent(s)
    BY <1>4, <2>1 DEF FileOk, Unsent
  <2>3. Linked(sock[s], http[s], Draining(s))
    BY <1>4, <2>1 DEF Linked
  <2> QED
    BY <2>2, <2>3 DEF SockOk
<1> QED
  BY <1>3, <1>4 DEF PageInv

(* The main loop before it serves; nothing happens to the sockets.         *)
LEMMA BootPageStep ==
  ASSUME PageInv, sock' = sock, http' = http,
         main' = main \/ Boot \/ StartServer
  PROVE  PageInv'
<1>1. /\ main' \in Mains
      /\ main'.pc = "set" => main' = main
      /\ main.pc = "reset" => main' = main
      /\ \A t \in Seqnums : Draining(t)' <=> Draining(t)
  BY DEF PageInv, ServerTyped, Mains, Boot, StartServer, Draining
<1>2. ServerTyped' /\ SetKept'
  <2>1. ServerTyped'
    BY <1>1 DEF PageInv, ServerTyped
  <2>2. SetKept'
    BY <1>1 DEF PageInv, SetKept
  <2> QED
    BY <2>1, <2>2
<1>3. ASSUME NEW s \in Seqnums PROVE SockOk(s)'
  <2>1. SockOk(s) /\ sock'[s] = sock[s] /\ http'[s] = http[s]
    BY <1>3 DEF PageInv
  <2>2. FileOk(s)'
    BY <1>1, <1>3, <2>1 DEF SockOk, FileOk
  <2>3. Linked(sock'[s], http'[s], Draining(s)')
    BY <1>1, <1>3, <2>1 DEF SockOk, Linked
  <2>4. Unsent(s)'
    BY <1>1, <1>3, <2>1 DEF SockOk, Unsent
  <2> QED
    BY <2>2, <2>3, <2>4 DEF SockOk
<1> QED
  BY <1>2, <1>3 DEF PageInv

LEMMA PageStepInv == PageInv /\ [Next]_vars => PageInv'
<1> SUFFICES ASSUME PageInv, [Next]_vars PROVE PageInv'
  OBVIOUS
<1>1. CASE \E s \in Seqnums : Run(s)
  <2>1. PICK s \in Seqnums : Run(s)
    BY <1>1
  <2> QED
    BY <2>1, IdleStep, DrainedStep, DevinfoStep, SetAnswerStep, InprocStep, ResDoneStep,
       OpeningStep DEF Run, Openings
<1>2. CASE \E s \in Seqnums :
             \/ Connect(s) \/ Acknowledge(s) \/ Finish(s) \/ Gone(s)
             \/ \E req \in Requests : Ask(s, req)
  <2>1. PICK s \in Seqnums : Openings(s)
    BY <1>2 DEF Openings
  <2> QED
    BY <2>1, OpeningStep
<1>3. CASE Boot \/ StartServer \/ FlashStep \/ UNCHANGED vars
  BY <1>3, BootPageStep DEF Boot, StartServer, FlashStep, vars
<1>4. CASE RunReset \/ PowerFail
  <2>1. AtRest'
    BY <1>4 DEF RunReset, PowerFail, Restart, AtRest
  <2> QED
    BY <2>1, AllClosed, PTL
<1> QED
  BY <1>1, <1>2, <1>3, <1>4 DEF Next, Main, Environment

LEMMA PagesAlways == Spec => []PageInv
<1>1. Init => PageInv
  BY AllClosed DEF Init, AtRest
<1> QED
  BY <1>1, PageStepInv, PTL DEF Spec

(* The page in progress of a socket is never mixed with another one: an    *)
(* idle socket has none, and while one is sent the offset is inside it.    *)
(* (http_process_handler, send_http_response_body, http_disconnect)        *)
THEOREM FileStateKept == Spec => []FileStateSound
<1>1. PageInv => FileStateSound
  BY DEF PageInv, SockOk, FileOk, FileStateSound
<1> QED
  BY <1>1, PagesAlways, PTL

-----------------------------------------------------------------------------
(* What the chip may refuse: neither the first call of a connection, for   *)
(* nothing was sent before, nor the third for a page, for the second has   *)
(* drained when the page goes on.                                          *)
BusyOk(s) ==
  LET k == sock[s]
  IN /\ k.busy \subseteq 2..Len(k.sent)
     /\ k.sent = <<>> => ~k.tx
     /\ k.asked.method = "GET" /\ k.asked.uri \in Pages =>
          /\ 3 \notin k.busy
          /\ http[s].sock_status = "RES_INPROC" /\ ~Draining(s) /\ Len(k.sent) = 2 => ~k.tx

BusyInv == \A s \in Seqnums : BusyOk(s)

(* The header finds the chip idle; the first part may come too soon.       *)
LEMMA FirstTwo ==
  ASSUME NEW k, IsSock(k), k.SR = "ESTABLISHED", k.sent = <<>>, ~k.tx, k.busy = {},
         NEW a, NEW b, NEW free
  PROVE  /\ Len(send(k, a, free).sent) = 1 /\ send(k, a, free).busy = {}
         /\ Len(send(send(k, a, free), b, free).sent) = 2
         /\ send(send(k, a, free), b, free).busy \subseteq {2}
<1> DEFINE S == {a, b}
           k1 == send(k, a, free)
           k2 == send(k1, b, free)
<1>1. <<>> \in Seq(S) /\ a \in S /\ b \in S /\ Len(<<>>) = 0
  OBVIOUS
<1> HIDE DEF S
<1>2. Append(<<>>, a) \in Seq(S) /\ Len(Append(<<>>, a)) = 1
  BY <1>1
<1>3. /\ IsSock(k1) /\ k1.SR = "ESTABLISHED" /\ k1.sent = Append(<<>>, a) /\ k1.busy = {}
  <2>1. k1 = [k EXCEPT !.sent = Append(@, a), !.tx = TRUE, !.busy = k.busy]
    BY DEF send
  <2> HIDE DEF k1
  <2> QED
    BY <2>1 DEF IsSock
<1> HIDE DEF k1
<1>4. k1.sent \in Seq(S) /\ Len(k1.sent) = 1
  BY <1>2, <1>3
<1>5. Len(Append(k1.sent, b)) = 2 /\ Len(k1.sent) + 1 = 2
  <2>1. ASSUME NEW T, NEW seq \in Seq(T), NEW e \in T
        PROVE  Len(Append(seq, e)) = Len(seq) + 1
    OBVIOUS
  <2>2. Len(Append(k1.sent, b)) = Len(k1.sent) + 1
    BY <1>1, <1>4, <2>1
  <2> QED
    BY <1>4, <2>2
<1>6. k2.sent = Append(k1.sent, b) /\ k2.busy \subseteq {2}
  <2>1. k2 = [k1 EXCEPT !.sent = Append(@, b), !.tx = TRUE,
                        !.busy = IF k1.tx /\ ~free THEN @ \cup {2} ELSE @]
    BY <1>3, <1>5 DEF send
  <2> HIDE DEF k2
  <2> QED
    BY <1>3, <2>1 DEF IsSock
<1> QED
  BY <1>3, <1>4, <1>5, <1>6 DEF k1, k2

\* So it is with the whole answer to a request.
LEMMA HandlerBusy ==
  ASSUME NEW h, NEW k, IsSock(k), k.SR = "ESTABLISHED", k.sent = <<>>, ~k.tx, k.busy = {},
         NEW req \in Requests, req.method # "SET", NEW free
  PROVE  LET v == http_process_handler([h |-> h, k |-> k], req, free)
         IN /\ v.k.busy \subseteq {2} /\ v.k.busy \subseteq 2..Len(v.k.sent)
            /\ v.k.sent # <<>>
<1> DEFINE w == [h |-> h, k |-> k]
           Sent1(text) == [w EXCEPT !.k = send(@, Status(text), free)]
<1>0. Len(<<>>) = 0
  OBVIOUS
<1>1. \A text : Sent1(text).k = send(k, Status(text), free)
  OBVIOUS
<1>2. req.method \in {"ERR", "POST_OTHER", "GET_CGI", "GET"}
  BY DEF Requests
<1>3. \/ \E text : http_process_handler(w, req, free) = Sent1(text)
      \/ http_process_handler(w, req, free) =
           send_http_response_body(Sent1("200"), req.uri, content_len[req.uri], free)
  BY <1>2 DEF http_process_handler
<1>4. LET v == send_http_response_body(Sent1("200"), req.uri, content_len[req.uri], free)
      IN v.k = Sent1("200").k \/ \E what : v.k = send(Sent1("200").k, what, free)
  BY DEF send_http_response_body
<1> HIDE DEF Sent1
<1>5. LET v == http_process_handler(w, req, free)
      IN \E a : v.k = send(k, a, free) \/ \E b : v.k = send(send(k, a, free), b, free)
  BY <1>1, <1>3, <1>4
<1> DEFINE x == http_process_handler(w, req, free).k
<1>6. PICK a : x = send(k, a, free) \/ \E b : x = send(send(k, a, free), b, free)
  BY <1>5
<1> HIDE DEF w, x
<1>7. CASE x = send(k, a, free)
  <2>1. Len(x.sent) = 1 /\ x.busy = {}
    BY <1>7, FirstTwo
  <2>2. x.sent # <<>>
    BY <2>1, <1>0
  <2> QED
    BY <2>1, <2>2 DEF x, w
<1>8. CASE \E b : x = send(send(k, a, free), b, free)
  <2>1. PICK b : x = send(send(k, a, free), b, free)
    BY <1>8
  <2>2. Len(x.sent) = 2 /\ x.busy \subseteq {2}
    BY <2>1, FirstTwo
  <2>3. x.sent # <<>>
    BY <2>2, <1>0
  <2> QED
    BY <2>2, <2>3 DEF x, w
<1> QED
  BY <1>6, <1>7, <1>8

(* A step of one socket leaves the others as they were.                    *)
LEMMA OneBusy ==
  ASSUME PageInv, BusyInv, NEW s \in Seqnums, NEW k, NEW h,
         sock' = [sock EXCEPT ![s] = k], http' = [http EXCEPT ![s] = h],
         \A t \in Seqnums : t # s => (Draining(t)' <=> Draining(t)),
         k.busy \subseteq 2..Len(k.sent),
         k.sent = <<>> => ~k.tx,
         k.asked.method = "GET" /\ k.asked.uri \in Pages =>
           /\ 3 \notin k.busy
           /\ h.sock_status = "RES_INPROC" /\ ~Draining(s)' /\ Len(k.sent) = 2 => ~k.tx
  PROVE  BusyInv'
<1>1. sock'[s] = k /\ http'[s] = h
  BY DEF PageInv, ServerTyped
<1>2. BusyOk(s)'
  BY <1>1 DEF BusyOk
<1>3. ASSUME NEW t \in Seqnums, t # s PROVE BusyOk(t)'
  <2>1. sock'[t] = sock[t] /\ http'[t] = http[t] /\ (Draining(t)' <=> Draining(t)) /\ BusyOk(t)
    BY <1>3 DEF PageInv, ServerTyped, BusyInv
  <2> QED
    BY <2>1 DEF BusyOk
<1> QED
  BY <1>2, <1>3 DEF BusyInv

LEMMA BusyIdle == ASSUME PageInv, BusyInv, NEW s \in Seqnums, RunIdle(s) PROVE BusyInv'
<1> DEFINE req == sock[s].rx
           k == [sock[s] EXCEPT !.rx = Nothing, !.asked = req]
<1>0. PICK free \in BOOLEAN :
        LET v == http_process_handler([h |-> http[s], k |-> k], req, free)
        IN http' = [http EXCEPT ![s] = v.h] /\ sock' = [sock EXCEPT ![s] = v.k]
  BY DEF RunIdle
<1> DEFINE v == http_process_handler([h |-> http[s], k |-> k], req, free)
<1>1. /\ main.pc = "run" /\ sock[s].SR = "ESTABLISHED" /\ http[s].sock_status = "IDLE"
      /\ req.method \notin {"none", "SET"}
      /\ http' = [http EXCEPT ![s] = v.h] /\ sock' = [sock EXCEPT ![s] = v.k]
      /\ main' = [main EXCEPT !.pc = "drain"] /\ main.seqnum = s
  BY <1>0 DEF RunIdle, Serving
<1>2. ~Draining(s) /\ sock[s] \in Socks
  BY <1>1, Served DEF Draining
<1>3. sock[s].sent = <<>>
  BY <1>1, <1>2, Served DEF SockOk, Unsent
<1>4. ~sock[s].tx /\ sock[s].busy = {}
  <2>1. sock[s].busy \subseteq 2..Len(sock[s].sent) /\ ~sock[s].tx
    BY <1>3 DEF BusyInv, BusyOk
  <2>2. 2..Len(sock[s].sent) = {}
    BY <1>3
  <2> QED
    BY <2>1, <2>2
<1>5. /\ IsSock(k) /\ k.SR = "ESTABLISHED" /\ k.sent = <<>> /\ ~k.tx /\ k.busy = {}
  BY <1>1, <1>2, <1>3, <1>4 DEF Socks, IsSock
<1>6. req \in Requests /\ req.method # "SET"
  BY <1>1, Served DEF Nothing
<1> HIDE DEF k, req
<1>7. v.k.busy \subseteq {2} /\ v.k.busy \subseteq 2..Len(v.k.sent) /\ v.k.sent # <<>>
  BY <1>5, <1>6, HandlerBusy
<1>8. \A t \in Seqnums : (t # s => (Draining(t)' <=> Draining(t))) /\ Draining(s)'
  BY <1>1, Served DEF Draining, Mains
<1> HIDE DEF v
<1>9. 3 \notin v.k.busy
  BY <1>7
<1> DEFINE kk == v.k
           hh == v.h
<1>10. sock' = [sock EXCEPT ![s] = kk] /\ http' = [http EXCEPT ![s] = hh]
  BY <1>1
<1>11. kk.busy \subseteq 2..Len(kk.sent) /\ kk.sent # <<>> /\ 3 \notin kk.busy
  BY <1>7, <1>9
<1> HIDE DEF kk, hh
<1> QED
  BY <1>8, <1>10, <1>11, OneBusy

\* The second part of a page finds the chip idle; later ones may not.
LEMMA BusyInproc == ASSUME PageInv, BusyInv, NEW s \in Seqnums, RunResInproc(s) PROVE BusyInv'
<1> DEFINE k == sock[s]
           w == [h |-> http[s], k |-> k]
           after(v) == IF v.h.file_len = 0 THEN [v.h EXCEPT !.sock_status = "RES_DONE"] ELSE v.h
<1>0. PICK free \in BOOLEAN :
        LET v == send_http_response_body(w, NoFile, 0, free)
        IN http' = [http EXCEPT ![s] = after(v)] /\ sock' = [sock EXCEPT ![s] = v.k]
  BY DEF RunResInproc
<1> DEFINE v == send_http_response_body(w, NoFile, 0, free)
           hh == after(v)
           kk == v.k
<1>1. /\ main.pc = "run" /\ main.seqnum = s
      /\ k.SR = "ESTABLISHED" /\ http[s].sock_status = "RES_INPROC"
      /\ http' = [http EXCEPT ![s] = hh] /\ sock' = [sock EXCEPT ![s] = kk]
      /\ Done
  BY <1>0 DEF RunResInproc, Serving
<1>2. \A t \in Seqnums : ~Draining(t) /\ ~Draining(t)'
  BY <1>1, DoneTyped DEF Draining
<1>3. k \in Socks /\ http[s] \in HttpStates /\ k.sent \in Seq(Sent) /\ InProgress(http[s])
  BY <1>1, <1>2, Served DEF SockOk, FileOk
<1>4. kk = k \/ \E what : kk = send(k, what, free)
  BY DEF send_http_response_body
<1>5. BusyOk(s) /\ SockOk(s)
  BY Served DEF BusyInv
<1>6. /\ kk.asked = k.asked
      /\ \/ kk.sent = k.sent /\ kk.tx = k.tx /\ kk.busy = k.busy
         \/ /\ \E what : kk.sent = Append(k.sent, what)
            /\ kk.busy \subseteq k.busy \cup IF k.tx THEN {Len(k.sent) + 1} ELSE {}
  BY <1>3, <1>4 DEF send, Socks
<1> HIDE DEF v, kk, hh
<1>7. kk.sent = k.sent \/ (kk.sent # <<>> /\ Len(kk.sent) = Len(k.sent) + 1)
  BY <1>3, <1>6
<1> DEFINE n == Len(k.sent)
<1>8. n \in Nat /\ (n = 0 => k.sent = <<>>) /\ k.busy \subseteq 2..n
  BY <1>3, <1>5 DEF BusyOk
<1>9. k.asked.method = "GET" /\ k.asked.uri \in Pages =>
        n >= 2 /\ 3 \notin k.busy /\ (n = 2 => ~k.tx)
  <2> SUFFICES ASSUME k.asked.method = "GET", k.asked.uri \in Pages
               PROVE  n >= 2 /\ 3 \notin k.busy /\ (n = 2 => ~k.tx)
    OBVIOUS
  <2>1. n > 0 /\ (http[s].file_len > 0 => http[s].file_offset = SentTo(k.sent))
    BY <1>1, <1>5 DEF SockOk, Linked
  <2>2. http[s].file_len > 0 /\ http[s].file_offset > 0
    BY <1>3 DEF InProgress, HttpStates
  <2>3. n # 1
    BY <2>1, <2>2 DEF SentTo
  <2>4. 3 \notin k.busy /\ (n = 2 => ~k.tx)
    BY <1>1, <1>2, <1>5 DEF BusyOk
  <2> HIDE DEF n
  <2> QED
    BY <1>8, <2>1, <2>3, <2>4
<1>10. n = 0 => ~k.tx
  BY <1>5, <1>8 DEF BusyOk
<1>11. CASE kk.sent = k.sent /\ kk.tx = k.tx /\ kk.busy = k.busy
  <2>1. /\ kk.busy \subseteq 2..Len(kk.sent) /\ (kk.sent = <<>> => ~kk.tx)
    BY <1>5, <1>11 DEF BusyOk
  <2>2. kk.asked.method = "GET" /\ kk.asked.uri \in Pages =>
          3 \notin kk.busy /\ (Len(kk.sent) = 2 => ~kk.tx)
    BY <1>6, <1>9, <1>11
  <2> HIDE DEF k, n
  <2> QED
    BY <1>1, <1>2, <2>1, <2>2, OneBusy
<1>12. CASE /\ \E what : kk.sent = Append(k.sent, what)
            /\ kk.busy \subseteq k.busy \cup IF k.tx THEN {Len(k.sent) + 1} ELSE {}
  <2>1. Len(kk.sent) = n + 1 /\ kk.sent # <<>>
    BY <1>3, <1>12
  <2>2. kk.busy \subseteq k.busy \cup IF k.tx THEN {n + 1} ELSE {}
    BY <1>12
  <2> HIDE DEF n
  <2>3. kk.busy \subseteq 2..(n + 1)
    BY <1>8, <1>10, <2>2
  <2>4. kk.asked.method = "GET" /\ kk.asked.uri \in Pages =>
          3 \notin kk.busy /\ n + 1 # 2
    BY <1>6, <1>8, <1>9, <2>2
  <2> HIDE DEF k
  <2> QED
    BY <1>1, <1>2, <2>1, <2>3, <2>4, OneBusy
<1> QED
  BY <1>6, <1>11, <1>12

\* The answer of set_devinfo.cgi is not about a page.
LEMMA BusySetAnswer == ASSUME PageInv, BusyInv, NEW s \in Seqnums, RunSetAnswer(s) PROVE BusyInv'
<1>0. PICK free \in BOOLEAN : sock' = [sock EXCEPT ![s] = send(@, Status("cgi"), free)]
  BY DEF RunSetAnswer
<1> DEFINE k == send(sock[s], Status("cgi"), free)
           h == http[s]
<1>1. /\ main.pc = "set" /\ main.seqnum = s
      /\ sock' = [sock EXCEPT ![s] = k] /\ http' = [http EXCEPT ![s] = h]
      /\ main' = [main EXCEPT !.pc = "reset"]
  BY <1>0 DEF RunSetAnswer, PageInv, ServerTyped
<1>2. \A t \in Seqnums : ~Draining(t) /\ ~Draining(t)'
  BY <1>1, Served DEF Mains, Draining
<1>3. sock[s] \in Socks /\ sock[s].sent \in Seq(Sent) /\ BusyOk(s)
      /\ sock[s].asked.method \in {"SET", "none"}
  BY <1>1, Served DEF BusyInv, PageInv, SetKept
<1>4. Status("cgi") \in Sent
  BY DEF Status, Sent
<1>5. /\ k.asked = sock[s].asked
      /\ \/ k = sock[s]
         \/ /\ k.sent = Append(sock[s].sent, Status("cgi"))
            /\ k.busy \subseteq sock[s].busy \cup IF sock[s].tx THEN {Len(sock[s].sent) + 1} ELSE {}
  BY <1>3, <1>4 DEF send, Socks
<1> HIDE DEF k
<1> DEFINE n == Len(sock[s].sent)
<1>6. /\ n \in Nat /\ sock[s].busy \subseteq 2..n /\ (n = 0 => ~sock[s].tx)
      /\ sock[s].sent = <<>> => ~sock[s].tx
  BY <1>3 DEF BusyOk
<1>7. k.busy \subseteq 2..Len(k.sent) /\ (k.sent = <<>> => ~k.tx)
  <2>1. CASE k = sock[s]
    BY <1>6, <2>1
  <2>2. CASE k # sock[s]
    <3>1. Len(k.sent) = n + 1 /\ k.sent # <<>>
      BY <1>3, <1>5, <2>2
    <3>2. k.busy \subseteq sock[s].busy \cup IF sock[s].tx THEN {n + 1} ELSE {}
      BY <1>5, <2>2
    <3> HIDE DEF n
    <3> QED
      BY <1>6, <3>1, <3>2
  <2> QED
    BY <2>1, <2>2
<1>8. k.asked.method # "GET"
  BY <1>3, <1>5
<1> HIDE DEF h
<1> QED
  BY <1>1, <1>2, <1>7, <1>8, OneBusy

\* Every other step sends nothing.
LEMMA BusyOthers ==
  ASSUME PageInv, BusyInv, NEW s \in Seqnums,
         RunDrained(s) \/ RunSet(s) \/ RunResDone(s) \/ Openings(s)
  PROVE  BusyInv'
<1>1. /\ sock[s] \in Socks /\ http[s] \in HttpStates /\ BusyOk(s)
      /\ sock \in [Seqnums -> Socks] /\ http \in [Seqnums -> HttpStates] /\ main \in Mains
  BY Served DEF BusyInv, PageInv, ServerTyped
<1>2. CASE RunDrained(s)
  <2> DEFINE h == [http[s] EXCEPT !.sock_status =
                     IF http[s].file_len > 0 THEN "RES_INPROC" ELSE "RES_DONE"]
             k == sock[s]
  <2>1. /\ http' = [http EXCEPT ![s] = h] /\ sock' = [sock EXCEPT ![s] = k] /\ ~k.tx
        /\ main.pc = "drain" /\ main.seqnum = s /\ Done
    BY <1>1, <1>2 DEF RunDrained
  <2>2. \A t \in Seqnums : t # s => (Draining(t)' <=> Draining(t))
    BY <2>1, DoneTyped DEF Draining
  <2>3. /\ k.busy \subseteq 2..Len(k.sent)
        /\ k.asked.method = "GET" /\ k.asked.uri \in Pages => 3 \notin k.busy
    BY <1>1 DEF BusyOk
  <2> HIDE DEF h, k
  <2> QED
    BY <2>1, <2>2, <2>3, OneBusy
<1>3. CASE RunSet(s)
  <2> DEFINE h == http[s]
             k == [sock[s] EXCEPT !.rx = Nothing, !.asked = sock[s].rx]
  <2>1. /\ http' = [http EXCEPT ![s] = h] /\ sock' = [sock EXCEPT ![s] = k]
        /\ main.pc = "run" /\ sock[s].rx.method = "SET"
        /\ main' = [main EXCEPT !.pc = "set", !.val = DOMAIN sock[s].rx.param # {}]
    BY <1>1, <1>3 DEF RunSet, Serving
  <2>2. \A t \in Seqnums : t # s => (Draining(t)' <=> Draining(t))
    BY <1>1, <2>1 DEF Draining, Mains
  <2>3. k.asked.method = "SET" /\ k.busy = sock[s].busy /\ k.sent = sock[s].sent /\ k.tx = sock[s].tx
    BY <1>1, <2>1 DEF Socks
  <2>4. k.busy \subseteq 2..Len(k.sent) /\ (k.sent = <<>> => ~k.tx)
    BY <1>1, <2>3 DEF BusyOk
  <2> HIDE DEF h, k
  <2> QED
    BY <2>1, <2>2, <2>3, <2>4, OneBusy
<1>4. CASE RunResDone(s)
  <2> DEFINE k == [sock[s] EXCEPT !.SR = "FIN_WAIT"]
             h == Reset
  <2>1. /\ http' = [http EXCEPT ![s] = h] /\ sock' = [sock EXCEPT ![s] = k]
        /\ main.pc = "run" /\ Done
    BY <1>1, <1>4 DEF RunResDone, Serving
  <2>2. \A t \in Seqnums : t # s => (Draining(t)' <=> Draining(t))
    BY <2>1, DoneTyped DEF Draining
  <2>3. /\ k.asked = sock[s].asked /\ k.busy = sock[s].busy /\ k.sent = sock[s].sent
        /\ k.tx = sock[s].tx /\ h.sock_status = "IDLE"
    BY <1>1 DEF Socks, Reset
  <2>4. /\ k.busy \subseteq 2..Len(k.sent) /\ (k.sent = <<>> => ~k.tx)
        /\ k.asked.method = "GET" /\ k.asked.uri \in Pages => 3 \notin k.busy
    BY <1>1, <2>3 DEF BusyOk
  <2> HIDE DEF h, k
  <2> QED
    BY <2>1, <2>2, <2>3, <2>4, OneBusy
<1>5. CASE Openings(s)
  <2> DEFINE h == http[s]
  <2>1. /\ http' = [http EXCEPT ![s] = h]
        /\ main' = main \/ (Done /\ main.pc = "run")
    BY <1>1, <1>5 DEF Openings, RunCloseWait, RunOpen, RunNothing, Connect, Acknowledge,
                     Finish, Gone, Ask, Serving
  <2>2. \A t \in Seqnums : Draining(t)' <=> Draining(t)
    BY <2>1, DoneTyped DEF Draining
  <2>3. \/ sock' = [sock EXCEPT ![s] = Closed]
        \/ \E to : sock' = [sock EXCEPT ![s] = [sock[s] EXCEPT !.SR = to]]
        \/ sock' = [sock EXCEPT ![s] = sock[s]]
        \/ sock' = [sock EXCEPT ![s] = [sock[s] EXCEPT !.tx = FALSE]]
        \/ \E req : sock' = [sock EXCEPT ![s] = [sock[s] EXCEPT !.rx = req]]
    <3>1. CASE RunCloseWait(s) \/ Gone(s)
      BY <3>1 DEF RunCloseWait, Gone
    <3>2. CASE RunOpen(s) \/ Connect(s) \/ Finish(s)
      BY <3>2 DEF RunOpen, Connect, Finish
    <3>3. CASE RunNothing(s)
      BY <1>1, <3>3 DEF RunNothing
    <3>4. CASE Acknowledge(s)
      BY <3>4 DEF Acknowledge
    <3>5. CASE \E req \in Requests : Ask(s, req)
      BY <3>5 DEF Ask
    <3> QED
      BY <1>5, <3>1, <3>2, <3>3, <3>4, <3>5 DEF Openings
  <2>4. ASSUME NEW k, sock' = [sock EXCEPT ![s] = k],
               k = Closed \/ ( /\ k.asked = sock[s].asked /\ k.busy = sock[s].busy
                               /\ k.sent = sock[s].sent /\ (k.tx => sock[s].tx) )
        PROVE  BusyInv'
    <3>1. Closed.busy = {} /\ Closed.asked.method = "none" /\ ~Closed.tx
      BY DEF Closed, Nothing
    <3>2. /\ k.busy \subseteq 2..Len(k.sent) /\ (k.sent = <<>> => ~k.tx)
          /\ k.asked.method = "GET" /\ k.asked.uri \in Pages =>
               /\ 3 \notin k.busy
               /\ h.sock_status = "RES_INPROC" /\ ~Draining(s)' /\ Len(k.sent) = 2 => ~k.tx
      BY <1>1, <2>2, <2>4, <3>1 DEF BusyOk
    <3> HIDE DEF h
    <3> QED
      BY <2>1, <2>2, <2>4, <3>2, OneBusy
  <2>5. \A to : LET k == [sock[s] EXCEPT !.SR = to]
                IN /\ k.asked = sock[s].asked /\ k.busy = sock[s].busy
                   /\ k.sent = sock[s].sent /\ (k.tx => sock[s].tx)
    BY <1>1 DEF Socks
  <2>6. \A req : LET k == [sock[s] EXCEPT !.rx = req]
                 IN /\ k.asked = sock[s].asked /\ k.busy = sock[s].busy
                    /\ k.sent = sock[s].sent /\ (k.tx => sock[s].tx)
    BY <1>1 DEF Socks
  <2>7. LET k == [sock[s] EXCEPT !.tx = FALSE]
        IN /\ k.asked = sock[s].asked /\ k.busy = sock[s].busy
           /\ k.sent = sock[s].sent /\ (k.tx => sock[s].tx)
    BY <1>1 DEF Socks
  <2> QED
    BY <2>3, <2>4, <2>5, <2>6, <2>7
<1> QED
  BY <1>2, <1>3, <1>4, <1>5

LEMMA BusyAtRest == AtRest => BusyInv
BY DEF AtRest, BusyInv, BusyOk, Closed, Nothing

LEMMA BusyStep == PageInv /\ BusyInv /\ [Next]_vars => BusyInv'
<1> SUFFICES ASSUME PageInv, BusyInv, [Next]_vars PROVE BusyInv'
  OBVIOUS
<1>1. CASE \E s \in Seqnums : Run(s)
  <2>1. PICK s \in Seqnums : Run(s)
    BY <1>1
  <2> QED
    BY <2>1, BusyIdle, BusyInproc, BusySetAnswer, BusyOthers DEF Run, Openings
<1>2. CASE \E s \in Seqnums :
             \/ Connect(s) \/ Acknowledge(s) \/ Finish(s) \/ Gone(s)
             \/ \E req \in Requests : Ask(s, req)
  <2>1. PICK s \in Seqnums : Openings(s)
    BY <1>2 DEF Openings
  <2> QED
    BY <2>1, BusyOthers
<1>3. CASE Boot \/ StartServer \/ FlashStep \/ UNCHANGED vars
  <2>1. sock' = sock /\ http' = http /\ \A t \in Seqnums : Draining(t)' <=> Draining(t)
    BY <1>3 DEF Boot, StartServer, FlashStep, vars, Draining, PageInv, ServerTyped, Mains
  <2> QED
    BY <2>1 DEF BusyInv, BusyOk
<1>4. CASE RunReset \/ PowerFail
  <2>1. AtRest'
    BY <1>4 DEF RunReset, PowerFail, Restart, AtRest
  <2> QED
    BY <2>1, BusyAtRest, PTL
<1> QED
  BY <1>1, <1>2, <1>3, <1>4 DEF Next, Main, Environment

LEMMA BusyAlways == Spec => []BusyInv
<1>1. Init => BusyInv
  BY BusyAtRest DEF Init, AtRest
<1> QED
  BY <1>1, PagesAlways, BusyStep, PTL DEF Spec

(* For a client that asked for a page, send() is called with its header    *)
(* and its parts, each once and in order, before the server hangs up, and  *)
(* neither the header nor the second part is refused, whatever the lengths,*)
(* the buffer and the chip (send_http_response_body, httpServer_run).      *)
THEOREM PagesInParts == Spec => []PageInParts
<1>1. PageInv /\ BusyInv => PageInParts
  <2> SUFFICES ASSUME PageInv, BusyInv, NEW s \in Seqnums,
                      sock[s].asked.method = "GET", sock[s].asked.uri \in Pages
               PROVE  /\ PageFollows(sock[s].sent, sock[s].asked.uri)
                      /\ sock[s].busy \cap {1, 3} = {}
                      /\ sock[s].SR = "FIN_WAIT" /\ content_len[sock[s].asked.uri] > 0
                           => End(sock[s].sent[Len(sock[s].sent)]) = content_len[sock[s].asked.uri]
    BY DEF PageInParts
  <2> DEFINE k == sock[s]
             all == content_len[k.asked.uri]
  <2>1. /\ Len(k.sent) > 0 /\ PageFollows(k.sent, k.asked.uri)
        /\ k.SR = "FIN_WAIT" => SentTo(k.sent) = all
    BY Served DEF SockOk, Linked
  <2>2. SentTo(k.sent) > 0 => SentTo(k.sent) = End(k.sent[Len(k.sent)])
    BY DEF SentTo
  <2>3. k.busy \subseteq 2..Len(k.sent) /\ 3 \notin k.busy
    BY DEF BusyInv, BusyOk
  <2> HIDE DEF all
  <2>4. k.SR = "FIN_WAIT" /\ all > 0 => End(k.sent[Len(k.sent)]) = all
    BY <2>1, <2>2
  <2>5. k.busy \cap {1, 3} = {}
    BY <2>3
  <2> QED
    BY <2>1, <2>4, <2>5 DEF all
<1> QED
  BY <1>1, PagesAlways, BusyAlways, PTL
-----------------------------------------------------------------------------
(* Besides ConfigInv: the sizes a sector can come to have, and the bound.  *)
Sizes == {0, Erased, SizeOfDevConfig}
SizeInv ==
  /\ dev_config.size \in Sizes /\ flash.size \in Sizes
  /\ power.fails \in 0..PowerFails

(* A power failure leaves the size of one of two configurations.           *)
LEMMA LeftSize ==
  ASSUME ConfigInv, SizeInv, NEW left \in FlashAfterPowerFail
  PROVE  left.size \in Sizes
<1>1. ASSUME NEW from, IsConfig(from), from.size \in Sizes,
             NEW to, IsConfig(to), to.size \in Sizes, NEW c \in Mixtures(from, to)
      PROVE  c.size \in Sizes
  <2>1. PICK rest \in {from, to, Uniform(Scrap)}, size \in {from.size, to.size} :
          c = [rest EXCEPT !.size = size]
    BY <1>1 DEF Mixtures
  <2>2. IsConfig(rest)
    BY <1>1, FactoryInRange
  <2> QED
    BY <1>1, <2>1, <2>2 DEF IsConfig
<1>2. IsConfig(flash) /\ IsConfig(dev_config) /\ flash.size \in Sizes /\ dev_config.size \in Sizes
  BY DEF ConfigInv, CopyInv, SizeInv
<1>3. IsConfig(Uniform(Erased)) /\ Uniform(Erased).size \in Sizes
  BY FactoryInRange DEF Sizes, Erased
<1>4. CASE store = "erase"
  BY <1>1, <1>2, <1>3, <1>4 DEF FlashAfterPowerFail
<1>5. CASE store = "program"
  BY <1>1, <1>2, <1>5 DEF FlashAfterPowerFail
<1>6. CASE store \notin {"erase", "program"}
  BY <1>2, <1>6 DEF FlashAfterPowerFail
<1> QED
  BY <1>4, <1>5, <1>6

LEMMA SizeStep == ConfigInv /\ SizeInv /\ [Next]_vars => SizeInv'
<1> SUFFICES ASSUME ConfigInv, SizeInv, [Next]_vars PROVE SizeInv'
  OBVIOUS
<1>0. /\ IsConfig(dev_config) /\ IsConfig(flash)
      /\ power \in [fails : Nat, mixed : BOOLEAN] /\ SizeOfDevConfig \in Sizes /\ 0 \in Sizes
  BY DEF ConfigInv, CopyInv, PlaceInv, Sizes
<1>1. CASE UNCHANGED <<dev_config, flash, power>>
  BY <1>1 DEF SizeInv
<1>2. CASE Boot
  <2>1. dev_config' \in {flash, Factory} /\ flash' = flash /\ power'.fails = power.fails
    BY <1>0, <1>2 DEF Boot, load_DevConfig_from_storage
  <2> QED
    BY <1>0, <2>1 DEF SizeInv, Factory
<1>3. CASE FlashStep
  <2>1. dev_config' = dev_config /\ flash' \in {Uniform(Erased), dev_config} /\ power' = power
    BY <1>3 DEF FlashStep, Erase, Program
  <2>2. Uniform(Erased).size \in Sizes
    BY FactoryInRange DEF Sizes, Erased
  <2> QED
    BY <2>1, <2>2 DEF SizeInv
<1>4. CASE \E s \in Seqnums : RunSet(s)
  <2>1. PICK s \in Seqnums : RunSet(s)
    BY <1>4
  <2>2. sock[s].rx.param \in Changes
    <3>1. sock[s].rx \in Requests \cup {Nothing} /\ sock[s].rx.method = "SET"
      BY <2>1 DEF ConfigInv, SocketInv, RunSet
    <3> QED
      BY <3>1 DEF Requests, Nothing
  <2>3. dev_config'.size = dev_config.size /\ flash' = flash /\ power' = power
    BY <1>0, <2>1, <2>2, SetDevinfoInRange DEF RunSet
  <2> QED
    BY <2>3 DEF SizeInv
<1>5. CASE RunReset
  <2>1. dev_config' = Uniform(0) /\ flash' = flash /\ power' = power
    BY <1>5 DEF RunReset
  <2> QED
    BY <1>0, <2>1, FactoryInRange DEF SizeInv
<1>6. CASE PowerFail
  <2>1. PICK left \in FlashAfterPowerFail : LosePower(left)
    BY <1>6 DEF PowerFail
  <2>2. dev_config' = Uniform(0) /\ flash'.size \in Sizes /\ power'.fails = power.fails + 1
        /\ power.fails < PowerFails
    BY <2>1, LeftSize DEF LosePower
  <2> QED
    BY <1>0, <2>2, FactoryInRange, ConfigAssumption DEF SizeInv
<1>7. ASSUME NEW s \in Seqnums, PageStep(s) \/ ClientStep(s) \/ RunSetAnswer(s)
      PROVE  UNCHANGED <<dev_config, flash, power>>
  BY <1>7 DEF PageStep, ClientStep, RunIdle, RunDrained, RunResInproc, RunResDone, RunCloseWait,
              RunOpen, RunNothing, Connect, Acknowledge, Finish, Gone, Ask, RunSetAnswer, cvars
<1>8. CASE StartServer \/ UNCHANGED vars
  <2>1. UNCHANGED <<dev_config, flash, power>>
    BY <1>8 DEF StartServer, vars, cvars
  <2> QED
    BY <1>1, <2>1
<1>9. CASE \E s \in Seqnums : PageStep(s) \/ ClientStep(s) \/ RunSetAnswer(s)
  BY <1>1, <1>7, <1>9
<1> QED
  BY <1>2, <1>3, <1>4, <1>5, <1>6, <1>8, <1>9
     DEF Next, Main, Environment, Run, PageStep, ClientStep

(* Every variable keeps the type of the C object it stands for (TypeOK),   *)
(* after any requests, connections and power failures.                     *)
THEOREM HttpTypeCorrect == Spec => []TypeOK
<1>1. Init => SizeInv
  BY FactoryInRange, ConfigAssumption DEF Init, InitConfig, SizeInv, Sizes, Erased
<1>2. PageInv /\ BusyInv /\ ConfigInv /\ SizeInv => TypeOK
  <2> SUFFICES ASSUME PageInv, BusyInv, ConfigInv, SizeInv PROVE TypeOK
    OBVIOUS
  <2>1. dev_config \in DevConfigs /\ flash \in DevConfigs
    BY DEF ConfigInv, CopyInv, IsConfig, SizeInv, Sizes, DevConfigs
  <2>2. answered \subseteq DevConfigs
    BY <2>1 DEF ConfigInv, CopyInv
  <2>3. /\ store \in {"off", "erase", "program", "ready"}
        /\ power \in [fails : 0..PowerFails, mixed : BOOLEAN]
    BY DEF ConfigInv, PlaceInv, SizeInv
  <2>4. main \in Mains /\ \A s \in Seqnums : sock[s] \in Socks /\ http[s] \in HttpStates
    BY DEF PageInv, ServerTyped
  <2>5. \A s \in Seqnums : sock[s].busy \subseteq 1..Len(sock[s].sent)
    BY DEF BusyInv, BusyOk
  <2> QED
    BY <2>1, <2>2, <2>3, <2>4, <2>5 DEF TypeOK, Socks, HttpStates, Mains
<1> QED
  BY <1>1, <1>2, PagesAlways, BusyAlways, ConfigInit, ConfigStep, SizeStep, PTL DEF Spec
=============================================================================
