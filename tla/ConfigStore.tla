---------------------------- MODULE ConfigStore ----------------------------
(***************************************************************************)
(* The configuration of the device: dev_config in RAM and its copy in one  *)
(* flash sector (configData.c, flashHandler.c), set_devinfo, which changes *)
(* it on behalf of the web page (httpHandler.c), and power failures.       *)
(*                                                                         *)
(* A field stands for a group of members of DevConfig that the code treats *)
(* alike: "net" for the addresses and ports that it stores unchecked,      *)
(* "filt" for filt_id and filt_mask.                                       *)
(***************************************************************************)
EXTENDS Integers

CONSTANTS
  Changes,      (* parameters of a request: partial functions on Settings  *)
  PowerFails    (* bound: power failures                                   *)

Settings == {"net", "mode", "baud", "spec", "filt"}

ASSUME ConfigAssumption ==
  /\ \A c \in Changes : DOMAIN c \subseteq Settings /\ \A f \in DOMAIN c : c[f] \in Nat
  /\ PowerFails \in Nat

ETH_MODE_MAX == 2
CAN_BDRATE_125 == 0
CAN_BDRATE_MAX == 3
CAN_SPEC_A == 0
CAN_SPEC_MAX == 2

(* With enums of four bytes, and 39 with enums of one: this is up to the   *)
(* compiler.  What matters is that it is not the size of an erased flash.  *)
SizeOfDevConfig == 45

FourDigits == 65535   (* the largest filter with four hexadecimal digits   *)

Erased == -1          (* all bits of a field are one                       *)
Scrap == -2           (* some bits of a field were programmed or erased    *)
Uniform(v) == [size |-> v, net |-> v, mode |-> v, baud |-> v, spec |-> v, filt |-> v]

Factory == [size |-> SizeOfDevConfig, net |-> 1, mode |-> 0, baud |-> 0, spec |-> 0, filt |-> 0]

DevConfigs == [size : {0, Erased, SizeOfDevConfig}, net : Int, mode : Int,
               baud : Int, spec : Int, filt : Int]

VARIABLES
  dev_config,   (* in RAM                                                  *)
  flash,        (* the sector at FLASH_DEV_INFO_ADDR                       *)
  store,        (* off, erase and program (in write_flash), ready          *)
  power         (* power failures so far; whether one has mixed up a       *)
                (* configuration that was not rejected since               *)

cvars == <<dev_config, flash, store, power>>

InitConfig ==
  /\ dev_config = Uniform(0)
  /\ flash = Uniform(Erased)
  /\ store = "off"
  /\ power = [fails |-> 0, mixed |-> FALSE]

-----------------------------------------------------------------------------
(* ATOI into a uint8_t.                                                    *)
ToByte(v) == v % 256

(* The configuration c after the parameters p: an unknown mode is ignored, *)
(* an unknown baud rate or specification replaced; a filter is judged by   *)
(* the specification that is set by then, and by its number of digits (it  *)
(* is written without leading zeros).                                      *)
set_devinfo(c, p) ==
  LET Given(f) == f \in DOMAIN p
      spec == IF ~Given("spec") THEN c.spec
              ELSE IF ToByte(p.spec) < CAN_SPEC_MAX THEN ToByte(p.spec) ELSE CAN_SPEC_A
  IN [c EXCEPT
       !.net  = IF Given("net") THEN p.net ELSE @,
       !.mode = IF Given("mode") /\ ToByte(p.mode) < ETH_MODE_MAX THEN ToByte(p.mode) ELSE @,
       !.baud = IF ~Given("baud") THEN @
                ELSE IF ToByte(p.baud) < CAN_BDRATE_MAX THEN ToByte(p.baud) ELSE CAN_BDRATE_125,
       !.spec = spec,
       !.filt = IF ~Given("filt") THEN @
                ELSE IF spec = CAN_SPEC_A /\ p.filt > FourDigits THEN 0 ELSE p.filt]

(* Mutant: the factory value is used without being saved.                  *)
load_DevConfig_from_storage_unsaved ==
  /\ store = "off"
  /\ store' = "ready"
  /\ dev_config' = IF flash.size = SizeOfDevConfig THEN flash ELSE Factory
  /\ UNCHANGED <<flash, power>>

(* At boot.  The size is all that is checked.                              *)
load_DevConfig_from_storage ==
  /\ store = "off"
  /\ IF flash.size = SizeOfDevConfig
     THEN dev_config' = flash /\ store' = "ready"
     ELSE dev_config' = Factory /\ store' = "erase"
  /\ power' = [power EXCEPT !.mixed = @ /\ flash.size = SizeOfDevConfig]
  /\ UNCHANGED flash

(* write_flash: the sector is erased, then programmed.                     *)
Erase ==
  /\ store = "erase"
  /\ flash' = Uniform(Erased)
  /\ store' = "program"
  /\ UNCHANGED <<dev_config, power>>

Program ==
  /\ store = "program"
  /\ flash' = dev_config
  /\ store' = "ready"
  /\ UNCHANGED <<dev_config, power>>

(* A power failure inside the erasure or the programming leaves each part  *)
(* of the sector as it was, as it should become, or in between.            *)
Mixtures(from, to) ==
  {[rest EXCEPT !.size = size] : rest \in {from, to, Uniform(Scrap)},
                                 size \in {from.size, to.size}}

FlashAfterPowerFail ==
  CASE store = "erase"   -> Mixtures(flash, Uniform(Erased))
    [] store = "program" -> Mixtures(flash, dev_config)
    [] OTHER             -> {flash}

LosePower(left) ==
  /\ power.fails < PowerFails
  /\ left \in FlashAfterPowerFail
  /\ flash' = left
  /\ power' = [fails |-> power.fails + 1,
               mixed |-> power.mixed \/ left \notin {flash, Uniform(Erased), dev_config}]
  /\ dev_config' = Uniform(0)
  /\ store' = "off"
=============================================================================
