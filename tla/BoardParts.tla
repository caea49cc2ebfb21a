------------------------------ MODULE BoardParts ------------------------------
(***************************************************************************)
(* What lies below and beside the services: the GPIO inputs, the I2C bus,  *)
(* the 1-Wire transfer, the counters in flash, and of the console the RAM  *)
(* log and the event schema.  They share no variable, so a behaviour       *)
(* follows one of them and the states of the instances add up.             *)
(***************************************************************************)
EXTENDS GpioService, I2cBus, OneWire, BootCounters, LogRing, MCEvSchema

(* Scratchpads of the data sheet: 25.0625 degrees and, after power-on, 85. *)
BitsOf(n) == [k \in 1 .. 8 |-> (n \div 2 ^ (k - 1)) % 2]
Bytes(s)  == [k \in DOMAIN s |-> BitsOf(s[k])]

TwoReadings == {Bytes(<<145, 1, 75, 70, 127, 255, 12, 16, 112>>),
                Bytes(<<80, 5, 75, 70, 127, 255, 12, 16, 28>>)}

VARIABLE part   (* the one this behaviour follows                          *)

partVars == <<part, gpioVars, busVars, owVars, bootVars, rbVars, schemaVars>>

PartsInit ==
  /\ part \in {"gpio", "i2c", "1wire", "flash", "log", "schema"}
  (* The others stay in one of their initial states. *)
  /\ IF part = "gpio" THEN TRUE ELSE level = [p \in Pins |-> 0]
  /\ IF part = "i2c" THEN TRUE ELSE slave = [mode |-> "idle", bits |-> <<>>] /\ present = {}
  /\ IF part = "1wire" THEN TRUE ELSE line = "intact" /\ memory = CHOOSE m \in Scratchpads : TRUE
  /\ IF part = "schema" THEN TRUE ELSE table = Shipped
  /\ GpioInit /\ I2cBusInit /\ OwInit /\ BootInit /\ RbInit /\ SchemaInit

GpioAlone   == part = "gpio"   /\ UNCHANGED <<part, busVars, owVars, bootVars, rbVars, schemaVars>>
BusAlone    == part = "i2c"    /\ UNCHANGED <<part, gpioVars, owVars, bootVars, rbVars, schemaVars>>
WireAlone   == part = "1wire"  /\ UNCHANGED <<part, gpioVars, busVars, bootVars, rbVars, schemaVars>>
FlashAlone  == part = "flash"  /\ UNCHANGED <<part, gpioVars, busVars, owVars, rbVars, schemaVars>>
LogAlone    == part = "log"    /\ UNCHANGED <<part, gpioVars, busVars, owVars, bootVars, schemaVars>>
SchemaAlone == part = "schema" /\ UNCHANGED <<part, gpioVars, busVars, owVars, bootVars, rbVars>>

PartsNext ==
  \/ GpioAlone /\ GpioNext
  \/ BusAlone /\ I2cBusNext
  \/ WireAlone /\ OwNext
  \/ FlashAlone /\ BootNext
  \/ LogAlone /\ RbNext
  \/ SchemaAlone /\ SchemaNext

(* As FairBootSpec: app_main runs on.                                      *)
PartsSpec == PartsInit /\ [][PartsNext]_partVars /\ WF_partVars(FlashAlone /\ BootStep)

(* ComesUp, of the behaviours that follow the counters.                    *)
AppComesUp == part = "flash" => ComesUp
=============================================================================
