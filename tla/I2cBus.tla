-------------------------------- MODULE I2cBus --------------------------------
(***************************************************************************)
(* i2c_bus_create of infrastructure__idf_i2c_port: the recovery of a bus   *)
(* that a slave holds after the master was reset in mid-transfer, pin by   *)
(* pin, and then the search for the display of the LCD projects.           *)
(*                                                                         *)
(* SDA and SCL are open-drain: a line is high when nobody pulls it low.    *)
(* The slave is modelled from the I2C protocol: a sender presents its      *)
(* next bit when SCL falls and, after a byte, lets go for the              *)
(* acknowledgement; a receiver may be acknowledging; SDA rising while SCL  *)
(* is high is a STOP, SDA falling is a START, and either ends a transfer.  *)
(* No slave answers what the recovery clocks out as an address.            *)
(***************************************************************************)
EXTENDS Naturals, Sequences

CONSTANTS
  ByteBits,    (* bits of a byte: 8                                       *)
  OutLatch,    (* levels a pin's output latch may hold: 0 out of reset    *)
  Addrs, FirstAddr, LastAddr, (* 7-bit addresses, those probed            *)
  LcdAddrs, RgbAddrs, (* the addresses the displays are known to use      *)
  LcdDefault, RgbDefault, (* CONFIG_APP_LCD_ADDR, CONFIG_APP_RGB_ADDR     *)
  MaxProbeErrors (* bound: probes that end in a driver error              *)

ASSUME I2cBusAssumption ==
  /\ ByteBits \in Nat \ {0}
  /\ OutLatch \subseteq {0, 1} /\ OutLatch # {}
  /\ Addrs \subseteq Nat /\ FirstAddr \in Addrs /\ LastAddr \in Addrs
  /\ LcdAddrs \cup RgbAddrs \cup {LcdDefault, RgbDefault} \subseteq Addrs
  /\ MaxProbeErrors \in Nat

VARIABLES
  busPc,       (* where i2c_bus_create or the search stands               *)
  clocks,      (* i of the clock loop                                     *)
  todo,        (* pins still to configure, or pin writes still to come    *)
  mSda, mScl,  (* the levels the master writes                            *)
  slave,       (* [mode, bits]: bits still to send, the presented one first *)
  seen,        (* the loop saw SDA high                                   *)
  slaveBegan,  (* history: the mode of the slave at the start             *)
  starts,      (* history: a START since the pins are configured          *)
  addr, lcd, rgb, (* the search: address, pick of each display or 0       *)
  present,     (* the displays that are on the bus                        *)
  errors       (* history: probes that ended in a driver error            *)

lineVars == <<mSda, mScl, slave, starts>>
scanVars == <<addr, lcd, rgb, present, errors>>
busVars  == <<busPc, clocks, todo, lineVars, seen, slaveBegan, scanVars>>

Bits == UNION {[1 .. n -> {0, 1}] : n \in 1 .. ByteBits}

Pulls(s)   == s.mode \in {"ack", "broken"} \/ (s.mode = "send" /\ Head(s.bits) = 0)
Sda(m, s)  == IF m = 1 /\ ~Pulls(s) THEN 1 ELSE 0
SdaLevel   == Sda(mSda, slave)

-----------------------------------------------------------------------------
(* The slave's side of an SCL edge.  A sender that is not acknowledged     *)
(* falls silent; one that is goes on with its next byte.                   *)
NextByte == [mode : {"send"}, bits : [1 .. ByteBits -> {0, 1}]]

OnFall(s) ==
  CASE s.mode = "send" /\ Len(s.bits) > 1 -> {[s EXCEPT !.bits = Tail(@)]}
    [] s.mode = "send" -> {[mode |-> "asks", bits |-> <<>>]}
    [] s.mode = "ack"  -> {[mode |-> "silent", bits |-> <<>>]}
    [] s.mode = "goes" -> NextByte
    [] OTHER -> {s}

OnRise(s) == IF s.mode = "asks"
             THEN [s EXCEPT !.mode = IF mSda = 0 THEN "goes" ELSE "silent"] ELSE s

WriteScl(v) ==
  /\ mScl' = v
  /\ slave' \in CASE v = mScl -> {slave}
                  [] v < mScl -> OnFall(slave)
                  [] v > mScl -> {OnRise(slave)}
  /\ UNCHANGED <<mSda, starts>>

(* A pin write that moves SDA while SCL is high is a START or a STOP.      *)
WriteSda(v) ==
  LET new == Sda(v, slave) IN
    /\ mSda' = v
    /\ starts' = (starts \/ (busPc # "config" /\ mScl = 1 /\ SdaLevel = 1 /\ new = 0))
    /\ slave' = IF mScl = 1 /\ SdaLevel # new
                THEN [mode |-> "idle", bits |-> <<>>] ELSE slave
    /\ UNCHANGED mScl

-----------------------------------------------------------------------------
(* Out of reset the pins are inputs, so both lines are released.           *)
I2cBusInit ==
  /\ busPc = "config" /\ clocks = 0 /\ seen = FALSE /\ starts = FALSE
  /\ todo \in {<<"sda", "scl">>, <<"scl", "sda">>}
  /\ mSda = 1 /\ mScl = 1
  /\ slave \in {[mode |-> m, bits |-> <<>>] : m \in {"idle", "ack", "broken"}}
               \cup {[mode |-> "send", bits |-> b] : b \in Bits}
  /\ slaveBegan = slave.mode
  /\ addr = FirstAddr /\ lcd = 0 /\ rgb = 0 /\ errors = 0
  /\ present \in SUBSET (LcdAddrs \cup RgbAddrs)

(* gpio_config makes an output of each pin, in the order of their numbers: *)
(* what the pin's latch holds appears on its line.                         *)
ConfigurePins ==
  /\ busPc = "config"
  /\ \E v \in OutLatch : IF Head(todo) = "sda" THEN WriteSda(v) ELSE WriteScl(v)
  /\ todo' = Tail(todo)
  /\ busPc' = IF Len(todo) = 1 THEN "look" ELSE "config"
  /\ UNCHANGED <<clocks, seen, slaveBegan, scanVars>>

(* gpio_reset_pin makes an input of the pin, which no longer pulls.        *)
ResetPins == <<"sda1", "scl1">>

(* SDA high: nothing to recover.                                           *)
LookAtSda ==
  /\ busPc = "look"
  /\ IF SdaLevel = 1 THEN busPc' = "stop" /\ todo' = ResetPins
     ELSE busPc' = "low" /\ UNCHANGED todo
  /\ UNCHANGED <<clocks, lineVars, seen, slaveBegan, scanVars>>

RecoveryClocks    == 9

ClockLow ==
  /\ busPc = "low"
  /\ WriteScl(0)
  /\ busPc' = "high"
  /\ UNCHANGED <<clocks, todo, seen, slaveBegan, scanVars>>

ClockHigh ==
  /\ busPc = "high"
  /\ WriteScl(1)
  /\ clocks' = clocks + 1
  /\ busPc' = "sample"
  /\ UNCHANGED <<todo, seen, slaveBegan, scanVars>>

(* The STOP, and the pins are reset.                                       *)
StopMissing  == <<"sda1", "sda1", "scl1">>
StopSequence == <<"scl0", "sda0", "scl1", "sda1", "sda1", "scl1">>

(* The loop ends when SDA is seen high, or after nine clocks.              *)
TriedAll     == clocks = RecoveryClocks

SampleSda ==
  /\ busPc = "sample"
  /\ seen' = (SdaLevel = 1)
  /\ IF SdaLevel = 1 \/ TriedAll
     THEN busPc' = "stop" /\ todo' = StopSequence
     ELSE busPc' = "low" /\ UNCHANGED todo
  /\ UNCHANGED <<clocks, lineVars, slaveBegan, scanVars>>

StopStep ==
  /\ busPc = "stop" /\ todo # <<>>
  /\ CASE Head(todo) = "scl0" -> WriteScl(0)
       [] Head(todo) = "scl1" -> WriteScl(1)
       [] Head(todo) = "sda0" -> WriteSda(0)
       [] Head(todo) = "sda1" -> WriteSda(1)
  /\ todo' = Tail(todo)
  /\ busPc' = IF Len(todo) = 1 THEN "probe" ELSE "stop"
  /\ UNCHANGED <<clocks, seen, slaveBegan, scanVars>>

-----------------------------------------------------------------------------
(* scan_log_and_pick_addrs: i2c_bus_probe_addr on every address.  A bus    *)
(* whose SDA is held low gives timeouts, which mean "no device" as well.   *)
Answers(a) == a \in present /\ SdaLevel = 1

Picked(old, ack, wanted)     == IF ack /\ old = 0 /\ addr \in wanted THEN addr ELSE old

Probe ==
  /\ busPc = "probe" /\ addr <= LastAddr
  /\ \E ack \in {Answers(addr)} \cup (IF errors < MaxProbeErrors THEN {FALSE} ELSE {}) :
       /\ lcd' = Picked(lcd, ack, LcdAddrs \cup {LcdDefault})
       /\ rgb' = Picked(rgb, ack, RgbAddrs \cup {RgbDefault})
       /\ errors' = IF ack = Answers(addr) THEN errors ELSE errors + 1
  /\ addr' = addr + 1
  /\ UNCHANGED <<busPc, clocks, todo, lineVars, seen, slaveBegan, present>>

(* What was not found gets the configured address.                         *)
UseDefaults ==
  /\ busPc = "probe" /\ addr > LastAddr
  /\ busPc' = "end"
  /\ lcd' = IF lcd = 0 THEN LcdDefault ELSE lcd
  /\ rgb' = IF rgb = 0 THEN RgbDefault ELSE rgb
  /\ UNCHANGED <<clocks, todo, lineVars, seen, slaveBegan, addr, present, errors>>

I2cBusNext ==
  \/ ConfigurePins \/ LookAtSda \/ ClockLow \/ ClockHigh \/ SampleSda \/ StopStep
  \/ Probe \/ UseDefaults

I2cBusSpec == I2cBusInit /\ [][I2cBusNext]_busVars

-----------------------------------------------------------------------------
I2cTypeOK ==
  /\ busPc \in {"config", "look", "low", "high", "sample", "stop", "probe", "end"}
  /\ clocks \in 0 .. RecoveryClocks
  /\ {mSda, mScl} \subseteq {0, 1}
  /\ slave.mode \in {"idle", "ack", "broken", "send", "asks", "goes", "silent"}
  /\ slave.mode = "send" <=> slave.bits # <<>>
  /\ lcd \in {0} \cup Addrs /\ rgb \in {0} \cup Addrs

(* A slave that works lets SDA go within the nine clocks, whatever byte it *)
(* was sending and however much of it was left, if the master's own latch  *)
(* does not hold SDA.                                                      *)
ClocksDone   == busPc = "stop" /\ todo = StopSequence
SeenReleased == ClocksDone /\ mSda = 1 /\ slaveBegan # "broken" => seen

(* The clocks and the STOP are never taken for the start of a transfer.    *)
NoStartIssued == ~starts

(* A slave that was acknowledging a byte no longer holds SDA when          *)
(* i2c_bus_create goes on, and is out of the transfer, by a STOP, whenever *)
(* the recovery ran: whatever the latches held, in either order of pins.   *)
AckerIsFreed ==
  busPc \in {"probe", "end"} /\ slaveBegan = "ack" =>
    ~Pulls(slave) /\ (clocks > 0 => slave.mode = "idle")

(* The search ends with an address that answered, the lowest, when a       *)
(* display could be asked: recovery left SDA high and no probe failed.     *)
LowestOf(S, a) == a \in S /\ \A b \in S : a <= b
PicksWhatAnswers ==
  busPc = "end" /\ errors = 0 /\ SdaLevel = 1 =>
    /\ present \cap LcdAddrs # {} => LowestOf(present \cap (LcdAddrs \cup {LcdDefault}), lcd)
    /\ present \cap RgbAddrs # {} => LowestOf(present \cap (RgbAddrs \cup {RgbDefault}), rgb)

(* idf_i2c_port.c:34-36: the clocks let the slave finish and release SDA,  *)
(* and a STOP ends it.                                                     *)
FreeAfterRecovery == busPc \in {"probe", "end"} /\ slaveBegan # "broken" => SdaLevel = 1

(* A bus on which nobody holds SDA is left alone.                          *)
IdleBusLeftAlone == slaveBegan = "idle" => clocks = 0

(* idf_i2c_port.c:50: when SDA is high the bus is free, and the recovery   *)
(* may be skipped: no slave is in the middle of a transfer.                *)
HighMeansFree == busPc = "probe" /\ clocks = 0 => slave.mode = "idle"
=============================================================================
