------------------------------- MODULE OneWire -------------------------------
(***************************************************************************)
(* A reading of the DS18B20: ds_start_convert and ds_read_temp_raw of      *)
(* services__ds18b20_ev over infrastructure__gpio_onewire.                 *)
(*                                                                         *)
(* Pulses the RMT peripheral sends are exact.  The level of the line is    *)
(* sampled by the CPU after a busy wait, so a task switch or an interrupt  *)
(* makes a sample late; the sensor has then let go of a 0 and a 1 is read. *)
(* The sensor may be unplugged and the line may be shorted to ground       *)
(* between any two slots.  Bits travel least significant first; a byte is  *)
(* a sequence of 8 bits in that order.                                     *)
(***************************************************************************)
EXTENDS Naturals, SequencesExt

CONSTANTS
  Scratchpads, (* contents of the sensor's memory, CRC byte included      *)
  MaxLate      (* bound: late samples                                     *)

ASSUME OneWireAssumption ==
  /\ \A s \in Scratchpads : s \in Seq(Seq({0, 1}))
  /\ \A s \in Scratchpads : Len(s) = 9 /\ \A k \in 1 .. 9 : Len(s[k]) = 8
  /\ MaxLate \in Nat

VARIABLES
  owPc,        (* the step of the transfer                                *)
  op,          (* ds_start_convert or ds_read_temp_raw                    *)
  got,         (* scratch: the bits read so far                           *)
  raw,         (* *out_raw, as the bits of both bytes, once accepted      *)
  outcome,     (* what the function returned                              *)
  sensor,      (* what the sensor does                                    *)
  memory,      (* its scratchpad                                          *)
  line,        (* the wire: intact, unplugged from the sensor, grounded   *)
  late,        (* history: late samples                                   *)
  broke        (* history: how the wire broke during the transfer         *)

owVars == <<owPc, op, got, raw, outcome, sensor, memory, line, late, broke>>

OwInit ==
  /\ owPc = "reset" /\ op = "convert" /\ got = <<>> /\ raw = <<>> /\ outcome = "none"
  /\ sensor = "idle" /\ memory \in Scratchpads
  /\ line \in {"intact", "unplugged", "grounded"}
  /\ late = 0 /\ broke = line

Hears == line = "intact"

(* What the pin reads: the pull-up wins when nobody pulls.                 *)
Level(pulledBySensor) ==
  IF line = "grounded" \/ (Hears /\ pulledBySensor) THEN 0 ELSE 1

(* Bound: a transfer is disturbed by late samples or by the wire.          *)
WireBreaks ==
  /\ line = "intact" /\ owPc # "done" /\ late = 0
  /\ line' \in {"unplugged", "grounded"}
  /\ broke' = line'
  /\ UNCHANGED <<owPc, op, got, raw, outcome, sensor, memory, late>>

OwReturn(res) == owPc' = "done" /\ outcome' = res

-----------------------------------------------------------------------------
(* onewire_reset: a line that is low before the pulse is a fault; after    *)
(* the pulse a sensor answers by pulling the line low.  A late sample      *)
(* misses the answer.                                                      *)
ResetRefused ==
  /\ owPc = "reset" /\ Level(FALSE) = 0
  /\ OwReturn("error")
  /\ UNCHANGED <<op, got, raw, sensor, memory, line, late, broke>>

ResetPulse ==
  /\ owPc = "reset" /\ Level(FALSE) = 1
  /\ owPc' = "presence"
  /\ sensor' = IF Hears THEN "answering" ELSE sensor
  /\ UNCHANGED <<op, got, raw, outcome, memory, line, late, broke>>

SensorEnds(next) == IF Hears /\ sensor = "answering" THEN next ELSE sensor

PresenceSeen ==
  /\ owPc = "presence" /\ Level(sensor = "answering") = 0
  /\ owPc' = "skip"
  /\ sensor' = SensorEnds("listening")
  /\ UNCHANGED <<op, got, raw, outcome, memory, line, late, broke>>

PresenceMissed ==
  /\ owPc = "presence"
  /\ Level(sensor = "answering") = 1 \/ (line = "intact" /\ late < MaxLate)
  /\ late' = IF line = "intact" /\ sensor = "answering" THEN late + 1 ELSE late
  /\ OwReturn("error")
  /\ sensor' = SensorEnds("listening")
  /\ UNCHANGED <<op, got, raw, memory, line, broke>>

(* onewire_write_byte, twice: DS_CMD_SKIP_ROM, then the command.           *)
WriteSkipRom ==
  /\ owPc = "skip"
  /\ owPc' = "command"
  /\ sensor' = IF Hears /\ sensor = "listening" THEN "addressed" ELSE sensor
  /\ UNCHANGED <<op, got, raw, outcome, memory, line, late, broke>>

WriteConvert ==
  /\ owPc = "command" /\ op = "convert"
  /\ IF Hears /\ sensor = "addressed"
     THEN sensor' = "idle" /\ memory' \in Scratchpads
     ELSE UNCHANGED <<sensor, memory>>
  /\ owPc' = "reset" /\ op' = "read"
  /\ UNCHANGED <<got, raw, outcome, line, late, broke>>

WriteReadScratch ==
  /\ owPc = "command" /\ op = "read"
  /\ sensor' = IF Hears /\ sensor = "addressed" THEN "sending" ELSE sensor
  /\ owPc' = "read"
  /\ UNCHANGED <<op, got, raw, outcome, memory, line, late, broke>>

(* One read slot of onewire_read_byte.                                     *)
ReadSlots == 72
NextBit   == memory[(Len(got) \div 8) + 1][(Len(got) % 8) + 1]
PullsLow  == sensor = "sending" /\ NextBit = 0

ReadBit ==
  /\ owPc = "read" /\ Len(got) < ReadSlots
  /\ got' = Append(got, Level(PullsLow))
  /\ UNCHANGED <<owPc, op, raw, outcome, sensor, memory, line, late, broke>>

ReadBitLate ==
  /\ owPc = "read" /\ Len(got) < ReadSlots
  /\ late < MaxLate
  /\ Hears /\ PullsLow
  /\ late' = late + 1
  /\ got' = Append(got, 1)
  /\ UNCHANGED <<owPc, op, raw, outcome, sensor, memory, line, broke>>

-----------------------------------------------------------------------------
(* onewire_crc8, one bit: shift right, flip the taps of 0x8C on a          *)
(* mismatch.  crc[0] is the least significant bit.                         *)
Flip(b, mix) == (b + mix) % 2
ShiftIn(crc, b) ==
  LET mix == Flip(crc[0], b) IN
    [k \in 0 .. 7 |-> CASE k = 7 -> mix
                        [] k \in {2, 3} -> Flip(crc[k + 1], mix)
                        [] OTHER -> crc[k + 1]]

ZeroCrc       == [k \in 0 .. 7 |-> 0]
Crc8(bits)    == FoldLeft(ShiftIn, ZeroCrc, bits)
CrcSkipped(bits) == TRUE
CrcOk(bits)   == Crc8(bits) = ZeroCrc

CheckCrc ==
  /\ owPc = "read" /\ Len(got) = ReadSlots
  /\ IF CrcOk(got)
     THEN OwReturn("ok") /\ raw' = SubSeq(got, 1, 16)
     ELSE OwReturn("error") /\ UNCHANGED raw
  /\ UNCHANGED <<op, got, sensor, memory, line, late, broke>>

OwNext == \/ WireBreaks
          \/ ResetRefused \/ ResetPulse \/ PresenceSeen \/ PresenceMissed
          \/ WriteSkipRom \/ WriteConvert \/ WriteReadScratch
          \/ ReadBit \/ ReadBitLate \/ CheckCrc

OwSpec == OwInit /\ [][OwNext]_owVars

-----------------------------------------------------------------------------
OwTypeOK ==
  /\ owPc \in {"reset", "presence", "skip", "command", "read", "done"}
  /\ op \in {"convert", "read"} /\ outcome \in {"none", "ok", "error"}
  /\ Len(got) <= ReadSlots
  /\ sensor \in {"idle", "answering", "listening", "addressed", "sending"}
  /\ line \in {"intact", "unplugged", "grounded"}
  /\ (owPc = "done") = (outcome # "none")

(* A temperature that is accepted is the one in the sensor, although up to *)
(* three of the 72 samples were late: the CRC catches any such reading.    *)
AcceptedIsTrue ==
  outcome = "ok" /\ broke = "intact" => raw = memory[1] \o memory[2]

(* A sensor that is not there is never read: neither the presence check    *)
(* nor the CRC takes the pull-up for a sensor.                             *)
SilenceRefused ==
  outcome = "ok" /\ broke = "unplugged" => \E k \in 1 .. ReadSlots : got[k] = 0

(* A transfer that nothing disturbs succeeds.                              *)
UndisturbedSucceeds == owPc = "done" /\ late = 0 /\ broke = "intact" => outcome = "ok"

=============================================================================
