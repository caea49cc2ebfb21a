----------------------------- MODULE TempService -----------------------------
(***************************************************************************)
(* services__internal_temp over infrastructure__idf_internal_temp: a start *)
(* that takes the sensor, a queue, a task and a periodic timer in turn and *)
(* may fail at each, a stop, and the readings between.  Start and stop are *)
(* called by one task; the timer and the worker run at any point of them.  *)
(* A device is named by the number of the start that made it.              *)
(***************************************************************************)
EXTENDS Naturals, FiniteSets

CONSTANTS
  QueueLen,    (* signals the queue holds: 4                              *)
  TempFailing, (* the calls that may fail                                 *)
  MaxTempStarts, (* bound: calls of services_internal_temp_start          *)
  MaxStops,    (* bound: calls of services_internal_temp_stop             *)
  MaxBadReads  (* bound: readings that fail                               *)

ASSUME TempAssumption ==
  /\ QueueLen \in Nat \ {0}
  /\ TempFailing \subseteq {"install", "enable", "queue", "task", "timer", "periodic"}
  /\ {MaxTempStarts, MaxStops, MaxBadReads} \subseteq Nat

VARIABLES
  tempAt,      (* the caller: "out" of both, or before a step of one      *)
  tempResult,  (* what the last start returned                            *)
  tempStarts, stops, (* calls so far                                      *)
  sensor,      (* the device that has the sensor installed, or 0          *)
  s_dev,       (* the service's device, or 0                              *)
  s_queue,     (* whether the queue was made                              *)
  s_timer,     (* "none", "made" or "running"                             *)
  ticks,       (* signals in the queue                                    *)
  worker,      (* "none", "wait" or "read"                                *)
  dev,         (* the device the worker's reading was given               *)
  tempFresh,   (* history: the worker's last reading was published        *)
  freed_read,  (* history: a reading used a device deleted before         *)
  bad          (* readings that failed, for the bound                     *)

callVars == <<tempAt, tempResult, tempStarts, stops>>
portVars == <<sensor, s_dev>>
workVars == <<worker, dev, tempFresh, freed_read, bad>>
tempVars == <<callVars, portVars, workVars, s_queue, s_timer, ticks>>

TempInit ==
  /\ tempAt = "out" /\ tempResult = "none" /\ tempStarts = 0 /\ stops = 0
  /\ sensor = 0 /\ s_dev = 0 /\ s_queue = FALSE /\ s_timer = "none" /\ ticks = 0
  /\ worker = "none" /\ dev = 0 /\ tempFresh = FALSE /\ freed_read = FALSE /\ bad = 0

-----------------------------------------------------------------------------
(* services_internal_temp_start.                                           *)
TempReturn(r) == tempAt' = "out" /\ tempResult' = r
TempFails(what) == what \in TempFailing /\ TempReturn("false")

TempStartAgain ==
  /\ tempAt = "out" /\ tempStarts < MaxTempStarts /\ worker # "none"
  /\ tempStarts' = tempStarts + 1 /\ TempReturn("true")
  /\ UNCHANGED <<stops, portVars, workVars, s_queue, s_timer, ticks>>

StartFirst ==
  /\ tempAt = "out" /\ tempStarts < MaxTempStarts /\ worker = "none"
  /\ tempStarts' = tempStarts + 1 /\ tempAt' = "install" /\ tempResult' = "none"
  /\ UNCHANGED <<stops, portVars, workVars, s_queue, s_timer, ticks>>

(* internal_temp_create: the sensor can be installed once.                 *)
Install ==
  /\ tempAt = "install"
  /\ \/ sensor = 0 /\ sensor' = tempStarts /\ tempAt' = "enable" /\ UNCHANGED tempResult
     \/ sensor # 0 /\ TempReturn("false") /\ UNCHANGED sensor
     \/ TempFails("install") /\ UNCHANGED sensor
  /\ UNCHANGED <<tempStarts, stops, s_dev, workVars, s_queue, s_timer, ticks>>

Uninstall    == sensor' = 0

Enable ==
  /\ tempAt = "enable"
  /\ \/ s_dev' = tempStarts /\ tempAt' = "queue" /\ UNCHANGED <<tempResult, sensor>>
     \/ TempFails("enable") /\ Uninstall /\ UNCHANGED s_dev
  /\ UNCHANGED <<tempStarts, stops, workVars, s_queue, s_timer, ticks>>

TempCreateQueue ==
  /\ tempAt = "queue"
  /\ \/ s_queue' = TRUE /\ ticks' = 0 /\ tempAt' = "task" /\ UNCHANGED tempResult
     \/ TempFails("queue") /\ s_queue' = FALSE /\ ticks' = 0
  /\ UNCHANGED <<tempStarts, stops, portVars, workVars, s_timer>>

TempCreateTask ==
  /\ tempAt = "task"
  /\ \/ worker' = "wait" /\ tempAt' = "timer" /\ UNCHANGED tempResult
     \/ TempFails("task") /\ UNCHANGED worker
  /\ UNCHANGED <<tempStarts, stops, portVars, dev, tempFresh, freed_read, bad, s_queue, s_timer, ticks>>

CreateTimer ==
  /\ tempAt = "timer"
  /\ \/ s_timer' = "made" /\ tempAt' = "periodic" /\ UNCHANGED tempResult
     \/ TempFails("timer") /\ UNCHANGED s_timer
  /\ UNCHANGED <<tempStarts, stops, portVars, workVars, s_queue, ticks>>

(* What esp_timer_start_periodic returns is not looked at.                 *)
StartPeriodic ==
  /\ tempAt = "periodic" /\ TempReturn("true")
  /\ \/ s_timer' = "running"
     \/ "periodic" \in TempFailing /\ UNCHANGED s_timer
  /\ UNCHANGED <<tempStarts, stops, portVars, workVars, s_queue, ticks>>

TempStart == \/ TempStartAgain \/ StartFirst \/ Install \/ Enable \/ TempCreateQueue
             \/ TempCreateTask \/ CreateTimer \/ StartPeriodic

-----------------------------------------------------------------------------
(* services_internal_temp_stop: the timer, then the device; the task and   *)
(* its queue stay.                                                         *)
StopTimer ==
  /\ tempAt = "out" /\ stops < MaxStops
  /\ stops' = stops + 1 /\ tempAt' = "delete" /\ s_timer' = "none"
  /\ UNCHANGED <<tempResult, tempStarts, portVars, workVars, s_queue, ticks>>

ReleaseDev    == sensor' = IF s_dev # 0 THEN 0 ELSE sensor

StopDevice ==
  /\ tempAt = "delete" /\ tempAt' = "out"
  /\ ReleaseDev /\ s_dev' = 0
  /\ UNCHANGED <<tempResult, tempStarts, stops, workVars, s_queue, s_timer, ticks>>

TempStop == StopTimer \/ StopDevice

-----------------------------------------------------------------------------
(* timer_cb: a signal that does not fit is dropped.                        *)
Signal(n)       == IF n < QueueLen THEN n + 1 ELSE n

TimerFires ==
  /\ s_timer = "running"
  /\ ticks' = Signal(ticks)
  /\ UNCHANGED <<callVars, portVars, workVars, s_queue, s_timer>>

(* temp_worker.                                                            *)
MayTakeLast == ticks = 1
MayTake     == ticks > 0

TakeSignal ==
  /\ worker = "wait" /\ MayTake
  /\ ticks' = ticks - 1 /\ worker' = "read" /\ dev' = s_dev /\ tempFresh' = FALSE
  /\ UNCHANGED <<callVars, portVars, s_queue, s_timer, freed_read, bad>>

(* A reading fails without a device, and may with one; memory that was     *)
(* freed may give either.                                                  *)
Read ==
  /\ worker = "read" /\ worker' = "wait"
  /\ \/ dev # 0 /\ tempFresh' = TRUE /\ UNCHANGED bad
     \/ dev = 0 /\ UNCHANGED <<tempFresh, bad>>
     \/ dev # 0 /\ bad < MaxBadReads /\ bad' = bad + 1 /\ UNCHANGED tempFresh
  /\ freed_read' = (freed_read \/ (dev # 0 /\ dev # sensor))
  /\ UNCHANGED <<callVars, portVars, s_queue, s_timer, ticks, dev>>

TempWorker == TakeSignal \/ Read
TempNext == TempStart \/ TempStop \/ TimerFires \/ TempWorker

(* The timer's task and the worker get the processor.                      *)
TempSpec     == TempInit /\ [][TempNext]_tempVars
FairTempSpec == TempSpec /\ WF_tempVars(TempWorker) /\ WF_tempVars(TimerFires)

-----------------------------------------------------------------------------
TempTypeOK ==
  /\ tempAt \in {"out", "install", "enable", "queue", "task", "timer", "periodic", "delete"}
  /\ tempResult \in {"none", "true", "false"}
  /\ {sensor, s_dev, dev} \subseteq 0 .. tempStarts
  /\ s_timer \in {"none", "made", "running"}
  /\ ticks \in 0 .. QueueLen
  /\ worker \in {"none", "wait", "read"} /\ (worker # "none" => s_queue)

(* Whatever failed, the sensor is never installed for a device that nobody *)
(* holds: services_internal_temp_stop gives it back, and only then can a   *)
(* start after a failed one install it again.                              *)
SensorIsHeld == tempAt # "enable" => sensor = s_dev

(* If the timer stays on, the bus gets one new reading after another: the  *)
(* worker goes on through failed readings and dropped signals.             *)
Publishes == Read /\ tempFresh'
RunningPublishes == <>[](s_timer = "running") => []<><<Publishes>>_tempVars

(* services_internal_temp.h:17: after a start that returned true the timer *)
(* wakes the task periodically.                                            *)
TrueMeansTicking == tempResult = "true" /\ tempAt = "out" /\ stops = 0 => s_timer = "running"

(* No reading uses a device that was deleted before.                       *)
ReadsLiveDevice == ~freed_read
=============================================================================
