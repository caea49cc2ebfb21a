------------------------------ MODULE LogStream ------------------------------
(***************************************************************************)
(* The log pipeline: every task's vprintf appends its chunk to a line      *)
(* accumulator under s_log_mux (app__log_bus); a finished line goes into   *)
(* the ring as a whole and EV_LOG_READY is posted as a doorbell; the LCD   *)
(* task drains the ring when it gets the doorbell (app__demo_lcd).         *)
(*                                                                         *)
(* The mutex keeps writers apart, not the consumer, so the ring's own      *)
(* steps are the steps here.  The bus is reduced to what reaches the LCD   *)
(* task: its queue, which it has only after it subscribed, and the other   *)
(* events that are broadcast to it as well.  '\r' and the formatting are   *)
(* left out; chunks are as long as the temporary buffer takes.             *)
(***************************************************************************)
EXTENDS SpscRing

CONSTANTS
  Writers,    (* the tasks that log                                        *)
  Chunks,     (* what one vprintf may hold                                 *)
  Newline,
  AccCap,     (* ACC_CAP                                                   *)
  ShowCap,    (* the width of the display                                  *)
  DoorDepth,  (* the depth of the LCD task's queue                         *)
  MaxCalls    (* bound: number of vprintf calls, 0: no bound               *)

ASSUME LogAssumption ==
  /\ Newline \in Bytes
  /\ Chunks \subseteq Seq(Bytes)
  /\ AccCap \in Nat \ {0} /\ ShowCap \in Nat \ {0} /\ DoorDepth \in Nat \ {0}
  /\ MaxCalls \in Nat
  /\ None \notin Writers

VARIABLES
  mux,      (* the holder of s_log_mux, or None                            *)
  chunk,    (* what is left of its chunk                                   *)
  acc,      (* s_acc                                                       *)
  flush,    (* "no", or the part of the line that is being written         *)
  subbed,   (* the LCD task has its queue                                  *)
  door,     (* that queue                                                  *)
  lcd,      (* the LCD task: "wait" or "drain"                             *)
  line,     (* its tail of the current line                                *)
  pending,  (* history: the lines written and not yet shown                *)
  lost,     (* history: the last line was dropped                          *)
  missed,   (* history: the last doorbell was swallowed and nobody knew    *)
  calls     (* number of vprintf calls so far                              *)

logVars == <<mux, chunk, acc, flush, pending, lost, missed, calls>>
lcdVars == <<subbed, lcd, line>>
vars == <<ringVars, logVars, door, lcdVars>>

LastOf(s, n) == SubSeq(s, Lesser(Len(s), 1 + Len(s) - Lesser(n, Len(s))), Len(s))

(* Append that keeps the last n: "drop-head" of the accumulator, tail16.   *)
PushKeep(s, b, n) == IF Len(s) < n THEN Append(s, b) ELSE Append(Tail(s), b)

LogInit ==
  /\ RingInit
  /\ \A j, k \in Index : store[j] = store[k]   (* static storage is cleared *)
  /\ mux = None /\ chunk = <<>> /\ acc = <<>> /\ flush = "no"
  /\ subbed = FALSE /\ door = <<>> /\ lcd = "wait" /\ line = <<>>
  /\ pending = <<>> /\ lost = FALSE /\ missed = FALSE /\ calls = 0

-----------------------------------------------------------------------------
(* logbus_vprintf takes the mutex with its chunk.                          *)
LogCall(w) ==
  /\ mux = None
  /\ MaxCalls = 0 \/ calls < MaxCalls
  /\ mux' = w
  /\ chunk' \in Chunks
  /\ calls' = IF MaxCalls = 0 THEN 0 ELSE calls + 1
  /\ UNCHANGED <<ringVars, acc, flush, pending, lost, missed, door, lcdVars>>

(* logbus_append_chunk_locked, a byte of a line.                           *)
AppendByte ==
  /\ flush = "no" /\ chunk # <<>> /\ Head(chunk) # Newline
  /\ acc' = PushKeep(acc, Head(chunk), AccCap)
  /\ chunk' = Tail(chunk)
  /\ UNCHANGED <<ringVars, mux, flush, pending, lost, missed, calls, door, lcdVars>>

(* logbus_flush_line_locked: an empty line is nothing; a line that does    *)
(* not fit with its newline is dropped, without a doorbell.                *)
RoomForNoNewline(s) == Free >= Len(s)
RoomFor(s) == Free >= Len(s) + 1

EndLine ==
  /\ flush = "no" /\ chunk # <<>> /\ Head(chunk) = Newline
  /\ chunk' = Tail(chunk)
  /\ IF acc # <<>> /\ RoomFor(acc)
     THEN /\ flush' = "line"
          /\ WriteAll(acc)
          /\ pending' = Append(pending, LastOf(acc, ShowCap))
          /\ UNCHANGED <<acc, lost>>
     ELSE /\ acc' = <<>>
          /\ lost' = (lost \/ acc # <<>>)
          /\ UNCHANGED <<flush, pending, ringVars>>
  /\ UNCHANGED <<mux, missed, calls, door, lcdVars>>

WriteNewline ==
  /\ flush = "line" /\ wr.pc = "idle"
  /\ IF wr.ok THEN flush' = "newline" /\ WriteAll(<<Newline>>) /\ UNCHANGED acc
     ELSE flush' = "no" /\ acc' = <<>> /\ UNCHANGED ringVars
  /\ UNCHANGED <<mux, chunk, pending, lost, missed, calls, door, lcdVars>>

(* Both writes succeeded: EV_LOG_READY, which a full queue or a missing    *)
(* subscriber swallows.  That does no harm while an earlier doorbell waits *)
(* or the LCD task drains.                                                 *)
DoorOpen     == subbed /\ Len(door) < DoorDepth
RingDoor(ev) == door' = IF DoorOpen THEN Append(door, ev) ELSE door
ReadyWaits   == \E k \in 1 .. Len(door) : door[k] = "ready"
Swallowed    == ~DoorOpen /\ ~ReadyWaits /\ lcd = "wait"

PostReady ==
  /\ flush = "newline" /\ wr.pc = "idle"
  /\ IF wr.ok THEN RingDoor("ready") /\ missed' = Swallowed
     ELSE UNCHANGED <<door, missed>>
  /\ lost' = (lost /\ ~wr.ok)
  /\ flush' = "no" /\ acc' = <<>>
  /\ UNCHANGED <<ringVars, mux, chunk, pending, calls, lcdVars>>

LogReturn ==
  /\ mux # None /\ flush = "no" /\ chunk = <<>>
  /\ mux' = None
  /\ UNCHANGED <<ringVars, chunk, acc, flush, pending, lost, missed, calls, door, lcdVars>>

RingWrite == ProducerStep /\ UNCHANGED <<logVars, door, lcdVars>>

LogStep == AppendByte \/ EndLine \/ WriteNewline \/ PostReady \/ LogReturn \/ RingWrite

-----------------------------------------------------------------------------
Subscribe ==
  /\ ~subbed
  /\ subbed' = TRUE
  /\ UNCHANGED <<ringVars, logVars, door, lcd, line>>

(* The LCD task is subscribed to the whole bus; a full queue drops.        *)
OtherEvent ==
  /\ DoorOpen
  /\ RingDoor("other")
  /\ UNCHANGED <<ringVars, logVars, lcdVars>>

(* xQueueReceive; only the doorbell makes the task look at the ring.       *)
Wake ==
  /\ lcd = "wait" /\ door # <<>>
  /\ door' = Tail(door)
  /\ lcd' = IF Head(door) = "ready" THEN "drain" ELSE lcd
  /\ UNCHANGED <<ringVars, logVars, subbed, line>>

(* drain_log_stream_to_lcd_: view after view until the ring is empty.      *)
DrainView ==
  /\ lcd = "drain"
  /\ Peek
  /\ UNCHANGED <<logVars, door, lcdVars>>

DrainEnd ==
  /\ lcd = "drain" /\ rd.n = 0 /\ Used = 0
  /\ lcd' = "wait"
  /\ UNCHANGED <<ringVars, logVars, door, subbed, line>>

(* A byte of the view; at the newline the line goes to the display.        *)
DrainByte ==
  /\ lcd = "drain"
  /\ ReadByte
  /\ IF last' = Newline
     THEN line' = <<>> /\ pending' = Tail(pending)
     ELSE line' = PushKeep(line, last', ShowCap) /\ UNCHANGED pending
  /\ UNCHANGED <<mux, chunk, acc, flush, lost, missed, calls, door, subbed, lcd>>

DrainConsumedOnce ==
  /\ Consume
  /\ lcd' = "wait"
  /\ UNCHANGED <<logVars, door, subbed, line>>

DrainConsumed ==
  /\ lcd = "drain"
  /\ Consume
  /\ UNCHANGED <<logVars, door, lcdVars>>

LcdStep == Wake \/ DrainView \/ DrainByte \/ DrainConsumed \/ DrainEnd

Silence == mux = None /\ MaxCalls # 0 /\ calls = MaxCalls /\ UNCHANGED vars

LogNext ==
  \/ \E w \in Writers : LogCall(w)
  \/ LogStep
  \/ Subscribe \/ OtherEvent
  \/ LcdStep
  \/ Silence

LogSpec == LogInit /\ [][LogNext]_vars

(* The holder of the mutex runs with interrupts off, the LCD task is woken *)
(* by its queue and watched by the watchdog.                               *)
FairLogSpec == LogSpec /\ WF_vars(LogStep) /\ WF_vars(LcdStep)

-----------------------------------------------------------------------------
LogTypeOK ==
  /\ RingTypeOK
  /\ mux \in Writers \cup {None}
  /\ chunk \in Seq(Bytes) /\ acc \in Seq(Bytes \ {Newline}) /\ Len(acc) <= AccCap
  /\ flush \in {"no", "line", "newline"}
  /\ door \in Seq({"ready", "other"}) /\ Len(door) <= DoorDepth
  /\ lcd \in {"wait", "drain"}
  /\ line \in Seq(Bytes \ {Newline}) /\ Len(line) <= ShowCap
  /\ lost \in BOOLEAN /\ missed \in BOOLEAN /\ subbed \in BOOLEAN

(* What the display shows is the end of a line that was written, whole and *)
(* in order, whatever views the line was read in and whoever logged        *)
(* meanwhile.                                                              *)
AtNewline == rd.i < rd.n /\ store[Offset(tail + rd.i)] = Newline
ShowsWholeLines == AtNewline => pending # <<>> /\ line = Head(pending)

(* After a dropped line the display still catches up: the LCD task is      *)
(* draining what filled the ring, has a doorbell for it, or gets one from  *)
(* the line being written -- or else the last doorbell that was rung fell  *)
(* on a full queue, or came before the task subscribed.                    *)
DropIsCaughtUp ==
  lost => Used = 0 \/ flush # "no" \/ lcd = "drain" \/ ReadyWaits \/ missed

(* Every line written is shown in the end, those too whose own doorbell    *)
(* was swallowed, once a later doorbell gets through and stays the last    *)
(* one rung.                                                               *)
LinesGetShown == <>[]~missed => (pending # <<>> ~> pending = <<>>)

(* What app_log_bus.c:34 says of a line dropped at a full ring: the next   *)
(* READY lets the consumer catch up.  When the ring has no room for any    *)
(* line, there is no next READY: the consumer must be draining or have its *)
(* doorbell already.                                                       *)
NextReadyCatchesUp ==
  subbed /\ lost /\ Free < 2 => Used = 0 \/ flush # "no" \/ lcd = "drain" \/ ReadyWaits
=============================================================================
