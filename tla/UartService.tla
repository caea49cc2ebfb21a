----------------------------- MODULE UartService -----------------------------
(***************************************************************************)
(* services__uart over the ESP-IDF UART driver: one worker waits on a      *)
(* FreeRTOS queue set for two queues, the driver's events and the bus      *)
(* subscription with the transmit requests.                                *)
(*                                                                         *)
(* The driver's interrupt handler runs between any two steps of the        *)
(* worker: one interrupt takes a chunk out of the hardware FIFO, appends   *)
(* it to the receive ring, notes the position of the last pattern          *)
(* character and queues one event.  Of the bus, only what ends up in the   *)
(* service's own queue is modelled, the service's own frames included;     *)
(* the other tasks' use of the pool makes an allocation fail at any time.  *)
(* A byte is "nl", the pattern character, or "x".                          *)
(*                                                                         *)
(* Not modelled: the ring of 2048 bytes running full.                      *)
(***************************************************************************)
EXTENDS Naturals, SequencesExt

CONSTANTS
  Chunks,      (* what one receive interrupt may find in the FIFO         *)
  EvDepth,     (* length of the driver's event queue and pattern queue    *)
  TxDepth,     (* depth of the subscription                               *)
  SlotBytes,   (* LP_BUF_SIZE                                             *)
  UartFailing, (* the calls of services_uart_start that may fail          *)
  PoolRunsDry, (* whether the pool may be exhausted by others             *)
  MaxChunks,   (* bound: receive interrupts                               *)
  MaxTxRequests, (* bound: transmit requests                              *)
  MaxUartOthers (* bound: other events posted to the bus                  *)

ASSUME UartAssumption ==
  /\ Chunks \subseteq Seq({"x", "nl"}) /\ <<>> \notin Chunks
  /\ {EvDepth, TxDepth, SlotBytes} \subseteq Nat \ {0}
  /\ UartFailing \subseteq {"create", "subscribe", "set", "task"}
  /\ PoolRunsDry \in BOOLEAN
  /\ {MaxChunks, MaxTxRequests, MaxUartOthers} \subseteq Nat

VARIABLES
  uartBoot,    (* how far services_uart_start has come                    *)
  uartResult,  (* what its last call returned                             *)
  port,        (* s_port is set, the driver is installed                  *)
  subscribed,  (* the service's queue is in the subscriber table          *)
  members,     (* the queues that are in the set                          *)
  set,         (* s_qset: handles of member queues                        *)
  ring,        (* the driver's receive ring                               *)
  patpos,      (* its queue of pattern positions                          *)
  evq,         (* its event queue                                         *)
  txq,         (* s_tx_sub_q                                              *)
  uartPc,      (* where the worker stands                                 *)
  evt, want, byLine, (* handle_rx_event: the event, buffered_len, pos # -1 *)
  hand,        (* handle_tx_request: the request                          *)
  frame,       (* the last slot filled                                    *)
  came,        (* history: interrupts, other posts                        *)
  requested, written, (* history: requests queued, requests written       *)
  overrun,     (* history: the event queue was full at an interrupt       *)
  blamed       (* history: the pool was called full                       *)

startVars  == <<uartBoot, uartResult, port, subscribed, members>>
driverVars == <<ring, patpos, evq>>
uartWorkerVars == <<uartPc, evt, want, byLine, hand, frame>>
uartHistVars   == <<came, requested, written, overrun, blamed>>
uartVars   == <<startVars, driverVars, uartWorkerVars, uartHistVars, set, txq>>

UartInit ==
  /\ uartBoot = "off" /\ uartResult = "none" /\ port = FALSE
  /\ subscribed = FALSE /\ members = {} /\ set = <<>>
  /\ ring = <<>> /\ patpos = <<>> /\ evq = <<>> /\ txq = <<>>
  /\ uartPc = "none" /\ evt = "data" /\ want = 0 /\ byLine = FALSE
  /\ hand = 0 /\ frame = <<>>
  /\ came = [chunks |-> 0, others |-> 0]
  /\ requested = <<>> /\ written = <<>> /\ overrun = FALSE /\ blamed = "no"

-----------------------------------------------------------------------------
(* FreeRTOS: a send to a member queue also puts its handle into the set.   *)
SetLenTxOnly == TxDepth
SetLen       == 2 * TxDepth + EvDepth

Notified(q) == IF q \in members /\ Len(set) < SetLen THEN Append(set, q) ELSE set

(* The driver, told to read n bytes: positions move with the data, those   *)
(* up to the last one of a byte that was read are forgotten.               *)
PositionsLeft(n) == LET gone == Max({0} \cup {k \in DOMAIN patpos : patpos[k] < n})
                    IN [k \in 1 .. Len(patpos) - gone |-> patpos[gone + k] - n]
TakeBytes(n) == /\ ring' = SubSeq(ring, n + 1, Len(ring))
                /\ patpos' = PositionsLeft(n)

(* The receive interrupt.  Before pattern detection is on, all is data.    *)
DetectsPattern == uartBoot \notin {"off", "port"}

LastPattern(c) == CHOOSE k \in DOMAIN c : c[k] = "nl" /\ \A l \in k + 1 .. Len(c) : c[l] # "nl"

RxInterrupt(c) ==
  /\ port
  /\ came.chunks < MaxChunks
  /\ came' = [came EXCEPT !.chunks = @ + 1]
  /\ ring' = ring \o c
  /\ LET hit  == DetectsPattern /\ Contains(c, "nl")
         room == Len(evq) < EvDepth
     IN /\ patpos' = IF hit /\ Len(patpos) < EvDepth
                     THEN Append(patpos, Len(ring) + LastPattern(c) - 1) ELSE patpos
        /\ IF room
           THEN /\ evq' = Append(evq, IF hit THEN "pattern" ELSE "data")
                /\ set' = Notified("rx")
                /\ UNCHANGED overrun
           ELSE /\ overrun' = TRUE
                /\ UNCHANGED <<evq, set>>
  /\ UNCHANGED <<startVars, uartWorkerVars, txq, requested, written, blamed>>

-----------------------------------------------------------------------------
(* services_uart_start, called again after it failed: a port left by the   *)
(* earlier call makes it return true at once.                              *)
Call(step, next) == /\ uartBoot = step
                    /\ uartBoot' = next

StartFails(what) == /\ what \in UartFailing
                    /\ uartBoot' = "returned" /\ uartResult' = "false"

CreatePort ==
  /\ uartBoot = "off" \/ (uartBoot = "returned" /\ ~port)
  /\ \/ uartBoot' = "port" /\ port' = TRUE /\ uartResult' = "none"
     \/ StartFails("create") /\ UNCHANGED port
  /\ UNCHANGED <<subscribed, members, set, driverVars, txq, uartWorkerVars, uartHistVars>>

UartStartAgain ==
  /\ uartBoot = "returned" /\ port
  /\ uartResult' = "true"
  /\ UNCHANGED <<uartBoot, port, subscribed, members, set, driverVars, txq, uartWorkerVars, uartHistVars>>

(* uart_enable_pattern_det_baud_intr and uart_pattern_queue_reset.         *)
EnablePattern ==
  /\ Call("port", "detect")
  /\ patpos' = <<>>
  /\ UNCHANGED <<uartResult, port, subscribed, members, set, ring, evq, txq, uartWorkerVars, uartHistVars>>

SubscribeTx ==
  /\ uartBoot = "detect"
  /\ \/ uartBoot' = "subscribed" /\ subscribed' = TRUE /\ UNCHANGED uartResult
     \/ StartFails("subscribe") /\ UNCHANGED subscribed
  /\ UNCHANGED <<port, members, set, driverVars, txq, uartWorkerVars, uartHistVars>>

CreateSet ==
  /\ uartBoot = "subscribed"
  /\ \/ uartBoot' = "addrx" /\ UNCHANGED uartResult
     \/ StartFails("set")
  /\ UNCHANGED <<port, subscribed, members, set, driverVars, txq, uartWorkerVars, uartHistVars>>

(* xQueueAddToSet refuses a queue that holds an item; the service does not *)
(* look at what it returns.                                                *)
AddToSet(q, items) == members' = IF items = <<>> THEN members \cup {q} ELSE members

AddRxToSet == /\ Call("addrx", "addtx") /\ AddToSet("rx", evq)
              /\ UNCHANGED <<uartResult, port, subscribed, set, driverVars, txq, uartWorkerVars, uartHistVars>>
AddTxToSet == /\ Call("addtx", "task") /\ AddToSet("tx", txq)
              /\ UNCHANGED <<uartResult, port, subscribed, set, driverVars, txq, uartWorkerVars, uartHistVars>>

StartWorker ==
  /\ uartBoot = "task"
  /\ \/ uartBoot' = "returned" /\ uartResult' = "true" /\ uartPc' = "select"
     \/ StartFails("task") /\ UNCHANGED uartPc
  /\ UNCHANGED <<port, subscribed, members, evt, want, byLine, hand, frame, set, driverVars, txq, uartHistVars>>

-----------------------------------------------------------------------------
(* The bus, as the service's queue sees it: an event is queued when there  *)
(* is room.                                                                *)
Deliver(m) ==
  IF subscribed /\ Len(txq) < TxDepth
  THEN txq' = Append(txq, m) /\ set' = Notified("tx")
  ELSE UNCHANGED <<txq, set>>

(* The console's uart_send.                                                *)
RequestTx ==
  /\ Len(requested) < MaxTxRequests
  /\ subscribed /\ Len(txq) < TxDepth
  /\ Deliver([code |-> "tx", id |-> Len(requested) + 1])
  /\ requested' = Append(requested, Len(requested) + 1)
  /\ UNCHANGED <<startVars, driverVars, uartWorkerVars, came, written, overrun, blamed>>

PostOther ==
  /\ came.others < MaxUartOthers
  /\ came' = [came EXCEPT !.others = @ + 1]
  /\ Deliver([code |-> "other", id |-> 0])
  /\ UNCHANGED <<startVars, driverVars, uartWorkerVars, requested, written, overrun, blamed>>

-----------------------------------------------------------------------------
(* uart_worker_task: a handle from the set, then one item from that queue. *)
SelectRx ==
  /\ uartPc = "select" /\ set # <<>> /\ Head(set) = "rx"
  /\ set' = Tail(set)
  /\ IF evq = <<>> THEN UNCHANGED <<evq, evt, uartPc>>
     ELSE /\ evq' = Tail(evq) /\ evt' = Head(evq)
          /\ uartPc' = "measure"
  /\ UNCHANGED <<startVars, ring, patpos, want, byLine, hand, frame, txq, uartHistVars>>

TakesTxReq(m) == m.code = "tx"

SelectTx ==
  /\ uartPc = "select" /\ set # <<>> /\ Head(set) = "tx"
  /\ set' = Tail(set)
  /\ IF txq # <<>> /\ TakesTxReq(Head(txq))
     THEN uartPc' = "write" /\ hand' = Head(txq).id
     ELSE UNCHANGED <<uartPc, hand>>
  /\ txq' = IF txq = <<>> THEN txq ELSE Tail(txq)
  /\ UNCHANGED <<startVars, driverVars, evt, want, byLine, frame, uartHistVars>>

(* handle_rx_event: the number of buffered bytes, ...                      *)
Measure ==
  /\ uartPc = "measure"
  /\ want' = Len(ring) /\ byLine' = FALSE
  /\ uartPc' = IF evt = "pattern" THEN "pop" ELSE "read"
  /\ UNCHANGED <<startVars, driverVars, evt, hand, frame, set, txq, uartHistVars>>

(* ... for a pattern event the length of the first line instead, ...       *)
LineLengthShort(pos) == pos
LineLength(pos)      == pos + 1

PopPattern ==
  /\ uartPc = "pop"
  /\ IF patpos = <<>> THEN UNCHANGED <<want, byLine, patpos>>
     ELSE /\ want' = LineLength(Head(patpos)) /\ byLine' = TRUE
          /\ patpos' = Tail(patpos)
  /\ uartPc' = "read"
  /\ UNCHANGED <<startVars, ring, evq, evt, hand, frame, set, txq, uartHistVars>>

ReadNothing ==
  /\ uartPc = "read" /\ want = 0
  /\ uartPc' = "select"
  /\ UNCHANGED <<startVars, driverVars, evt, want, byLine, hand, frame, set, txq, uartHistVars>>

(* ... read into a slot, ...                                               *)
FitsSlot == want + 1 <= SlotBytes

ReadIntoSlot ==
  /\ uartPc = "read" /\ want > 0 /\ FitsSlot
  /\ frame' = SubSeq(ring, 1, want)
  /\ TakeBytes(want)
  /\ uartPc' = "publish"
  /\ UNCHANGED <<startVars, evq, evt, want, byLine, hand, set, txq, uartHistVars>>

(* ... or, when lp_alloc_try gives none, thrown away in blocks.            *)
TrashOneBlock == 1
Trashed       == want

ReadIntoTrash ==
  /\ uartPc = "read" /\ want > 0
  /\ PoolRunsDry \/ ~FitsSlot
  /\ TakeBytes(Trashed)
  /\ blamed' = IF FitsSlot THEN "full" ELSE "long"
  /\ uartPc' = "select"
  /\ UNCHANGED <<startVars, evq, evt, want, byLine, hand, frame, set, txq, came, requested, written, overrun>>

(* The frame goes to every subscriber, the service itself among them.      *)
PublishFrame ==
  /\ uartPc = "publish"
  /\ Deliver([code |-> "frame", id |-> 0])
  /\ uartPc' = "select"
  /\ UNCHANGED <<startVars, driverVars, evt, want, byLine, hand, frame, uartHistVars>>

(* handle_tx_request.                                                      *)
WriteOut ==
  /\ uartPc = "write"
  /\ written' = Append(written, hand)
  /\ uartPc' = "select"
  /\ UNCHANGED <<startVars, driverVars, evt, want, byLine, hand, frame, set, txq, came, requested, overrun, blamed>>

WorkerStep == \/ SelectRx \/ SelectTx \/ Measure \/ PopPattern
              \/ ReadNothing \/ ReadIntoSlot \/ ReadIntoTrash \/ PublishFrame \/ WriteOut

StartStep == \/ CreatePort \/ UartStartAgain \/ EnablePattern \/ SubscribeTx \/ CreateSet
             \/ AddRxToSet \/ AddTxToSet \/ StartWorker

UartNext == \/ StartStep \/ WorkerStep
            \/ \E c \in Chunks : RxInterrupt(c)
            \/ RequestTx \/ PostOther

UartSpec == UartInit /\ [][UartNext]_uartVars

(* The worker is a task of priority 5 that feeds the watchdog.             *)
FairUartSpec == UartSpec /\ WF_uartVars(WorkerStep)

-----------------------------------------------------------------------------
Pcs == {"none", "select", "measure", "pop", "read", "publish", "write"}

UartTypeOK ==
  /\ uartBoot \in {"off", "port", "detect", "subscribed", "addrx", "addtx", "task", "returned"}
  /\ uartResult \in {"none", "true", "false"} /\ {port, subscribed} \subseteq BOOLEAN
  /\ members \subseteq {"rx", "tx"}
  /\ Len(set) <= SetLen /\ Len(evq) <= EvDepth /\ Len(txq) <= TxDepth
  /\ uartPc \in Pcs
  /\ uartPc \in {"pop", "read"} => want <= Len(ring)
  /\ \A k \in DOMAIN patpos : patpos[k] < Len(ring)

Waiting(q) == IF q = "rx" THEN evq ELSE txq

(* The set holds one handle per item of each member queue, whatever the    *)
(* interrupt, the posts and the worker do in between: an item without a    *)
(* handle would never be looked at again.                                  *)
HandlesMatchItems ==
  \A q \in members : Cardinality({i \in DOMAIN set : set[i] = q}) = Len(Waiting(q))

(* A frame cut at a pattern position ends with the pattern character,      *)
(* although an earlier batch may have moved the data after the position    *)
(* was noted and more data may come while it is used.                      *)
LinesEndWithPattern == uartPc = "publish" /\ byLine => Last(frame) = "nl"

(* While no event was lost, bytes in the ring always have an event to come *)
(* or the worker at them.  It takes interrupts that find nothing behind a  *)
(* pattern character: those bytes wait for the next reception.             *)
PromptInterrupts == \A c \in Chunks : \A k \in DOMAIN c : c[k] = "nl" => k = Len(c)
NoByteWaits ==
  PromptInterrupts /\ uartPc # "none" /\ "rx" \in members /\ ~overrun /\ ring # <<>>
    => evq # <<>> \/ uartPc \in {"measure", "pop", "read"}

(* Requests are written once, in the order they were queued, whatever      *)
(* frames and other events lie between them.                               *)
RequestsInOrder == IsPrefix(written, requested)

(* A request that reached the queue of a running service is written.       *)
RequestsGetWritten ==
  \A n \in 1 .. MaxTxRequests :
    (uartPc # "none" /\ "tx" \in members /\ Len(requested) >= n) ~> (Len(written) >= n)

(* services_uart.h: the call starts the service, a task for RX and the     *)
(* subscription for TX.                                                    *)
StartedMeansServed == uartResult = "true" => uartPc # "none" /\ members = {"rx", "tx"}

(* services_uart.c:46 takes a slot for the whole batch; the log calls it a *)
(* full pool when there is none.                                           *)
DropsBlameFullPool == blamed # "long"
=============================================================================
