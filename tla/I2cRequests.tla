----------------------------- MODULE I2cRequests -----------------------------
(***************************************************************************)
(* services__i2c in detail: a start that may fail and be tried again, and  *)
(* requests as the clients' tasks build them, one allocation at a time,    *)
(* beside the worker.  I2cService has the same queue and worker for a      *)
(* client that only ever writes, with memory to spare.  A client names     *)
(* itself in its requests (user) and leaves its receive buffer alone until *)
(* their events have come; its transmit buffer is its own again once       *)
(* submit has returned.                                                    *)
(***************************************************************************)
EXTENDS SequencesExt

CONSTANTS
  Clients,     (* tasks that submit requests                              *)
  Shapes,      (* requests they make: [op, tx, rx]; tx, rx: not NULL      *)
  I2cDepth,    (* length of the queue: queue_len                          *)
  MaxRequests, (* bound: requests of all clients                          *)
  MaxFails     (* bound: allocations and transactions that fail           *)

ASSUME ReqAssumption ==
  /\ Shapes \subseteq [op : {"TX", "RX", "TXRX", "OTHER"}, tx : BOOLEAN, rx : BOOLEAN]
  /\ I2cDepth \in Nat \ {0}
  /\ MaxRequests \in Nat /\ MaxFails \in Nat

NoNode == [id |-> 0, user |-> "none", shape |-> [op |-> "OTHER", tx |-> FALSE, rx |-> FALSE],
           bytes |-> 0, want |-> 0]

VARIABLES
  reqBoot,     (* "off", "task" (the queue is made) or "up"               *)
  s_q,         (* the nodes in the queue                                  *)
  heap,        (* blocks allocated: <<node's id, "node", "tx" or "rx">>   *)
  at,          (* per client: its step inside services_i2c_submit, or "out" *)
  node,        (* per client: the node it builds                          *)
  txbuf,       (* per client: contents of its transmit buffer             *)
  rxbuf,       (* per client: the request whose answer is in its buffer   *)
  ids, fails,  (* requests and failures so far                            *)
  reqPc, n, ok, (* the worker: its step, its node, the transaction's result *)
  wire,        (* history: the last bytes sent were those submitted       *)
  accepted, answered, (* history, per client: the requests accepted, and  *)
               (* those whose event was posted, in order                  *)
  told         (* history, per client: the last reading reported as done  *)

clientVars == <<at, node, txbuf>>
reqWorkerVars == <<reqPc, n, ok, wire, rxbuf, answered, told>>
reqVars    == <<reqBoot, s_q, heap, clientVars, reqWorkerVars, ids, fails, accepted>>

ReqInit ==
  /\ reqBoot = "off" /\ s_q = <<>> /\ heap = {}
  /\ at = [c \in Clients |-> "out"] /\ node = [c \in Clients |-> NoNode]
  /\ txbuf = [c \in Clients |-> 0] /\ rxbuf = txbuf /\ told = txbuf
  /\ ids = 0 /\ fails = 0
  /\ reqPc = "none" /\ n = NoNode /\ ok = FALSE /\ wire = TRUE
  /\ accepted = [c \in Clients |-> <<>>] /\ answered = accepted

Fail == fails < MaxFails /\ fails' = fails + 1

-----------------------------------------------------------------------------
(* services_i2c_start: the queue, then the task; without it no queue.      *)
CreateQueue ==
  /\ reqBoot = "off"
  /\ \/ reqBoot' = "task" /\ UNCHANGED fails
     \/ Fail /\ UNCHANGED reqBoot
  /\ UNCHANGED <<s_q, heap, clientVars, reqWorkerVars, ids, accepted>>

CreateTask ==
  /\ reqBoot = "task"
  /\ \/ reqBoot' = "up" /\ reqPc' = "wait" /\ UNCHANGED fails
     \/ reqBoot' = "off" /\ Fail /\ UNCHANGED reqPc
  /\ UNCHANGED <<s_q, heap, clientVars, n, ok, wire, rxbuf, answered, told, ids, accepted>>

-----------------------------------------------------------------------------
(* services_i2c_submit.                                                    *)
Return(c) == at' = [at EXCEPT ![c] = "out"] /\ node' = [node EXCEPT ![c] = NoNode]
Goto(c, l) == at' = [at EXCEPT ![c] = l]
Blocks(i) == {<<i, "node">>, <<i, "tx">>, <<i, "rx">>}

(* What a failure gives back: all that was allocated for the node.         *)
GiveBackNode(c) == heap' = heap \ {<<node[c].id, "node">>}
GiveBack(c)     == heap' = heap \ Blocks(node[c].id)

AllocNode(c, s) ==
  /\ reqBoot = "up" /\ at[c] = "out" /\ ids < MaxRequests
  /\ ids' = ids + 1
  /\ \/ /\ heap' = heap \cup {<<ids', "node">>}
        /\ node' = [node EXCEPT ![c] = [NoNode EXCEPT !.id = ids', !.user = c, !.shape = s]]
        /\ Goto(c, "tx") /\ UNCHANGED fails
     \/ Fail /\ UNCHANGED <<heap, node, at>>
  /\ UNCHANGED <<reqBoot, s_q, txbuf, reqWorkerVars, accepted>>

CopyTx(c) ==
  /\ at[c] = "tx"
  /\ \/ ~node[c].shape.tx /\ Goto(c, "rx") /\ UNCHANGED <<heap, node, fails>>
     \/ /\ node[c].shape.tx
        /\ heap' = heap \cup {<<node[c].id, "tx">>}
        /\ node' = [node EXCEPT ![c].bytes = txbuf[c], ![c].want = txbuf[c]]
        /\ Goto(c, "rx") /\ UNCHANGED fails
     \/ node[c].shape.tx /\ Fail /\ GiveBack(c) /\ Return(c)
  /\ UNCHANGED <<reqBoot, s_q, txbuf, reqWorkerVars, ids, accepted>>

StageRx(c) ==
  /\ at[c] = "rx"
  /\ \/ ~node[c].shape.rx /\ Goto(c, "send") /\ UNCHANGED <<heap, node, fails>>
     \/ /\ node[c].shape.rx
        /\ heap' = heap \cup {<<node[c].id, "rx">>}
        /\ Goto(c, "send") /\ UNCHANGED <<node, fails>>
     \/ node[c].shape.rx /\ Fail /\ GiveBack(c) /\ Return(c)
  /\ UNCHANGED <<reqBoot, s_q, txbuf, reqWorkerVars, ids, accepted>>

Room           == Len(s_q) < I2cDepth
QueuedFirst(c) == <<node[c]>> \o s_q
Queued(c)      == Append(s_q, node[c])

Enqueue(c) ==
  /\ at[c] = "send" /\ Return(c)
  /\ IF Room
     THEN /\ s_q' = Queued(c)
          /\ accepted' = [accepted EXCEPT ![c] = Append(@, node[c].id)]
          /\ UNCHANGED heap
     ELSE GiveBack(c) /\ UNCHANGED <<s_q, accepted>>
  /\ UNCHANGED <<reqBoot, txbuf, reqWorkerVars, ids, fails>>

(* Outside of submit the client writes its transmit buffer anew.           *)
Scribble(c) ==
  /\ at[c] = "out" /\ accepted[c] # <<>>
  /\ txbuf' = [txbuf EXCEPT ![c] = Last(accepted[c])] /\ txbuf' # txbuf
  /\ UNCHANGED <<reqBoot, s_q, heap, at, node, reqWorkerVars, ids, fails, accepted>>

-----------------------------------------------------------------------------
(* worker.                                                                 *)
Take ==
  /\ reqPc = "wait" /\ s_q # <<>>
  /\ n' = Head(s_q) /\ s_q' = Tail(s_q) /\ reqPc' = "run"
  /\ UNCHANGED <<reqBoot, heap, clientVars, ok, wire, rxbuf, answered, told, ids, fails, accepted>>

(* The transaction.  A reading without a buffer is an invalid argument to  *)
(* i2c_rx, and so is an unknown operation.                                 *)
Sent     == n.bytes

MayWork == CASE n.shape.op = "RX" -> n.shape.rx [] n.shape.op = "OTHER" -> FALSE [] OTHER -> TRUE

Transact ==
  /\ reqPc = "run"
  /\ wire' = (n.shape.op \in {"TX", "TXRX"} /\ n.shape.tx => Sent = n.want)
  /\ \/ MayWork /\ ok' = TRUE /\ UNCHANGED fails
     \/ ~MayWork /\ ok' = FALSE /\ UNCHANGED fails
     \/ MayWork /\ ok' = FALSE /\ Fail
  /\ reqPc' = "copy"
  /\ UNCHANGED <<reqBoot, s_q, heap, clientVars, n, rxbuf, answered, told, ids, accepted>>

Reads      == ok /\ n.shape.op \in {"RX", "TXRX"} /\ n.shape.rx

CopyRx ==
  /\ reqPc = "copy" /\ reqPc' = "post"
  /\ rxbuf' = IF Reads THEN [rxbuf EXCEPT ![n.user] = n.id] ELSE rxbuf
  /\ UNCHANGED <<reqBoot, s_q, heap, clientVars, n, ok, wire, answered, told, ids, fails, accepted>>

PostsDoneOnly == ok
Posts         == TRUE (* EV_I2C_DONE or EV_I2C_ERROR                      *)

PostEvent ==
  /\ reqPc = "post" /\ reqPc' = "free"
  /\ answered' = IF Posts THEN [answered EXCEPT ![n.user] = Append(@, n.id)] ELSE answered
  /\ told' = IF ok /\ n.shape.op \in {"RX", "TXRX"} /\ n.shape.rx
             THEN [told EXCEPT ![n.user] = n.id] ELSE told
  /\ UNCHANGED <<reqBoot, s_q, heap, clientVars, n, ok, wire, rxbuf, ids, fails, accepted>>

Free ==
  /\ reqPc = "free" /\ reqPc' = "wait"
  /\ heap' = heap \ Blocks(n.id) /\ n' = NoNode
  /\ UNCHANGED <<reqBoot, s_q, clientVars, ok, wire, rxbuf, answered, told, ids, fails, accepted>>

Worker == Take \/ Transact \/ CopyRx \/ PostEvent \/ Free
Client(c) == (\E s \in Shapes : AllocNode(c, s)) \/ CopyTx(c) \/ StageRx(c) \/ Enqueue(c) \/ Scribble(c)
ReqNext == CreateQueue \/ CreateTask \/ Worker \/ \E c \in Clients : Client(c)

ReqSpec     == ReqInit /\ [][ReqNext]_reqVars
FairReqSpec == ReqSpec /\ WF_reqVars(Worker)

-----------------------------------------------------------------------------
ReqTypeOK ==
  /\ reqBoot \in {"off", "task", "up"} /\ (reqBoot = "up" <=> reqPc # "none")
  /\ Len(s_q) <= I2cDepth
  /\ \A c \in Clients : at[c] \in {"out", "tx", "rx", "send"}
  /\ reqPc \in {"none", "wait", "run", "copy", "post", "free"} /\ ok \in BOOLEAN
  /\ heap \subseteq UNION {Blocks(i) : i \in 1 .. ids}

(* Every block belongs to one request that is being built, waits or is     *)
(* carried out, and those have all their blocks: no path, failed or not,   *)
(* leaks memory or gives it back early.                                    *)
Owned(m, l) ==
  IF m.id = 0 THEN {}
  ELSE {<<m.id, "node">>} \cup (IF m.shape.tx /\ l # "tx" THEN {<<m.id, "tx">>} ELSE {})
       \cup (IF m.shape.rx /\ l \notin {"tx", "rx"} THEN {<<m.id, "rx">>} ELSE {})
HeapIsOwned ==
  heap = UNION ({Owned(node[c], at[c]) : c \in Clients} \cup {Owned(m, "sent") : m \in ToSet(s_q)}
                \cup {Owned(n, "sent")})

(* The device gets the bytes that were in the client's buffer when submit  *)
(* was called, although the client has written to it since.                *)
SendsWhatWasSubmitted == wire

(* When a client is told its reading is done, the reading is in its buffer.*)
DoneMeansDataThere == \A c \in Clients : rxbuf[c] >= told[c]

(* The events are posted in the order a client's requests were accepted,   *)
(* one for each, however requests of several clients wait together: the    *)
(* events all look alike, and the order is the only way to match them.     *)
(* The bus delivers in this order too (InPostOrder), but a client's full   *)
(* queue drops an event (core_ev.c:289), and then even counting is no use. *)
AnsweredInOrder == \A c \in Clients : IsPrefix(answered[c], accepted[c])

(* For every request submit accepted, EV_I2C_DONE or EV_I2C_ERROR is       *)
(* posted in the end.                                                      *)
AcceptedGetsAnswered == []<>(answered = accepted)
=============================================================================
