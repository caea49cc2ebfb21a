------------------------------ MODULE I2cService ------------------------------
(***************************************************************************)
(* services__i2c: requests are copied into a bounded queue without waiting *)
(* and one worker task carries them out in order, each followed by an      *)
(* EV_I2C_DONE or EV_I2C_ERROR on the bus.  A request is what its client   *)
(* makes of it; carrying it out and posting the event are the client's     *)
(* module's, which knows the device and the subscribers.                   *)
(***************************************************************************)
EXTENDS Naturals, Sequences

CONSTANTS
  I2cDepth,   (* the length of the request queue                           *)
  NoReq

ASSUME I2cAssumption == I2cDepth \in Nat \ {0}

VARIABLES
  reqs,   (* s_q: the requests waiting                                     *)
  busy    (* the request the worker carries out, or NoReq                  *)

i2cVars == <<reqs, busy>>

I2cInit == reqs = <<>> /\ busy = NoReq

(* services_i2c_submit: true when the queue has room.  Memory is assumed   *)
(* to be there.                                                            *)
CanSubmit        == Len(reqs) < I2cDepth
Submit(r) == reqs' = Append(reqs, r) /\ UNCHANGED busy

(* Several submits in a row, whose results are not looked at one by one:   *)
(* those that fit.                                                         *)
SubmitThoseThatFit(rs) ==
  /\ reqs' = reqs \o SubSeq(rs, 1, IF Len(rs) <= I2cDepth - Len(reqs)
                                   THEN Len(rs) ELSE I2cDepth - Len(reqs))
  /\ UNCHANGED busy

(* worker: xQueueReceive, the transaction, the event, the next one.        *)
WorkerTake ==
  /\ busy = NoReq /\ reqs # <<>>
  /\ busy' = Head(reqs)
  /\ reqs' = Tail(reqs)

WorkerDone ==
  /\ busy # NoReq
  /\ busy' = NoReq
  /\ UNCHANGED reqs
=============================================================================
