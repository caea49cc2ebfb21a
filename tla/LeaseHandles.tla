----------------------------- MODULE LeaseHandles -----------------------------
(***************************************************************************)
(* What the generation in a handle is for.  Two history variables follow   *)
(* the pool of LeasePool: how often each slot was recycled (a number that  *)
(* does not wrap) and every handle lp_alloc_try ever returned, with that   *)
(* number.  The clients are those of LeasePool: they may use any handle.   *)
(***************************************************************************)
EXTENDS LeasePool

CONSTANT MaxSerial   (* bound: how often a slot is recycled between boots *)

ASSUME SerialAssumption == MaxSerial \in Nat

VARIABLES
  serial,   (* slot -> number of times it went back to the pool            *)
  issued    (* the handles returned since boot: [idx, gen, serial]         *)

handleVars == <<poolVars, serial, issued>>

Issue(i) == [idx |-> i, gen |-> gen[i], serial |-> serial[i]]

HandleTypeOK ==
  /\ TypeOK
  /\ serial \in [Slots -> 0 .. MaxSerial]
  /\ issued \subseteq [idx : Slots, gen : Gens, serial : 0 .. MaxSerial]

HInit == Init /\ serial = [i \in Slots |-> 0] /\ issued = {}

HBoot == Reboot /\ serial' = [i \in Slots |-> 0] /\ issued' = {}

HCall ==
  /\ Next
  /\ Running
  /\ serial' = [i \in Slots |->
                  IF refcnt[i] > 0 /\ refcnt'[i] = 0 THEN serial[i] + 1 ELSE serial[i]]
  /\ \A i \in Slots : serial'[i] <= MaxSerial
  /\ issued' = issued \cup {Issue(i) : i \in {j \in Slots : refcnt[j] = 0 /\ refcnt'[j] > 0}}

HNext == HBoot \/ HCall

HSpec == HInit /\ [][HNext]_handleVars

-----------------------------------------------------------------------------
(* A handle kept after its slot was recycled is refused by every call,     *)
(* although the same slot may be in use again: a handle is live only if    *)
(* the slot was recycled a multiple of GenMod (2^16) times since it was    *)
(* issued.  In particular never for fewer than 2^16 recycles.              *)
StaleHandleRejected ==
  \A x \in issued : Live([idx |-> x.idx, gen |-> x.gen]) =>
                       (serial[x.idx] - x.serial) % GenMod = 0
==============================================================================
