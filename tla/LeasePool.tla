------------------------------ MODULE LeasePool ------------------------------
(***************************************************************************)
(* The LeasePool of core__leasepool: NumSlots reference-counted buffers,   *)
(* each with a 16-bit generation, handed out from a LIFO free list.        *)
(*                                                                         *)
(* Every API call of leasepool.c runs inside one critical section of       *)
(* s_mux, so every call is one action.  This module puts the most general  *)
(* client around the pool: any task may make any call at any time, with    *)
(* any handle (current, stale, never issued, invalid) and any argument.    *)
(* The modules that EXTEND it reuse the same actions with the clients the  *)
(* firmware really has.                                                    *)
(*                                                                         *)
(* Abstractions: a buffer holds one poison pattern or one payload; the     *)
(* canaries are left out (no client in src/ writes past cap, so they never *)
(* change); the statistics count modulo CntMod instead of 2^32.            *)
(***************************************************************************)
EXTENDS Integers, FiniteSets

CONSTANTS
  NumSlots,  (* CONFIG_CORE_LEASEPOOL_SLOTS                              *)
  GenMod,    (* the width of gen: 2^16 in the code                       *)
  RefMax,    (* the largest refcnt: 0xFFFF in the code                   *)
  BufSize,   (* CONFIG_CORE_LEASEPOOL_SLOT_BYTES                         *)
  Guard,     (* CONFIG_CORE_LEASEPOOL_GUARD                              *)
  CntMod,    (* the width of the statistics counters                     *)
  Payloads   (* what clients write into a buffer                         *)

ASSUME PoolAssumption ==
  /\ NumSlots \in Nat \ {0}
  /\ GenMod \in Nat \ {0, 1}
  /\ RefMax \in Nat \ {0}
  /\ BufSize \in Nat
  /\ Guard \in BOOLEAN
  /\ CntMod \in Nat \ {0}

VARIABLES
  gen,       (* slot -> generation                                       *)
  refcnt,    (* slot -> reference count                                  *)
  len,       (* slot -> committed length                                 *)
  magic,     (* slot -> FREE or USED, kept only with Guard               *)
  buf,       (* slot -> content of the buffer                            *)
  sFree,     (* the array s_free                                         *)
  freeTop,   (* s_free_top: sFree[0 .. freeTop-1] is the free stack      *)
  allocOk,   (* s_alloc_ok                                               *)
  allocFail, (* s_alloc_fail                                             *)
  peak,      (* s_peak_used                                              *)
  views,     (* slots whose buffer pointer some client was given         *)
  aborted    (* "no", or why lp_guard_fail_ called abort()               *)

slotVars  == <<gen, refcnt, len, magic, buf>>
listVars  == <<sFree, freeTop>>
statVars  == <<allocOk, allocFail, peak>>
poolVars  == <<gen, refcnt, len, magic, buf, sFree, freeTop,
               allocOk, allocFail, peak, views, aborted>>

Slots       == 0 .. NumSlots - 1
Gens        == 0 .. GenMod - 1
NoSlot      == -1                       \* 0xFFFF
Handles     == [idx : Slots \cup {NoSlot}, gen : Gens]
PoisonFree  == "A5"
PoisonAlloc == "CC"
Contents    == {PoisonFree, PoisonAlloc, "00"} \cup Payloads
Reasons     == {"no", "stale handle", "magic", "poison", "len > cap",
                "refcnt overflow", "free list overflow"}

Inc(n)  == (n + 1) % CntMod
Used    == NumSlots - freeTop
Running == aborted = "no"

ValidIdx(h) == h.idx \in Slots
Live(h)     == ValidIdx(h) /\ gen[h.idx] = h.gen /\ refcnt[h.idx] > 0

(* lp_guard_fail_: abort() with Guard, a silent return without it.  What   *)
(* the memory holds after abort() is lost, so nothing else changes.        *)
Fail(why) ==
  /\ aborted' = IF Guard THEN why ELSE "no"
  /\ UNCHANGED <<slotVars, listVars, statVars, views>>

NoOp == UNCHANGED poolVars

(* The checks commit, addref_n and release make on the slot of a handle.   *)
Fault(h) ==
  IF gen[h.idx] # h.gen \/ refcnt[h.idx] = 0 THEN "stale handle"
  ELSE IF Guard /\ magic[h.idx] # "USED" THEN "magic" ELSE "no"

TypeOK ==
  /\ gen \in [Slots -> Gens]
  /\ refcnt \in [Slots -> 0 .. RefMax]
  /\ len \in [Slots -> 0 .. BufSize]
  /\ magic \in [Slots -> {"FREE", "USED"}]
  /\ buf \in [Slots -> Contents]
  /\ sFree \in [Slots -> Slots]
  /\ freeTop \in 0 .. NumSlots
  /\ allocOk \in 0 .. CntMod - 1
  /\ allocFail \in 0 .. CntMod - 1
  /\ peak \in 0 .. NumSlots
  /\ views \in SUBSET Slots
  /\ aborted \in Reasons

-----------------------------------------------------------------------------
(* lp_init                                                                 *)
Init ==
  /\ gen = [i \in Slots |-> 1]
  /\ refcnt = [i \in Slots |-> 0]
  /\ len = [i \in Slots |-> 0]
  /\ magic = [i \in Slots |-> "FREE"]
  /\ buf = [i \in Slots |-> IF Guard THEN PoisonFree ELSE "00"]
  /\ sFree = [i \in Slots |-> i]
  /\ freeTop = NumSlots
  /\ allocOk = 0 /\ allocFail = 0 /\ peak = 0
  /\ views = {}
  /\ aborted = "no"

(* abort() panics and the chip boots again: main calls lp_init.            *)
Reboot ==
  /\ aborted # "no"
  /\ gen' = [i \in Slots |-> 1]
  /\ refcnt' = [i \in Slots |-> 0]
  /\ len' = [i \in Slots |-> 0]
  /\ magic' = [i \in Slots |-> "FREE"]
  /\ buf' = [i \in Slots |-> IF Guard THEN PoisonFree ELSE "00"]
  /\ sFree' = [i \in Slots |-> i]
  /\ freeTop' = NumSlots
  /\ allocOk' = 0 /\ allocFail' = 0 /\ peak' = 0
  /\ views' = {}
  /\ aborted' = "no"

-----------------------------------------------------------------------------
(* lp_alloc_try(want) *)
NextSlotMutant == sFree[0]                 \* pops the wrong end
NextSlot   == sFree[freeTop - 1]
NextHandle == [idx |-> NextSlot, gen |-> gen[NextSlot]]

AllocFault ==
  IF Guard /\ magic[NextSlot] # "FREE" THEN "magic"
  ELSE IF Guard /\ buf[NextSlot] # PoisonFree THEN "poison" ELSE "no"

AllocTooLong(want) == want > BufSize /\ NoOp

AllocEmpty(want) ==
  /\ want <= BufSize
  /\ freeTop = 0
  /\ allocFail' = Inc(allocFail)
  /\ UNCHANGED <<slotVars, listVars, allocOk, peak, views, aborted>>

Handout(want) ==
  /\ want <= BufSize
  /\ freeTop > 0
  /\ AllocFault = "no"
  /\ freeTop' = freeTop - 1
  /\ magic' = IF Guard THEN [magic EXCEPT ![NextSlot] = "USED"] ELSE magic
  /\ buf' = IF Guard THEN [buf EXCEPT ![NextSlot] = PoisonAlloc] ELSE buf
  /\ refcnt' = [refcnt EXCEPT ![NextSlot] = 1]
  /\ len' = [len EXCEPT ![NextSlot] = 0]
  /\ allocOk' = Inc(allocOk)
  /\ peak' = IF NumSlots - freeTop' > peak THEN NumSlots - freeTop' ELSE peak
  /\ UNCHANGED <<gen, sFree, allocFail, views, aborted>>

AllocCaught(want) ==
  /\ want <= BufSize
  /\ freeTop > 0
  /\ AllocFault # "no"
  /\ Fail(AllocFault)

AllocTry(want) ==
  /\ Running
  /\ \/ AllocTooLong(want) \/ AllocEmpty(want)
     \/ Handout(want)      \/ AllocCaught(want)

(* lp_acquire(h): the caller gets the buffer's address when h is live.     *)
Acquire(h) ==
  /\ Running
  /\ Live(h)
  /\ IF Guard /\ magic[h.idx] # "USED"
     THEN Fail("magic")
     ELSE /\ views' = views \cup {h.idx}
          /\ UNCHANGED <<slotVars, listVars, statVars, aborted>>

(* A client stores through a pointer lp_acquire gave it, perhaps long      *)
(* after it released the slot.                                             *)
WriteView(i, p) ==
  /\ Running
  /\ i \in views
  /\ buf' = [buf EXCEPT ![i] = p]
  /\ UNCHANGED <<gen, refcnt, len, magic, listVars, statVars, views, aborted>>

(* lp_commit(h, n) *)
CommitFault(h, n) ==
  IF Fault(h) # "no" THEN Fault(h)
  ELSE IF Guard /\ n > BufSize THEN "len > cap" ELSE "no"

Commit(h, n) ==
  /\ Running
  /\ ValidIdx(h)
  /\ IF CommitFault(h, n) # "no"
     THEN Fail(CommitFault(h, n))
     ELSE /\ len' = [len EXCEPT ![h.idx] = IF n > BufSize THEN BufSize ELSE n]
          /\ UNCHANGED <<gen, refcnt, magic, buf, listVars, statVars, views, aborted>>

(* lp_addref_n(h, n) *)
AddRefFault(h, n) ==
  IF Fault(h) # "no" THEN Fault(h)
  ELSE IF Guard /\ refcnt[h.idx] + n > RefMax THEN "refcnt overflow" ELSE "no"

AddRefN(h, n) ==
  /\ Running
  /\ ValidIdx(h)
  /\ n > 0
  /\ IF AddRefFault(h, n) # "no"
     THEN Fail(AddRefFault(h, n))
     ELSE /\ refcnt' = [refcnt EXCEPT ![h.idx] =
                           IF @ + n > RefMax THEN RefMax ELSE @ + n]
          /\ UNCHANGED <<gen, len, magic, buf, listVars, statVars, views, aborted>>

(* lp_release(h) *)
NextGenUnwrapped(g) == g + 1
NextGenFrozen(g)    == g
NextGen(g)          == (g + 1) % GenMod    \* uint16_t: wraps, and passes 0

DropRef(h) ==
  /\ refcnt[h.idx] > 1
  /\ refcnt' = [refcnt EXCEPT ![h.idx] = @ - 1]
  /\ UNCHANGED <<gen, len, magic, buf, listVars, statVars, views, aborted>>

FreeSlot(h) ==
  /\ refcnt[h.idx] = 1
  /\ refcnt' = [refcnt EXCEPT ![h.idx] = 0]
  /\ len' = [len EXCEPT ![h.idx] = 0]
  /\ gen' = [gen EXCEPT ![h.idx] = NextGen(@)]
  /\ magic' = IF Guard THEN [magic EXCEPT ![h.idx] = "FREE"] ELSE magic
  /\ buf' = IF Guard THEN [buf EXCEPT ![h.idx] = PoisonFree] ELSE buf
  /\ IF freeTop >= NumSlots
     THEN /\ aborted' = IF Guard THEN "free list overflow" ELSE "no"
          /\ UNCHANGED listVars
     ELSE /\ sFree' = [sFree EXCEPT ![freeTop] = h.idx]
          /\ freeTop' = freeTop + 1
          /\ UNCHANGED aborted
  /\ UNCHANGED <<statVars, views>>

Release(h) ==
  /\ Running
  /\ ValidIdx(h)
  /\ \/ Fault(h) # "no" /\ Fail(Fault(h))
     \/ Fault(h) = "no" /\ DropRef(h)
     \/ Fault(h) = "no" /\ FreeSlot(h)

(* acquire of a dead handle, and any call with an index outside the pool:  *)
(* the call returns at once.                                               *)
Refused(h) == Running /\ ~Live(h) /\ NoOp

(* lp_reset_stats: the high-water mark restarts at the present use.        *)
ResetPeak == Used

ResetStats ==
  /\ Running
  /\ allocOk' = 0 /\ allocFail' = 0 /\ peak' = ResetPeak
  /\ UNCHANGED <<slotVars, listVars, views, aborted>>

Next ==
  \/ \E want \in 0 .. BufSize + 1 : AllocTry(want)
  \/ \E h \in Handles :
       \/ Acquire(h) \/ Release(h) \/ Refused(h)
       \/ \E n \in 0 .. BufSize + 1 : Commit(h, n)
       \/ \E n \in 1 .. RefMax : AddRefN(h, n)
  \/ \E i \in Slots, p \in Payloads : WriteView(i, p)
  \/ ResetStats
  \/ Reboot

Spec == Init /\ [][Next]_poolVars

-----------------------------------------------------------------------------
(* lp_check: the problems it would count, as records.  free is the list    *)
(* the snapshot copies, inFree its marks.                                  *)
InFree(i) == \E k \in 0 .. freeTop - 1 : sFree[k] = i

LpCheckIssues ==
  LET Top == 0 .. freeTop - 1
      At(what, S) == {what} \X S
  IN At("free_top out of range", {n \in {freeTop} : n > NumSlots})
     \cup At("invalid idx",   {k \in Top : sFree[k] \notin Slots})
     \cup At("duplicate idx", {k \in Top : \E l \in 0 .. k - 1 : sFree[l] = sFree[k]})
     \cup At("FREE refcnt",   {i \in Slots : InFree(i) /\ refcnt[i] # 0})
     \cup At("FREE len",      {i \in Slots : InFree(i) /\ len[i] # 0})
     \cup At("FREE magic",    {i \in Slots : InFree(i) /\ Guard /\ magic[i] # "FREE"})
     \cup At("USED refcnt",   {i \in Slots : ~InFree(i) /\ refcnt[i] = 0})
     \cup At("USED len",      {i \in Slots : ~InFree(i) /\ len[i] > BufSize})
     \cup At("USED magic",    {i \in Slots : ~InFree(i) /\ Guard /\ magic[i] # "USED"})

(* Why lp_check finds nothing: the free stack holds the slots with no      *)
(* references, each exactly once, and the magic agrees with it.            *)
StackDistinct == \A k, l \in 0 .. freeTop - 1 : sFree[k] = sFree[l] => k = l
StackFree     == \A k \in 0 .. freeTop - 1 : refcnt[sFree[k]] = 0
FreeStacked   == \A i \in Slots : refcnt[i] = 0 => InFree(i) /\ len[i] = 0
MagicAgrees   == Guard => \A i \in Slots :
                   magic[i] = IF refcnt[i] = 0 THEN "FREE" ELSE "USED"
FreeListInv   == StackDistinct /\ StackFree /\ FreeStacked /\ MagicAgrees

(* Whatever calls the tasks make, in whatever order and with whatever      *)
(* handles, lp_check() finds nothing: the free list holds every slot with  *)
(* no references exactly once and no other, so no misuse by a client can   *)
(* hand one slot to two owners or lose a slot for good.                    *)
LpCheckClean == LpCheckIssues = {}

(* lp_guard_fail_ only ever blames a caller: the two checks that would     *)
(* mean the pool itself went wrong (a magic that disagrees with the free   *)
(* list, a push on a full free list) never fire.                           *)
NoSelfInflictedAbort == aborted \notin {"magic", "free list overflow"}

(* The high-water mark is never below the slots in use, also when          *)
(* lp_reset_stats runs between two allocations.                            *)
PeakCoversUsed == Used <= peak
=============================================================================
