------------------------------ MODULE BusProofs ------------------------------
(***************************************************************************)
(* The pool and the event bus over it keep their promises for every        *)
(* number of slots, width of gen and refcnt, set of posters, queues and    *)
(* events, every depth, and every interleaving of posts, subscriptions,    *)
(* readers and the console's reset of the counters.                        *)
(***************************************************************************)
EXTENDS EventBus, FiniteSetTheorems, SequenceTheorems, FunctionTheorems, TLAPS

-----------------------------------------------------------------------------
(* The pool by itself, with and without guards, under every sequence of    *)
(* calls.                                                                  *)
(*                                                                         *)
(* The inductive invariant is Inv: the types, the free stack being exactly *)
(* the slots without references (FreeListInv), the high-water mark, and    *)
(* the absence of the two aborts that would blame the pool.  The only step *)
(* that needs more than rewriting is a release that frees a slot: the slot *)
(* is in use, so it is not on the stack; the stack is injective, so by the *)
(* pigeonhole principle it holds fewer than NumSlots slots and the push    *)
(* stays inside s_free.                                                    *)
Inv == TypeOK /\ FreeListInv /\ NoSelfInflictedAbort /\ PeakCoversUsed

(* Every entry of the free stack is a slot.                                *)
LEMMA StackInSlots ==
  ASSUME TypeOK
  PROVE  \A k \in 0 .. freeTop - 1 : k \in Slots /\ sFree[k] \in Slots
<1> SUFFICES ASSUME NEW k \in 0 .. freeTop - 1 PROVE k \in Slots /\ sFree[k] \in Slots
  OBVIOUS
<1>1. freeTop \in 0 .. NumSlots /\ sFree \in [Slots -> Slots]
  BY DEF TypeOK
<1>2. k \in Slots
  BY <1>1, PoolAssumption DEF Slots
<1> QED BY <1>1, <1>2

(* A slot in use leaves room on the free stack (leasepool.c:342 never      *)
(* takes its first branch).                                                *)
LEMMA RoomOnStack ==
  ASSUME TypeOK, StackDistinct, StackFree, NEW i \in Slots, refcnt[i] > 0
  PROVE  freeTop < NumSlots
<1> USE PoolAssumption
<1> SUFFICES ASSUME freeTop = NumSlots PROVE FALSE
  BY DEF TypeOK
<1> DEFINE S == 0 .. freeTop - 1
           T == Slots \ {i}
           f == [k \in S |-> sFree[k]]
<1>1. IsFiniteSet(Slots) /\ Cardinality(Slots) = NumSlots
  BY FS_Interval DEF Slots
<1>2. IsFiniteSet(S) /\ Cardinality(S) = NumSlots
  BY <1>1 DEF Slots
<1>3. IsFiniteSet(T) /\ Cardinality(T) = NumSlots - 1
  BY <1>1, FS_RemoveElement
<1>4. f \in [S -> T]
  <2> SUFFICES ASSUME NEW k \in S PROVE sFree[k] \in T
    OBVIOUS
  <2>1. sFree[k] \in Slots
    BY DEF TypeOK, Slots
  <2>2. sFree[k] # i
    BY DEF StackFree
  <2> QED BY <2>1, <2>2
<1>5. \E x, y \in S : x # y /\ f[x] = f[y]
  <2> HIDE DEF S, T, f
  <2>1. Cardinality(T) < Cardinality(S)
    BY <1>2, <1>3
  <2> QED BY <1>2, <1>3, <1>4, <2>1, FS_PigeonHole
<1> QED BY <1>5 DEF StackDistinct

LEMMA InitInv == Init => Inv
<1> USE PoolAssumption DEF Init, Slots
<1> SUFFICES ASSUME Init PROVE Inv
  OBVIOUS
<1>1. TypeOK
  BY DEF TypeOK, Gens, Contents, Reasons
<1>2. FreeListInv
  BY DEF FreeListInv, StackDistinct, StackFree, FreeStacked, MagicAgrees, InFree
<1> QED BY <1>1, <1>2 DEF Inv, NoSelfInflictedAbort, PeakCoversUsed, Used

(* The checks on a handle blame its user, never the magic.                 *)
LEMMA FaultBlamesCaller ==
  ASSUME Inv, NEW h, ValidIdx(h)
  PROVE  Fault(h) \in {"no", "stale handle"} /\ (Fault(h) = "no" => refcnt[h.idx] > 0)
BY DEF Inv, TypeOK, FreeListInv, MagicAgrees, ValidIdx, Fault

LEMMA AllocBlamesClient ==
  ASSUME Inv, freeTop > 0
  PROVE  NextSlot \in Slots /\ refcnt[NextSlot] = 0 /\ AllocFault \in {"no", "poison"}
<1>1. freeTop - 1 \in 0 .. freeTop - 1 /\ freeTop - 1 \in Slots
  BY PoolAssumption DEF Inv, TypeOK, Slots
<1>2. NextSlot \in Slots /\ refcnt[NextSlot] = 0
  BY <1>1 DEF Inv, TypeOK, NextSlot, FreeListInv, StackFree
<1> QED
  BY <1>2 DEF Inv, FreeListInv, MagicAgrees, AllocFault

(* The free-list invariant reads only these variables.                     *)
LEMMA FreeListFrame ==
  ASSUME FreeListInv, UNCHANGED <<refcnt, len, magic, sFree, freeTop>>
  PROVE  FreeListInv'
<1>1. StackDistinct' /\ StackFree'
  BY DEF FreeListInv, StackDistinct, StackFree
<1>2. FreeStacked'
  BY DEF FreeListInv, FreeStacked, InFree
<1>3. MagicAgrees'
  BY DEF FreeListInv, MagicAgrees
<1> QED BY <1>1, <1>2, <1>3 DEF FreeListInv

LEMMA UnchangedInv == Inv /\ UNCHANGED poolVars => Inv'
<1> SUFFICES ASSUME Inv, UNCHANGED poolVars PROVE Inv'
  OBVIOUS
<1>1. TypeOK'
  BY DEF Inv, TypeOK, poolVars
<1>2. FreeListInv'
  BY FreeListFrame DEF Inv, poolVars
<1> QED
  BY <1>1, <1>2 DEF Inv, NoSelfInflictedAbort, PeakCoversUsed, Used, poolVars

LEMMA FailInv ==
  ASSUME Inv, NEW why \in {"stale handle", "poison", "len > cap", "refcnt overflow"}, Fail(why)
  PROVE  Inv'
<1>1. UNCHANGED <<gen, refcnt, len, magic, buf, sFree, freeTop, allocOk, allocFail, peak, views>>
  BY DEF Fail, slotVars, listVars, statVars
<1>2. aborted' \in Reasons \ {"magic", "free list overflow"}
  BY DEF Fail, Reasons
<1>3. TypeOK'
  BY <1>1, <1>2 DEF Inv, TypeOK
<1>4. FreeListInv'
  BY <1>1, FreeListFrame DEF Inv
<1> QED
  BY <1>1, <1>2, <1>3, <1>4 DEF Inv, NoSelfInflictedAbort, PeakCoversUsed, Used

LEMMA HandoutInv ==
  ASSUME Inv, NEW want, Handout(want)
  PROVE  Inv'
<1> USE PoolAssumption
<1> DEFINE n == NextSlot
<1>1. freeTop \in Nat /\ freeTop > 0 /\ freeTop' = freeTop - 1 /\ sFree' = sFree
  BY DEF Handout, Inv, TypeOK
<1>2. n \in Slots /\ refcnt[n] = 0 /\ n = sFree[freeTop - 1]
  BY <1>1, AllocBlamesClient DEF NextSlot
<1> HIDE DEF n
<1>3. /\ refcnt' = [refcnt EXCEPT ![n] = 1]
      /\ len' = [len EXCEPT ![n] = 0]
      /\ magic' = IF Guard THEN [magic EXCEPT ![n] = "USED"] ELSE magic
      /\ buf' = IF Guard THEN [buf EXCEPT ![n] = PoisonAlloc] ELSE buf
  BY DEF Handout, n
<1>4. TypeOK'
  BY <1>1, <1>2, <1>3 DEF Handout, Inv, TypeOK, Contents, Inc
<1>5. StackDistinct'
  BY <1>1 DEF Inv, FreeListInv, StackDistinct
<1>6. StackFree'
  <2> SUFFICES ASSUME NEW k \in 0 .. freeTop' - 1 PROVE refcnt'[sFree[k]] = 0
    BY <1>1 DEF StackFree
  <2>1. k \in 0 .. freeTop - 1 /\ freeTop - 1 \in 0 .. freeTop - 1 /\ k # freeTop - 1
    BY <1>1
  <2>2. sFree[k] # n
    BY <2>1, <1>2 DEF Inv, FreeListInv, StackDistinct
  <2>3. sFree[k] \in Slots
    BY <2>1 DEF Inv, TypeOK, Slots
  <2> QED
    BY <2>1, <2>2, <2>3, <1>3 DEF Inv, TypeOK, FreeListInv, StackFree
<1>7. FreeStacked'
  <2> SUFFICES ASSUME NEW i \in Slots, refcnt'[i] = 0 PROVE InFree(i)' /\ len'[i] = 0
    BY DEF FreeStacked
  <2>1. i # n /\ refcnt[i] = 0
    BY <1>2, <1>3 DEF Inv, TypeOK
  <2>2. InFree(i) /\ len[i] = 0
    BY <2>1 DEF Inv, FreeListInv, FreeStacked
  <2>3. PICK k \in 0 .. freeTop - 1 : sFree[k] = i
    BY <2>2 DEF InFree
  <2>4. k \in 0 .. freeTop' - 1
    BY <2>1, <2>3, <1>1, <1>2
  <2> QED BY <2>1, <2>2, <2>3, <2>4, <1>1, <1>3 DEF InFree, Inv, TypeOK
<1>8. MagicAgrees'
  BY <1>2, <1>3 DEF Inv, TypeOK, FreeListInv, MagicAgrees
<1>9. NoSelfInflictedAbort' /\ PeakCoversUsed'
  <2>1. aborted' = aborted /\ peak' \in 0 .. NumSlots
    BY <1>4 DEF Handout, TypeOK
  <2>2. peak' = IF NumSlots - freeTop' > peak THEN NumSlots - freeTop' ELSE peak
    BY DEF Handout
  <2>3. freeTop' \in Int /\ NumSlots \in Int /\ peak \in Int
    BY <1>1 DEF Inv, TypeOK
  <2> DEFINE u == NumSlots - freeTop'
  <2>4. u \in Int /\ peak' = IF u > peak THEN u ELSE peak
    BY <2>2, <2>3
  <2> HIDE DEF u
  <2>5. u <= peak'
    BY <2>3, <2>4
  <2> QED BY <2>1, <2>5 DEF u, Inv, NoSelfInflictedAbort, PeakCoversUsed, Used
<1> QED BY <1>4, <1>5, <1>6, <1>7, <1>8, <1>9 DEF Inv, FreeListInv

LEMMA FreeSlotInv ==
  ASSUME Inv, NEW h, ValidIdx(h), Running, FreeSlot(h)
  PROVE  Inv'
<1> USE PoolAssumption
<1> DEFINE n == h.idx
<1>1. n \in Slots /\ refcnt[n] = 1
  BY DEF FreeSlot, ValidIdx
<1>2. freeTop \in Nat /\ freeTop < NumSlots
  BY <1>1, RoomOnStack DEF Inv, TypeOK, FreeListInv
<1>3. /\ freeTop' = freeTop + 1
      /\ sFree' = [sFree EXCEPT ![freeTop] = n]
      /\ refcnt' = [refcnt EXCEPT ![n] = 0]
      /\ len' = [len EXCEPT ![n] = 0]
      /\ magic' = IF Guard THEN [magic EXCEPT ![n] = "FREE"] ELSE magic
      /\ buf' = IF Guard THEN [buf EXCEPT ![n] = PoisonFree] ELSE buf
      /\ gen' = [gen EXCEPT ![n] = NextGen(@)]
      /\ UNCHANGED <<aborted, allocOk, allocFail, peak, views>>
  <2>1. ~(freeTop >= NumSlots)
    BY <1>2
  <2> QED BY <2>1 DEF FreeSlot, statVars
<1> HIDE DEF n
<1>4. \A k \in 0 .. freeTop - 1 : /\ k \in Slots /\ k # freeTop
                                  /\ sFree'[k] = sFree[k] /\ sFree[k] \in Slots
                                  /\ sFree[k] # n
  <2> SUFFICES ASSUME NEW k \in 0 .. freeTop - 1
               PROVE  /\ k \in Slots /\ k # freeTop
                      /\ sFree'[k] = sFree[k] /\ sFree[k] \in Slots
                      /\ sFree[k] # n
    OBVIOUS
  <2>1. k \in Slots /\ k # freeTop
    BY <1>2 DEF Slots
  <2>2. sFree'[k] = sFree[k] /\ sFree[k] \in Slots
    BY <2>1, <1>3 DEF Inv, TypeOK
  <2>3. sFree[k] # n
    BY <1>1 DEF Inv, FreeListInv, StackFree
  <2> QED BY <2>1, <2>2, <2>3
<1>5. freeTop \in Slots /\ sFree'[freeTop] = n
  BY <1>2, <1>3 DEF Inv, TypeOK, Slots
<1>6. \A k \in 0 .. freeTop' - 1 : k \in 0 .. freeTop - 1 \/ k = freeTop
  BY <1>2, <1>3
<1>7. TypeOK'
  <2>1. gen' \in [Slots -> Gens]
    <3>1. NextGen(gen[n]) \in Gens
      BY <1>1 DEF Inv, TypeOK, Gens, NextGen
    <3> QED BY <3>1, <1>1, <1>3 DEF Inv, TypeOK
  <2>2. /\ refcnt' \in [Slots -> 0 .. RefMax] /\ len' \in [Slots -> 0 .. BufSize]
        /\ magic' \in [Slots -> {"FREE", "USED"}] /\ buf' \in [Slots -> Contents]
    BY <1>1, <1>3 DEF Inv, TypeOK, Contents
  <2>3. sFree' \in [Slots -> Slots] /\ freeTop' \in 0 .. NumSlots
    BY <1>1, <1>2, <1>3, <1>5 DEF Inv, TypeOK
  <2> QED
    BY <2>1, <2>2, <2>3, <1>3 DEF Inv, TypeOK
<1>8. StackDistinct'
  BY <1>4, <1>5, <1>6 DEF Inv, FreeListInv, StackDistinct
<1>9. StackFree'
  <2> SUFFICES ASSUME NEW k \in 0 .. freeTop' - 1 PROVE refcnt'[sFree'[k]] = 0
    BY DEF StackFree
  <2>1. CASE k \in 0 .. freeTop - 1
    BY <2>1, <1>1, <1>3, <1>4 DEF Inv, TypeOK, FreeListInv, StackFree
  <2>2. CASE k = freeTop
    BY <2>2, <1>1, <1>3, <1>5 DEF Inv, TypeOK
  <2> QED BY <2>1, <2>2, <1>6
<1>10. FreeStacked'
  <2> SUFFICES ASSUME NEW i \in Slots, refcnt'[i] = 0 PROVE InFree(i)' /\ len'[i] = 0
    BY DEF FreeStacked
  <2>1. freeTop \in 0 .. freeTop' - 1 /\ (0 .. freeTop - 1) \subseteq (0 .. freeTop' - 1)
    BY <1>2, <1>3
  <2>2. CASE i = n
    BY <2>1, <2>2, <1>1, <1>3, <1>5 DEF InFree, Inv, TypeOK
  <2>3. CASE i # n
    <3>1. InFree(i) /\ len[i] = 0
      BY <2>3, <1>1, <1>3 DEF Inv, TypeOK, FreeListInv, FreeStacked
    <3> QED BY <3>1, <2>1, <2>3, <1>1, <1>3, <1>4 DEF InFree, Inv, TypeOK
  <2> QED BY <2>2, <2>3
<1>11. MagicAgrees'
  BY <1>1, <1>3 DEF Inv, TypeOK, FreeListInv, MagicAgrees
<1>12. NoSelfInflictedAbort' /\ PeakCoversUsed'
  <2>1. freeTop \in Int /\ NumSlots \in Int /\ peak \in Int /\ NumSlots - freeTop <= peak
    BY <1>2 DEF Inv, TypeOK, PeakCoversUsed, Used
  <2>2. NumSlots - freeTop' <= peak'
    BY <2>1, <1>3
  <2> QED BY <2>2, <1>3 DEF Inv, NoSelfInflictedAbort, PeakCoversUsed, Used
<1> QED BY <1>7, <1>8, <1>9, <1>10, <1>11, <1>12 DEF Inv, FreeListInv

LEMMA AllocTryInv ==
  ASSUME Inv, NEW want, AllocTry(want)
  PROVE  Inv'
<1>1. CASE AllocTooLong(want)
  BY <1>1, UnchangedInv DEF AllocTooLong, NoOp
<1>2. CASE AllocEmpty(want)
  <2>1. UNCHANGED <<gen, refcnt, len, magic, buf, sFree, freeTop, allocOk, peak, views, aborted>>
    BY <1>2 DEF AllocEmpty, slotVars, listVars
  <2>2. TypeOK'
    <3>1. allocFail' \in 0 .. CntMod - 1
      BY <1>2, PoolAssumption DEF AllocEmpty, Inc, Inv, TypeOK
    <3> QED BY <2>1, <3>1 DEF Inv, TypeOK
  <2> QED BY <2>1, <2>2, FreeListFrame DEF Inv, NoSelfInflictedAbort, PeakCoversUsed, Used
<1>3. CASE Handout(want)
  BY <1>3, HandoutInv
<1>4. CASE AllocCaught(want)
  <2>1. freeTop > 0 /\ AllocFault # "no" /\ Fail(AllocFault)
    BY <1>4 DEF AllocCaught
  <2>2. AllocFault = "poison"
    BY <2>1, AllocBlamesClient
  <2> QED BY <2>1, <2>2, FailInv
<1> QED BY <1>1, <1>2, <1>3, <1>4 DEF AllocTry

LEMMA AcquireInv ==
  ASSUME Inv, NEW h, Acquire(h)
  PROVE  Inv'
<1>1. ~(Guard /\ magic[h.idx] # "USED")
  BY DEF Acquire, Live, ValidIdx, Inv, TypeOK, FreeListInv, MagicAgrees
<1>2. /\ UNCHANGED <<gen, refcnt, len, magic, buf, sFree, freeTop, allocOk, allocFail, peak, aborted>>
      /\ views' = views \cup {h.idx} /\ h.idx \in Slots
  BY <1>1 DEF Acquire, Live, ValidIdx, slotVars, listVars, statVars
<1>3. TypeOK'
  BY <1>2 DEF Inv, TypeOK
<1> QED BY <1>2, <1>3, FreeListFrame DEF Inv, NoSelfInflictedAbort, PeakCoversUsed, Used

LEMMA WriteViewInv ==
  ASSUME Inv, NEW i \in Slots, NEW p \in Payloads, WriteView(i, p)
  PROVE  Inv'
<1>1. /\ UNCHANGED <<gen, refcnt, len, magic, sFree, freeTop, allocOk, allocFail, peak, views, aborted>>
      /\ buf' = [buf EXCEPT ![i] = p]
  BY DEF WriteView, listVars, statVars
<1>2. TypeOK'
  BY <1>1 DEF Inv, TypeOK, Contents
<1> QED BY <1>1, <1>2, FreeListFrame DEF Inv, NoSelfInflictedAbort, PeakCoversUsed, Used

LEMMA CommitInv ==
  ASSUME Inv, NEW h, NEW n \in Nat, Commit(h, n)
  PROVE  Inv'
<1>1. CASE CommitFault(h, n) # "no"
  <2>1. CommitFault(h, n) \in {"stale handle", "len > cap"} /\ Fail(CommitFault(h, n))
    BY <1>1, FaultBlamesCaller DEF Commit, CommitFault
  <2> QED BY <2>1, FailInv
<1>2. CASE CommitFault(h, n) = "no"
  <2>1. h.idx \in Slots /\ refcnt[h.idx] > 0
    BY <1>2, FaultBlamesCaller DEF Commit, CommitFault, ValidIdx
  <2>2. /\ UNCHANGED <<gen, refcnt, magic, buf, sFree, freeTop, allocOk, allocFail, peak, views, aborted>>
        /\ len' = [len EXCEPT ![h.idx] = IF n > BufSize THEN BufSize ELSE n]
    BY <1>2 DEF Commit, listVars, statVars
  <2>3. (IF n > BufSize THEN BufSize ELSE n) \in 0 .. BufSize
    BY PoolAssumption
  <2>4. TypeOK'
    BY <2>1, <2>2, <2>3 DEF Inv, TypeOK
  <2>5. FreeListInv'
    <3>1. StackDistinct' /\ StackFree'
      BY <2>2 DEF Inv, FreeListInv, StackDistinct, StackFree
    <3>2. FreeStacked'
      BY <2>1, <2>2 DEF Inv, TypeOK, FreeListInv, FreeStacked, InFree
    <3>3. MagicAgrees'
      BY <2>2 DEF Inv, FreeListInv, MagicAgrees
    <3> QED BY <3>1, <3>2, <3>3 DEF FreeListInv
  <2> QED BY <2>2, <2>4, <2>5 DEF Inv, NoSelfInflictedAbort, PeakCoversUsed, Used
<1> QED BY <1>1, <1>2

(* A step that only moves the count of a slot in use from one positive     *)
(* number to another.                                                      *)
LEMMA RecountInv ==
  ASSUME Inv, NEW i \in Slots, NEW c \in 1 .. RefMax, refcnt[i] > 0,
         refcnt' = [refcnt EXCEPT ![i] = c],
         UNCHANGED <<gen, len, magic, buf, sFree, freeTop, allocOk, allocFail, peak, views, aborted>>
  PROVE  Inv'
<1>1. \A j \in Slots : refcnt'[j] = 0 <=> refcnt[j] = 0
  BY PoolAssumption DEF Inv, TypeOK
<1>2. TypeOK'
  BY PoolAssumption DEF Inv, TypeOK
<1>3. StackDistinct'
  BY DEF Inv, FreeListInv, StackDistinct
<1>4. StackFree'
  <2> SUFFICES ASSUME NEW k \in 0 .. freeTop - 1 PROVE refcnt'[sFree[k]] = 0
    BY DEF StackFree
  <2>1. sFree[k] \in Slots
    BY StackInSlots DEF Inv
  <2> QED BY <2>1, <1>1 DEF Inv, FreeListInv, StackFree
<1>5. FreeStacked'
  BY <1>1 DEF Inv, FreeListInv, FreeStacked, InFree
<1>6. MagicAgrees'
  BY <1>1 DEF Inv, FreeListInv, MagicAgrees
<1> QED
  BY <1>2, <1>3, <1>4, <1>5, <1>6
     DEF Inv, FreeListInv, NoSelfInflictedAbort, PeakCoversUsed, Used

LEMMA AddRefInv ==
  ASSUME Inv, NEW h, NEW n \in Nat, AddRefN(h, n)
  PROVE  Inv'
<1>1. CASE AddRefFault(h, n) # "no"
  <2>1. AddRefFault(h, n) \in {"stale handle", "refcnt overflow"} /\ Fail(AddRefFault(h, n))
    BY <1>1, FaultBlamesCaller DEF AddRefN, AddRefFault
  <2> QED BY <2>1, FailInv
<1>2. CASE AddRefFault(h, n) = "no"
  <2>1. h.idx \in Slots /\ refcnt[h.idx] > 0 /\ n > 0
    BY <1>2, FaultBlamesCaller DEF AddRefN, AddRefFault, ValidIdx
  <2> DEFINE c == IF refcnt[h.idx] + n > RefMax THEN RefMax ELSE refcnt[h.idx] + n
  <2>2. c \in 1 .. RefMax
    BY <2>1, PoolAssumption DEF Inv, TypeOK
  <2>3. /\ UNCHANGED <<gen, len, magic, buf, sFree, freeTop, allocOk, allocFail, peak, views, aborted>>
        /\ refcnt' = [refcnt EXCEPT ![h.idx] = c]
    BY <1>2 DEF AddRefN, listVars, statVars
  <2> HIDE DEF c
  <2> QED BY <2>1, <2>2, <2>3, RecountInv
<1> QED BY <1>1, <1>2

LEMMA ReleaseInv ==
  ASSUME Inv, NEW h, Release(h)
  PROVE  Inv'
<1>1. CASE Fault(h) # "no"
  <2>1. Fault(h) = "stale handle" /\ Fail(Fault(h))
    BY <1>1, FaultBlamesCaller DEF Release
  <2> QED BY <2>1, FailInv
<1>2. CASE Fault(h) = "no" /\ DropRef(h)
  <2>1. h.idx \in Slots /\ refcnt[h.idx] > 1
    BY <1>2 DEF Release, ValidIdx, DropRef
  <2>2. refcnt[h.idx] - 1 \in 1 .. RefMax
    BY <2>1, PoolAssumption DEF Inv, TypeOK
  <2>3. /\ UNCHANGED <<gen, len, magic, buf, sFree, freeTop, allocOk, allocFail, peak, views, aborted>>
        /\ refcnt' = [refcnt EXCEPT ![h.idx] = refcnt[h.idx] - 1]
    BY <1>2 DEF DropRef, listVars, statVars
  <2>4. refcnt[h.idx] > 0
    BY <2>1 DEF Inv, TypeOK
  <2> QED BY <2>1, <2>2, <2>3, <2>4, RecountInv
<1>3. CASE Fault(h) = "no" /\ FreeSlot(h)
  BY <1>3, FreeSlotInv DEF Release
<1> QED BY <1>1, <1>2, <1>3 DEF Release

LEMMA ResetStatsInv ==
  ASSUME Inv, ResetStats
  PROVE  Inv'
<1>1. /\ UNCHANGED <<gen, refcnt, len, magic, buf, sFree, freeTop, views, aborted>>
      /\ allocOk' = 0 /\ allocFail' = 0 /\ peak' = Used
  BY DEF ResetStats, ResetPeak, slotVars, listVars
<1>2. Used \in 0 .. NumSlots
  BY PoolAssumption DEF Inv, TypeOK, Used
<1>3. TypeOK'
  BY <1>1, <1>2, PoolAssumption DEF Inv, TypeOK
<1>4. PeakCoversUsed'
  BY <1>1, <1>2 DEF PeakCoversUsed, Used
<1> QED BY <1>1, <1>3, <1>4, FreeListFrame DEF Inv, NoSelfInflictedAbort

LEMMA RebootInv ==
  ASSUME Reboot
  PROVE  Inv'
<1> USE PoolAssumption DEF Reboot, Slots
<1>1. TypeOK'
  BY DEF TypeOK, Gens, Contents, Reasons
<1>2. FreeListInv'
  BY DEF FreeListInv, StackDistinct, StackFree, FreeStacked, MagicAgrees, InFree
<1> QED BY <1>1, <1>2 DEF Inv, NoSelfInflictedAbort, PeakCoversUsed, Used

(* Every call preserves the invariant.                                     *)
LEMMA NextInv ==
  ASSUME Inv, [Next]_poolVars
  PROVE  Inv'
<1>1. ASSUME NEW want \in 0 .. BufSize + 1, AllocTry(want) PROVE Inv'
  BY <1>1, AllocTryInv
<1>2. ASSUME NEW h \in Handles, Acquire(h) PROVE Inv'
  BY <1>2, AcquireInv
<1>3. ASSUME NEW h \in Handles, Release(h) PROVE Inv'
  BY <1>3, ReleaseInv
<1>4. ASSUME NEW h \in Handles, Refused(h) PROVE Inv'
  BY <1>4, UnchangedInv DEF Refused, NoOp
<1>5. ASSUME NEW h \in Handles, NEW n \in 0 .. BufSize + 1, Commit(h, n) PROVE Inv'
  <2>1. n \in Nat
    BY PoolAssumption
  <2> QED BY <1>5, <2>1, CommitInv
<1>6. ASSUME NEW h \in Handles, NEW n \in 1 .. RefMax, AddRefN(h, n) PROVE Inv'
  <2>1. n \in Nat
    BY PoolAssumption
  <2> QED BY <1>6, <2>1, AddRefInv
<1>7. ASSUME NEW i \in Slots, NEW p \in Payloads, WriteView(i, p) PROVE Inv'
  BY <1>7, WriteViewInv
<1>8. CASE ResetStats
  BY <1>8, ResetStatsInv
<1>9. CASE Reboot
  BY <1>9, RebootInv
<1>10. CASE UNCHANGED poolVars
  BY <1>10, UnchangedInv
<1> QED
  BY <1>1, <1>2, <1>3, <1>4, <1>5, <1>6, <1>7, <1>8, <1>9, <1>10 DEF Next

(* The inductive invariant holds in every reachable state.                 *)
THEOREM PoolInvariant == Spec => []Inv
<1>1. Init => Inv
  BY InitInv
<1>2. Inv /\ [Next]_poolVars => Inv'
  BY NextInv
<1> QED BY <1>1, <1>2, PTL DEF Spec

(* The variables keep their types: no generation, count, length or index   *)
(* leaves its C type or its array.                                         *)
THEOREM PoolTypes == Spec => []TypeOK
<1>1. Inv => TypeOK
  BY DEF Inv
<1> QED BY <1>1, PoolInvariant, PTL

(* What lp_check looks for contradicts the invariant.                      *)
LEMMA CleanWhenInv ==
  ASSUME Inv
  PROVE  LpCheckClean
<1> USE PoolAssumption
<1>1. freeTop \in 0 .. NumSlots /\ \A k \in 0 .. freeTop - 1 : sFree[k] \in Slots
  BY StackInSlots DEF Inv, TypeOK
<1>2. \A k \in 0 .. freeTop - 1 : \A l \in 0 .. k - 1 : sFree[l] # sFree[k]
  BY <1>1 DEF Inv, FreeListInv, StackDistinct
<1>3. \A i \in Slots : InFree(i) <=> refcnt[i] = 0
  BY DEF Inv, FreeListInv, StackFree, FreeStacked, InFree
<1>4. \A i \in Slots : (refcnt[i] = 0 => len[i] = 0) /\ ~(len[i] > BufSize)
  BY DEF Inv, TypeOK, FreeListInv, FreeStacked
<1>5. Guard => \A i \in Slots : magic[i] = IF refcnt[i] = 0 THEN "FREE" ELSE "USED"
  BY DEF Inv, FreeListInv, MagicAgrees
<1>6. {n \in {freeTop} : n > NumSlots} = {}
  BY <1>1
<1>7. {k \in 0 .. freeTop - 1 : sFree[k] \notin Slots} = {}
  BY <1>1
<1>8. {k \in 0 .. freeTop - 1 : \E l \in 0 .. k - 1 : sFree[l] = sFree[k]} = {}
  BY <1>2
<1>9. /\ {i \in Slots : InFree(i) /\ refcnt[i] # 0} = {}
      /\ {i \in Slots : InFree(i) /\ len[i] # 0} = {}
      /\ {i \in Slots : ~InFree(i) /\ refcnt[i] = 0} = {}
      /\ {i \in Slots : ~InFree(i) /\ len[i] > BufSize} = {}
  BY <1>3, <1>4
<1>10. /\ {i \in Slots : InFree(i) /\ Guard /\ magic[i] # "FREE"} = {}
       /\ {i \in Slots : ~InFree(i) /\ Guard /\ magic[i] # "USED"} = {}
  BY <1>3, <1>5
<1> QED BY <1>6, <1>7, <1>8, <1>9, <1>10 DEF LpCheckClean, LpCheckIssues

(* lp_check() returns 0 whatever the clients do.                           *)
THEOREM PoolAlwaysChecks == Spec => []LpCheckClean
<1>1. Inv => LpCheckClean
  BY CleanWhenInv
<1> QED BY <1>1, PoolInvariant, PTL

(* With guards on, abort() always blames a caller.                         *)
THEOREM PoolBlamesCallers == Spec => []NoSelfInflictedAbort
<1>1. Inv => NoSelfInflictedAbort
  BY DEF Inv
<1> QED BY <1>1, PoolInvariant, PTL

(* The reported high-water mark covers the slots in use.                   *)
THEOREM PoolPeak == Spec => []PeakCoversUsed
<1>1. Inv => PeakCoversUsed
  BY DEF Inv
<1> QED BY <1>1, PoolInvariant, PTL

-----------------------------------------------------------------------------
(* The bus.                                                                *)
BeforeBus == {"owned", "mapped", "filled", "ready"}
AtBus     == {"loop", "retained", "undo", "stats"}

-----------------------------------------------------------------------------
(* The shape of a post under way, by its program counter.                  *)
Shape(j) ==
  j # NoJob =>
    /\ j.pc \in BeforeBus => IsLease(j.ev) /\ j.todo = <<>> /\ j.ok = 0
    /\ j.pc \in {"retained", "undo"} => IsLease(j.ev) /\ j.todo # <<>> /\ Head(j.todo) \in Queues
    /\ j.pc = "stats" => IsLease(j.ev) /\ j.todo = <<>>

(* A reader has a view only of a lease it releases.                        *)
OpenServed == \A q \in open : hold[q] # NoMsg /\ IsLease(hold[q].ev) /\ hold[q].ev \in Serves[q]

TypeInv == Inv /\ BusTypeOK /\ (\A p \in Posters : Shape(job[p])) /\ OpenServed

(* Every subscriber is in the table once, and none that has not subscribed *)
(* yet; the same for the copy a post works on.                             *)
SubsOnce  == \A m, n \in 0 .. subsCnt - 1 : subs[m] = subs[n] => m = n \/ subs[m] = NoQueue
SubsKnown == \A n \in 0 .. subsCnt - 1 : subs[n] # NoQueue => subRes[subs[n]] = "ok"
RoundOnce(p) ==
  job[p] # NoJob =>
    \A k, l \in 1 .. Len(job[p].todo) :
      job[p].todo[k] = job[p].todo[l] => k = l \/ job[p].todo[k] = NoQueue

(* Within a queue, and from the reader's hands to the queue, the messages  *)
(* of one poster are in the order of its posts.                            *)
QueueOrdered(q) ==
  \A k, l \in 1 .. Len(queue[q]) :
    k < l /\ queue[q][k].from = queue[q][l].from => queue[q][k].seq < queue[q][l].seq
HeldFirst(q) ==
  hold[q] # NoMsg =>
    \A k \in 1 .. Len(queue[q]) :
      queue[q][k].from = hold[q].from => hold[q].seq < queue[q][k].seq

(* A message is not ahead of its poster: one of the post under way means   *)
(* that this post has passed the queue.                                    *)
NotAhead(q, m) ==
  /\ m.seq <= posted[m.from]
  /\ m.seq = posted[m.from] /\ job[m.from] # NoJob =>
       /\ job[m.from].pc \in AtBus
       /\ \A k \in 1 .. Len(job[m.from].todo) : job[m.from].todo[k] # q
Passed(q) ==
  /\ hold[q] # NoMsg => NotAhead(q, hold[q])
  /\ \A k \in 1 .. Len(queue[q]) : NotAhead(q, queue[q][k])

OrderInv ==
  /\ SubsOnce /\ SubsKnown
  /\ \A p \in Posters : RoundOnce(p)
  /\ \A q \in Queues : QueueOrdered(q) /\ HeldFirst(q) /\ Passed(q)

-----------------------------------------------------------------------------
(* Types.                                                                  *)

LEMMA NoJobIsNone == NoJob \notin Jobs
<1> QED BY DEF NoJob, Jobs

LEMMA NoMsgIsNone == NoMsg \notin Messages
<1> SUFFICES ASSUME NoMsg \in Messages PROVE FALSE
  OBVIOUS
<1>1. DOMAIN NoMsg = {"ev", "h", "pay", "from", "seq"}
  BY DEF Messages
<1>2. DOMAIN NoMsg = {"ev"}
  BY DEF NoMsg
<1> QED BY <1>1, <1>2

(* A post that is somewhere is a record.                                   *)
LEMMA BusyJob ==
  ASSUME BusTypeOK, NEW p \in Posters, job[p].pc # "idle" \/ job[p] # NoJob
  PROVE  job[p] \in Jobs /\ job[p] # NoJob /\ job[p].pc # "idle"
<1>1. job[p] \in {NoJob} \cup Jobs /\ NoJob.pc = "idle"
  BY DEF BusTypeOK, NoJob
<1>2. job[p] \in Jobs
  BY <1>1
<1> QED BY <1>2, NoJobIsNone DEF Jobs

LEMMA IdleJob ==
  ASSUME BusTypeOK, NEW p \in Posters, job[p].pc = "idle"
  PROVE  job[p] = NoJob
<1> QED BY BusyJob DEF BusTypeOK

(* The copy of the subscriber table.                                       *)
LEMMA SnapshotProperties ==
  ASSUME BusTypeOK
  PROVE  /\ Snapshot \in Seq(Queues \cup {NoQueue})
         /\ Len(Snapshot) = subsCnt
         /\ \A k \in 1 .. subsCnt : k - 1 \in 0 .. subsCnt - 1 /\ Snapshot[k] = subs[k - 1]
<1> USE BusAssumption
<1>1. subsCnt \in Nat /\ subsCnt <= MaxSubs /\ MaxSubs \in Nat
  BY DEF BusTypeOK
<1>2. \A k \in 1 .. subsCnt : k - 1 \in Entries /\ k - 1 \in 0 .. subsCnt - 1
  BY <1>1 DEF Entries
<1>3. Snapshot \in [1 .. subsCnt -> Queues \cup {NoQueue}]
  BY <1>1, <1>2 DEF BusTypeOK, Snapshot
<1>4. Snapshot \in Seq(Queues \cup {NoQueue})
  BY <1>1, <1>3, SeqDef
<1>5. DOMAIN Snapshot = 1 .. subsCnt /\ DOMAIN Snapshot = 1 .. Len(Snapshot) /\ Len(Snapshot) \in Nat
  BY <1>3, <1>4, LenProperties
<1>6. Len(Snapshot) = subsCnt
  BY <1>5, <1>1
<1> QED BY <1>2, <1>4, <1>6 DEF Snapshot

(* The message a post delivers.                                            *)
LEMMA MessageType ==
  ASSUME BusTypeOK, NEW p \in Posters, job[p] \in Jobs
  PROVE  Message(p) \in Messages
<1> QED BY DEF BusTypeOK, Jobs, Message, Messages

(* What a poster's step makes of its post.                                 *)
MovedTo(p, l) == [job[p] EXCEPT !.pc = l]
Advanced(p, d) ==
  [pc |-> "loop", ev |-> job[p].ev, h |-> job[p].h, pay |-> job[p].pay, todo |-> Tail(job[p].todo),
   ok |-> IF d THEN job[p].ok + 1 ELSE job[p].ok, bad |-> IF d THEN job[p].bad ELSE job[p].bad + 1]

LEMMA SetPcIs ==
  ASSUME BusTypeOK, NEW p \in Posters, job[p] \in Jobs, NEW l, SetPc(p, l)
  PROVE  /\ job' = [job EXCEPT ![p] = MovedTo(p, l)]
         /\ MovedTo(p, l) = [pc |-> l, ev |-> job[p].ev, h |-> job[p].h, pay |-> job[p].pay,
                             todo |-> job[p].todo, ok |-> job[p].ok, bad |-> job[p].bad]
<1>1. job' = [job EXCEPT ![p] = MovedTo(p, l)]
  BY DEF SetPc, MovedTo
<1>2. MovedTo(p, l) = [pc |-> l, ev |-> job[p].ev, h |-> job[p].h, pay |-> job[p].pay,
                       todo |-> job[p].todo, ok |-> job[p].ok, bad |-> job[p].bad]
  BY DEF MovedTo, Jobs
<1> QED BY <1>1, <1>2

LEMMA AdvanceIs ==
  ASSUME BusTypeOK, NEW p \in Posters, job[p] \in Jobs, job[p].todo # <<>>,
         NEW d \in BOOLEAN, Advance(p, d)
  PROVE  /\ job' = [job EXCEPT ![p] = Advanced(p, d)]
         /\ Advanced(p, d) \in Jobs
<1>1. job \in [Posters -> {NoJob} \cup Jobs]
  BY DEF BusTypeOK
<1>2. Tail(job[p].todo) \in Seq(Queues \cup {NoQueue})
  BY HeadTailProperties DEF Jobs
<1>3. job'[p] = Advanced(p, d)
  BY <1>1 DEF Advance, Advanced, Jobs
<1>4. \A r \in Posters : r # p => job'[r] = job[r]
  BY <1>1 DEF Advance
<1>5. job' = [job EXCEPT ![p] = job'[p]]
  BY <1>1, <1>3, <1>4 DEF Advance
<1>6. Advanced(p, d) \in Jobs
  BY <1>2 DEF Advanced, Jobs
<1> QED BY <1>3, <1>5, <1>6

(* A step of one poster's post.                                            *)
LEMMA JobStep ==
  ASSUME TypeInv, NEW p \in Posters, NEW j \in {NoJob} \cup Jobs, Shape(j),
         job' = [job EXCEPT ![p] = j]
  PROVE  /\ job' \in [Posters -> {NoJob} \cup Jobs]
         /\ \A r \in Posters : Shape(job'[r])
<1>1. job \in [Posters -> {NoJob} \cup Jobs]
  BY DEF TypeInv, BusTypeOK
<1>2. \A r \in Posters : job'[r] = IF r = p THEN j ELSE job[r]
  BY <1>1
<1> QED BY <1>1, <1>2 DEF TypeInv

(* A message is appended to a queue.                                       *)
LEMMA EnqueueType ==
  ASSUME BusTypeOK, NEW q \in Queues, HasRoom(q), NEW m \in Messages, Enqueue(q, m)
  PROVE  /\ queue' \in [Queues -> Seq(Messages)]
         /\ \A r \in Queues : Len(queue'[r]) <= Depth[r]
<1>1. queue \in [Queues -> Seq(Messages)] /\ Len(queue[q]) \in Nat /\ Depth[q] \in Nat
  BY BusAssumption DEF BusTypeOK
<1>2. Append(queue[q], m) \in Seq(Messages) /\ Len(Append(queue[q], m)) = Len(queue[q]) + 1
  BY <1>1, AppendProperties
<1> QED BY <1>1, <1>2 DEF BusTypeOK, Enqueue, HasRoom

-----------------------------------------------------------------------------
(* The bus makes only legal calls to the pool.                             *)
LEMMA PoolStep ==
  ASSUME TypeInv, [BusNext]_vars
  PROVE  Inv'
<1> USE DEF TypeInv
<1>1. BufSize \in Nat
  BY PoolAssumption
<1>2. ASSUME UNCHANGED poolVars PROVE Inv'
  BY <1>2, UnchangedInv
<1>3. ASSUME NEW p \in Posters, NEW e \in Posts[p], Alloc(p, e) PROVE Inv'
  BY <1>3, AllocTryInv DEF Alloc
<1>4. ASSUME NEW p \in Posters, Map(p) PROVE Inv'
  BY <1>4, AcquireInv DEF Map
<1>5. ASSUME NEW p \in Posters, Fill(p) PROVE Inv'
  <2>1. WriteView(job[p].h.idx, p) /\ job[p].h.idx \in Slots /\ p \in Payloads
    BY <1>5, BusAssumption DEF Fill, WriteView, Inv, TypeOK
  <2> QED BY <2>1, WriteViewInv
<1>6. ASSUME NEW p \in Posters, Publish(p) PROVE Inv'
  BY <1>1, <1>6, CommitInv DEF Publish
<1>7. ASSUME NEW p \in Posters, Retain(p) PROVE Inv'
  BY <1>7, AddRefInv DEF Retain
<1>8. ASSUME NEW p \in Posters, UndoRetain(p) \/ ReleaseOwn(p) PROVE Inv'
  BY <1>8, ReleaseInv DEF UndoRetain, ReleaseOwn
<1>9. ASSUME NEW q \in Queues, OpenView(q) PROVE Inv'
  BY <1>2, <1>9, AcquireInv DEF OpenView, poolVars
<1>10. ASSUME NEW q \in Queues, CloseView(q) PROVE Inv'
  BY <1>10, ReleaseInv DEF CloseView
<1>11. ASSUME NEW p \in Posters,
              \/ SkipCleared(p) \/ Overwrite(p) \/ Send(p) \/ PostLease(p)
              \/ SendLease(p) \/ Account(p) \/ \E e \in Posts[p] : Begin(p, e)
       PROVE  Inv'
  BY <1>2, <1>11 DEF SkipCleared, Overwrite, Send, PostLease, SendLease, Account, Begin
<1>12. ASSUME NEW q \in Queues, Receive(q) \/ Discard(q) \/ Subscribe(q) \/ Unsubscribe(q)
       PROVE  Inv'
  BY <1>2, <1>12 DEF Receive, Discard, Subscribe, Unsubscribe
<1>13. CASE EvResetStats \/ Finished \/ UNCHANGED vars
  BY <1>2, <1>13 DEF EvResetStats, Finished, vars
<1> QED
  BY <1>3, <1>4, <1>5, <1>6, <1>7, <1>8, <1>9, <1>10, <1>11, <1>12, <1>13
     DEF BusNext, PosterStep, Proceed, Post, PostFromIsr, ReaderStep

(* A step that leaves the subscribers, the queues and the readers alone.   *)
LEMMA PosterTypes ==
  ASSUME TypeInv, Inv', NEW p \in Posters, NEW j \in {NoJob} \cup Jobs, Shape(j),
         job' = [job EXCEPT ![p] = j],
         posted' \in [Posters -> Nat], \A r \in Posters : posted'[r] <= MaxPosts[r],
         queue' \in [Queues -> Seq(Messages)], \A r \in Queues : Len(queue'[r]) <= Depth[r],
         gone' \in [Events -> Int],
         stat' \in [Events -> [ok : Nat, drop : Nat, fail : Nat, dlv : Nat]],
         evAbort' \in BOOLEAN,
         UNCHANGED <<subs, subsCnt, subRes, hold, open>>
  PROVE  TypeInv'
<1>1. job' \in [Posters -> {NoJob} \cup Jobs] /\ \A r \in Posters : Shape(job'[r])
  BY JobStep
<1>2. TypeOK'
  BY DEF Inv
<1>3. (\A r \in Posters : Shape(job[r]))'
  BY <1>1
<1>4. BusTypeOK'
  BY <1>1, <1>2 DEF TypeInv, BusTypeOK
<1>5. OpenServed'
  BY DEF TypeInv, OpenServed
<1> QED BY <1>3, <1>4, <1>5 DEF TypeInv

LEMMA PostCounted ==
  ASSUME BusTypeOK, NEW p \in Posters, posted[p] < MaxPosts[p],
         posted' = [posted EXCEPT ![p] = @ + 1]
  PROVE  posted' \in [Posters -> Nat] /\ \A r \in Posters : posted'[r] <= MaxPosts[r]
<1>1. posted \in [Posters -> Nat] /\ MaxPosts \in [Posters -> Nat]
  BY BusAssumption DEF BusTypeOK
<1>2. posted[p] + 1 \in Nat /\ posted[p] + 1 <= MaxPosts[p]
  BY <1>1
<1>3. \A r \in Posters : posted'[r] = IF r = p THEN posted[p] + 1 ELSE posted[r]
  BY <1>1
<1> QED BY <1>1, <1>2, <1>3 DEF BusTypeOK

LEMMA BeginType ==
  ASSUME TypeInv, Inv', NEW p \in Posters, NEW e \in Posts[p], Begin(p, e)
  PROVE  TypeInv'
<1> DEFINE j == [pc |-> "loop", ev |-> e, h |-> [idx |-> NoSlot, gen |-> 0],
                 pay |-> "00", todo |-> Snapshot, ok |-> 0, bad |-> 0]
<1>1. j \in Jobs /\ Shape(j)
  <2>1. [idx |-> NoSlot, gen |-> 0] \in Handles
    BY PoolAssumption DEF Handles, Gens
  <2>2. Snapshot \in Seq(Queues \cup {NoQueue}) /\ e \in Events
    BY SnapshotProperties, BusAssumption DEF TypeInv
  <2> QED BY <2>1, <2>2 DEF Jobs, Contents, Shape, BeforeBus
<1>2. job' = [job EXCEPT ![p] = j]
  BY DEF Begin
<1> HIDE DEF j
<1>3. posted' \in [Posters -> Nat] /\ \A r \in Posters : posted'[r] <= MaxPosts[r]
  BY PostCounted DEF Begin, TypeInv
<1> QED BY <1>1, <1>2, <1>3, PosterTypes DEF Begin, TypeInv, BusTypeOK

LEMMA AllocType ==
  ASSUME TypeInv, Inv', NEW p \in Posters, NEW e \in Posts[p], Alloc(p, e)
  PROVE  TypeInv'
<1> DEFINE j == [pc |-> "owned", ev |-> e, h |-> NextHandle,
                 pay |-> "00", todo |-> <<>>, ok |-> 0, bad |-> 0]
<1>1. posted' \in [Posters -> Nat] /\ \A r \in Posters : posted'[r] <= MaxPosts[r]
  BY PostCounted DEF Alloc, TypeInv
<1>2. CASE freeTop = 0
  <2>1. job' = [job EXCEPT ![p] = NoJob]
    BY <1>2, IdleJob DEF Alloc, TypeInv, BusTypeOK
  <2>2. Shape(NoJob)
    BY DEF Shape
  <2> QED BY <1>1, <2>1, <2>2, PosterTypes DEF Alloc, TypeInv, BusTypeOK
<1>3. CASE freeTop # 0
  <2>1. freeTop - 1 \in Slots
    BY <1>3, PoolAssumption DEF TypeInv, Inv, TypeOK, Slots
  <2>2. NextHandle \in Handles
    BY <2>1 DEF TypeInv, Inv, TypeOK, NextHandle, NextSlot, Handles
  <2>3. <<>> \in Seq(Queues \cup {NoQueue}) /\ e \in Events /\ IsLease(e)
    BY BusAssumption DEF Alloc
  <2>4. j \in Jobs
    BY <2>2, <2>3 DEF Jobs, Contents
  <2>5. Shape(j)
    BY <2>3 DEF Shape
  <2>6. job' = [job EXCEPT ![p] = j]
    BY <1>3 DEF Alloc
  <2> HIDE DEF j
  <2> QED BY <1>1, <2>4, <2>5, <2>6, PosterTypes DEF Alloc, TypeInv, BusTypeOK
<1> QED BY <1>2, <1>3

(* The steps that only move the program counter.                           *)
LEMMA PcType ==
  ASSUME TypeInv, Inv', NEW p \in Posters,
         \/ Map(p) \/ Publish(p) \/ Retain(p) \/ ReleaseOwn(p)
         \/ SendLease(p) /\ SetPc(p, "undo") /\ UNCHANGED queue
  PROVE  TypeInv'
<1>1. job[p].pc # "idle"
  BY DEF Map, Publish, Retain, AtQueue, ReleaseOwn, SendLease
<1>2. job[p] \in Jobs /\ job[p] # NoJob /\ BusTypeOK /\ Shape(job[p])
  BY <1>1, BusyJob DEF TypeInv
<1>3. PICK l \in {"mapped", "ready", "retained", "stats", "undo"} :
        /\ SetPc(p, l)
        /\ l \in {"mapped", "ready"} => job[p].pc \in BeforeBus
        /\ l = "retained" => IsLease(job[p].ev) /\ job[p].todo # <<>> /\ Head(job[p].todo) # NoQueue
        /\ l = "undo" => job[p].pc = "retained"
        /\ l = "stats" => IsLease(job[p].ev) /\ job[p].todo = <<>>
  BY DEF Map, Publish, Retain, AtQueue, ReleaseOwn, SendLease, BeforeBus
<1>4. /\ job' = [job EXCEPT ![p] = MovedTo(p, l)]
      /\ MovedTo(p, l) = [pc |-> l, ev |-> job[p].ev, h |-> job[p].h, pay |-> job[p].pay,
                          todo |-> job[p].todo, ok |-> job[p].ok, bad |-> job[p].bad]
  BY <1>2, <1>3, SetPcIs
<1>5. MovedTo(p, l) \in Jobs
  BY <1>2, <1>4 DEF Jobs
<1>6. l = "retained" => Head(job[p].todo) \in Queues
  <2>1. SUFFICES ASSUME l = "retained" PROVE Head(job[p].todo) \in Queues
    OBVIOUS
  <2>2. job[p].todo \in Seq(Queues \cup {NoQueue}) /\ job[p].todo # <<>>
    BY <1>2, <1>3, <2>1 DEF Jobs
  <2>3. Head(job[p].todo) \in Queues \cup {NoQueue}
    BY <2>2, HeadTailProperties
  <2> QED BY <1>3, <2>1, <2>3
<1>7. Shape(MovedTo(p, l))
  BY <1>2, <1>3, <1>4, <1>6 DEF Shape, BeforeBus
<1>8. UNCHANGED <<subs, subsCnt, subRes, queue, posted, hold, open, gone, stat, evAbort>>
  BY DEF Map, Publish, Retain, ReleaseOwn, SendLease
<1> QED BY <1>4, <1>5, <1>7, <1>8, PosterTypes DEF TypeInv, BusTypeOK

(* The steps that finish one queue of the copy.                            *)
LEMMA DepthPositive ==
  \A q \in Queues : Depth[q] \in Nat /\ Depth[q] >= 1
<1>1. Depth \in [Queues -> Nat \ {0}]
  BY BusAssumption
<1> QED BY <1>1

LEMMA AdvanceType ==
  ASSUME TypeInv, Inv', NEW p \in Posters,
         \/ Overwrite(p) \/ Send(p) \/ UndoRetain(p)
         \/ SendLease(p) /\ ~(SetPc(p, "undo") /\ UNCHANGED queue)
  PROVE  TypeInv'
<1>1. job[p].pc \in {"loop", "retained", "undo"}
  BY DEF Overwrite, Send, AtQueue, UndoRetain, SendLease
<1>2. job[p] \in Jobs /\ job[p] # NoJob /\ BusTypeOK /\ Shape(job[p])
  BY <1>1, BusyJob DEF TypeInv
<1>3. job[p].todo \in Seq(Queues \cup {NoQueue}) /\ job[p].todo # <<>> /\ Head(job[p].todo) \in Queues
  <2>1. job[p].todo \in Seq(Queues \cup {NoQueue})
    BY <1>2 DEF Jobs
  <2>2. job[p].todo # <<>> => Head(job[p].todo) \in Queues \cup {NoQueue}
    BY <2>1, HeadTailProperties
  <2> QED BY <1>2, <2>1, <2>2 DEF Overwrite, Send, AtQueue, UndoRetain, SendLease, Shape
<1> DEFINE q == Head(job[p].todo)
<1>4. Message(p) \in Messages
  BY <1>2, MessageType
<1>5. PICK d \in BOOLEAN : Advance(p, d)
  <2>1. CASE Overwrite(p)
    <3>1. Advance(p, TRUE) BY <2>1 DEF Overwrite
    <3> QED BY <3>1
  <2>2. CASE Send(p)
    <3>1. HasRoom(q) \in BOOLEAN /\ Advance(p, HasRoom(q)) BY <2>2 DEF Send, HasRoom
    <3> QED BY <3>1
  <2>3. CASE UndoRetain(p) BY <2>3 DEF UndoRetain
  <2>4. CASE SendLease(p) /\ ~(SetPc(p, "undo") /\ UNCHANGED queue) BY <2>4 DEF SendLease
  <2> QED BY <2>1, <2>2, <2>3, <2>4
<1>6. job' = [job EXCEPT ![p] = Advanced(p, d)] /\ Advanced(p, d) \in Jobs
  BY <1>2, <1>3, <1>5, AdvanceIs
<1>7. Shape(Advanced(p, d))
  BY DEF Shape, Advanced, BeforeBus
<1>8. queue' \in [Queues -> Seq(Messages)] /\ \A r \in Queues : Len(queue'[r]) <= Depth[r]
  <2>1. CASE UNCHANGED queue
    BY <2>1, <1>2 DEF BusTypeOK
  <2>2. CASE HasRoom(q) /\ Enqueue(q, Message(p))
    BY <2>2, <1>2, <1>3, <1>4, EnqueueType
  <2>3. CASE Overwrite(p)
    <3>1. queue' = [queue EXCEPT ![q] = <<Message(p)>>]
      BY <2>3 DEF Overwrite
    <3>2. <<Message(p)>> \in Seq(Messages) /\ Len(<<Message(p)>>) = 1
      BY <1>4
    <3>3. q \in Queues
      BY <1>3
    <3> HIDE DEF q
    <3>4. Depth[q] \in Nat /\ Depth[q] >= 1
      BY <3>3, DepthPositive, Zenon
    <3> QED BY <3>1, <3>2, <3>3, <3>4, <1>2, <1>3 DEF BusTypeOK
  <2> QED BY <2>1, <2>2, <2>3, Zenon DEF Send, UndoRetain, SendLease
<1>9. gone' \in [Events -> Int]
  <2>1. CASE UNCHANGED gone
    BY <2>1, <1>2 DEF BusTypeOK
  <2>2. CASE queue[q] # <<>> /\ gone' = [gone EXCEPT ![Head(queue[q]).ev] = @ + 1]
    <3>1. Head(queue[q]) \in Messages
      BY <2>2, <1>2, <1>3, HeadTailProperties DEF BusTypeOK
    <3>2. Head(queue[q]).ev \in Events
      BY <3>1 DEF Messages
    <3> HIDE DEF q
    <3> QED BY <2>2, <3>2, <1>2 DEF BusTypeOK
  <2> QED BY <2>1, <2>2 DEF Overwrite, Send, UndoRetain, SendLease
<1>10. UNCHANGED <<subs, subsCnt, subRes, posted, hold, open, stat, evAbort>>
  BY DEF Overwrite, Send, UndoRetain, SendLease
<1> QED BY <1>2, <1>6, <1>7, <1>8, <1>9, <1>10, PosterTypes DEF BusTypeOK

-----------------------------------------------------------------------------
(* What is counted is finite.                                              *)
LEMMA FiniteUnion ==
  ASSUME NEW S, IsFiniteSet(S), NEW f, DOMAIN f = S, f = [x \in S |-> f[x]],
         \A x \in S : IsFiniteSet(f[x])
  PROVE  IsFiniteSet(UNION {f[x] : x \in S})
<1> DEFINE T == {f[x] : x \in S}
<1>1. f \in Surjection(S, T)
  BY DEF Surjection
<1>2. IsFiniteSet(T)
  BY <1>1, FS_Surjection
<1>3. \A t \in T : IsFiniteSet(t)
  OBVIOUS
<1> HIDE DEF T
<1>4. IsFiniteSet(UNION T)
  BY <1>2, <1>3, FS_UNION
<1> QED BY <1>4 DEF T

LEMMA FiniteQueue ==
  ASSUME BusTypeOK, NEW q \in Queues
  PROVE  /\ IsFiniteSet(InQueue(q)) /\ InQueue(q) \subseteq Messages
         /\ InQueue(q) = {queue[q][k] : k \in 1 .. Len(queue[q])}
<1>1. queue[q] \in Seq(Messages)
  BY DEF BusTypeOK
<1>2. /\ Len(queue[q]) \in Nat /\ queue[q] \in [1 .. Len(queue[q]) -> Messages]
      /\ DOMAIN queue[q] = 1 .. Len(queue[q])
  BY <1>1, LenProperties
<1>3. queue[q] \in Surjection(1 .. Len(queue[q]), InQueue(q))
  BY <1>2 DEF InQueue, Surjection
<1>4. IsFiniteSet(1 .. Len(queue[q]))
  BY <1>2, FS_Interval
<1>5. IsFiniteSet(InQueue(q))
  BY <1>3, <1>4, FS_Surjection
<1> QED BY <1>2, <1>5 DEF InQueue

LEMMA FiniteCounts ==
  ASSUME BusTypeOK, NEW e
  PROVE  /\ IsFiniteSet(QueuedSet(e)) /\ Queued(e) \in Nat
         /\ IsFiniteSet(UnderwaySet(e)) /\ Underway(e) \in Nat
<1>0. IsFiniteSet(Posters) /\ IsFiniteSet(Queues)
  BY BusAssumption
<1> DEFINE f == [q \in Queues |-> {<<q, m>> : m \in {m \in InQueue(q) : m.ev = e}}]
           g == [p \in Posters |-> DoneBy(p, e)]
<1>1. \A q \in Queues : IsFiniteSet(f[q])
  <2> SUFFICES ASSUME NEW q \in Queues PROVE IsFiniteSet(f[q])
    OBVIOUS
  <2>1. IsFiniteSet({q}) /\ IsFiniteSet(InQueue(q))
    BY FiniteQueue, FS_Singleton
  <2>2. IsFiniteSet({q} \X InQueue(q))
    BY <2>1, FS_Product
  <2>3. f[q] \in SUBSET ({q} \X InQueue(q))
    OBVIOUS
  <2> HIDE DEF f
  <2> QED BY <2>2, <2>3, FS_Subset
<1>2. DOMAIN f = Queues /\ f = [q \in Queues |-> f[q]] /\ QueuedSet(e) = UNION {f[q] : q \in Queues}
  BY DEF QueuedSet
<1>3. \A p \in Posters : IsFiniteSet(g[p])
  <2> SUFFICES ASSUME NEW p \in Posters PROVE IsFiniteSet(g[p])
    OBVIOUS
  <2>1. CASE job[p] # NoJob /\ job[p].ev = e
    <3>1. job[p].ok \in Int /\ 1 \in Int
      BY <2>1, BusyJob DEF Jobs
    <3>2. IsFiniteSet({p}) /\ IsFiniteSet(1 .. job[p].ok)
      BY <3>1, FS_Singleton, FS_Interval
    <3>3. IsFiniteSet({p} \X (1 .. job[p].ok))
      BY <3>2, FS_Product
    <3> QED BY <2>1, <3>3 DEF DoneBy
  <2>2. CASE ~(job[p] # NoJob /\ job[p].ev = e)
    BY <2>2, FS_EmptySet DEF DoneBy
  <2> QED BY <2>1, <2>2
<1>4. DOMAIN g = Posters /\ g = [p \in Posters |-> g[p]] /\ UnderwaySet(e) = UNION {g[p] : p \in Posters}
  BY DEF UnderwaySet
<1> HIDE DEF f, g
<1>5. IsFiniteSet(QueuedSet(e))
  BY <1>0, <1>1, <1>2, FiniteUnion
<1>6. IsFiniteSet(UnderwaySet(e))
  BY <1>0, <1>3, <1>4, FiniteUnion
<1> QED BY <1>5, <1>6, FS_CardinalityType DEF Queued, Underway

-----------------------------------------------------------------------------
LEMMA FillType ==
  ASSUME TypeInv, Inv', NEW p \in Posters, Fill(p)
  PROVE  TypeInv'
<1> DEFINE j == [pc |-> "filled", ev |-> job[p].ev, h |-> job[p].h, pay |-> p,
                 todo |-> job[p].todo, ok |-> job[p].ok, bad |-> job[p].bad]
<1>1. job[p] \in Jobs /\ job[p] # NoJob /\ BusTypeOK /\ Shape(job[p]) /\ job[p].pc = "mapped"
  BY BusyJob DEF Fill, TypeInv
<1>2. job'[p] = j /\ job' = [job EXCEPT ![p] = job'[p]]
  <2>1. job \in [Posters -> {NoJob} \cup Jobs]
    BY <1>1 DEF BusTypeOK
  <2>2. job'[p] = j /\ \A r \in Posters : r # p => job'[r] = job[r]
    BY <2>1, <1>1 DEF Fill, Jobs
  <2> QED BY <2>1, <2>2 DEF Fill
<1>3. p \in Payloads
  BY BusAssumption
<1>4. j \in Jobs /\ Shape(j)
  BY <1>1, <1>3 DEF Jobs, Contents, Shape, BeforeBus
<1> HIDE DEF j
<1> QED BY <1>1, <1>2, <1>4, PosterTypes DEF Fill, BusTypeOK

LEMMA PostLeaseType ==
  ASSUME TypeInv, Inv', NEW p \in Posters, PostLease(p)
  PROVE  TypeInv'
<1>1. job[p] \in Jobs /\ job[p] # NoJob /\ BusTypeOK /\ Shape(job[p]) /\ job[p].pc = "ready"
  BY BusyJob DEF PostLease, TypeInv
<1>2. CASE UNCHANGED job
  <2>1. job' = [job EXCEPT ![p] = job[p]]
    BY <1>1, <1>2 DEF BusTypeOK
  <2> QED BY <1>1, <2>1, PosterTypes DEF PostLease, BusTypeOK
<1>3. CASE job' = [job EXCEPT ![p].pc = "loop", ![p].todo = Snapshot] /\ UNCHANGED evAbort
  <2> DEFINE j == [pc |-> "loop", ev |-> job[p].ev, h |-> job[p].h, pay |-> job[p].pay,
                   todo |-> Snapshot, ok |-> job[p].ok, bad |-> job[p].bad]
  <2>1. job \in [Posters -> {NoJob} \cup Jobs]
    BY <1>1 DEF BusTypeOK
  <2>2. job'[p] = j /\ job' = [job EXCEPT ![p] = job'[p]]
    <3>1. job'[p] = j /\ \A r \in Posters : r # p => job'[r] = job[r]
      BY <2>1, <1>1, <1>3 DEF Jobs
    <3> QED BY <2>1, <3>1, <1>3
  <2>3. j \in Jobs /\ Shape(j)
    BY <1>1, SnapshotProperties DEF Jobs, Shape, BeforeBus
  <2> HIDE DEF j
  <2> QED BY <1>1, <1>3, <2>2, <2>3, PosterTypes DEF PostLease, BusTypeOK
<1> QED BY <1>2, <1>3 DEF PostLease

LEMMA SkipType ==
  ASSUME TypeInv, Inv', NEW p \in Posters, SkipCleared(p)
  PROVE  TypeInv'
<1> DEFINE j == [pc |-> "loop", ev |-> job[p].ev, h |-> job[p].h, pay |-> job[p].pay,
                 todo |-> Tail(job[p].todo), ok |-> job[p].ok, bad |-> job[p].bad]
<1>1. job[p] \in Jobs /\ job[p] # NoJob /\ BusTypeOK /\ job[p].pc = "loop" /\ job[p].todo # <<>>
  BY BusyJob DEF SkipCleared, TypeInv
<1>2. job'[p] = j /\ job' = [job EXCEPT ![p] = job'[p]]
  <2>1. job \in [Posters -> {NoJob} \cup Jobs]
    BY <1>1 DEF BusTypeOK
  <2>2. job'[p] = j /\ \A r \in Posters : r # p => job'[r] = job[r]
    BY <2>1, <1>1 DEF SkipCleared, Jobs
  <2> QED BY <2>1, <2>2 DEF SkipCleared
<1>3. Tail(job[p].todo) \in Seq(Queues \cup {NoQueue})
  BY <1>1, HeadTailProperties DEF Jobs
<1>4. j \in Jobs /\ Shape(j)
  BY <1>1, <1>3 DEF Jobs, Shape, BeforeBus
<1> HIDE DEF j
<1> QED BY <1>1, <1>2, <1>4, PosterTypes DEF SkipCleared, BusTypeOK

LEMMA AccountType ==
  ASSUME TypeInv, Inv', NEW p \in Posters, Account(p)
  PROVE  TypeInv'
<1>1. job[p] \in Jobs /\ BusTypeOK
  BY BusyJob DEF Account, TypeInv
<1>2. job' = [job EXCEPT ![p] = NoJob] /\ Shape(NoJob)
  BY DEF Account, Shape
<1> DEFINE j == job[p]
           s == stat[j.ev]
           c == [ok |-> s.ok + (IF j.ok > 0 THEN 1 ELSE 0), drop |-> s.drop + (IF j.ok > 0 THEN 0 ELSE 1),
                 fail |-> s.fail + j.bad, dlv |-> s.dlv + j.ok]
<1>3. j.ev \in Events /\ j.ok \in Nat /\ j.bad \in Nat
  BY <1>1 DEF Jobs
<1>4. s \in [ok : Nat, drop : Nat, fail : Nat, dlv : Nat]
  BY <1>1, <1>3 DEF BusTypeOK
<1>5. stat' = [stat EXCEPT ![j.ev] = c]
  BY DEF Account
<1>6. c \in [ok : Nat, drop : Nat, fail : Nat, dlv : Nat]
  BY <1>3, <1>4
<1> HIDE DEF c
<1>7. stat' \in [Events -> [ok : Nat, drop : Nat, fail : Nat, dlv : Nat]]
  BY <1>1, <1>3, <1>5, <1>6 DEF BusTypeOK
<1> HIDE DEF j
<1> QED BY <1>1, <1>2, <1>7, PosterTypes DEF Account, BusTypeOK

(* The steps of the readers, the subscribers and the console.              *)
LEMMA ReceiveType ==
  ASSUME TypeInv, Inv', NEW q \in Queues, Receive(q)
  PROVE  TypeInv'
<1>1. BusTypeOK /\ queue[q] \in Seq(Messages) /\ queue[q] # <<>>
  BY DEF Receive, TypeInv, BusTypeOK
<1> DEFINE m == Head(queue[q])
           t == Tail(queue[q])
<1>2. m \in Messages /\ t \in Seq(Messages) /\ Len(t) = Len(queue[q]) - 1 /\ Len(queue[q]) \in Nat
  BY <1>1, HeadTailProperties, LenProperties
<1>3. /\ hold' = [hold EXCEPT ![q] = m] /\ gone' = [gone EXCEPT ![m.ev] = @ + 1]
      /\ queue' = [queue EXCEPT ![q] = t]
      /\ UNCHANGED <<subs, subsCnt, subRes, job, posted, open, stat, evAbort>>
  BY DEF Receive
<1>4. m.ev \in Events /\ m # NoMsg
  BY <1>2, NoMsgIsNone DEF Messages
<1> HIDE DEF m, t
<1>5. queue' \in [Queues -> Seq(Messages)] /\ \A r \in Queues : Len(queue'[r]) <= Depth[r]
  <2>1. \A r \in Queues : Len(queue[r]) <= Depth[r] /\ Depth[r] \in Nat
    BY <1>1, BusAssumption DEF BusTypeOK
  <2> QED BY <2>1, <1>1, <1>2, <1>3 DEF BusTypeOK
<1>6. hold' \in [Queues -> {NoMsg} \cup Messages] /\ \A r \in open : hold'[r] # NoMsg
  BY <1>1, <1>2, <1>3, <1>4 DEF BusTypeOK
<1>7. gone' \in [Events -> Int]
  BY <1>1, <1>3, <1>4 DEF BusTypeOK
<1>8. BusTypeOK'
  BY <1>1, <1>3, <1>5, <1>6, <1>7 DEF BusTypeOK, Inv
<1>9. (\A p \in Posters : Shape(job[p]))'
  BY <1>3 DEF TypeInv
<1>10. OpenServed'
  <2>1. \A r \in open : r # q
    BY DEF Receive, TypeInv, OpenServed
  <2> QED BY <2>1, <1>1, <1>3 DEF BusTypeOK, TypeInv, OpenServed
<1> QED BY <1>8, <1>9, <1>10 DEF TypeInv

LEMMA HandleType ==
  ASSUME TypeInv, Inv', NEW q \in Queues, Discard(q) \/ OpenView(q) \/ CloseView(q)
  PROVE  TypeInv'
<1>1. BusTypeOK /\ OpenServed
  BY DEF TypeInv
<1>2. UNCHANGED <<subs, subsCnt, subRes, queue, job, posted, gone, stat, evAbort>>
  BY DEF Discard, OpenView, CloseView
<1>3. \/ hold' = [hold EXCEPT ![q] = NoMsg] /\ open' = open \ {q}
      \/ /\ hold' = hold /\ open' = open \cup {q}
         /\ hold[q] # NoMsg /\ IsLease(hold[q].ev) /\ hold[q].ev \in Serves[q]
  <2>1. CASE Discard(q)
    BY <2>1, <1>1 DEF Discard, OpenServed
  <2>2. CASE OpenView(q)
    BY <2>2, <1>1 DEF OpenView
  <2>3. CASE CloseView(q)
    BY <2>3 DEF CloseView
  <2> QED BY <2>1, <2>2, <2>3
<1>4. hold' \in [Queues -> {NoMsg} \cup Messages] /\ open' \subseteq Queues
  BY <1>1, <1>3 DEF BusTypeOK
<1>5. OpenServed'
  BY <1>1, <1>3 DEF BusTypeOK, OpenServed
<1>6. BusTypeOK'
  BY <1>1, <1>2, <1>4, <1>5 DEF BusTypeOK, OpenServed, Inv
<1>7. (\A p \in Posters : Shape(job[p]))'
  BY <1>2 DEF TypeInv
<1> QED BY <1>5, <1>6, <1>7 DEF TypeInv

LEMMA SubscriberType ==
  ASSUME TypeInv, Inv', NEW q \in Queues, Subscribe(q) \/ Unsubscribe(q)
  PROVE  TypeInv'
<1>1. BusTypeOK
  BY DEF TypeInv
<1>2. UNCHANGED <<queue, job, posted, hold, open, gone, stat, evAbort>>
  BY DEF Subscribe, Unsubscribe
<1>3. /\ subs' \in [Entries -> Queues \cup {NoQueue}] /\ subsCnt' \in 0 .. MaxSubs
      /\ subRes' \in [Queues -> {"no", "ok", "failed"}]
  <2>1. CASE Subscribe(q) /\ EntryLeft
    <3>1. subsCnt \in Entries /\ subsCnt + 1 \in 0 .. MaxSubs
      BY <2>1, <1>1, BusAssumption DEF BusTypeOK, EntryLeft, Entries
    <3>2. /\ subs' = [subs EXCEPT ![subsCnt] = q] /\ subsCnt' = subsCnt + 1
          /\ subRes' = [subRes EXCEPT ![q] = "ok"]
      BY <2>1 DEF Subscribe
    <3> QED BY <3>1, <3>2, <1>1 DEF BusTypeOK
  <2>2. CASE Subscribe(q) /\ ~EntryLeft
    BY <2>2, <1>1 DEF Subscribe, BusTypeOK
  <2>3. CASE Unsubscribe(q)
    BY <2>3, <1>1 DEF Unsubscribe, BusTypeOK
  <2> QED BY <2>1, <2>2, <2>3
<1>4. BusTypeOK'
  BY <1>1, <1>2, <1>3 DEF BusTypeOK, Inv
<1> QED BY <1>2, <1>4 DEF TypeInv, OpenServed

LEMMA ResetType ==
  ASSUME TypeInv, Inv', EvResetStats
  PROVE  TypeInv'
<1>1. BusTypeOK
  BY DEF TypeInv
<1>2. UNCHANGED <<subs, subsCnt, subRes, queue, job, posted, hold, open, evAbort>>
  BY DEF EvResetStats
<1>3. gone' \in [Events -> Int]
  <2>1. \A e \in Events : Underway(e) - Queued(e) \in Int
    BY <1>1, FiniteCounts
  <2> QED BY <2>1 DEF EvResetStats
<1>4. stat' \in [Events -> [ok : Nat, drop : Nat, fail : Nat, dlv : Nat]]
  BY DEF EvResetStats
<1>5. BusTypeOK'
  BY <1>1, <1>2, <1>3, <1>4 DEF BusTypeOK, Inv
<1> QED BY <1>2, <1>5 DEF TypeInv, OpenServed

LEMMA TypeInvNext ==
  ASSUME TypeInv, [BusNext]_vars
  PROVE  TypeInv'
<1>1. Inv'
  BY PoolStep
<1>2. ASSUME NEW p \in Posters, PosterStep(p) PROVE TypeInv'
  <2>1. ASSUME NEW e \in Posts[p], Post(p, e) \/ PostFromIsr(p, e) PROVE TypeInv'
    BY <1>1, <2>1, BeginType DEF Post, PostFromIsr
  <2>2. ASSUME NEW e \in Posts[p], Alloc(p, e) PROVE TypeInv'
    BY <1>1, <2>2, AllocType
  <2>3. CASE Map(p) \/ Publish(p) \/ Retain(p) \/ ReleaseOwn(p)
    BY <1>1, <2>3, PcType
  <2>4. CASE SendLease(p)
    BY <1>1, <2>4, PcType, AdvanceType
  <2>5. CASE Overwrite(p) \/ Send(p) \/ UndoRetain(p)
    BY <1>1, <2>5, AdvanceType
  <2>6. CASE Fill(p) \/ PostLease(p) \/ SkipCleared(p) \/ Account(p)
    BY <1>1, <2>6, FillType, PostLeaseType, SkipType, AccountType
  <2> QED
    BY <1>2, <2>1, <2>2, <2>3, <2>4, <2>5, <2>6 DEF PosterStep, Proceed
<1>3. ASSUME NEW q \in Queues, ReaderStep(q) \/ Subscribe(q) \/ Unsubscribe(q) PROVE TypeInv'
  BY <1>1, <1>3, ReceiveType, HandleType, SubscriberType DEF ReaderStep
<1>4. CASE EvResetStats
  BY <1>1, <1>4, ResetType
<1>5. CASE UNCHANGED vars
  BY <1>1, <1>5 DEF vars, poolVars, busVars, TypeInv, BusTypeOK, TypeOK, OpenServed
<1> QED BY <1>2, <1>3, <1>4, <1>5 DEF BusNext, Finished

LEMMA TypeInvInit ==
  ASSUME BusInit
  PROVE  TypeInv
<1> USE DEF BusInit
<1>1. Inv
  BY InitInv
<1>2. \A p \in Posters : Shape(job[p])
  BY DEF Shape
<1>3. OpenServed
  BY DEF OpenServed
<1>4. BusTypeOK
  <2>1. \A q \in Queues : queue[q] = <<>> /\ <<>> \in Seq(Messages) /\ Len(<<>>) <= Depth[q]
    BY BusAssumption
  <2>2. queue \in [Queues -> Seq(Messages)] /\ \A q \in Queues : Len(queue[q]) <= Depth[q]
    BY <2>1
  <2>3. /\ subs \in [Entries -> Queues \cup {NoQueue}] /\ subsCnt \in 0 .. MaxSubs
        /\ subRes \in [Queues -> {"no", "ok", "failed"}]
        /\ job \in [Posters -> {NoJob} \cup Jobs] /\ hold \in [Queues -> {NoMsg} \cup Messages]
    BY BusAssumption
  <2>4. posted \in [Posters -> Nat] /\ \A p \in Posters : posted[p] <= MaxPosts[p]
    BY BusAssumption
  <2>5. /\ open \subseteq Queues /\ (\A q \in open : hold[q] # NoMsg)
        /\ gone \in [Events -> Int] /\ evAbort \in BOOLEAN
        /\ stat \in [Events -> [ok : Nat, drop : Nat, fail : Nat, dlv : Nat]]
    <3>1. [ok |-> 0, drop |-> 0, fail |-> 0, dlv |-> 0] \in [ok : Nat, drop : Nat, fail : Nat, dlv : Nat]
      OBVIOUS
    <3>2. stat \in [Events -> [ok : Nat, drop : Nat, fail : Nat, dlv : Nat]]
      BY <3>1
    <3>3. gone \in [Events -> Int] /\ evAbort \in BOOLEAN
      <4>1. gone \in [Events -> Int] OBVIOUS
      <4>2. evAbort = FALSE OBVIOUS
      <4> QED BY <4>1, <4>2
    <3>4. open \subseteq Queues /\ \A q \in open : hold[q] # NoMsg
      OBVIOUS
    <3> QED BY <3>2, <3>3, <3>4
  <2>6. TypeOK
    BY <1>1 DEF Inv
  <2> HIDE DEF BusInit
  <2> QED BY <2>2, <2>3, <2>4, <2>5, <2>6 DEF BusTypeOK
<1> QED BY <1>1, <1>2, <1>3, <1>4 DEF TypeInv

(* In every reachable state the variables of the bus and of its pool have  *)
(* their types: no queue is filled beyond its depth (xQueueCreate), no     *)
(* subscriber count leaves s_subs, no handle is outside the pool.          *)
THEOREM BusTypes == BusSpec => []BusTypeOK
<1>1. BusInit => TypeInv
  BY TypeInvInit
<1>2. TypeInv /\ [BusNext]_vars => TypeInv'
  BY TypeInvNext
<1>3. TypeInv => BusTypeOK
  BY DEF TypeInv
<1> QED BY <1>1, <1>2, <1>3, PTL DEF BusSpec

(* The pool's promises hold under the bus and its clients: lp_check finds  *)
(* nothing, and an abort blames a caller.                                  *)
THEOREM BusPool == BusSpec => [](LpCheckClean /\ NoSelfInflictedAbort)
<1>1. BusInit => TypeInv
  BY TypeInvInit
<1>2. TypeInv /\ [BusNext]_vars => TypeInv'
  BY TypeInvNext
<1>3. TypeInv => LpCheckClean /\ NoSelfInflictedAbort
  BY CleanWhenInv DEF TypeInv, Inv
<1> QED BY <1>1, <1>2, <1>3, PTL DEF BusSpec

-----------------------------------------------------------------------------
(* Order.  What is left of a copy, of a queue.                             *)
LEMMA RestOf ==
  ASSUME NEW S, NEW s \in Seq(S), s # <<>>
  PROVE  /\ Len(s) \in Nat /\ 1 \in 1 .. Len(s) /\ Head(s) = s[1] /\ Head(s) \in S
         /\ Tail(s) \in Seq(S) /\ Len(Tail(s)) = Len(s) - 1
         /\ \A k \in 1 .. Len(Tail(s)) : k + 1 \in 1 .. Len(s) /\ Tail(s)[k] = s[k + 1]
<1>1. Len(s) \in Nat /\ Len(s) # 0 /\ Len(Tail(s)) = Len(s) - 1
  BY EmptySeq, LenProperties, HeadTailProperties
<1>2. \A k \in 1 .. Len(Tail(s)) : Tail(s)[k] = s[k + 1]
  BY HeadTailProperties
<1> QED BY <1>1, <1>2, HeadTailProperties

LEMMA SnapshotOnce ==
  ASSUME BusTypeOK, SubsOnce
  PROVE  \A k, l \in 1 .. Len(Snapshot) :
           Snapshot[k] = Snapshot[l] => k = l \/ Snapshot[k] = NoQueue
<1> SUFFICES ASSUME NEW k \in 1 .. Len(Snapshot), NEW l \in 1 .. Len(Snapshot),
                    Snapshot[k] = Snapshot[l]
             PROVE  k = l \/ Snapshot[k] = NoQueue
  OBVIOUS
<1>1. subsCnt \in Nat
  BY BusAssumption DEF BusTypeOK
<1>2. /\ k - 1 \in 0 .. subsCnt - 1 /\ l - 1 \in 0 .. subsCnt - 1
      /\ Snapshot[k] = subs[k - 1] /\ Snapshot[l] = subs[l - 1]
  BY SnapshotProperties
<1>3. k - 1 = l - 1 \/ subs[k - 1] = NoQueue
  BY <1>2 DEF SubsOnce
<1> QED BY <1>2, <1>3

(* What a message in a queue or in a reader's hands is.                    *)
LEMMA MessageFacts ==
  ASSUME BusTypeOK, NEW q \in Queues
  PROVE  /\ queue[q] \in Seq(Messages) /\ Len(queue[q]) \in Nat
         /\ \A k \in 1 .. Len(queue[q]) :
              /\ queue[q][k] \in Messages /\ queue[q][k].from \in Posters /\ queue[q][k].seq \in Nat
         /\ hold[q] # NoMsg => /\ hold[q] \in Messages
                               /\ hold[q].from \in Posters /\ hold[q].seq \in Nat
<1>1. queue[q] \in Seq(Messages) /\ hold[q] \in {NoMsg} \cup Messages
  BY DEF BusTypeOK
<1>2. Len(queue[q]) \in Nat /\ \A k \in 1 .. Len(queue[q]) : queue[q][k] \in Messages
  BY <1>1, LenProperties, ElementOfSeq
<1> QED BY <1>1, <1>2 DEF Messages

(* A post moves on without delivering: what is left of its copy shrinks.   *)
LEMMA SilentOrder ==
  ASSUME TypeInv, OrderInv, NEW p \in Posters, job[p] # NoJob, NEW j,
         job' = [job EXCEPT ![p] = j],
         j # NoJob =>
           /\ \A k, l \in 1 .. Len(j.todo) : j.todo[k] = j.todo[l] => k = l \/ j.todo[k] = NoQueue
           /\ job[p].pc \in AtBus =>
                /\ j.pc \in AtBus
                /\ \A k \in 1 .. Len(j.todo) : \E l \in 1 .. Len(job[p].todo) : j.todo[k] = job[p].todo[l],
         UNCHANGED <<subs, subsCnt, subRes, queue, hold, posted>>
  PROVE  OrderInv'
<1>1. BusTypeOK /\ \A r \in Posters : job'[r] = IF r = p THEN j ELSE job[r]
  BY DEF TypeInv, BusTypeOK
<1>2. \A r \in Posters : RoundOnce(r)'
  BY <1>1 DEF OrderInv, RoundOnce
<1>3. ASSUME NEW q \in Queues, NEW m, m.from \in Posters, NotAhead(q, m) PROVE NotAhead(q, m)'
  <2>1. m.seq <= posted'[m.from]
    BY <1>3 DEF NotAhead
  <2>2. SUFFICES ASSUME m.seq = posted[m.from], job'[m.from] # NoJob
                 PROVE  /\ job'[m.from].pc \in AtBus
                        /\ \A k \in 1 .. Len(job'[m.from].todo) : job'[m.from].todo[k] # q
    BY <2>1 DEF NotAhead
  <2>3. CASE m.from # p
    BY <1>1, <1>3, <2>2, <2>3 DEF NotAhead
  <2>4. CASE m.from = p
    <3>1. job[p].pc \in AtBus /\ \A k \in 1 .. Len(job[p].todo) : job[p].todo[k] # q
      BY <1>3, <2>2, <2>4 DEF NotAhead
    <3> QED BY <3>1, <1>1, <2>2, <2>4
  <2> QED BY <2>3, <2>4
<1>4. \A q \in Queues : Passed(q)'
  BY <1>1, <1>3, MessageFacts DEF OrderInv, Passed
<1>5. SubsOnce' /\ SubsKnown' /\ \A q \in Queues : QueueOrdered(q)' /\ HeldFirst(q)'
  BY DEF OrderInv, SubsOnce, SubsKnown, QueueOrdered, HeldFirst
<1> QED BY <1>2, <1>4, <1>5 DEF OrderInv

(* A post begins: everything its poster sent before is behind it.          *)
LEMMA StartOrder ==
  ASSUME TypeInv, OrderInv, NEW p \in Posters, NEW j,
         posted' = [posted EXCEPT ![p] = @ + 1],
         job' = [job EXCEPT ![p] = j],
         j # NoJob => \A k, l \in 1 .. Len(j.todo) :
                        j.todo[k] = j.todo[l] => k = l \/ j.todo[k] = NoQueue,
         UNCHANGED <<subs, subsCnt, subRes, queue, hold>>
  PROVE  OrderInv'
<1>1. BusTypeOK /\ \A r \in Posters : job'[r] = IF r = p THEN j ELSE job[r]
  BY DEF TypeInv, BusTypeOK
<1>2. \A r \in Posters : posted[r] \in Nat /\ posted'[r] = IF r = p THEN posted[p] + 1 ELSE posted[r]
  BY <1>1 DEF BusTypeOK
<1>3. \A r \in Posters : RoundOnce(r)'
  BY <1>1 DEF OrderInv, RoundOnce
<1>4. ASSUME NEW q \in Queues, NEW m, m.from \in Posters, m.seq \in Nat, NotAhead(q, m)
      PROVE  NotAhead(q, m)'
  <2>1. CASE m.from # p
    BY <1>1, <1>2, <1>4, <2>1 DEF NotAhead
  <2>2. CASE m.from = p
    <3>1. m.seq <= posted[p]
      BY <1>4, <2>2 DEF NotAhead
    <3>2. m.seq <= posted'[p] /\ m.seq # posted'[p]
      BY <3>1, <1>2, <1>4
    <3> QED BY <3>2, <2>2 DEF NotAhead
  <2> QED BY <2>1, <2>2
<1>5. \A q \in Queues : Passed(q)'
  BY <1>1, <1>4, MessageFacts DEF OrderInv, Passed
<1>6. SubsOnce' /\ SubsKnown' /\ \A q \in Queues : QueueOrdered(q)' /\ HeldFirst(q)'
  BY DEF OrderInv, SubsOnce, SubsKnown, QueueOrdered, HeldFirst
<1> QED BY <1>3, <1>5, <1>6 DEF OrderInv

(* What its poster has in the queue a post is about to visit is older.     *)
LEMMA OlderAhead ==
  ASSUME TypeInv, OrderInv, NEW p \in Posters, job[p] # NoJob, job[p].todo # <<>>,
         Head(job[p].todo) \in Queues
  PROVE  LET q == Head(job[p].todo)
         IN  /\ hold[q] # NoMsg /\ hold[q].from = p => hold[q].seq < posted[p]
             /\ \A k \in 1 .. Len(queue[q]) : queue[q][k].from = p => queue[q][k].seq < posted[p]
<1> DEFINE q == Head(job[p].todo)
<1>1. BusTypeOK /\ job[p] \in Jobs /\ posted[p] \in Nat
  BY BusyJob DEF TypeInv, BusTypeOK
<1>2. job[p].todo \in Seq(Queues \cup {NoQueue})
  BY <1>1 DEF Jobs
<1>3. 1 \in 1 .. Len(job[p].todo) /\ job[p].todo[1] = q
  BY <1>2, RestOf
<1>4. ASSUME NEW m, m.from = p, m.seq \in Nat, NotAhead(q, m) PROVE m.seq < posted[p]
  BY <1>1, <1>3, <1>4 DEF NotAhead
<1> HIDE DEF q
<1>5. q \in Queues /\ Passed(q)
  BY DEF q, OrderInv
<1>6. hold[q] # NoMsg /\ hold[q].from = p => hold[q].seq < posted[p]
  BY <1>1, <1>4, <1>5, MessageFacts DEF Passed
<1>7. \A k \in 1 .. Len(queue[q]) : queue[q][k].from = p => queue[q][k].seq < posted[p]
  BY <1>1, <1>4, <1>5, MessageFacts DEF Passed
<1> QED BY <1>6, <1>7 DEF q

(* The post is done with one queue of its copy; the messages of the other  *)
(* queues and the older ones of this queue stay behind their posters.      *)
LEMMA AdvanceKeeps ==
  ASSUME TypeInv, OrderInv, NEW p \in Posters, job[p].pc \in AtBus, job[p].todo # <<>>,
         NEW d \in BOOLEAN, job' = [job EXCEPT ![p] = Advanced(p, d)], UNCHANGED posted
  PROVE  /\ \A r \in Posters : RoundOnce(r)'
         /\ \A q \in Queues : \A m : m.from \in Posters /\ NotAhead(q, m) => NotAhead(q, m)'
         /\ \A q \in Queues : \A m :
              q = Head(job[p].todo) /\ m.from = p /\ m.seq = posted[p] => NotAhead(q, m)'
<1>1. BusTypeOK /\ job[p] \in Jobs /\ job[p] # NoJob
  BY BusyJob DEF TypeInv, AtBus
<1>2. job[p].todo \in Seq(Queues \cup {NoQueue})
  BY <1>1 DEF Jobs
<1> DEFINE t == Tail(job[p].todo)
<1>3. /\ 1 \in 1 .. Len(job[p].todo) /\ Head(job[p].todo) = job[p].todo[1]
      /\ \A k \in 1 .. Len(t) : k \in Int /\ k + 1 \in 1 .. Len(job[p].todo) /\ t[k] = job[p].todo[k + 1]
  BY <1>2, RestOf
<1>4. \A r \in Posters : job'[r] = IF r = p THEN Advanced(p, d) ELSE job[r]
  BY <1>1 DEF BusTypeOK
<1>5. Advanced(p, d).pc = "loop" /\ Advanced(p, d).todo = t
  BY DEF Advanced
<1>6. \A k, l \in 1 .. Len(job[p].todo) :
        job[p].todo[k] = job[p].todo[l] => k = l \/ job[p].todo[k] = NoQueue
  BY <1>1 DEF OrderInv, RoundOnce
<1> HIDE DEF t
<1>7. \A k, l \in 1 .. Len(t) : t[k] = t[l] => k = l \/ t[k] = NoQueue
  <2> SUFFICES ASSUME NEW k \in 1 .. Len(t), NEW l \in 1 .. Len(t), t[k] = t[l], t[k] # NoQueue
               PROVE  k = l
    OBVIOUS
  <2>1. k + 1 = l + 1
    BY <1>3, <1>6
  <2> QED BY <2>1
<1>8. ASSUME NEW r \in Posters PROVE RoundOnce(r)'
  BY <1>4, <1>5, <1>7 DEF OrderInv, RoundOnce
<1>9. ASSUME NEW q \in Queues, NEW m, m.from \in Posters, NotAhead(q, m) PROVE NotAhead(q, m)'
  <2>1. CASE m.from # p
    BY <1>4, <1>9, <2>1 DEF NotAhead
  <2>2. CASE m.from = p
    <3>1. m.seq <= posted'[p]
      BY <1>9, <2>2 DEF NotAhead
    <3>2. m.seq = posted[p] => \A k \in 1 .. Len(t) : t[k] # q
      BY <1>1, <1>3, <1>9, <2>2 DEF NotAhead
    <3> QED BY <3>1, <3>2, <1>4, <1>5, <2>2 DEF NotAhead, AtBus
  <2> QED BY <2>1, <2>2
<1>10. ASSUME NEW q \in Queues, NEW m, q = Head(job[p].todo), m.from = p, m.seq = posted[p]
       PROVE  NotAhead(q, m)'
  <2>1. \A k \in 1 .. Len(t) : t[k] # q
    <3> SUFFICES ASSUME NEW k \in 1 .. Len(t), t[k] = q PROVE FALSE
      OBVIOUS
    <3>1. k + 1 = 1 \/ q = NoQueue
      BY <1>3, <1>6, <1>10
    <3>2. k \in 1 .. Len(t) /\ k \in Int
      BY <1>3
    <3> QED BY <3>1, <3>2, BusAssumption
  <2>2. posted[p] <= posted[p]
    BY <1>1 DEF BusTypeOK
  <2> QED BY <2>1, <2>2, <1>4, <1>5, <1>10 DEF NotAhead, AtBus
<1> QED BY <1>8, <1>9, <1>10

(* A message goes to the end of the queue the post is at, or, in a mailbox *)
(* of depth 1, replaces what is there.                                     *)
Replaces(q, m) == queue' = [queue EXCEPT ![q] = <<m>>]
Delivers(q, m) == Enqueue(q, m) \/ Replaces(q, m)

(* The message comes to the end of the queue, or is alone there.           *)
ComesLast(q, m) ==
  \/ /\ Len(queue'[q]) = Len(queue[q]) + 1
     /\ \A k \in 1 .. Len(queue[q]) : queue'[q][k] = queue[q][k]
     /\ queue'[q][Len(queue[q]) + 1] = m
  \/ Len(queue'[q]) = 1 /\ queue'[q][1] = m

LEMMA AtTheEnd ==
  ASSUME BusTypeOK, NEW q \in Queues, NEW m \in Messages, Enqueue(q, m)
  PROVE  /\ Len(queue'[q]) = Len(queue[q]) + 1
         /\ \A k \in 1 .. Len(queue[q]) : queue'[q][k] = queue[q][k]
         /\ queue'[q][Len(queue[q]) + 1] = m
<1>1. queue[q] \in Seq(Messages) /\ queue'[q] = Append(queue[q], m)
  BY DEF Enqueue, BusTypeOK
<1> QED BY <1>1, AppendProperties

LEMMA LastOrBefore ==
  ASSUME NEW q, NEW m, ComesLast(q, m), Len(queue[q]) \in Nat, NEW k \in 1 .. Len(queue'[q])
  PROVE  \/ (k \in 1 .. Len(queue[q]) /\ queue'[q][k] = queue[q][k])
         \/ k = Len(queue'[q]) /\ queue'[q][k] = m
<1>1. CASE Len(queue'[q]) = Len(queue[q]) + 1
  <2> PICK n \in Nat : n = Len(queue[q])
    OBVIOUS
  <2>1. n + 1 = Len(queue'[q])
    BY <1>1
  <2>2. k \in 1 .. n + 1
    BY <2>1
  <2>3. k \in 1 .. n \/ k = n + 1
    BY <2>2
  <2>4. 1 # n + 1 \/ n = 0
    OBVIOUS
  <2>5. CASE k \in 1 .. n
    <3>1. k \in 1 .. Len(queue[q])
      BY <2>5
    <3>2. \A i \in 1 .. Len(queue[q]) : queue'[q][i] = queue[q][i]
      <4>1. n + 1 # 1
        BY <2>5
      <4>2. Len(queue'[q]) # 1
        BY <2>1, <4>1
      <4> QED BY <4>2 DEF ComesLast
    <3>3. queue'[q][k] = queue[q][k]
      BY <3>1, <3>2
    <3> QED BY <3>1, <3>3
  <2>6. CASE k = n + 1
    BY <2>1, <2>6 DEF ComesLast
  <2> QED BY <2>3, <2>5, <2>6
<1>2. CASE Len(queue'[q]) # Len(queue[q]) + 1
  <2>1. Len(queue'[q]) = 1 /\ queue'[q][1] = m
    BY <1>2 DEF ComesLast
  <2>2. k = 1
    BY <2>1
  <2> QED BY <2>1, <2>2
<1> QED BY <1>1, <1>2

LEMMA LatestLast ==
  ASSUME OrderInv, NEW q \in Queues, NEW m, ComesLast(q, m), Len(queue[q]) \in Nat,
         \A r \in Queues : r # q => queue'[r] = queue[r], UNCHANGED hold,
         hold[q] # NoMsg /\ hold[q].from = m.from => hold[q].seq < m.seq,
         \A k \in 1 .. Len(queue[q]) : queue[q][k].from = m.from => queue[q][k].seq < m.seq
  PROVE  \A r \in Queues : QueueOrdered(r)' /\ HeldFirst(r)'
<1>1. ASSUME NEW k \in 1 .. Len(queue'[q])
      PROVE  \/ (k \in 1 .. Len(queue[q]) /\ queue'[q][k] = queue[q][k])
             \/ k = Len(queue'[q]) /\ queue'[q][k] = m
  BY LastOrBefore
<1>2. ASSUME NEW r \in Queues PROVE QueueOrdered(r)'
  <2>1. CASE r # q
    BY <2>1 DEF OrderInv, QueueOrdered
  <2>2. CASE r = q
    <3> SUFFICES ASSUME NEW k \in 1 .. Len(queue'[q]), NEW l \in 1 .. Len(queue'[q]), k < l,
                        queue'[q][k].from = queue'[q][l].from
                 PROVE  queue'[q][k].seq < queue'[q][l].seq
      BY <2>2 DEF QueueOrdered
    <3>1. k # Len(queue'[q])
      BY DEF ComesLast
    <3>2. k \in 1 .. Len(queue[q]) /\ queue'[q][k] = queue[q][k]
      BY <1>1, <3>1
    <3>3. CASE l \in 1 .. Len(queue[q]) /\ queue'[q][l] = queue[q][l]
      BY <3>2, <3>3 DEF OrderInv, QueueOrdered
    <3>4. CASE queue'[q][l] = m
      BY <3>2, <3>4
    <3> QED BY <3>3, <3>4, <1>1
  <2> QED BY <2>1, <2>2
<1>3. ASSUME NEW r \in Queues PROVE HeldFirst(r)'
  <2>1. CASE r # q
    BY <2>1 DEF OrderInv, HeldFirst
  <2>2. CASE r = q
    <3> SUFFICES ASSUME hold[q] # NoMsg, NEW k \in 1 .. Len(queue'[q]),
                        queue'[q][k].from = hold[q].from
                 PROVE  hold[q].seq < queue'[q][k].seq
      BY <2>2 DEF HeldFirst
    <3>1. CASE k \in 1 .. Len(queue[q]) /\ queue'[q][k] = queue[q][k]
      BY <3>1 DEF OrderInv, HeldFirst
    <3>2. CASE queue'[q][k] = m
      BY <3>2
    <3> QED BY <3>1, <3>2, <1>1
  <2> QED BY <2>1, <2>2
<1> QED BY <1>2, <1>3

LEMMA DeliverOrder ==
  ASSUME TypeInv, OrderInv, NEW p \in Posters, job[p].pc \in AtBus, job[p].todo # <<>>,
         Head(job[p].todo) \in Queues,
         job' = [job EXCEPT ![p] = Advanced(p, TRUE)],
         Delivers(Head(job[p].todo), Message(p)),
         UNCHANGED <<subs, subsCnt, subRes, posted, hold>>
  PROVE  OrderInv'
<1> PICK q \in Queues : q = Head(job[p].todo)
  OBVIOUS
<1> PICK m : m = Message(p)
  OBVIOUS
<1>1. BusTypeOK /\ job[p] \in Jobs /\ job[p] # NoJob
  BY BusyJob DEF TypeInv, AtBus
<1>2. m \in Messages /\ m.from = p /\ m.seq = posted[p] /\ posted[p] \in Nat
  BY <1>1, MessageType DEF Message, BusTypeOK
<1>3. /\ q \in Queues
      /\ hold[q] # NoMsg /\ hold[q].from = p => hold[q].seq < posted[p]
      /\ \A k \in 1 .. Len(queue[q]) : queue[q][k].from = p => queue[q][k].seq < posted[p]
  BY <1>1, OlderAhead
<1>4. /\ \A r \in Posters : RoundOnce(r)'
      /\ \A r \in Queues : \A x : x.from \in Posters /\ NotAhead(r, x) => NotAhead(r, x)'
      /\ NotAhead(q, m)'
  <2>1. q = Head(job[p].todo) /\ m.from = p /\ m.seq = posted[p] /\ q \in Queues
    BY <1>2, <1>3
  <2>2. \A r \in Queues : \A x :
          r = Head(job[p].todo) /\ x.from = p /\ x.seq = posted[p] => NotAhead(r, x)'
    BY AdvanceKeeps
  <2> QED BY <2>1, <2>2, AdvanceKeeps
<1>5. \A r \in Queues : r # q => queue'[r] = queue[r]
  BY <1>1, <1>3 DEF Delivers, Replaces, Enqueue, BusTypeOK
<1>6. ComesLast(q, m)
  <2>1. CASE Enqueue(q, m)
    BY <2>1, <1>1, <1>2, <1>3, AtTheEnd DEF ComesLast
  <2>2. CASE Replaces(q, m)
    <3>1. queue'[q] = <<m>>
      BY <2>2, <1>1, <1>3 DEF Replaces, BusTypeOK
    <3>2. Len(queue'[q]) = 1 /\ queue'[q][1] = m
      BY <3>1
    <3> QED BY <3>2 DEF ComesLast
  <2> QED BY <2>1, <2>2 DEF Delivers
<1>7. Len(queue[q]) \in Nat
  BY <1>1, <1>3, MessageFacts
<1>8. ASSUME NEW k \in 1 .. Len(queue'[q])
      PROVE  \/ (k \in 1 .. Len(queue[q]) /\ queue'[q][k] = queue[q][k])
             \/ k = Len(queue'[q]) /\ queue'[q][k] = m
  BY <1>6, <1>7, LastOrBefore
<1>9. \A r \in Queues : QueueOrdered(r)' /\ HeldFirst(r)'
  <2>1. UNCHANGED hold
    OBVIOUS
  <2> QED BY <1>2, <1>3, <1>5, <1>6, <1>7, <2>1, LatestLast
<1>10. ASSUME NEW r \in Queues PROVE Passed(r)'
  <2>1. ASSUME hold[r] # NoMsg PROVE NotAhead(r, hold[r])'
    <3> PICK h : h = hold[r]
      OBVIOUS
    <3>1. h.from \in Posters /\ NotAhead(r, h)
      BY <2>1, <1>1, MessageFacts DEF OrderInv, Passed
    <3>2. NotAhead(r, h)' /\ h = hold'[r]
      BY <3>1, <1>4
    <3> QED BY <3>2 DEF NotAhead
  <2>2. ASSUME NEW k \in 1 .. Len(queue'[r]) PROVE NotAhead(r, queue[r][k])'
    <3> PICK x : x = queue'[r][k]
      OBVIOUS
    <3>1. \A i \in 1 .. Len(queue[r]) : queue[r][i].from \in Posters /\ NotAhead(r, queue[r][i])
      BY <1>1, MessageFacts DEF OrderInv, Passed
    <3>2. (x.from \in Posters /\ NotAhead(r, x)) \/ (r = q /\ x = m)
      <4>1. CASE r # q
        <5>1. queue'[r] = queue[r]
          BY <1>5, <4>1
        <5>2. k \in 1 .. Len(queue[r]) /\ x = queue[r][k]
          BY <5>1
        <5> QED BY <5>2, <3>1
      <4>2. CASE r = q
        <5>1. k \in 1 .. Len(queue'[q]) /\ x = queue'[q][k]
          BY <4>2
        <5>2. (k \in 1 .. Len(queue[q]) /\ x = queue[q][k]) \/ x = m
          BY <5>1, <1>8
        <5> QED BY <5>2, <4>2, <3>1
      <4> QED BY <4>1, <4>2
    <3>3. NotAhead(r, x)'
      BY <3>2, <1>4
    <3> QED BY <3>3 DEF NotAhead
  <2>3. UNCHANGED hold
    OBVIOUS
  <2> QED BY <2>1, <2>2, <2>3 DEF Passed
<1>11. SubsOnce' /\ SubsKnown'
  BY DEF OrderInv, SubsOnce, SubsKnown
<1> QED BY <1>4, <1>9, <1>10, <1>11 DEF OrderInv

(* A reader takes the head of its queue.                                   *)
LEMMA ReceiveOrder ==
  ASSUME TypeInv, OrderInv, NEW q \in Queues, Receive(q)
  PROVE  OrderInv'
<1>1. BusTypeOK /\ queue[q] \in Seq(Messages) /\ queue[q] # <<>>
  BY DEF Receive, TypeInv, BusTypeOK
<1>2. /\ hold'[q] = queue[q][1] /\ 1 \in 1 .. Len(queue[q])
      /\ \A k \in 1 .. Len(queue'[q]) : k \in Int /\ k + 1 \in 1 .. Len(queue[q]) /\ queue'[q][k] = queue[q][k + 1]
      /\ \A r \in Queues : r # q => queue'[r] = queue[r] /\ hold'[r] = hold[r]
  <2>1. hold' = [hold EXCEPT ![q] = Head(queue[q])] /\ queue' = [queue EXCEPT ![q] = Tail(@)]
    BY DEF Receive
  <2>2. hold'[q] = Head(queue[q]) /\ queue'[q] = Tail(queue[q])
    BY <2>1, <1>1 DEF BusTypeOK
  <2>3. \A r \in Queues : r # q => queue'[r] = queue[r] /\ hold'[r] = hold[r]
    BY <2>1, <1>1 DEF BusTypeOK
  <2>4. Head(queue[q]) = queue[q][1] /\ 1 \in 1 .. Len(queue[q])
    BY <1>1, RestOf
  <2>5. \A k \in 1 .. Len(Tail(queue[q])) : k \in Int /\ k + 1 \in 1 .. Len(queue[q])
                                            /\ Tail(queue[q])[k] = queue[q][k + 1]
    BY <1>1, RestOf
  <2> QED BY <2>2, <2>3, <2>4, <2>5
<1>3. UNCHANGED <<subs, subsCnt, subRes, job, posted>>
  BY DEF Receive
<1>4. ASSUME NEW r \in Queues, NEW m, NotAhead(r, m) PROVE NotAhead(r, m)'
  BY <1>3, <1>4 DEF NotAhead
<1>5. ASSUME NEW r \in Queues PROVE QueueOrdered(r)' /\ HeldFirst(r)' /\ Passed(r)'
  <2>1. CASE r # q
    BY <1>2, <1>4, <2>1 DEF OrderInv, QueueOrdered, HeldFirst, Passed
  <2>2. CASE r = q
    <3>1. QueueOrdered(q) /\ Passed(q)
      BY DEF OrderInv
    <3>2. QueueOrdered(q)'
      <4> SUFFICES ASSUME NEW k \in 1 .. Len(queue'[q]), NEW l \in 1 .. Len(queue'[q]), k < l,
                          queue'[q][k].from = queue'[q][l].from
                   PROVE  queue'[q][k].seq < queue'[q][l].seq
        BY DEF QueueOrdered
      <4>1. /\ k + 1 \in 1 .. Len(queue[q]) /\ queue'[q][k] = queue[q][k + 1]
            /\ l + 1 \in 1 .. Len(queue[q]) /\ queue'[q][l] = queue[q][l + 1] /\ k + 1 < l + 1
        BY <1>2
      <4> QED BY <4>1, <3>1 DEF QueueOrdered
    <3>3. HeldFirst(q)'
      <4> SUFFICES ASSUME NEW k \in 1 .. Len(queue'[q]), queue'[q][k].from = hold'[q].from
                   PROVE  hold'[q].seq < queue'[q][k].seq
        BY DEF HeldFirst
      <4>1. k + 1 \in 1 .. Len(queue[q]) /\ 1 < k + 1 /\ queue'[q][k] = queue[q][k + 1]
        BY <1>2
      <4> QED BY <4>1, <3>1, <1>2 DEF QueueOrdered
    <3>4. Passed(q)'
      BY <3>1, <1>2, <1>4 DEF Passed
    <3> QED BY <2>2, <3>2, <3>3, <3>4
  <2> QED BY <2>1, <2>2
<1> QED BY <1>3, <1>5 DEF OrderInv, SubsOnce, SubsKnown, RoundOnce

(* A reader is done with its message, or goes on with it.                  *)
LEMMA HandleOrder ==
  ASSUME TypeInv, OrderInv, NEW q \in Queues, Discard(q) \/ OpenView(q) \/ CloseView(q)
  PROVE  OrderInv'
<1>1. BusTypeOK /\ \A r \in Queues : hold'[r] = hold[r] \/ hold'[r] = NoMsg
  BY DEF Discard, OpenView, CloseView, TypeInv, BusTypeOK
<1>2. UNCHANGED <<subs, subsCnt, subRes, queue, job, posted>>
  BY DEF Discard, OpenView, CloseView
<1>3. ASSUME NEW r \in Queues PROVE QueueOrdered(r)' /\ HeldFirst(r)' /\ Passed(r)'
  BY <1>1, <1>2 DEF OrderInv, QueueOrdered, HeldFirst, Passed, NotAhead
<1> QED BY <1>2, <1>3 DEF OrderInv, SubsOnce, SubsKnown, RoundOnce

LEMMA SubscriberOrder ==
  ASSUME TypeInv, OrderInv, NEW q \in Queues, Subscribe(q) \/ Unsubscribe(q)
  PROVE  OrderInv'
<1>1. BusTypeOK /\ subsCnt \in Nat /\ SubsOnce /\ SubsKnown /\ MaxSubs \in Nat
  BY BusAssumption DEF TypeInv, BusTypeOK, OrderInv
<1>2. UNCHANGED <<queue, job, posted, hold>>
  BY DEF Subscribe, Unsubscribe
<1>3. SubsOnce' /\ SubsKnown'
  <2>1. CASE Subscribe(q) /\ EntryLeft
    <3>1. /\ subs' = [subs EXCEPT ![subsCnt] = q] /\ subsCnt' = subsCnt + 1
          /\ subRes' = [subRes EXCEPT ![q] = "ok"] /\ subRes[q] = "no"
      BY <2>1 DEF Subscribe
    <3>2. subsCnt \in Entries /\ \A n \in 0 .. subsCnt - 1 : n \in Entries /\ n # subsCnt
      BY <2>1, <1>1 DEF EntryLeft, Entries
    <3>3. \A n \in 0 .. subsCnt - 1 : subs'[n] = subs[n] /\ subs[n] # q
      <4> SUFFICES ASSUME NEW n \in 0 .. subsCnt - 1 PROVE subs'[n] = subs[n] /\ subs[n] # q
        OBVIOUS
      <4>1. subs[n] # NoQueue => subRes[subs[n]] = "ok"
        BY <1>1 DEF SubsKnown
      <4>2. subs[n] # q
        BY <4>1, <3>1, BusAssumption
      <4> QED BY <4>2, <3>1, <3>2, <1>1 DEF BusTypeOK
    <3>4. subs'[subsCnt] = q /\ subRes'[q] = "ok"
      BY <3>1, <3>2, <1>1 DEF BusTypeOK
    <3>5. \A n \in 0 .. subsCnt' - 1 : n = subsCnt \/ n \in 0 .. subsCnt - 1
      BY <3>1, <1>1
    <3>6. SubsOnce'
      BY <3>3, <3>4, <3>5, <1>1 DEF SubsOnce
    <3>7. SubsKnown'
      <4> SUFFICES ASSUME NEW n \in 0 .. subsCnt' - 1, subs'[n] # NoQueue
                   PROVE  subRes'[subs'[n]] = "ok"
        BY DEF SubsKnown
      <4>1. CASE n = subsCnt
        BY <4>1, <3>4
      <4>2. CASE n \in 0 .. subsCnt - 1
        <5>1. subs'[n] = subs[n] /\ subs[n] # q /\ subs[n] \in Queues /\ subRes[subs[n]] = "ok"
          BY <4>2, <3>2, <3>3, <1>1 DEF SubsKnown, BusTypeOK
        <5> QED BY <5>1, <3>1, <1>1 DEF BusTypeOK
      <4> QED BY <4>1, <4>2, <3>5
    <3> QED BY <3>6, <3>7
  <2>2. CASE Subscribe(q) /\ ~EntryLeft
    <3>1. subs' = subs /\ subsCnt' = subsCnt /\ subRes' = [subRes EXCEPT ![q] = "failed"] /\ subRes[q] = "no"
      BY <2>2 DEF Subscribe
    <3>2. SubsKnown'
      <4> SUFFICES ASSUME NEW n \in 0 .. subsCnt - 1, subs[n] # NoQueue
                   PROVE  subRes'[subs[n]] = "ok"
        BY <3>1 DEF SubsKnown
      <4>1. subRes[subs[n]] = "ok" /\ subs[n] # q
        BY <3>1, <1>1 DEF SubsKnown
      <4>2. n \in Entries
        BY <1>1 DEF BusTypeOK, Entries
      <4> QED BY <4>1, <4>2, <3>1, <1>1 DEF BusTypeOK
    <3> QED BY <3>1, <3>2, <1>1 DEF SubsOnce
  <2>3. CASE Unsubscribe(q)
    <3>1. PICK n \in Entries : subs' = [subs EXCEPT ![n] = NoQueue] /\ subsCnt' = subsCnt /\ subRes' = subRes
      BY <2>3 DEF Unsubscribe
    <3>2. \A i \in 0 .. subsCnt - 1 : i \in Entries /\ (subs'[i] = subs[i] \/ subs'[i] = NoQueue)
      BY <3>1, <1>1 DEF BusTypeOK, Entries
    <3> QED BY <3>1, <3>2, <1>1 DEF SubsOnce, SubsKnown
  <2> QED BY <2>1, <2>2, <2>3
<1> QED BY <1>2, <1>3 DEF OrderInv, RoundOnce, QueueOrdered, HeldFirst, Passed, NotAhead

(* The poster's steps: a post begins, moves on, or delivers.               *)
LEMMA PosterOrder ==
  ASSUME TypeInv, OrderInv, NEW p \in Posters, PosterStep(p)
  PROVE  OrderInv'
<1>1. BusTypeOK /\ Shape(job[p]) /\ RoundOnce(p)
  BY DEF TypeInv, OrderInv
<1>2. ASSUME job[p].pc # "idle"
      PROVE  /\ job[p] \in Jobs /\ job[p] # NoJob /\ job[p].todo \in Seq(Queues \cup {NoQueue})
             /\ \A k, l \in 1 .. Len(job[p].todo) :
                  job[p].todo[k] = job[p].todo[l] => k = l \/ job[p].todo[k] = NoQueue
  BY <1>1, <1>2, BusyJob DEF RoundOnce, Jobs
<1>3. ASSUME NEW e \in Posts[p], Begin(p, e) PROVE OrderInv'
  <2> DEFINE j == [pc |-> "loop", ev |-> e, h |-> [idx |-> NoSlot, gen |-> 0],
                   pay |-> "00", todo |-> Snapshot, ok |-> 0, bad |-> 0]
  <2>1. j.todo = Snapshot /\ job' = [job EXCEPT ![p] = j]
    BY <1>3 DEF Begin
  <2>2. \A k, l \in 1 .. Len(j.todo) : j.todo[k] = j.todo[l] => k = l \/ j.todo[k] = NoQueue
    BY <1>1, <2>1, SnapshotOnce DEF OrderInv
  <2> HIDE DEF j
  <2> QED BY <1>3, <2>1, <2>2, StartOrder DEF Begin
<1>4. ASSUME NEW e \in Posts[p], Alloc(p, e) PROVE OrderInv'
  <2>1. /\ posted' = [posted EXCEPT ![p] = @ + 1]
        /\ UNCHANGED <<subs, subsCnt, subRes, queue, hold>> /\ job[p] = NoJob
    BY <1>1, <1>4, IdleJob DEF Alloc
  <2>2. CASE freeTop = 0
    <3>1. job' = [job EXCEPT ![p] = NoJob]
      BY <1>1, <1>4, <2>1, <2>2 DEF Alloc, BusTypeOK
    <3> QED BY <2>1, <3>1, StartOrder
  <2>3. CASE freeTop # 0
    <3> DEFINE j == [pc |-> "owned", ev |-> e, h |-> NextHandle,
                     pay |-> "00", todo |-> <<>>, ok |-> 0, bad |-> 0]
    <3>1. job' = [job EXCEPT ![p] = j]
      BY <1>4, <2>3 DEF Alloc
    <3>2. \A k, l \in 1 .. Len(j.todo) : j.todo[k] = j.todo[l] => k = l \/ j.todo[k] = NoQueue
      OBVIOUS
    <3> HIDE DEF j
    <3> QED BY <2>1, <3>1, <3>2, StartOrder
  <2> QED BY <2>2, <2>3
<1>5. ASSUME NEW l, job[p].pc # "idle", SetPc(p, l), l \in AtBus \/ job[p].pc \in BeforeBus,
             UNCHANGED <<subs, subsCnt, subRes, queue, hold, posted>>
      PROVE  OrderInv'
  <2>1. job' = [job EXCEPT ![p] = MovedTo(p, l)] /\ MovedTo(p, l).pc = l /\ MovedTo(p, l).todo = job[p].todo
    BY <1>1, <1>2, <1>5, SetPcIs
  <2>2. job[p].pc \in AtBus => l \in AtBus
    BY <1>5 DEF AtBus, BeforeBus
  <2> QED BY <1>2, <1>5, <2>1, <2>2, SilentOrder
<1>6. ASSUME NEW d \in BOOLEAN, job[p].pc \in AtBus, job[p].todo # <<>>, Advance(p, d),
             UNCHANGED <<subs, subsCnt, subRes, queue, hold, posted>>
      PROVE  OrderInv'
  <2>1. job[p] \in Jobs /\ job[p] # NoJob /\ job' = [job EXCEPT ![p] = Advanced(p, d)]
    BY <1>1, <1>2, <1>6, AdvanceIs DEF AtBus
  <2> DEFINE t == Tail(job[p].todo)
  <2>2. \A k \in 1 .. Len(t) : k \in Int /\ k + 1 \in 1 .. Len(job[p].todo) /\ t[k] = job[p].todo[k + 1]
    BY <1>2, <1>6, RestOf DEF AtBus
  <2>3. Advanced(p, d).pc = "loop" /\ Advanced(p, d).todo = t
    BY DEF Advanced
  <2> HIDE DEF t
  <2>4. \A k, l \in 1 .. Len(t) : t[k] = t[l] => k = l \/ t[k] = NoQueue
    <3> SUFFICES ASSUME NEW k \in 1 .. Len(t), NEW l \in 1 .. Len(t), t[k] = t[l], t[k] # NoQueue
                 PROVE  k = l
      OBVIOUS
    <3>1. k + 1 = l + 1
      BY <1>2, <1>6, <2>2 DEF AtBus
    <3> QED BY <3>1, <2>2
  <2>5. \A k \in 1 .. Len(t) : \E l \in 1 .. Len(job[p].todo) : t[k] = job[p].todo[l]
    BY <2>2
  <2> QED BY <1>6, <2>1, <2>3, <2>4, <2>5, SilentOrder DEF AtBus
<1>7. ASSUME job[p].pc \in AtBus, job[p].todo # <<>>, Head(job[p].todo) \in Queues,
             Advance(p, TRUE), Delivers(Head(job[p].todo), Message(p)),
             UNCHANGED <<subs, subsCnt, subRes, hold, posted>>
      PROVE  OrderInv'
  <2>1. job' = [job EXCEPT ![p] = Advanced(p, TRUE)]
    BY <1>1, <1>2, <1>7, AdvanceIs DEF AtBus
  <2> QED BY <1>7, <2>1, DeliverOrder
<1>8. CASE Map(p) \/ Publish(p) \/ Retain(p) \/ ReleaseOwn(p)
  <2>1. PICK l \in {"mapped", "ready", "retained", "stats"} :
          /\ SetPc(p, l) /\ job[p].pc # "idle" /\ (l \in AtBus \/ job[p].pc \in BeforeBus)
          /\ UNCHANGED <<subs, subsCnt, subRes, queue, hold, posted>>
    BY <1>8 DEF Map, Publish, Retain, AtQueue, ReleaseOwn, AtBus, BeforeBus
  <2> QED BY <2>1, <1>5
<1>9. CASE Fill(p)
  <2> DEFINE j == [job[p] EXCEPT !.pc = "filled", !.pay = p]
  <2>1. job[p].pc = "mapped" /\ job' = [job EXCEPT ![p] = j]
    BY <1>9 DEF Fill
  <2>2. j.todo = job[p].todo
    BY <1>2, <2>1 DEF Jobs
  <2>3. UNCHANGED <<subs, subsCnt, subRes, queue, hold, posted>>
    BY <1>9 DEF Fill
  <2> HIDE DEF j
  <2> QED BY <1>2, <2>1, <2>2, <2>3, SilentOrder DEF AtBus
<1>10. CASE PostLease(p)
  <2>1. job[p].pc = "ready" /\ UNCHANGED <<subs, subsCnt, subRes, queue, hold, posted>>
    BY <1>10 DEF PostLease
  <2>2. CASE UNCHANGED job
    <3>1. job' = [job EXCEPT ![p] = job[p]]
      BY <1>1, <2>2 DEF BusTypeOK
    <3> QED BY <1>2, <2>1, <3>1, SilentOrder DEF AtBus
  <2>3. CASE job' = [job EXCEPT ![p].pc = "loop", ![p].todo = Snapshot]
    <3> DEFINE j == [job[p] EXCEPT !.pc = "loop", !.todo = Snapshot]
    <3>1. job' = [job EXCEPT ![p] = j]
      BY <2>3
    <3>2. j.todo = Snapshot
      BY <1>2, <2>1 DEF Jobs
    <3>3. \A k, l \in 1 .. Len(Snapshot) : Snapshot[k] = Snapshot[l] => k = l \/ Snapshot[k] = NoQueue
      BY <1>1, SnapshotOnce DEF OrderInv
    <3> HIDE DEF j
    <3> QED BY <1>2, <2>1, <3>1, <3>2, <3>3, SilentOrder DEF AtBus
  <2> QED BY <1>10, <2>2, <2>3 DEF PostLease
<1>11. CASE SkipCleared(p)
  <2> DEFINE j == [job[p] EXCEPT !.todo = Tail(job[p].todo)]
             t == Tail(job[p].todo)
  <2>1. /\ job[p].pc = "loop" /\ job[p].todo # <<>> /\ job' = [job EXCEPT ![p] = j]
        /\ UNCHANGED <<subs, subsCnt, subRes, queue, hold, posted>>
    BY <1>11 DEF SkipCleared
  <2>2. j.todo = t /\ j.pc = "loop"
    BY <1>2, <2>1 DEF Jobs
  <2>3. \A k \in 1 .. Len(t) : k \in Int /\ k + 1 \in 1 .. Len(job[p].todo) /\ t[k] = job[p].todo[k + 1]
    BY <1>2, <2>1, RestOf
  <2> HIDE DEF j, t
  <2>4. \A k, l \in 1 .. Len(t) : t[k] = t[l] => k = l \/ t[k] = NoQueue
    <3> SUFFICES ASSUME NEW k \in 1 .. Len(t), NEW l \in 1 .. Len(t), t[k] = t[l], t[k] # NoQueue
                 PROVE  k = l
      OBVIOUS
    <3>1. k + 1 = l + 1
      BY <1>2, <2>1, <2>3
    <3> QED BY <3>1, <2>3
  <2>5. \A k \in 1 .. Len(t) : \E l \in 1 .. Len(job[p].todo) : t[k] = job[p].todo[l]
    BY <2>3
  <2> QED BY <1>2, <2>1, <2>2, <2>4, <2>5, SilentOrder DEF AtBus
<1>12. CASE Account(p)
  <2>1. /\ job[p].pc # "idle" /\ job' = [job EXCEPT ![p] = NoJob]
        /\ UNCHANGED <<subs, subsCnt, subRes, queue, hold, posted>>
    BY <1>12 DEF Account
  <2> QED BY <1>2, <2>1, SilentOrder
<1>13. AtQueue(p) => job[p].pc \in AtBus /\ job[p].todo # <<>> /\ Head(job[p].todo) \in Queues
  <2>1. AtQueue(p) => Head(job[p].todo) \in Queues \cup {NoQueue}
    BY <1>2, HeadTailProperties DEF AtQueue
  <2> QED BY <2>1 DEF AtQueue, AtBus
<1>14. CASE Overwrite(p)
  <2>1. Delivers(Head(job[p].todo), Message(p)) /\ Advance(p, TRUE) /\ AtQueue(p)
    BY <1>14 DEF Overwrite, Delivers, Replaces
  <2> QED BY <1>7, <1>13, <1>14, <2>1 DEF Overwrite
<1>15. CASE Send(p)
  <2>1. CASE HasRoom(Head(job[p].todo))
    <3>1. HasRoom(Head(job[p].todo)) = TRUE
      BY <2>1 DEF HasRoom
    <3>2. Delivers(Head(job[p].todo), Message(p)) /\ Advance(p, TRUE) /\ AtQueue(p)
      BY <1>15, <2>1, <3>1 DEF Send, Delivers
    <3> QED BY <1>7, <1>13, <1>15, <3>2 DEF Send
  <2>2. CASE ~HasRoom(Head(job[p].todo))
    <3>1. HasRoom(Head(job[p].todo)) = FALSE
      BY <2>2 DEF HasRoom
    <3>2. UNCHANGED queue /\ Advance(p, FALSE) /\ AtQueue(p)
      BY <1>15, <2>2, <3>1 DEF Send
    <3> QED BY <1>6, <1>13, <1>15, <3>2 DEF Send
  <2> QED BY <2>1, <2>2
<1>16. CASE SendLease(p)
  <2>1. job[p].pc = "retained" /\ job[p].todo # <<>> /\ Head(job[p].todo) \in Queues
    BY <1>1, <1>2, <1>16 DEF SendLease, Shape
  <2>2. CASE HasRoom(Head(job[p].todo))
    <3>1. Delivers(Head(job[p].todo), Message(p)) /\ Advance(p, TRUE)
      BY <1>16, <2>2 DEF SendLease, Delivers
    <3> QED BY <1>7, <1>16, <2>1, <3>1 DEF SendLease, AtBus
  <2>3. CASE ~HasRoom(Head(job[p].todo))
    <3>1. SetPc(p, "undo") /\ UNCHANGED queue
      BY <1>16, <2>3 DEF SendLease
    <3> QED BY <1>5, <1>16, <2>1, <3>1 DEF SendLease, AtBus
  <2> QED BY <2>2, <2>3
<1>17. CASE UndoRetain(p)
  <2>1. job[p].pc = "undo" /\ job[p].todo # <<>>
    BY <1>1, <1>2, <1>17 DEF UndoRetain, Shape
  <2> QED BY <1>6, <1>17, <2>1 DEF UndoRetain, AtBus
<1> QED
  BY <1>3, <1>4, <1>8, <1>9, <1>10, <1>11, <1>12, <1>14, <1>15, <1>16, <1>17
     DEF PosterStep, Proceed, Post, PostFromIsr

LEMMA OrderInvNext ==
  ASSUME TypeInv, OrderInv, [BusNext]_vars
  PROVE  OrderInv'
<1>1. ASSUME NEW p \in Posters, PosterStep(p) PROVE OrderInv'
  BY <1>1, PosterOrder
<1>2. ASSUME NEW q \in Queues, ReaderStep(q) \/ Subscribe(q) \/ Unsubscribe(q) PROVE OrderInv'
  BY <1>2, ReceiveOrder, HandleOrder, SubscriberOrder DEF ReaderStep
<1>3. CASE EvResetStats \/ UNCHANGED vars
  <2>1. UNCHANGED <<subs, subsCnt, subRes, queue, job, posted, hold>>
    BY <1>3 DEF EvResetStats, vars, busVars
  <2> QED BY <2>1 DEF OrderInv, SubsOnce, SubsKnown, RoundOnce, QueueOrdered, HeldFirst, Passed, NotAhead
<1> QED BY <1>1, <1>2, <1>3 DEF BusNext, Finished

LEMMA OrderInvInit ==
  ASSUME BusInit
  PROVE  OrderInv
<1>1. /\ subsCnt = 0 /\ job = [p \in Posters |-> NoJob]
      /\ queue = [q \in Queues |-> <<>>] /\ hold = [q \in Queues |-> NoMsg]
  BY DEF BusInit
<1>2. SubsOnce /\ SubsKnown /\ \A p \in Posters : RoundOnce(p)
  BY <1>1 DEF SubsOnce, SubsKnown, RoundOnce
<1>3. ASSUME NEW q \in Queues PROVE QueueOrdered(q) /\ HeldFirst(q) /\ Passed(q)
  BY <1>1 DEF QueueOrdered, HeldFirst, Passed
<1> QED BY <1>2, <1>3 DEF OrderInv

(* The bus delivers the posts of one poster to every queue in the order    *)
(* they were made: a post works on a copy of the subscribers in which no   *)
(* queue is twice (s_subs), and does not begin before the one before it    *)
(* has left every queue behind (core_ev.c:275-322).                        *)
THEOREM PostOrder == BusSpec => []InPostOrder
<1>1. BusInit => TypeInv /\ OrderInv
  BY TypeInvInit, OrderInvInit
<1>2. TypeInv /\ OrderInv /\ [BusNext]_vars => (TypeInv /\ OrderInv)'
  BY TypeInvNext, OrderInvNext
<1>3. TypeInv /\ OrderInv => InPostOrder
  <2> SUFFICES ASSUME TypeInv, OrderInv, NEW q \in Queues
               PROVE  LET all == IF hold[q] = NoMsg THEN queue[q] ELSE <<hold[q]>> \o queue[q] IN
                        \A k, l \in 1 .. Len(all) :
                          k < l /\ all[k].from = all[l].from => all[k].seq < all[l].seq
    BY DEF InPostOrder
  <2>1. QueueOrdered(q) /\ HeldFirst(q)
    BY DEF OrderInv
  <2>2. CASE hold[q] = NoMsg
    BY <2>1, <2>2 DEF QueueOrdered
  <2>3. CASE hold[q] # NoMsg
    <3> DEFINE all == <<hold[q]>> \o queue[q]
    <3>1. queue[q] \in Seq(Messages) /\ hold[q] \in Messages
      BY <2>3, MessageFacts DEF TypeInv
    <3>2. /\ <<hold[q]>> \in Seq(Messages) /\ Len(<<hold[q]>>) = 1 /\ <<hold[q]>>[1] = hold[q]
          /\ Len(queue[q]) \in Nat
      BY <3>1, LenProperties
    <3>3. /\ Len(all) = 1 + Len(queue[q])
          /\ \A k \in 1 .. 1 + Len(queue[q]) : all[k] = IF k <= 1 THEN <<hold[q]>>[k] ELSE queue[q][k - 1]
      BY <3>1, <3>2, ConcatProperties
    <3> HIDE DEF all
    <3> SUFFICES ASSUME NEW k \in 1 .. Len(all), NEW l \in 1 .. Len(all), k < l,
                        all[k].from = all[l].from
                 PROVE  all[k].seq < all[l].seq
      BY <2>3 DEF all
    <3>4. l - 1 \in 1 .. Len(queue[q]) /\ all[l] = queue[q][l - 1]
      BY <3>2, <3>3
    <3>5. CASE k = 1
      <4>1. all[k] = hold[q] BY <3>2, <3>3, <3>5
      <4> QED BY <3>4, <4>1, <2>1, <2>3 DEF HeldFirst
    <3>6. CASE k # 1
      <4>1. k - 1 \in 1 .. Len(queue[q]) /\ all[k] = queue[q][k - 1] /\ k - 1 < l - 1
        BY <3>2, <3>3, <3>6
      <4> QED BY <3>4, <4>1, <2>1 DEF QueueOrdered
    <3> QED BY <3>5, <3>6
  <2> QED BY <2>2, <2>3
<1> QED BY <1>1, <1>2, <1>3, PTL DEF BusSpec

-----------------------------------------------------------------------------
(* Counting.  A message enters a queue, leaves it, or replaces another.    *)
LEMMA QueuedMember ==
  ASSUME NEW e, NEW x
  PROVE  x \in QueuedSet(e) <=>
           \E q \in Queues : \E m \in InQueue(q) : m.ev = e /\ x = <<q, m>>
<1> QED BY DEF QueuedSet

LEMMA OneMore ==
  ASSUME BusTypeOK, NEW e, NEW q \in Queues, NEW m, m \notin InQueue(q),
         \A r \in Queues : r # q => InQueue(r)' = InQueue(r),
         InQueue(q)' = InQueue(q) \cup {m}
  PROVE  Queued(e)' = Queued(e) + (IF m.ev = e THEN 1 ELSE 0)
<1>1. IsFiniteSet(QueuedSet(e)) /\ Queued(e) \in Nat
  BY FiniteCounts
<1>2. \A x : x \in QueuedSet(e)' <=>
               \E r \in Queues : \E n \in InQueue(r)' : n.ev = e /\ x = <<r, n>>
  BY DEF QueuedSet
<1>3. CASE m.ev = e
  <2>1. QueuedSet(e)' = QueuedSet(e) \cup {<<q, m>>}
    BY <1>2, <1>3, QueuedMember
  <2>2. <<q, m>> \notin QueuedSet(e)
    BY QueuedMember
  <2> QED BY <1>1, <1>3, <2>1, <2>2, FS_AddElement DEF Queued
<1>4. CASE m.ev # e
  <2>1. ASSUME NEW x PROVE x \in QueuedSet(e)' <=> x \in QueuedSet(e)
    <3>1. \A r \in Queues : \A n : n.ev = e => (n \in InQueue(r)' <=> n \in InQueue(r))
      BY <1>4
    <3> QED BY <3>1, <1>2, QueuedMember
  <2>2. QueuedSet(e)' = QueuedSet(e)
    BY <2>1
  <2> QED BY <1>1, <1>4, <2>2 DEF Queued
<1> QED BY <1>3, <1>4

LEMMA OneLess ==
  ASSUME BusTypeOK, NEW e, NEW q \in Queues, NEW m \in InQueue(q),
         \A r \in Queues : r # q => InQueue(r)' = InQueue(r),
         InQueue(q)' = InQueue(q) \ {m}
  PROVE  Queued(e)' = Queued(e) - (IF m.ev = e THEN 1 ELSE 0)
<1>1. IsFiniteSet(QueuedSet(e)) /\ Queued(e) \in Nat
  BY FiniteCounts
<1>2. \A x : x \in QueuedSet(e)' <=>
               \E r \in Queues : \E n \in InQueue(r)' : n.ev = e /\ x = <<r, n>>
  BY DEF QueuedSet
<1>3. CASE m.ev = e
  <2>1. QueuedSet(e)' = QueuedSet(e) \ {<<q, m>>}
    BY <1>2, <1>3, QueuedMember
  <2>2. <<q, m>> \in QueuedSet(e)
    BY <1>3, QueuedMember
  <2>3. Cardinality(QueuedSet(e) \ {<<q, m>>}) = Cardinality(QueuedSet(e)) - 1
    BY <1>1, <2>2, FS_RemoveElement
  <2> QED BY <1>3, <2>1, <2>3 DEF Queued
<1>4. CASE m.ev # e
  <2>1. ASSUME NEW x PROVE x \in QueuedSet(e)' <=> x \in QueuedSet(e)
    <3>1. \A r \in Queues : \A n : n.ev = e => (n \in InQueue(r)' <=> n \in InQueue(r))
      BY <1>4
    <3> QED BY <3>1, <1>2, QueuedMember
  <2>2. QueuedSet(e)' = QueuedSet(e)
    BY <2>1
  <2> QED BY <1>1, <1>4, <2>2 DEF Queued
<1> QED BY <1>3, <1>4

LEMMA OneForAnother ==
  ASSUME BusTypeOK, NEW e, NEW q \in Queues, NEW m, NEW o, InQueue(q) = {o},
         \A r \in Queues : r # q => InQueue(r)' = InQueue(r),
         InQueue(q)' = {m}
  PROVE  Queued(e)' = Queued(e) - (IF o.ev = e THEN 1 ELSE 0) + (IF m.ev = e THEN 1 ELSE 0)
<1>1. IsFiniteSet(QueuedSet(e)) /\ Queued(e) \in Nat
  BY FiniteCounts
<1>2. \A x : x \in QueuedSet(e)' <=>
               \E r \in Queues : \E n \in InQueue(r)' : n.ev = e /\ x = <<r, n>>
  BY DEF QueuedSet
<1> DEFINE A == QueuedSet(e) \ {<<q, o>>}
<1>3. /\ IsFiniteSet(A)
      /\ Cardinality(A) = Queued(e) - (IF o.ev = e THEN 1 ELSE 0)
      /\ \A x : x \in A <=>
           \E r \in Queues : \E n \in InQueue(r) : r # q /\ n.ev = e /\ x = <<r, n>>
  <2>1. <<q, o>> \in QueuedSet(e) <=> o.ev = e
    BY QueuedMember
  <2>2. \A x : x \in A <=>
           \E r \in Queues : \E n \in InQueue(r) : r # q /\ n.ev = e /\ x = <<r, n>>
    BY QueuedMember
  <2>3. CASE o.ev = e
    <3>1. IsFiniteSet(A) /\ Cardinality(A) = Cardinality(QueuedSet(e)) - 1
      BY <1>1, <2>1, <2>3, FS_RemoveElement
    <3> QED BY <2>2, <2>3, <3>1 DEF Queued
  <2>4. CASE o.ev # e
    <3>1. A = QueuedSet(e)
      BY <2>1, <2>4
    <3> QED BY <1>1, <2>2, <2>4, <3>1 DEF Queued
  <2> QED BY <2>3, <2>4
<1>4. Cardinality(A) \in Int
  BY <1>3, FS_CardinalityType
<1> HIDE DEF A
<1>5. CASE m.ev = e
  <2>1. QueuedSet(e)' = A \cup {<<q, m>>}
    BY <1>2, <1>3, <1>5
  <2>2. <<q, m>> \notin A
    BY <1>3
  <2>3. Queued(e)' = Cardinality(A) + 1
    <3>1. Cardinality(A \cup {<<q, m>>}) = Cardinality(A) + 1
      BY <1>3, <2>2, FS_AddElement
    <3> QED BY <2>1, <3>1 DEF Queued
  <2> QED BY <1>3, <1>5, <2>3
<1>6. CASE m.ev # e
  <2>1. QueuedSet(e)' = A
    <3>1. ASSUME NEW x PROVE x \in QueuedSet(e)' <=> x \in A
      <4>1. \A r \in Queues : \A n : n.ev = e => (n \in InQueue(r)' <=> r # q /\ n \in InQueue(r))
        BY <1>6
      <4> QED BY <4>1, <1>2, <1>3
    <3> QED BY <3>1
  <2>2. Queued(e)' = Cardinality(A)
    BY <2>1 DEF Queued
  <2> QED BY <1>1, <1>3, <1>6, <2>2
<1> QED BY <1>5, <1>6

(* A delivery is booked on the post under way, or all of a post's are      *)
(* accounted for.                                                          *)
LEMMA UnderwayMember ==
  ASSUME NEW e, NEW x
  PROVE  x \in UnderwaySet(e) <=>
           \E p \in Posters : job[p] # NoJob /\ job[p].ev = e /\ x \in {p} \X (1 .. job[p].ok)
<1> QED BY DEF UnderwaySet, DoneBy

LEMMA SameUnderway ==
  ASSUME BusTypeOK, NEW e, NEW p \in Posters, NEW j, job' = [job EXCEPT ![p] = j],
         \/ job[p] # NoJob /\ j # NoJob /\ j.ev = job[p].ev /\ j.ok = job[p].ok
         \/ job[p] = NoJob /\ (j = NoJob \/ j.ok = 0)
  PROVE  Underway(e)' = Underway(e)
<1>1. \A r \in Posters : job'[r] = IF r = p THEN j ELSE job[r]
  BY DEF BusTypeOK
<1>2. \A r \in Posters : DoneBy(r, e)' = DoneBy(r, e)
  <2> SUFFICES ASSUME NEW r \in Posters PROVE DoneBy(r, e)' = DoneBy(r, e)
    OBVIOUS
  <2>1. CASE r # p
    BY <1>1, <2>1 DEF DoneBy
  <2>2. CASE r = p /\ job[p] # NoJob
    BY <1>1, <2>2 DEF DoneBy
  <2>3. CASE r = p /\ job[p] = NoJob
    <3>1. DoneBy(r, e) = {}
      BY <2>3 DEF DoneBy
    <3>2. j = NoJob \/ 1 .. j.ok = {}
      BY <2>3
    <3>3. DoneBy(r, e)' = {}
      BY <1>1, <2>3, <3>2 DEF DoneBy
    <3> QED BY <3>1, <3>3
  <2> QED BY <2>1, <2>2, <2>3
<1>3. UnderwaySet(e)' = UnderwaySet(e)
  BY <1>2 DEF UnderwaySet
<1> QED BY <1>3 DEF Underway

LEMMA OneDelivered ==
  ASSUME BusTypeOK, NEW e, NEW p \in Posters, job[p] # NoJob,
         job' = [job EXCEPT ![p] = Advanced(p, TRUE)]
  PROVE  Underway(e)' = Underway(e) + (IF job[p].ev = e THEN 1 ELSE 0)
<1>1. \A r \in Posters : job'[r] = IF r = p THEN Advanced(p, TRUE) ELSE job[r]
  BY DEF BusTypeOK
<1>2. job[p] \in Jobs /\ job[p].ok \in Nat
  BY BusyJob DEF Jobs
<1> DEFINE j == Advanced(p, TRUE)
           n == job[p].ok
<1>3. j.ev = job[p].ev /\ j.ok = n + 1 /\ j \in [pc : {"loop"}, ev : {job[p].ev}, h : {job[p].h},
         pay : {job[p].pay}, todo : {Tail(job[p].todo)}, ok : {n + 1}, bad : {job[p].bad}]
  BY DEF Advanced
<1>4. j # NoJob
  <2>1. j.pc = "loop" /\ NoJob.pc = "idle"
    BY DEF Advanced, NoJob
  <2> HIDE DEF j
  <2> QED BY <2>1
<1> HIDE DEF j
<1>5. IsFiniteSet(UnderwaySet(e)) /\ Underway(e) \in Nat
  BY FiniteCounts
<1>6. 1 .. n + 1 = (1 .. n) \cup {n + 1} /\ n + 1 \notin 1 .. n
  BY <1>2
<1>7. \A r \in Posters : r # p => DoneBy(r, e)' = DoneBy(r, e)
  BY <1>1 DEF DoneBy
<1>8. CASE job[p].ev = e
  <2>1. DoneBy(p, e) = {p} \X (1 .. n) /\ DoneBy(p, e)' = {p} \X (1 .. n + 1)
    BY <1>1, <1>3, <1>4, <1>8 DEF DoneBy, j
  <2>2. DoneBy(p, e)' = DoneBy(p, e) \cup {<<p, n + 1>>}
    BY <2>1, <1>6
  <2>3. UnderwaySet(e)' = UnderwaySet(e) \cup {<<p, n + 1>>}
    BY <1>7, <2>2 DEF UnderwaySet
  <2>4. <<p, n + 1>> \notin UnderwaySet(e)
    <3> SUFFICES ASSUME NEW r \in Posters, <<p, n + 1>> \in DoneBy(r, e) PROVE FALSE
      BY DEF UnderwaySet
    <3>1. r = p
      BY DEF DoneBy
    <3> QED BY <3>1, <2>1, <1>6
  <2> QED BY <1>5, <1>8, <2>3, <2>4, FS_AddElement DEF Underway
<1>9. CASE job[p].ev # e
  <2>1. DoneBy(p, e) = {} /\ DoneBy(p, e)' = {}
    BY <1>1, <1>3, <1>9 DEF DoneBy, j
  <2>2. UnderwaySet(e)' = UnderwaySet(e)
    BY <1>7, <2>1 DEF UnderwaySet
  <2> QED BY <1>5, <1>9, <2>2 DEF Underway
<1> QED BY <1>8, <1>9

LEMMA AllAccounted ==
  ASSUME BusTypeOK, NEW e, NEW p \in Posters, job[p] # NoJob, job' = [job EXCEPT ![p] = NoJob]
  PROVE  Underway(e)' = Underway(e) - (IF job[p].ev = e THEN job[p].ok ELSE 0)
<1>1. \A r \in Posters : job'[r] = IF r = p THEN NoJob ELSE job[r]
  BY DEF BusTypeOK
<1>2. job[p].ok \in Nat
  BY BusyJob DEF Jobs
<1>3. IsFiniteSet(UnderwaySet(e)) /\ Underway(e) \in Nat
  BY FiniteCounts
<1>4. DoneBy(p, e)' = {} /\ \A r \in Posters : r # p => DoneBy(r, e)' = DoneBy(r, e)
  BY <1>1 DEF DoneBy
<1>5. CASE job[p].ev = e
  <2> DEFINE D == {p} \X (1 .. job[p].ok)
  <2>1. DoneBy(p, e) = D
    BY <1>5 DEF DoneBy
  <2>2. UnderwaySet(e)' = UnderwaySet(e) \ D
    <3>1. \A r \in Posters : r # p => DoneBy(r, e) \cap D = {}
      BY DEF DoneBy
    <3> HIDE DEF D
    <3> QED BY <3>1, <1>4, <2>1 DEF UnderwaySet
  <2>3. UnderwaySet(e) \cap D = D
    BY <2>1 DEF UnderwaySet
  <2>4. IsFiniteSet({p}) /\ Cardinality({p}) = 1
    BY FS_Singleton
  <2>5. IsFiniteSet(1 .. job[p].ok) /\ Cardinality(1 .. job[p].ok) = job[p].ok
    <3>1. 1 \in Int /\ job[p].ok \in Int
      BY <1>2
    <3>2. /\ IsFiniteSet(1 .. job[p].ok)
          /\ Cardinality(1 .. job[p].ok) = IF 1 > job[p].ok THEN 0 ELSE job[p].ok - 1 + 1
      BY <3>1, FS_Interval
    <3> QED BY <3>2, <1>2
  <2>6. Cardinality({p} \X (1 .. job[p].ok)) = Cardinality({p}) * Cardinality(1 .. job[p].ok)
    BY <2>4, <2>5, FS_Product
  <2>7. Cardinality(D) = job[p].ok
    BY <2>4, <2>5, <2>6, <1>2
  <2> HIDE DEF D
  <2>8. Cardinality(UnderwaySet(e) \ D) = Cardinality(UnderwaySet(e)) - Cardinality(UnderwaySet(e) \cap D)
    BY <1>3, FS_Difference
  <2> QED BY <1>5, <2>2, <2>3, <2>7, <2>8 DEF Underway
<1>6. CASE job[p].ev # e
  <2>1. DoneBy(p, e) = {}
    BY <1>6 DEF DoneBy
  <2>2. UnderwaySet(e)' = UnderwaySet(e)
    BY <1>4, <2>1 DEF UnderwaySet
  <2> QED BY <1>3, <1>6, <2>2 DEF Underway
<1> QED BY <1>5, <1>6

(* What the queue operations make of the set of messages in a queue.       *)
LEMMA EnqueueAdds ==
  ASSUME BusTypeOK, NEW q \in Queues, NEW m \in Messages, Enqueue(q, m)
  PROVE  /\ InQueue(q)' = InQueue(q) \cup {m}
         /\ \A r \in Queues : r # q => InQueue(r)' = InQueue(r)
<1>1. queue[q] \in Seq(Messages) /\ queue'[q] = Append(queue[q], m)
  BY DEF Enqueue, BusTypeOK
<1>2. /\ Append(queue[q], m) \in Seq(Messages) /\ Len(Append(queue[q], m)) = Len(queue[q]) + 1
      /\ \A i \in 1 .. Len(queue[q]) : Append(queue[q], m)[i] = queue[q][i]
      /\ Append(queue[q], m)[Len(queue[q]) + 1] = m
  BY <1>1, AppendProperties
<1> PICK n \in Nat : n = Len(queue[q])
  BY <1>1, LenProperties
<1>3. DOMAIN queue[q] = 1 .. n /\ DOMAIN queue'[q] = 1 .. n + 1
  BY <1>1, <1>2, LenProperties
<1>4. 1 .. n + 1 = (1 .. n) \cup {n + 1}
  OBVIOUS
<1>5. queue'[q][n + 1] = m /\ \A i \in 1 .. n : queue'[q][i] = queue[q][i]
  BY <1>1, <1>2
<1>6. InQueue(q)' = {queue'[q][k] : k \in (1 .. n) \cup {n + 1}}
  BY <1>3, <1>4 DEF InQueue
<1>7. InQueue(q) = {queue[q][k] : k \in 1 .. n}
  BY <1>3 DEF InQueue
<1>8. InQueue(q)' = InQueue(q) \cup {m}
  BY <1>5, <1>6, <1>7
<1>9. \A r \in Queues : r # q => queue'[r] = queue[r]
  BY DEF Enqueue, BusTypeOK
<1> QED BY <1>8, <1>9 DEF InQueue

LEMMA ReplaceSets ==
  ASSUME BusTypeOK, NEW q \in Queues, NEW m, Replaces(q, m)
  PROVE  /\ InQueue(q)' = {m}
         /\ \A r \in Queues : r # q => InQueue(r)' = InQueue(r)
<1>1. queue'[q] = <<m>> /\ \A r \in Queues : r # q => queue'[r] = queue[r]
  BY DEF Replaces, BusTypeOK
<1>2. {<<m>>[k] : k \in DOMAIN <<m>>} = {m}
  OBVIOUS
<1> QED BY <1>1, <1>2 DEF InQueue

LEMMA ReceiveTakes ==
  ASSUME TypeInv, OrderInv, NEW q \in Queues, Receive(q)
  PROVE  /\ Head(queue[q]) \in InQueue(q)
         /\ InQueue(q)' = InQueue(q) \ {Head(queue[q])}
         /\ \A r \in Queues : r # q => InQueue(r)' = InQueue(r)
<1>1. BusTypeOK /\ queue[q] \in Seq(Messages) /\ queue[q] # <<>> /\ queue' = [queue EXCEPT ![q] = Tail(@)]
  BY DEF Receive, TypeInv, BusTypeOK
<1>2. queue'[q] = Tail(queue[q]) /\ \A r \in Queues : r # q => queue'[r] = queue[r]
  BY <1>1 DEF BusTypeOK
<1> PICK n \in Nat : n = Len(queue[q])
  BY <1>1, LenProperties
<1>3. /\ 1 \in 1 .. n /\ Head(queue[q]) = queue[q][1] /\ Len(Tail(queue[q])) = n - 1
      /\ Tail(queue[q]) \in Seq(Messages)
      /\ \A k \in 1 .. n - 1 : k + 1 \in 1 .. n /\ Tail(queue[q])[k] = queue[q][k + 1]
  BY <1>1, RestOf
<1>4. DOMAIN queue[q] = 1 .. n /\ DOMAIN queue'[q] = 1 .. n - 1
  BY <1>1, <1>2, <1>3, LenProperties
<1>5. InQueue(q) = {queue[q][k] : k \in 1 .. n} /\ InQueue(q)' = {queue[q][k + 1] : k \in 1 .. n - 1}
  <2>1. InQueue(q) = {queue[q][k] : k \in 1 .. n}
    BY <1>4 DEF InQueue
  <2>2. InQueue(q)' = {queue'[q][k] : k \in 1 .. n - 1}
    BY <1>4 DEF InQueue
  <2>3. \A k \in 1 .. n - 1 : queue'[q][k] = queue[q][k + 1]
    BY <1>2, <1>3
  <2>4. ASSUME NEW x PROVE x \in InQueue(q)' <=> x \in {queue[q][k + 1] : k \in 1 .. n - 1}
    BY <2>2, <2>3
  <2> QED BY <2>1, <2>4
<1>6. \A k \in 1 .. n - 1 : queue[q][k + 1] # queue[q][1]
  <2> SUFFICES ASSUME NEW k \in 1 .. n - 1, queue[q][k + 1] = queue[q][1] PROVE FALSE
    OBVIOUS
  <2>1. 1 \in 1 .. Len(queue[q]) /\ k + 1 \in 1 .. Len(queue[q]) /\ 1 < k + 1
    BY <1>3
  <2>2. queue[q][1].seq < queue[q][k + 1].seq
    BY <2>1 DEF OrderInv, QueueOrdered
  <2>3. queue[q][1].seq \in Nat
    BY <2>1, <1>1, MessageFacts
  <2> QED BY <2>2, <2>3
<1>7. \A k \in 1 .. n : k = 1 \/ (k - 1 \in 1 .. n - 1 /\ k = (k - 1) + 1)
  OBVIOUS
<1>8. InQueue(q)' = InQueue(q) \ {queue[q][1]}
  <2>1. ASSUME NEW x \in InQueue(q)' PROVE x \in InQueue(q) \ {queue[q][1]}
    BY <2>1, <1>3, <1>5, <1>6
  <2>2. ASSUME NEW x \in InQueue(q) \ {queue[q][1]} PROVE x \in InQueue(q)'
    <3>1. PICK k \in 1 .. n : x = queue[q][k]
      BY <2>2, <1>5
    <3>2. k # 1
      BY <2>2, <3>1
    <3>3. k - 1 \in 1 .. n - 1 /\ x = queue[q][(k - 1) + 1]
      BY <3>1, <3>2, <1>7
    <3> QED BY <3>3, <1>5
  <2> QED BY <2>1, <2>2
<1> QED BY <1>2, <1>3, <1>5, <1>8 DEF InQueue

(* A message the post under way is about to deliver is not there yet.      *)
LEMMA NotYetThere ==
  ASSUME TypeInv, OrderInv, NEW p \in Posters, job[p] # NoJob, job[p].todo # <<>>,
         Head(job[p].todo) \in Queues
  PROVE  Message(p) \notin Carried(Head(job[p].todo))
<1> PICK q \in Queues : q = Head(job[p].todo)
  OBVIOUS
<1>1. BusTypeOK /\ Message(p).from = p /\ Message(p).seq = posted[p] /\ posted[p] \in Nat
  BY DEF Message, TypeInv, BusTypeOK
<1>2. /\ hold[q] # NoMsg /\ hold[q].from = p => hold[q].seq < posted[p]
      /\ \A k \in 1 .. Len(queue[q]) : queue[q][k].from = p => queue[q][k].seq < posted[p]
  BY OlderAhead
<1>3. Message(p) # NoMsg
  BY <1>1, BusyJob, MessageType, NoMsgIsNone
<1>4. Message(p) # hold[q]
  BY <1>1, <1>2, <1>3
<1>5. Message(p) \notin InQueue(q)
  <2> SUFFICES ASSUME NEW k \in 1 .. Len(queue[q]), Message(p) = queue[q][k] PROVE FALSE
    BY <1>1, FiniteQueue
  <2> QED BY <1>1, <1>2
<1> QED BY <1>4, <1>5 DEF Carried

-----------------------------------------------------------------------------
(* The counters.                                                           *)
LEMMA StillEven ==
  ASSUME NEW s \in Int, NEW u \in Int, NEW g \in Int, NEW k \in Int, s + u = g + k,
         NEW i \in Int, NEW o \in Int
  PROVE  /\ s + (u + i) = g + (k + i)
         /\ s + (u + i) = (g + o) + (k - o + i)
         /\ (s + i) + (u - i) = g + k
         /\ s + u = (g + i) + (k - i)
<1>1. s + (u + i) = (s + u) + i /\ g + (k + i) = (g + k) + i
  OBVIOUS
<1>2. (g + o) + (k - o + i) = (g + k) + i
  OBVIOUS
<1>3. (s + i) + (u - i) = s + u /\ (g + i) + (k - i) = g + k
  OBVIOUS
<1> QED BY <1>1, <1>2, <1>3

LEMMA CountsFrame ==
  ASSUME TypeInv, TypeInv', DeliveriesAddUp, UNCHANGED <<queue, gone, stat>>,
         \A e \in Events : Underway(e)' = Underway(e)
  PROVE  DeliveriesAddUp'
<1>1. \A q \in Queues : InQueue(q)' = InQueue(q)
  BY DEF InQueue
<1>2. \A e \in Events : QueuedSet(e)' = QueuedSet(e)
  BY <1>1 DEF QueuedSet
<1>3. \A e \in Events : Queued(e)' = Queued(e)
  BY <1>2, Zenon DEF Queued
<1> QED BY <1>3 DEF DeliveriesAddUp

(* A delivery loses no message, or the one it finds in the mailbox.        *)
Lands(p, q, m) ==
  \/ Enqueue(q, m) /\ UNCHANGED gone
  \/ /\ Overwrites(p, q) /\ Replaces(q, m)
     /\ gone' = IF queue[q] = <<>> THEN gone ELSE [gone EXCEPT ![Head(queue[q]).ev] = @ + 1]

LEMMA DeliverCounts ==
  ASSUME TypeInv, OrderInv, DeliveriesAddUp, NEW p \in Posters, job[p].pc # "idle",
         job[p].todo # <<>>, Head(job[p].todo) \in Queues,
         Advance(p, TRUE), UNCHANGED stat, Lands(p, Head(job[p].todo), Message(p))
  PROVE  DeliveriesAddUp'
<1> PICK q \in Queues : q = Head(job[p].todo)
  OBVIOUS
<1> PICK m : m = Message(p)
  OBVIOUS
<1>1. BusTypeOK /\ job[p] \in Jobs /\ job[p] # NoJob
  BY BusyJob DEF TypeInv
<1>2. m \in Messages /\ m.ev = job[p].ev /\ m \notin InQueue(q)
  BY <1>1, MessageType, NotYetThere DEF Message, Carried
<1>3. job' = [job EXCEPT ![p] = Advanced(p, TRUE)]
  BY <1>1, AdvanceIs
<1> DEFINE one(e) == IF m.ev = e THEN 1 ELSE 0
<1>4. ASSUME NEW e \in Events
      PROVE  /\ Underway(e)' = Underway(e) + one(e) /\ one(e) \in Int
             /\ Underway(e) \in Nat /\ Queued(e) \in Nat /\ gone[e] \in Int /\ stat[e].dlv \in Nat
             /\ stat'[e].dlv = stat[e].dlv
  <2>1. Underway(e)' = Underway(e) + (IF m.ev = e THEN 1 ELSE 0)
    BY <1>1, <1>2, <1>3, OneDelivered
  <2>2. gone[e] \in Int /\ stat[e] \in [ok : Nat, drop : Nat, fail : Nat, dlv : Nat]
    BY <1>1 DEF BusTypeOK
  <2> QED BY <1>1, <2>1, <2>2, FiniteCounts
<1>5. CASE Enqueue(q, m) /\ UNCHANGED gone
  <2> SUFFICES ASSUME NEW e \in Events
               PROVE  stat'[e].dlv + Underway(e)' = gone'[e] + Queued(e)'
    BY DEF DeliveriesAddUp
  <2>1. Queued(e)' = Queued(e) + one(e)
    BY <1>1, <1>2, <1>5, EnqueueAdds, OneMore
  <2>2. stat[e].dlv + Underway(e) = gone[e] + Queued(e) /\ gone'[e] = gone[e]
    BY <1>5 DEF DeliveriesAddUp
  <2> HIDE DEF one
  <2> PICK d \in Int, u \in Int, g \in Int, w \in Int, x \in Int :
          d = stat[e].dlv /\ u = Underway(e) /\ g = gone[e] /\ w = Queued(e) /\ x = one(e)
    BY <1>4
  <2>5. d + u = g + w
    BY <2>2
  <2>6. d + (u + x) = g + (w + x)
    BY <2>5
  <2> QED BY <1>4, <2>1, <2>2, <2>6
<1>6. CASE queue[q] = <<>> /\ Replaces(q, m) /\ UNCHANGED gone
  <2> SUFFICES ASSUME NEW e \in Events
               PROVE  stat'[e].dlv + Underway(e)' = gone'[e] + Queued(e)'
    BY DEF DeliveriesAddUp
  <2>1. InQueue(q) = {}
    BY <1>6 DEF InQueue
  <2>2. InQueue(q)' = InQueue(q) \cup {m} /\ \A r \in Queues : r # q => InQueue(r)' = InQueue(r)
    BY <1>1, <1>6, <2>1, ReplaceSets
  <2>3. Queued(e)' = Queued(e) + one(e)
    BY <1>1, <1>2, <2>2, OneMore
  <2>4. stat[e].dlv + Underway(e) = gone[e] + Queued(e) /\ gone'[e] = gone[e]
    BY <1>6 DEF DeliveriesAddUp
  <2> HIDE DEF one
  <2> PICK d \in Int, u \in Int, g \in Int, w \in Int, x \in Int :
          d = stat[e].dlv /\ u = Underway(e) /\ g = gone[e] /\ w = Queued(e) /\ x = one(e)
    BY <1>4
  <2>5. d + u = g + w
    BY <2>4
  <2>6. d + (u + x) = g + (w + x)
    BY <2>5
  <2> QED BY <1>4, <2>3, <2>4, <2>6
<1>7. CASE /\ queue[q] # <<>> /\ Overwrites(p, q) /\ Replaces(q, m)
           /\ gone' = [gone EXCEPT ![Head(queue[q]).ev] = @ + 1]
  <2> PICK o : o = Head(queue[q])
    OBVIOUS
  <2>1. queue[q] \in Seq(Messages) /\ Len(queue[q]) <= 1 /\ queue[q] # <<>>
    BY <1>1, <1>7 DEF BusTypeOK, Overwrites
  <2>2. o = queue[q][1] /\ o \in Messages /\ 1 \in 1 .. Len(queue[q]) /\ Len(queue[q]) \in Nat
    BY <2>1, RestOf
  <2>3. 1 .. Len(queue[q]) = {1}
    BY <2>1, <2>2
  <2>4. InQueue(q) = {o}
    BY <1>1, <2>2, <2>3, FiniteQueue
  <2>5. InQueue(q)' = {m} /\ \A r \in Queues : r # q => InQueue(r)' = InQueue(r)
    BY <1>1, <1>7, ReplaceSets
  <2>6. o.ev \in Events
    BY <2>2 DEF Messages
  <2> SUFFICES ASSUME NEW e \in Events
               PROVE  stat'[e].dlv + Underway(e)' = gone'[e] + Queued(e)'
    BY DEF DeliveriesAddUp
  <2> DEFINE old == IF o.ev = e THEN 1 ELSE 0
  <2>7. Queued(e)' = Queued(e) - old + one(e) /\ old \in Int
    <3>1. BusTypeOK /\ q \in Queues /\ InQueue(q) = {o}
      BY <1>1, <2>4
    <3>2. Queued(e)' = Queued(e) - (IF o.ev = e THEN 1 ELSE 0) + (IF m.ev = e THEN 1 ELSE 0)
      BY <3>1, <2>5, OneForAnother, SMT
    <3> QED BY <3>2
  <2>8. gone'[e] = gone[e] + old
    <3>1. gone \in [Events -> Int] /\ gone' = [gone EXCEPT ![o.ev] = gone[o.ev] + 1]
      BY <1>1, <1>7 DEF BusTypeOK
    <3>2. gone[e] + 0 = gone[e]
      BY <1>4
    <3> QED BY <3>1, <3>2, <2>6
  <2>9. stat[e].dlv + Underway(e) = gone[e] + Queued(e)
    BY DEF DeliveriesAddUp
  <2> HIDE DEF one, old
  <2>10. /\ stat[e].dlv \in Int /\ Underway(e) \in Int /\ gone[e] \in Int /\ Queued(e) \in Int
         /\ one(e) \in Int /\ old \in Int
    BY <1>4, <2>7
  <2>11. stat[e].dlv + (Underway(e) + one(e)) = (gone[e] + old) + (Queued(e) - old + one(e))
    <3> PICK d \in Int, u \in Int, g \in Int, w \in Int, x \in Int, y \in Int :
            d = stat[e].dlv /\ u = Underway(e) /\ g = gone[e] /\ w = Queued(e) /\ x = one(e) /\ y = old
      BY <2>10
    <3>1. d + u = g + w
      BY <2>9
    <3>2. (d + u) + x = (g + w) + x
      BY <3>1
    <3>3. d + (u + x) = (d + u) + x
      OBVIOUS
    <3>4. (g + w) + x = (g + y) + (w - y + x)
      OBVIOUS
    <3> QED BY <3>2, <3>3, <3>4
  <2> QED BY <1>4, <2>7, <2>8, <2>11, Zenon
<1> QED BY <1>5, <1>6, <1>7 DEF Lands

LEMMA AccountCounts ==
  ASSUME TypeInv, DeliveriesAddUp, NEW p \in Posters, Account(p)
  PROVE  DeliveriesAddUp'
<1>1. BusTypeOK /\ job[p] \in Jobs /\ job[p] # NoJob
  BY BusyJob DEF Account, TypeInv
<1>2. job' = [job EXCEPT ![p] = NoJob] /\ UNCHANGED <<queue, gone>>
  BY DEF Account
<1>3. job[p].ev \in Events /\ job[p].ok \in Nat
  BY <1>1 DEF Jobs
<1> SUFFICES ASSUME NEW e \in Events
             PROVE  stat'[e].dlv + Underway(e)' = gone'[e] + Queued(e)'
  BY DEF DeliveriesAddUp
<1>4. Underway(e)' = Underway(e) - (IF job[p].ev = e THEN job[p].ok ELSE 0)
  BY <1>1, <1>2, AllAccounted
<1>5. Underway(e) \in Nat /\ Queued(e) \in Nat /\ gone[e] \in Int /\ stat[e].dlv \in Nat
  <2>1. gone[e] \in Int /\ stat[e] \in [ok : Nat, drop : Nat, fail : Nat, dlv : Nat]
    BY <1>1 DEF BusTypeOK
  <2> QED BY <1>1, <2>1, FiniteCounts
<1>6. stat'[e].dlv = stat[e].dlv + (IF job[p].ev = e THEN job[p].ok ELSE 0)
  <2>1. CASE job[p].ev = e
    BY <1>1, <1>3, <1>5, <2>1 DEF Account, BusTypeOK
  <2>2. CASE job[p].ev # e
    BY <1>1, <1>3, <1>5, <2>2 DEF Account, BusTypeOK
  <2> QED BY <2>1, <2>2
<1>7. Queued(e)' = Queued(e) /\ gone'[e] = gone[e]
  BY <1>2 DEF Queued, QueuedSet, InQueue
<1>8. stat[e].dlv + Underway(e) = gone[e] + Queued(e)
  BY DEF DeliveriesAddUp
<1> QED BY <1>3, <1>4, <1>5, <1>6, <1>7, <1>8

LEMMA ReceiveCounts ==
  ASSUME TypeInv, OrderInv, DeliveriesAddUp, NEW q \in Queues, Receive(q)
  PROVE  DeliveriesAddUp'
<1>1. BusTypeOK /\ queue[q] \in Seq(Messages) /\ queue[q] # <<>>
  BY DEF Receive, TypeInv, BusTypeOK
<1> PICK m : m = Head(queue[q])
  OBVIOUS
<1>2. gone' = [gone EXCEPT ![m.ev] = @ + 1] /\ UNCHANGED <<job, stat>>
  BY DEF Receive
<1>3. m \in Messages /\ m.ev \in Events
  <2>1. m \in Messages
    BY <1>1, HeadTailProperties
  <2> QED BY <2>1 DEF Messages
<1> SUFFICES ASSUME NEW e \in Events
             PROVE  stat'[e].dlv + Underway(e)' = gone'[e] + Queued(e)'
  BY DEF DeliveriesAddUp
<1>4. /\ m \in InQueue(q) /\ InQueue(q)' = InQueue(q) \ {m}
      /\ \A r \in Queues : r # q => InQueue(r)' = InQueue(r)
  BY ReceiveTakes
<1>5. Queued(e)' = Queued(e) - (IF m.ev = e THEN 1 ELSE 0)
  BY <1>1, <1>4, OneLess
<1>6. Queued(e) \in Nat /\ gone[e] \in Int
  BY <1>1, FiniteCounts DEF BusTypeOK
<1>7. gone'[e] = gone[e] + (IF m.ev = e THEN 1 ELSE 0)
  <2>1. gone \in [Events -> Int] BY <1>1 DEF BusTypeOK
  <2>2. gone'[e] = IF m.ev = e THEN gone[e] + 1 ELSE gone[e] BY <1>2, <1>3, <2>1
  <2> QED BY <1>6, <2>2
<1>8. Underway(e)' = Underway(e)
  BY <1>2 DEF Underway, UnderwaySet, DoneBy
<1>9. stat[e].dlv + Underway(e) = gone[e] + Queued(e)
  BY DEF DeliveriesAddUp
<1> QED BY <1>2, <1>5, <1>6, <1>7, <1>8, <1>9

LEMMA CountsNext ==
  ASSUME TypeInv, TypeInv', OrderInv, DeliveriesAddUp, [BusNext]_vars
  PROVE  DeliveriesAddUp'
<1>1. BusTypeOK /\ \A p \in Posters : Shape(job[p])
  BY DEF TypeInv
<1>2. ASSUME NEW p \in Posters, NEW j, job' = [job EXCEPT ![p] = j],
             \/ job[p] # NoJob /\ j # NoJob /\ j.ev = job[p].ev /\ j.ok = job[p].ok
             \/ job[p] = NoJob /\ (j = NoJob \/ j.ok = 0),
             UNCHANGED <<queue, gone, stat>>
      PROVE  DeliveriesAddUp'
  <2>1. \A e \in Events : Underway(e)' = Underway(e)
    BY <1>1, <1>2, SameUnderway
  <2> QED BY <1>2, <2>1, CountsFrame
<1>3. ASSUME UNCHANGED <<queue, gone, stat, job>> PROVE DeliveriesAddUp'
  <2>1. \A e \in Events : Underway(e)' = Underway(e)
    BY <1>3 DEF Underway, UnderwaySet, DoneBy
  <2> QED BY <1>3, <2>1, CountsFrame
<1>4. ASSUME NEW p \in Posters, NEW l \in AtBus \cup BeforeBus, job[p].pc # "idle", SetPc(p, l),
             UNCHANGED <<queue, gone, stat>>
      PROVE  DeliveriesAddUp'
  <2>1. job[p] \in Jobs /\ job[p] # NoJob
    BY <1>1, <1>4, BusyJob
  <2>2. /\ job' = [job EXCEPT ![p] = MovedTo(p, l)] /\ MovedTo(p, l).pc = l
        /\ MovedTo(p, l).ev = job[p].ev /\ MovedTo(p, l).ok = job[p].ok
    BY <1>1, <1>4, <2>1, SetPcIs
  <2>3. MovedTo(p, l) # NoJob
    BY <2>2 DEF NoJob, AtBus, BeforeBus
  <2> QED BY <1>2, <1>4, <2>1, <2>2, <2>3
<1>5. ASSUME NEW p \in Posters, job[p].pc # "idle", job[p].todo # <<>>, Advance(p, FALSE),
             UNCHANGED <<queue, gone, stat>>
      PROVE  DeliveriesAddUp'
  <2>1. job[p] \in Jobs /\ job[p] # NoJob
    BY <1>1, <1>5, BusyJob
  <2>2. job' = [job EXCEPT ![p] = Advanced(p, FALSE)]
    BY <1>1, <1>5, <2>1, AdvanceIs
  <2>3. /\ Advanced(p, FALSE).pc = "loop" /\ Advanced(p, FALSE).ev = job[p].ev
        /\ Advanced(p, FALSE).ok = job[p].ok /\ NoJob.pc = "idle"
    BY DEF Advanced, NoJob
  <2>4. Advanced(p, FALSE) # NoJob
    BY <2>3
  <2> QED BY <1>2, <1>5, <2>1, <2>2, <2>3, <2>4
<1>6. ASSUME NEW p \in Posters, PosterStep(p) PROVE DeliveriesAddUp'
  <2>1. job[p].pc # "idle" => job[p] \in Jobs /\ job[p] # NoJob
    BY <1>1, BusyJob
  <2>2. ASSUME NEW e \in Posts[p], Begin(p, e) PROVE DeliveriesAddUp'
    <3> DEFINE j == [pc |-> "loop", ev |-> e, h |-> [idx |-> NoSlot, gen |-> 0],
                     pay |-> "00", todo |-> Snapshot, ok |-> 0, bad |-> 0]
    <3>1. job[p] = NoJob /\ job' = [job EXCEPT ![p] = j] /\ j.ok = 0 /\ UNCHANGED <<queue, gone, stat>>
      BY <1>1, <2>2, IdleJob DEF Begin
    <3> HIDE DEF j
    <3> QED BY <3>1, <1>2
  <2>3. ASSUME NEW e \in Posts[p], Alloc(p, e) PROVE DeliveriesAddUp'
    <3> DEFINE j == [pc |-> "owned", ev |-> e, h |-> NextHandle,
                     pay |-> "00", todo |-> <<>>, ok |-> 0, bad |-> 0]
    <3>1. job[p] = NoJob /\ j.ok = 0 /\ UNCHANGED <<queue, gone, stat>>
      BY <1>1, <2>3, IdleJob DEF Alloc
    <3>2. UNCHANGED job \/ job' = [job EXCEPT ![p] = j]
      BY <2>3 DEF Alloc
    <3> HIDE DEF j
    <3> QED BY <3>1, <3>2, <1>2, <1>3
  <2>4. CASE Map(p) \/ Publish(p) \/ Retain(p) \/ ReleaseOwn(p)
    <3>1. PICK l \in {"mapped", "ready", "retained", "stats"} :
            SetPc(p, l) /\ job[p].pc # "idle" /\ UNCHANGED <<queue, gone, stat>>
      BY <2>4 DEF Map, Publish, Retain, AtQueue, ReleaseOwn
    <3>2. l \in AtBus \cup BeforeBus
      BY DEF AtBus, BeforeBus
    <3> QED BY <3>1, <3>2, <1>4
  <2>5. CASE Fill(p)
    <3> DEFINE j == [job[p] EXCEPT !.pc = "filled", !.pay = p]
    <3>1. job[p].pc = "mapped" /\ job' = [job EXCEPT ![p] = j] /\ UNCHANGED <<queue, gone, stat>>
      BY <2>5 DEF Fill
    <3>2. j.pc = "filled" /\ j.ev = job[p].ev /\ j.ok = job[p].ok /\ NoJob.pc = "idle"
      BY <2>1, <3>1 DEF Jobs, NoJob
    <3> HIDE DEF j
    <3>3. j # NoJob
      BY <3>2
    <3> QED BY <2>1, <3>1, <3>2, <3>3, <1>2
  <2>6. CASE PostLease(p)
    <3> DEFINE j == [job[p] EXCEPT !.pc = "loop", !.todo = Snapshot]
    <3>1. /\ job[p].pc = "ready" /\ UNCHANGED <<queue, gone, stat>>
          /\ UNCHANGED job \/ job' = [job EXCEPT ![p] = j]
      BY <2>6 DEF PostLease
    <3>2. j.pc = "loop" /\ j.ev = job[p].ev /\ j.ok = job[p].ok /\ NoJob.pc = "idle"
      BY <2>1, <3>1 DEF Jobs, NoJob
    <3> HIDE DEF j
    <3>3. j # NoJob
      BY <3>2
    <3> QED BY <2>1, <3>1, <3>2, <3>3, <1>2, <1>3
  <2>7. CASE SkipCleared(p)
    <3> DEFINE j == [job[p] EXCEPT !.todo = Tail(job[p].todo)]
    <3>1. job[p].pc = "loop" /\ job' = [job EXCEPT ![p] = j] /\ UNCHANGED <<queue, gone, stat>>
      BY <2>7 DEF SkipCleared
    <3>2. j.pc = "loop" /\ j.ev = job[p].ev /\ j.ok = job[p].ok /\ NoJob.pc = "idle"
      BY <2>1, <3>1 DEF Jobs, NoJob
    <3> HIDE DEF j
    <3>3. j # NoJob
      BY <3>2
    <3> QED BY <2>1, <3>1, <3>2, <3>3, <1>2
  <2>8. AtQueue(p) => job[p].pc # "idle" /\ job[p].todo # <<>> /\ Head(job[p].todo) \in Queues
    <3>1. job[p].pc = "loop" => job[p].todo \in Seq(Queues \cup {NoQueue})
      BY <2>1 DEF Jobs
    <3>2. ASSUME AtQueue(p) PROVE Head(job[p].todo) \in Queues \cup {NoQueue}
      <4>1. job[p].todo \in Seq(Queues \cup {NoQueue}) /\ job[p].todo # <<>>
        BY <3>1, <3>2, Zenon DEF AtQueue
      <4> QED BY <4>1, HeadTailProperties
    <3> QED BY <3>2 DEF AtQueue
  <2>9. CASE Overwrite(p)
    <3>1. AtQueue(p) /\ Advance(p, TRUE) /\ UNCHANGED stat
      BY <2>9 DEF Overwrite
    <3>2. /\ Overwrites(p, Head(job[p].todo)) /\ Replaces(Head(job[p].todo), Message(p))
          /\ gone' = IF queue[Head(job[p].todo)] = <<>> THEN gone
                     ELSE [gone EXCEPT ![Head(queue[Head(job[p].todo)]).ev] = @ + 1]
      BY <2>9 DEF Overwrite, Replaces
    <3> QED BY <2>8, <3>1, <3>2, DeliverCounts, Zenon DEF Lands
  <2>10. CASE Send(p)
    <3>1. AtQueue(p) /\ UNCHANGED <<gone, stat>>
      BY <2>10 DEF Send
    <3>2. CASE HasRoom(Head(job[p].todo))
      <4>1. HasRoom(Head(job[p].todo)) = TRUE
        BY <3>2 DEF HasRoom
      <4>2. Enqueue(Head(job[p].todo), Message(p)) /\ Advance(p, TRUE)
        BY <2>10, <3>2, <4>1 DEF Send
      <4> QED BY <2>8, <3>1, <4>2, DeliverCounts DEF Lands
    <3>3. CASE ~HasRoom(Head(job[p].todo))
      <4>1. HasRoom(Head(job[p].todo)) = FALSE
        BY <3>3 DEF HasRoom
      <4>2. UNCHANGED queue /\ Advance(p, FALSE)
        BY <2>10, <3>3, <4>1 DEF Send
      <4> QED BY <1>5, <2>8, <3>1, <4>2
    <3> QED BY <3>2, <3>3
  <2>11. CASE SendLease(p)
    <3>1. /\ job[p].pc = "retained" /\ job[p].todo # <<>> /\ Head(job[p].todo) \in Queues
          /\ UNCHANGED <<gone, stat>>
      BY <1>1, <2>1, <2>11 DEF SendLease, Shape
    <3>2. CASE HasRoom(Head(job[p].todo))
      <4>1. Enqueue(Head(job[p].todo), Message(p)) /\ Advance(p, TRUE)
        BY <2>11, <3>2 DEF SendLease
      <4> QED BY <3>1, <4>1, DeliverCounts DEF Lands
    <3>3. CASE ~HasRoom(Head(job[p].todo))
      <4>1. SetPc(p, "undo") /\ UNCHANGED queue /\ "undo" \in AtBus
        BY <2>11, <3>3 DEF SendLease, AtBus
      <4> QED BY <3>1, <4>1, <1>4
    <3> QED BY <3>2, <3>3
  <2>12. CASE UndoRetain(p)
    <3>1. /\ job[p].pc = "undo" /\ job[p].todo # <<>> /\ Advance(p, FALSE)
          /\ UNCHANGED <<queue, gone, stat>>
      BY <1>1, <2>1, <2>12 DEF UndoRetain, Shape
    <3> QED BY <3>1, <1>5
  <2>13. CASE Account(p)
    BY <2>13, AccountCounts
  <2> QED
    BY <1>6, <2>2, <2>3, <2>4, <2>5, <2>6, <2>7, <2>9, <2>10, <2>11, <2>12, <2>13
       DEF PosterStep, Proceed, Post, PostFromIsr
<1>7. ASSUME NEW q \in Queues, Receive(q) PROVE DeliveriesAddUp'
  BY <1>7, ReceiveCounts
<1>8. ASSUME NEW q \in Queues, Discard(q) \/ OpenView(q) \/ CloseView(q) \/ Subscribe(q) \/ Unsubscribe(q)
      PROVE  DeliveriesAddUp'
  BY <1>3, <1>8 DEF Discard, OpenView, CloseView, Subscribe, Unsubscribe
<1>9. CASE EvResetStats
  <2> SUFFICES ASSUME NEW e \in Events
               PROVE  stat'[e].dlv + Underway(e)' = gone'[e] + Queued(e)'
    BY DEF DeliveriesAddUp
  <2>1. Underway(e)' = Underway(e) /\ Queued(e)' = Queued(e)
    BY <1>9 DEF EvResetStats, Underway, UnderwaySet, DoneBy, Queued, QueuedSet, InQueue
  <2>2. stat'[e].dlv = 0 /\ gone'[e] = Underway(e) - Queued(e)
    BY <1>9 DEF EvResetStats
  <2>3. Underway(e) \in Nat /\ Queued(e) \in Nat
    BY <1>1, FiniteCounts
  <2>4. 0 + Underway(e) = (Underway(e) - Queued(e)) + Queued(e)
    BY <2>3
  <2> QED BY <2>1, <2>2, <2>4
<1>10. CASE UNCHANGED vars
  BY <1>3, <1>10 DEF vars, busVars
<1> QED BY <1>6, <1>7, <1>8, <1>9, <1>10 DEF BusNext, Finished, ReaderStep

(* The delivered counter of an event is exactly what became of its         *)
(* messages, whatever the interleaving of posts, receives, overwritten     *)
(* mailboxes and console resets: each delivery is counted once, at the end *)
(* of the post that made it (core_ev.c:399-416, 441-458).                  *)
THEOREM CountersAddUp == BusSpec => []DeliveriesAddUp
<1>1. BusInit => TypeInv /\ OrderInv /\ DeliveriesAddUp
  <2> SUFFICES ASSUME BusInit PROVE DeliveriesAddUp
    BY TypeInvInit, OrderInvInit
  <2> SUFFICES ASSUME NEW e \in Events PROVE stat[e].dlv + Underway(e) = gone[e] + Queued(e)
    BY DEF DeliveriesAddUp
  <2>1. stat[e].dlv = 0 /\ gone[e] = 0
    BY DEF BusInit
  <2>2. \A q \in Queues : InQueue(q) = {}
    <3>1. \A q \in Queues : queue[q] = <<>>
      BY DEF BusInit
    <3>2. DOMAIN <<>> = {}
      OBVIOUS
    <3> QED BY <3>1, <3>2 DEF InQueue
  <2>3. QueuedSet(e) = {}
    BY <2>2 DEF QueuedSet
  <2>4. \A p \in Posters : DoneBy(p, e) = {}
    BY DEF BusInit, DoneBy
  <2>5. UnderwaySet(e) = {}
    BY <2>4 DEF UnderwaySet
  <2>6. Underway(e) = 0 /\ Queued(e) = 0
    BY <2>3, <2>5, FS_EmptySet DEF Underway, Queued
  <2> QED BY <2>1, <2>6
<1>2. TypeInv /\ OrderInv /\ DeliveriesAddUp /\ [BusNext]_vars => (TypeInv /\ OrderInv /\ DeliveriesAddUp)'
  <2> SUFFICES ASSUME TypeInv, OrderInv, DeliveriesAddUp, [BusNext]_vars
               PROVE  TypeInv' /\ OrderInv' /\ DeliveriesAddUp'
    OBVIOUS
  <2>1. TypeInv' /\ OrderInv'
    BY TypeInvNext, OrderInvNext
  <2> QED BY <2>1, CountsNext
<1> QED BY <1>1, <1>2, PTL DEF BusSpec
=============================================================================
