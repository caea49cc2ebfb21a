--------------------------- MODULE BusLeaseProofs ----------------------------
(***************************************************************************)
(* Leases.  On the bus: whatever the interleaving of producers, broadcasts *)
(* and readers, the reference count of a slot is the number of those who   *)
(* still owe it a release, and a lease that travels is intact.  In the     *)
(* hands of any client: a handle kept too long is good for nothing.        *)
(***************************************************************************)
EXTENDS BusProofs, LeaseHandles, NumberFacts

(* The places a debtor of a slot can be in.                                *)
Places  == UNION {{q} \X (0 .. Depth[q]) : q \in Queues}
Parties == ({"producer"} \X Posters) \cup ({"broadcast"} \X Posters) \cup ({"place"} \X Places)

(* How the firmware uses leases: every reader releases every lease event   *)
(* that is posted, no posted event overwrites a mailbox, and a reference   *)
(* count has room for everyone.                                            *)
LeaseClients ==
  /\ \A p \in Posters : \A e \in Posts[p] : IsLease(e) => \A q \in Queues : e \in Serves[q]
  /\ \A p \in Posters : \A e \in Posts[p] : EvQos[e] = "REPLACE_LAST" =>
       \A q \in Queues : Depth[q] > 1
  /\ Cardinality(Parties) <= RefMax

(* Whoever owes a release has the current handle of the slot.              *)
JobLease(p) ==
  job[p] # NoJob =>
    /\ job[p].ev \in Posts[p]
    /\ ~IsLease(job[p].ev) => job[p].h.idx = NoSlot
    /\ IsLease(job[p].ev) => job[p].h.idx \in Slots
    /\ \A i \in Slots : job[p].pc \in Owning /\ job[p].h.idx = i =>
         /\ gen[i] = job[p].h.gen
         /\ job[p].pc \in BeforeBus => Debtors(i) = {<<"producer", p>>}
         /\ job[p].pc \notin {"owned", "mapped"} => buf[i] = job[p].pay
         /\ job[p].pc \notin {"owned", "mapped", "filled"} => len[i] = BufSize
MailLease(q, m) ==
  /\ m.ev \in Posts[m.from]
  /\ IsLease(m.ev) =>
       /\ m.h.idx \in Slots /\ gen[m.h.idx] = m.h.gen
       /\ buf[m.h.idx] = m.pay /\ len[m.h.idx] = BufSize

LeaseInv ==
  /\ Running
  /\ \A i \in Slots : IsFiniteSet(Debtors(i)) /\ refcnt[i] = Cardinality(Debtors(i))
  /\ Guard => \A i \in Slots : refcnt[i] = 0 => buf[i] = PoisonFree
  /\ \A p \in Posters : JobLease(p)
  /\ \A q \in Queues : \A m \in Carried(q) : m # NoMsg => MailLease(q, m)

-----------------------------------------------------------------------------
(* Who is a debtor of a slot, now and in the next state.                   *)
Owes(i, x) ==
  \/ \E p \in Posters : x = <<"producer", p>> /\ job[p].pc \in Owning /\ job[p].h.idx = i
  \/ \E p \in Posters : /\ x = <<"broadcast", p>> /\ job[p].pc \in {"retained", "undo"}
                        /\ job[p].h.idx = i
  \/ \E q \in Queues : \E m \in Carried(q) : x = <<"mail", <<q, m>>>> /\ HasLease(m) /\ m.h.idx = i

LEMMA DebtorMember ==
  ASSUME NEW i
  PROVE  /\ \A x : x \in Debtors(i) <=> Owes(i, x)
         /\ (\A x : x \in Debtors(i) <=> Owes(i, x))'
<1>1. \A x : x \in Debtors(i) <=> Owes(i, x)
  <2> SUFFICES ASSUME NEW x PROVE x \in Debtors(i) <=> Owes(i, x)
    OBVIOUS
  <2>1. x \in {"producer"} \X Producers(i) <=>
        \E p \in Posters : x = <<"producer", p>> /\ job[p].pc \in Owning /\ job[p].h.idx = i
    BY DEF Producers
  <2>2. x \in {"broadcast"} \X Broadcasts(i) <=>
        \E p \in Posters : /\ x = <<"broadcast", p>> /\ job[p].pc \in {"retained", "undo"}
                           /\ job[p].h.idx = i
    BY DEF Broadcasts
  <2>3. x \in {"mail"} \X Mails(i) <=>
        \E q \in Queues : \E m \in Carried(q) : x = <<"mail", <<q, m>>>> /\ HasLease(m) /\ m.h.idx = i
    BY DEF Mails
  <2> QED BY <2>1, <2>2, <2>3 DEF Debtors, Owes
<1>2. (\A x : x \in Debtors(i) <=> Owes(i, x))'
  <2> SUFFICES ASSUME NEW x PROVE (x \in Debtors(i) <=> Owes(i, x))'
    OBVIOUS
  <2>1. (x \in {"producer"} \X Producers(i) <=>
         \E p \in Posters : x = <<"producer", p>> /\ job[p].pc \in Owning /\ job[p].h.idx = i)'
    BY DEF Producers
  <2>2. (x \in {"broadcast"} \X Broadcasts(i) <=>
         \E p \in Posters : /\ x = <<"broadcast", p>> /\ job[p].pc \in {"retained", "undo"}
                            /\ job[p].h.idx = i)'
    BY DEF Broadcasts
  <2>3. (x \in {"mail"} \X Mails(i) <=>
         \E q \in Queues : \E m \in Carried(q) : x = <<"mail", <<q, m>>>> /\ HasLease(m) /\ m.h.idx = i)'
    BY DEF Mails
  <2> QED BY <2>1, <2>2, <2>3 DEF Debtors, Owes
<1> QED BY <1>1, <1>2

(* What a step of one post does to the debtors of a slot.                  *)
LEMMA JobDebtors ==
  ASSUME BusTypeOK, NEW p \in Posters, NEW j, job' = [job EXCEPT ![p] = j], NEW i,
         \A q \in Queues : Carried(q)' = Carried(q)
  PROVE  \A x : x \in Debtors(i)' <=>
           \/ x \in Debtors(i) /\ x # <<"producer", p>> /\ x # <<"broadcast", p>>
           \/ x = <<"producer", p>> /\ j.pc \in Owning /\ j.h.idx = i
           \/ x = <<"broadcast", p>> /\ j.pc \in {"retained", "undo"} /\ j.h.idx = i
<1>1. \A r \in Posters : job'[r] = IF r = p THEN j ELSE job[r]
  BY DEF BusTypeOK
<1> SUFFICES ASSUME NEW x
             PROVE  Owes(i, x)' <=>
                      \/ Owes(i, x) /\ x # <<"producer", p>> /\ x # <<"broadcast", p>>
                      \/ x = <<"producer", p>> /\ j.pc \in Owning /\ j.h.idx = i
                      \/ x = <<"broadcast", p>> /\ j.pc \in {"retained", "undo"} /\ j.h.idx = i
  BY DebtorMember
<1>2. CASE x[1] = "producer"
  BY <1>1, <1>2 DEF Owes
<1>3. CASE x[1] = "broadcast"
  BY <1>1, <1>3 DEF Owes
<1>4. CASE x[1] # "producer" /\ x[1] # "broadcast"
  BY <1>1, <1>4 DEF Owes
<1> QED BY <1>2, <1>3, <1>4

LEMMA SameJobDebtors ==
  ASSUME BusTypeOK, NEW p \in Posters, NEW j, job' = [job EXCEPT ![p] = j],
         UNCHANGED <<queue, hold>>,
         \/ /\ j.h = job[p].h /\ (j.pc \in Owning <=> job[p].pc \in Owning)
            /\ j.pc \in {"retained", "undo"} <=> job[p].pc \in {"retained", "undo"}
         \/ job[p].pc \notin Owning /\ j.pc \notin Owning,
         NEW i
  PROVE  Debtors(i)' = Debtors(i)
<1> SUFFICES ASSUME NEW x PROVE x \in Debtors(i)' <=> x \in Debtors(i)
  OBVIOUS
<1>1. \A q \in Queues : Carried(q)' = Carried(q)
  BY DEF Carried, InQueue
<1>2. x \in Debtors(i)' <=>
        \/ x \in Debtors(i) /\ x # <<"producer", p>> /\ x # <<"broadcast", p>>
        \/ x = <<"producer", p>> /\ j.pc \in Owning /\ j.h.idx = i
        \/ x = <<"broadcast", p>> /\ j.pc \in {"retained", "undo"} /\ j.h.idx = i
  BY <1>1, JobDebtors
<1>3. <<"producer", p>> \in Debtors(i) <=> job[p].pc \in Owning /\ job[p].h.idx = i
  BY DebtorMember DEF Owes
<1>4. <<"broadcast", p>> \in Debtors(i) <=> job[p].pc \in {"retained", "undo"} /\ job[p].h.idx = i
  BY DebtorMember DEF Owes
<1>5. {"retained", "undo"} \subseteq Owning
  BY DEF Owning
<1> QED BY <1>2, <1>3, <1>4, <1>5

(* What the messages that are carried do to the debtors.                   *)
LEMMA MailDebtors ==
  ASSUME UNCHANGED job, NEW q \in Queues, NEW S,
         \A m : m # NoMsg => (m \in Carried(q)' <=> m \in Carried(q) /\ m \notin S),
         \A r \in Queues : r # q => Carried(r)' = Carried(r), NEW i
  PROVE  \A x : x \in Debtors(i)' <=>
           x \in Debtors(i) /\ \A m \in S : HasLease(m) => x # <<"mail", <<q, m>>>>
<1> SUFFICES ASSUME NEW x
             PROVE  Owes(i, x)' <=> Owes(i, x) /\ \A m \in S : HasLease(m) => x # <<"mail", <<q, m>>>>
  BY DebtorMember
<1>1. CASE x[1] = "producer" \/ x[1] = "broadcast"
  BY <1>1 DEF Owes
<1>2. CASE x[1] = "mail"
  <2>1. Owes(i, x) <=> \E r \in Queues : \E m \in Carried(r) :
                         x = <<"mail", <<r, m>>>> /\ HasLease(m) /\ m.h.idx = i
    BY <1>2 DEF Owes
  <2>2. Owes(i, x)' <=> \E r \in Queues : \E m \in Carried(r)' :
                          x = <<"mail", <<r, m>>>> /\ HasLease(m) /\ m.h.idx = i
    BY <1>2 DEF Owes
  <2> QED BY <2>1, <2>2 DEF HasLease
<1>3. CASE x[1] \notin {"producer", "broadcast", "mail"}
  BY <1>3 DEF Owes
<1> QED BY <1>1, <1>2, <1>3

-----------------------------------------------------------------------------
(* Every debtor of a slot is in a place of its own.                        *)
InHand(q, m) == IF m = hold[q] THEN 0 ELSE CHOOSE k \in 1 .. Len(queue[q]) : queue[q][k] = m

LEMMA InHandIs ==
  ASSUME BusTypeOK, NEW q \in Queues, NEW m \in Carried(q)
  PROVE  /\ InHand(q, m) \in 0 .. Depth[q]
         /\ m = IF InHand(q, m) = 0 THEN hold[q] ELSE queue[q][InHand(q, m)]
<1>1. Depth[q] \in Nat /\ Len(queue[q]) \in Nat /\ Len(queue[q]) <= Depth[q]
  BY BusAssumption DEF BusTypeOK
<1>2. CASE m = hold[q]
  BY <1>1, <1>2 DEF InHand
<1>3. CASE m # hold[q]
  <2>1. \E k \in 1 .. Len(queue[q]) : queue[q][k] = m
    BY <1>3, FiniteQueue DEF Carried
  <2>2. InHand(q, m) \in 1 .. Len(queue[q]) /\ queue[q][InHand(q, m)] = m
    BY <1>3, <2>1 DEF InHand
  <2> QED BY <1>1, <2>2
<1> QED BY <1>2, <1>3

LEMMA FiniteParties == IsFiniteSet(Parties)
<1>0. IsFiniteSet(Posters) /\ IsFiniteSet(Queues)
  BY BusAssumption
<1> DEFINE f == [q \in Queues |-> {q} \X (0 .. Depth[q])]
<1>1. \A q \in Queues : IsFiniteSet(f[q])
  <2> SUFFICES ASSUME NEW q \in Queues PROVE IsFiniteSet(f[q])
    OBVIOUS
  <2>1. Depth[q] \in Int /\ 0 \in Int
    BY BusAssumption
  <2>2. IsFiniteSet({q}) /\ IsFiniteSet(0 .. Depth[q])
    BY <2>1, FS_Singleton, FS_Interval
  <2>3. IsFiniteSet({q} \X (0 .. Depth[q]))
    BY <2>2, FS_Product
  <2> QED BY <2>3
<1>2. DOMAIN f = Queues /\ f = [q \in Queues |-> f[q]] /\ Places = UNION {f[q] : q \in Queues}
  BY DEF Places
<1> HIDE DEF f
<1>3. IsFiniteSet(Places)
  BY <1>0, <1>1, <1>2, FiniteUnion
<1>4. IsFiniteSet({"producer"}) /\ IsFiniteSet({"broadcast"}) /\ IsFiniteSet({"place"})
  BY FS_Singleton
<1>5. IsFiniteSet({"producer"} \X Posters)
  BY <1>0, <1>4, FS_Product
<1>6. IsFiniteSet({"broadcast"} \X Posters)
  BY <1>0, <1>4, FS_Product
<1>7. IsFiniteSet({"place"} \X Places)
  BY <1>3, <1>4, FS_Product
<1>8. IsFiniteSet(({"producer"} \X Posters) \cup ({"broadcast"} \X Posters))
  BY <1>5, <1>6, FS_Union
<1> QED BY <1>7, <1>8, FS_Union DEF Parties

(* A slot has at most as many debtors as there are places, and fewer while *)
(* a broadcast holds no reference.                                         *)
LEMMA DebtorsFit ==
  ASSUME BusTypeOK, NEW i
  PROVE  /\ IsFiniteSet(Debtors(i)) /\ Cardinality(Debtors(i)) \in Nat
         /\ Cardinality(Parties) \in Nat
         /\ \A p \in Posters : <<"broadcast", p>> \notin Debtors(i) =>
              Cardinality(Debtors(i)) < Cardinality(Parties)
<1> DEFINE D == Debtors(i)
           Seat(x) == IF x[1] = "mail" THEN <<"place", <<x[2][1], InHand(x[2][1], x[2][2])>>>> ELSE x
           f == [x \in D |-> Seat(x)]
<1>1. ASSUME NEW x \in D
      PROVE  \/ \E p \in Posters : x = <<"producer", p>>
             \/ \E p \in Posters : x = <<"broadcast", p>>
             \/ \E q \in Queues : \E m \in Carried(q) : x = <<"mail", <<q, m>>>>
  BY DebtorMember DEF Owes
<1>2. ASSUME NEW x \in D
      PROVE  /\ Seat(x) \in Parties
             /\ Seat(x)[1] # "place" => x = Seat(x)
             /\ Seat(x)[1] = "place" =>
                  LET q == Seat(x)[2][1]
                      n == Seat(x)[2][2]
                  IN  x = <<"mail", <<q, IF n = 0 THEN hold[q] ELSE queue[q][n]>>>>
  <2>1. CASE \E p \in Posters : x = <<"producer", p>> \/ x = <<"broadcast", p>>
    BY <2>1 DEF Parties
  <2>2. CASE \E q \in Queues : \E m \in Carried(q) : x = <<"mail", <<q, m>>>>
    <3> PICK q \in Queues : \E m \in Carried(q) : x = <<"mail", <<q, m>>>>
      BY <2>2
    <3> PICK m \in Carried(q) : x = <<"mail", <<q, m>>>>
      OBVIOUS
    <3>1. Seat(x) = <<"place", <<q, InHand(q, m)>>>>
      OBVIOUS
    <3>2. PICK n \in 0 .. Depth[q] : n = InHand(q, m) /\ m = IF n = 0 THEN hold[q] ELSE queue[q][n]
      BY InHandIs
    <3>3. <<q, n>> \in Places
      BY DEF Places
    <3> QED BY <3>1, <3>2, <3>3 DEF Parties
  <2> QED BY <1>1, <2>1, <2>2
<1> HIDE DEF Seat
<1>3. f \in Injection(D, Parties)
  <2>1. f \in [D -> Parties]
    BY <1>2
  <2>2. ASSUME NEW x \in D, NEW y \in D, f[x] = f[y] PROVE x = y
    <3>1. Seat(x) = Seat(y)
      BY <2>2
    <3> QED BY <1>2, <3>1
  <2> HIDE DEF f
  <2> QED BY <2>1, <2>2, Fun_IsInj
<1>4. IsFiniteSet(D) /\ Cardinality(D) <= Cardinality(Parties)
  BY <1>3, FiniteParties, FS_Injection
<1>5. Cardinality(D) \in Nat /\ Cardinality(Parties) \in Nat
  BY <1>4, FiniteParties, FS_CardinalityType
<1>6. ASSUME NEW p \in Posters, <<"broadcast", p>> \notin D
      PROVE  Cardinality(D) < Cardinality(Parties)
  <2>1. <<"broadcast", p>> \in Parties
    BY DEF Parties
  <2>2. \A x \in D : f[x] # <<"broadcast", p>>
    BY <1>2, <1>6
  <2>3. f \notin Surjection(D, Parties)
    BY <2>1, <2>2 DEF Surjection
  <2>4. Cardinality(D) # Cardinality(Parties)
    BY <1>3, <2>3, FiniteParties, FS_Injection
  <2> QED BY <1>4, <1>5, <2>4
<1> QED BY <1>4, <1>5, <1>6

-----------------------------------------------------------------------------
(* What the calls of the pool do when nothing is wrong.                    *)
SlotKept(i) == gen'[i] = gen[i] /\ buf'[i] = buf[i] /\ len'[i] = len[i]

LEMMA GoodAcquire ==
  ASSUME Inv, NEW h, Live(h), Acquire(h)
  PROVE  UNCHANGED <<gen, refcnt, len, buf, aborted>>
<1>1. ~(Guard /\ magic[h.idx] # "USED")
  BY DEF Live, ValidIdx, Inv, TypeOK, FreeListInv, MagicAgrees
<1> QED BY <1>1 DEF Acquire, slotVars

LEMMA GoodHandle ==
  ASSUME Inv, NEW h, Live(h)
  PROVE  ValidIdx(h) /\ Fault(h) = "no"
<1> QED BY DEF Live, ValidIdx, Inv, TypeOK, FreeListInv, MagicAgrees, Fault

LEMMA GoodCommit ==
  ASSUME Inv, NEW h, Live(h), Commit(h, BufSize)
  PROVE  /\ len' = [len EXCEPT ![h.idx] = BufSize]
         /\ UNCHANGED <<gen, refcnt, buf, aborted>>
<1>1. BufSize \in Nat /\ ~(BufSize > BufSize)
  BY PoolAssumption
<1>2. CommitFault(h, BufSize) = "no"
  BY <1>1, GoodHandle DEF CommitFault
<1> QED BY <1>1, <1>2 DEF Commit

LEMMA GoodAddRef ==
  ASSUME Inv, NEW h, Live(h), AddRefN(h, 1), refcnt[h.idx] < RefMax
  PROVE  /\ refcnt' = [refcnt EXCEPT ![h.idx] = refcnt[h.idx] + 1]
         /\ UNCHANGED <<gen, len, buf, aborted>>
<1>1. refcnt[h.idx] \in Nat /\ RefMax \in Nat
  BY PoolAssumption DEF Live, ValidIdx, Inv, TypeOK
<1>2. ~(refcnt[h.idx] + 1 > RefMax)
  BY <1>1
<1>3. AddRefFault(h, 1) = "no"
  BY <1>2, GoodHandle DEF AddRefFault
<1> QED BY <1>2, <1>3 DEF AddRefN

LEMMA GoodRelease ==
  ASSUME Inv, NEW h, Live(h), Release(h)
  PROVE  /\ refcnt' = [refcnt EXCEPT ![h.idx] = refcnt[h.idx] - 1]
         /\ aborted' = "no"
         /\ \A k \in Slots : k # h.idx \/ refcnt[k] > 1 => SlotKept(k)
         /\ Guard /\ refcnt[h.idx] = 1 => buf'[h.idx] = PoisonFree
<1>1. Running /\ Fault(h) = "no" /\ h.idx \in Slots /\ (DropRef(h) \/ FreeSlot(h))
  BY GoodHandle DEF Release, ValidIdx
<1>2. /\ gen \in [Slots -> Gens] /\ refcnt \in [Slots -> 0 .. RefMax] /\ len \in [Slots -> 0 .. BufSize]
      /\ buf \in [Slots -> Contents] /\ refcnt[h.idx] \in Nat
  BY <1>1, PoolAssumption DEF Inv, TypeOK
<1>3. CASE DropRef(h)
  BY <1>1, <1>2, <1>3 DEF DropRef, SlotKept, Running
<1>4. CASE FreeSlot(h)
  <2>0. refcnt[h.idx] = 1 /\ refcnt' = [refcnt EXCEPT ![h.idx] = 0]
    BY <1>4 DEF FreeSlot
  <2>1. freeTop < NumSlots
    <3>1. refcnt[h.idx] > 0
      BY <2>0
    <3> QED BY <1>1, <3>1, RoomOnStack DEF Inv, FreeListInv
  <2>2. ~(freeTop >= NumSlots)
    BY <2>1, PoolAssumption DEF Inv, TypeOK
  <2>3. aborted' = "no"
    BY <1>1, <1>4, <2>2 DEF FreeSlot, Running
  <2>4. refcnt' = [refcnt EXCEPT ![h.idx] = refcnt[h.idx] - 1] /\ refcnt[h.idx] = 1
    <3>1. refcnt[h.idx] - 1 = 0
      BY <2>0
    <3> QED BY <2>0, <3>1
  <2>5. \A k \in Slots : k # h.idx => SlotKept(k)
    BY <1>1, <1>2, <1>4 DEF FreeSlot, SlotKept
  <2>6. Guard => buf'[h.idx] = PoisonFree
    BY <1>1, <1>2, <1>4 DEF FreeSlot
  <2> QED BY <1>2, <2>3, <2>4, <2>5, <2>6
<1> QED BY <1>1, <1>3, <1>4

LEMMA GoodAlloc ==
  ASSUME Inv, Running, Guard => \A i \in Slots : refcnt[i] = 0 => buf[i] = PoisonFree,
         AllocTry(BufSize)
  PROVE  /\ aborted' = "no"
         /\ freeTop = 0 => UNCHANGED <<gen, refcnt, len, buf>>
         /\ freeTop # 0 =>
              /\ NextSlot \in Slots /\ refcnt[NextSlot] = 0
              /\ refcnt' = [refcnt EXCEPT ![NextSlot] = 1] /\ gen' = gen
              /\ \A k \in Slots : k # NextSlot => SlotKept(k)
<1>1. BufSize \in Nat /\ ~(BufSize > BufSize) /\ freeTop \in Nat
  BY PoolAssumption DEF Inv, TypeOK
<1>2. CASE freeTop = 0
  BY <1>1, <1>2 DEF AllocTry, AllocTooLong, AllocEmpty, Handout, AllocCaught, slotVars, Running
<1>3. CASE freeTop # 0
  <2>1. NextSlot \in Slots /\ refcnt[NextSlot] = 0
    BY <1>1, <1>3, AllocBlamesClient
  <2>2. AllocFault = "no"
    BY <2>1 DEF AllocFault, Inv, FreeListInv, MagicAgrees
  <2>3. Handout(BufSize)
    BY <1>1, <1>3, <2>2 DEF AllocTry, AllocTooLong, AllocEmpty, AllocCaught
  <2> QED BY <1>3, <2>1, <2>3 DEF Handout, SlotKept, Running, Inv, TypeOK
<1> QED BY <1>2, <1>3

-----------------------------------------------------------------------------
(* Whoever owes a release has a live handle.                               *)
LEMMA JobHolds ==
  ASSUME TypeInv, LeaseInv, NEW p \in Posters, job[p].pc \in Owning, IsLease(job[p].ev)
  PROVE  /\ job[p] \in Jobs /\ job[p] # NoJob
         /\ job[p].h.idx \in Slots /\ Live(job[p].h)
         /\ <<"producer", p>> \in Debtors(job[p].h.idx)
<1>1. job[p] \in Jobs /\ job[p] # NoJob
  BY BusyJob DEF TypeInv, Owning
<1>2. PICK i \in Slots : i = job[p].h.idx
  BY <1>1 DEF LeaseInv, JobLease
<1>3. <<"producer", p>> \in Debtors(i)
  BY <1>2, DebtorMember DEF Owes
<1>4. gen[i] = job[p].h.gen
  BY <1>1, <1>2 DEF LeaseInv, JobLease
<1>5. Cardinality(Debtors(i)) \in Nat /\ Cardinality(Debtors(i)) # 0
  BY <1>3, FS_EmptySet, FS_CardinalityType DEF LeaseInv
<1>6. refcnt[i] > 0
  BY <1>5 DEF LeaseInv
<1> QED BY <1>1, <1>2, <1>3, <1>4, <1>6 DEF Live, ValidIdx

LEMMA MailHolds ==
  ASSUME TypeInv, LeaseInv, NEW q \in Queues, NEW m \in Carried(q), HasLease(m)
  PROVE  /\ m.h.idx \in Slots /\ Live(m.h)
         /\ <<"mail", <<q, m>>>> \in Debtors(m.h.idx)
<1>1. m.h.idx \in Slots /\ gen[m.h.idx] = m.h.gen
  BY DEF HasLease, LeaseInv, MailLease
<1>2. PICK i \in Slots : i = m.h.idx
  BY <1>1
<1>3. <<"mail", <<q, m>>>> \in Debtors(i)
  BY <1>2, DebtorMember DEF Owes
<1>5. Cardinality(Debtors(i)) \in Nat /\ Cardinality(Debtors(i)) # 0
  BY <1>3, FS_EmptySet, FS_CardinalityType DEF LeaseInv
<1>6. refcnt[i] > 0
  BY <1>5 DEF LeaseInv
<1> QED BY <1>1, <1>2, <1>3, <1>6 DEF Live, ValidIdx

(* What a step has to leave as it is.                                      *)
LEMMA LeaseFrame ==
  ASSUME TypeInv, TypeInv', LeaseInv, Running',
         \A k \in Slots : IsFiniteSet(Debtors(k)') /\ refcnt'[k] = Cardinality(Debtors(k)'),
         Guard => \A k \in Slots : refcnt'[k] = 0 => buf'[k] = PoisonFree,
         \A r \in Posters :
           \/ JobLease(r)'
           \/ /\ job'[r] = job[r]
              /\ \A k \in Slots : job[r].pc \in Owning /\ job[r].h.idx = k =>
                   /\ SlotKept(k)
                   /\ job[r].pc \in BeforeBus => Debtors(k)' = Debtors(k),
         \A q \in Queues : \A m \in Carried(q)' : m # NoMsg =>
           \/ MailLease(q, m)'
           \/ m \in Carried(q) /\ (IsLease(m.ev) => SlotKept(m.h.idx))
  PROVE  LeaseInv'
<1>1. ASSUME NEW r \in Posters PROVE JobLease(r)'
  <2> SUFFICES ASSUME job'[r] = job[r],
                      \A k \in Slots : job[r].pc \in Owning /\ job[r].h.idx = k =>
                        /\ SlotKept(k)
                        /\ job[r].pc \in BeforeBus => Debtors(k)' = Debtors(k)
               PROVE  JobLease(r)'
    OBVIOUS
  <2>1. JobLease(r)
    BY DEF LeaseInv
  <2> QED BY <2>1 DEF JobLease, SlotKept
<1>2. ASSUME NEW q \in Queues, NEW m \in Carried(q)', m # NoMsg PROVE MailLease(q, m)'
  <2> SUFFICES ASSUME m \in Carried(q), IsLease(m.ev) => SlotKept(m.h.idx)
               PROVE  MailLease(q, m)'
    BY <1>2
  <2>1. MailLease(q, m)
    BY <1>2 DEF LeaseInv
  <2> QED BY <2>1 DEF MailLease, SlotKept
<1> QED BY <1>1, <1>2 DEF LeaseInv

(* A step that leaves the slots and their debtors as they are.             *)
LEMMA StillFrame ==
  ASSUME TypeInv, TypeInv', LeaseInv, UNCHANGED <<gen, refcnt, len, buf, aborted>>,
         \A k \in Slots : Debtors(k)' = Debtors(k),
         \A r \in Posters : job'[r] = job[r] \/ JobLease(r)',
         \A q \in Queues : \A m \in Carried(q)' : m # NoMsg => m \in Carried(q) \/ MailLease(q, m)'
  PROVE  LeaseInv'
<1>1. \A k \in Slots : SlotKept(k)
  BY DEF SlotKept
<1>2. \A q \in Queues : \A m \in Carried(q) : m # NoMsg /\ IsLease(m.ev) => SlotKept(m.h.idx)
  BY DEF SlotKept
<1>3. Running'
  BY DEF LeaseInv, Running
<1>4. \A k \in Slots : IsFiniteSet(Debtors(k)') /\ refcnt'[k] = Cardinality(Debtors(k)')
  BY DEF LeaseInv
<1>5. Guard => \A k \in Slots : refcnt'[k] = 0 => buf'[k] = PoisonFree
  BY DEF LeaseInv
<1>6. \A r \in Posters :
        \/ JobLease(r)'
        \/ /\ job'[r] = job[r]
           /\ \A k \in Slots : job[r].pc \in Owning /\ job[r].h.idx = k =>
                SlotKept(k) /\ (job[r].pc \in BeforeBus => Debtors(k)' = Debtors(k))
  BY <1>1
<1>7. \A q \in Queues : \A m \in Carried(q)' : m # NoMsg =>
        MailLease(q, m)' \/ (m \in Carried(q) /\ (IsLease(m.ev) => SlotKept(m.h.idx)))
  BY <1>2
<1> QED BY <1>3, <1>4, <1>5, <1>6, <1>7, LeaseFrame

(* A debtor of slot i gives back its reference.                            *)
LEMMA ReleaseFrame ==
  ASSUME TypeInv, TypeInv', LeaseInv, NEW i \in Slots, NEW d \in Debtors(i),
         Debtors(i)' = Debtors(i) \ {d},
         \A k \in Slots : k # i => Debtors(k)' = Debtors(k),
         refcnt' = [refcnt EXCEPT ![i] = refcnt[i] - 1], aborted' = "no",
         \A k \in Slots : k # i \/ refcnt[k] > 1 => SlotKept(k),
         Guard /\ refcnt[i] = 1 => buf'[i] = PoisonFree,
         \A r \in Posters : (job'[r] = job[r] /\ d # <<"producer", r>>) \/ JobLease(r)',
         \A q \in Queues : \A m \in Carried(q)' : m # NoMsg => m \in Carried(q)
  PROVE  LeaseInv'
<1>1. /\ IsFiniteSet(Debtors(i)) /\ refcnt[i] = Cardinality(Debtors(i))
      /\ Cardinality(Debtors(i)) \in Nat /\ Cardinality(Debtors(i)) # 0
  BY FS_EmptySet, FS_CardinalityType DEF LeaseInv
<1>2. IsFiniteSet(Debtors(i) \ {d}) /\ Cardinality(Debtors(i) \ {d}) = Cardinality(Debtors(i)) - 1
  BY <1>1, FS_RemoveElement
<1>3. ASSUME NEW x \in Debtors(i), x # d PROVE refcnt[i] > 1
  <2>1. Cardinality(Debtors(i) \ {d}) \in Nat /\ Cardinality(Debtors(i) \ {d}) # 0
    BY <1>2, <1>3, FS_EmptySet, FS_CardinalityType
  <2> QED BY <1>1, <1>2, <2>1
<1>4. refcnt \in [Slots -> 0 .. RefMax]
  BY DEF TypeInv, Inv, TypeOK
<1>5. Running'
  BY DEF Running
<1>6. ASSUME NEW k \in Slots PROVE IsFiniteSet(Debtors(k)') /\ refcnt'[k] = Cardinality(Debtors(k)')
  <2>1. CASE k = i
    BY <2>1, <1>1, <1>2, <1>4
  <2>2. CASE k # i
    BY <2>2, <1>4 DEF LeaseInv
  <2> QED BY <2>1, <2>2
<1>7. ASSUME Guard, NEW k \in Slots, refcnt'[k] = 0 PROVE buf'[k] = PoisonFree
  <2>1. CASE k = i
    <3>1. refcnt[i] - 1 = 0
      BY <2>1, <1>4, <1>7
    <3>2. refcnt[i] = 1
      BY <3>1, <1>1
    <3> QED BY <2>1, <3>2, <1>7
  <2>2. CASE k # i
    BY <2>2, <1>4, <1>7 DEF LeaseInv, SlotKept
  <2> QED BY <2>1, <2>2
<1>8. ASSUME NEW r \in Posters, job'[r] = job[r], d # <<"producer", r>>,
             NEW k \in Slots, job[r].pc \in Owning, job[r].h.idx = k
      PROVE  SlotKept(k) /\ (job[r].pc \in BeforeBus => Debtors(k)' = Debtors(k))
  <2>1. <<"producer", r>> \in Debtors(k)
    BY <1>8, DebtorMember DEF Owes
  <2>2. CASE k # i
    BY <2>2
  <2>3. CASE k = i
    <3>1. SlotKept(k)
      BY <1>3, <1>8, <2>1, <2>3
    <3>2. job[r].pc \notin BeforeBus
      <4>1. SUFFICES ASSUME job[r].pc \in BeforeBus PROVE FALSE
        OBVIOUS
      <4>2. job[r] # NoJob
        BY <4>1 DEF NoJob, BeforeBus
      <4>3. Debtors(k) = {<<"producer", r>>}
        BY <1>8, <4>1, <4>2 DEF LeaseInv, JobLease
      <4> QED BY <1>8, <2>3, <4>3
    <3> QED BY <3>1, <3>2
  <2> QED BY <2>2, <2>3
<1>9. ASSUME NEW q \in Queues, NEW m \in Carried(q)', m # NoMsg, IsLease(m.ev)
      PROVE  SlotKept(m.h.idx)
  <2>1. m \in Carried(q) /\ HasLease(m)
    BY <1>9 DEF HasLease
  <2>2. PICK k \in Slots : k = m.h.idx
    BY <2>1, MailHolds
  <2>3. CASE k # i
    BY <2>2, <2>3
  <2>4. CASE k = i
    <3>1. <<"mail", <<q, m>>>> \in Debtors(k)'
      BY <1>9, <2>1, <2>2, DebtorMember DEF Owes
    <3>2. <<"mail", <<q, m>>>> \in Debtors(i) /\ <<"mail", <<q, m>>>> # d
      BY <2>4, <3>1
    <3> QED BY <1>3, <2>2, <2>4, <3>2
  <2> QED BY <2>3, <2>4
<1> QED BY <1>5, <1>6, <1>7, <1>8, <1>9, LeaseFrame

-----------------------------------------------------------------------------
(* The steps of a post, up to the bus.                                     *)

(* A post that goes on with the same handle.                               *)
LEMMA SameLease ==
  ASSUME TypeInv, LeaseInv, NEW p \in Posters, job[p] # NoJob,
         NEW j, job' = [job EXCEPT ![p] = j], j.ev = job[p].ev, j.h = job[p].h,
         j.pc \in Owning => job[p].pc \in Owning,
         j.pc \in BeforeBus => job[p].pc \in BeforeBus,
         \A k \in Slots : job[p].h.idx = k /\ j.pc \in Owning =>
           /\ gen'[k] = gen[k]
           /\ j.pc \in BeforeBus => Debtors(k)' = Debtors(k)
           /\ j.pc \notin {"owned", "mapped"} => buf'[k] = j.pay
           /\ j.pc \notin {"owned", "mapped", "filled"} => len'[k] = BufSize
  PROVE  JobLease(p)'
<1>1. job'[p] = j
  BY DEF TypeInv, BusTypeOK
<1>2. JobLease(p)
  BY DEF LeaseInv
<1>3. /\ j.ev \in Posts[p]
      /\ ~IsLease(j.ev) => j.h.idx = NoSlot
      /\ IsLease(j.ev) => j.h.idx \in Slots
  BY <1>2 DEF JobLease
<1>4. ASSUME NEW i \in Slots, j.pc \in Owning, j.h.idx = i
      PROVE  /\ gen'[i] = j.h.gen
             /\ j.pc \in BeforeBus => Debtors(i)' = {<<"producer", p>>}
             /\ j.pc \notin {"owned", "mapped"} => buf'[i] = j.pay
             /\ j.pc \notin {"owned", "mapped", "filled"} => len'[i] = BufSize
  <2>1. job[p].pc \in Owning /\ job[p].h.idx = i
    BY <1>4
  <2>2. gen[i] = job[p].h.gen /\ (job[p].pc \in BeforeBus => Debtors(i) = {<<"producer", p>>})
    BY <1>2, <2>1 DEF JobLease
  <2> QED BY <1>4, <2>1, <2>2
<1> QED BY <1>1, <1>3, <1>4 DEF JobLease

LEMMA SilentJob ==
  ASSUME TypeInv, TypeInv', LeaseInv, NEW p \in Posters, job[p] # NoJob,
         NEW j, job' = [job EXCEPT ![p] = j],
         j.ev = job[p].ev, j.h = job[p].h, j.pay = job[p].pay,
         j.pc \in Owning <=> job[p].pc \in Owning,
         j.pc \in {"retained", "undo"} <=> job[p].pc \in {"retained", "undo"},
         j.pc \in BeforeBus => job[p].pc \in BeforeBus,
         j.pc \notin {"owned", "mapped"} => job[p].pc \notin {"owned", "mapped"},
         j.pc \notin {"owned", "mapped", "filled"} => job[p].pc \notin {"owned", "mapped", "filled"},
         UNCHANGED <<gen, refcnt, len, buf, aborted, queue, hold>>
  PROVE  LeaseInv'
<1>1. ASSUME NEW k PROVE Debtors(k)' = Debtors(k)
  BY SameJobDebtors DEF TypeInv
<1>2. ASSUME NEW k \in Slots, job[p].h.idx = k, j.pc \in Owning
      PROVE  /\ gen'[k] = gen[k]
             /\ j.pc \in BeforeBus => Debtors(k)' = Debtors(k)
             /\ j.pc \notin {"owned", "mapped"} => buf'[k] = j.pay
             /\ j.pc \notin {"owned", "mapped", "filled"} => len'[k] = BufSize
  BY <1>1, <1>2 DEF LeaseInv, JobLease
<1>3. JobLease(p)'
  BY <1>2, SameLease
<1>4. \A r \in Posters : job'[r] = job[r] \/ JobLease(r)'
  BY <1>3 DEF TypeInv, BusTypeOK
<1>5. \A q \in Queues : Carried(q)' = Carried(q)
  BY DEF Carried, InQueue
<1> QED BY <1>1, <1>4, <1>5, StillFrame

LEMMA MapLease ==
  ASSUME TypeInv, TypeInv', LeaseInv, NEW p \in Posters, Map(p)
  PROVE  LeaseInv'
<1>1. job[p].pc = "owned" /\ Acquire(job[p].h) /\ SetPc(p, "mapped")
  BY DEF Map
<1>2. job[p] \in Jobs /\ job[p] # NoJob /\ BusTypeOK /\ Inv
  BY <1>1, BusyJob DEF TypeInv
<1>3. /\ job' = [job EXCEPT ![p] = MovedTo(p, "mapped")]
      /\ MovedTo(p, "mapped") = [pc |-> "mapped", ev |-> job[p].ev, h |-> job[p].h, pay |-> job[p].pay,
                                 todo |-> job[p].todo, ok |-> job[p].ok, bad |-> job[p].bad]
  BY <1>1, <1>2, SetPcIs
<1>4. UNCHANGED <<gen, refcnt, len, buf, aborted>>
  <2>1. Live(job[p].h)
    BY <1>1 DEF Acquire
  <2> QED BY <1>1, <1>2, <2>1, GoodAcquire
<1>5. UNCHANGED <<queue, hold>>
  BY DEF Map
<1> DEFINE j == MovedTo(p, "mapped")
<1>6. j.pc = "mapped" /\ j.ev = job[p].ev /\ j.h = job[p].h /\ j.pay = job[p].pay
  BY <1>3
<1> HIDE DEF j
<1> QED BY <1>1, <1>2, <1>3, <1>4, <1>5, <1>6, SilentJob DEF BeforeBus, Owning

LEMMA SkipLease ==
  ASSUME TypeInv, TypeInv', LeaseInv, NEW p \in Posters, SkipCleared(p)
  PROVE  LeaseInv'
<1>1. job[p].pc = "loop"
  BY DEF SkipCleared
<1>2. job[p] \in Jobs /\ job[p] # NoJob /\ BusTypeOK
  BY <1>1, BusyJob DEF TypeInv
<1> DEFINE j == [job[p] EXCEPT !.todo = Tail(@)]
<1>3. job' = [job EXCEPT ![p] = j]
  BY <1>2 DEF SkipCleared, BusTypeOK
<1>4. j.pc = "loop" /\ j.ev = job[p].ev /\ j.h = job[p].h /\ j.pay = job[p].pay
  BY <1>1, <1>2 DEF Jobs
<1>5. UNCHANGED <<gen, refcnt, len, buf, aborted, queue, hold>>
  BY DEF SkipCleared, poolVars
<1> HIDE DEF j
<1> QED BY <1>1, <1>2, <1>3, <1>4, <1>5, SilentJob DEF BeforeBus, Owning

LEMMA PostLeaseLease ==
  ASSUME TypeInv, TypeInv', LeaseInv, NEW p \in Posters, PostLease(p)
  PROVE  LeaseInv'
<1>1. job[p].pc = "ready"
  BY DEF PostLease
<1>2. job[p] \in Jobs /\ job[p] # NoJob /\ BusTypeOK
  BY <1>1, BusyJob DEF TypeInv
<1>3. UNCHANGED <<gen, refcnt, len, buf, aborted, queue, hold>>
  BY DEF PostLease, poolVars
<1>4. CASE UNCHANGED job
  <2>1. job' = [job EXCEPT ![p] = job[p]]
    BY <1>2, <1>4 DEF BusTypeOK
  <2> QED BY <1>2, <1>3, <2>1, SilentJob
<1>5. CASE job' = [job EXCEPT ![p].pc = "loop", ![p].todo = Snapshot]
  <2> DEFINE j == [job[p] EXCEPT !.pc = "loop", !.todo = Snapshot]
  <2>1. job' = [job EXCEPT ![p] = j]
    BY <1>2, <1>5 DEF BusTypeOK
  <2>2. j.pc = "loop" /\ j.ev = job[p].ev /\ j.h = job[p].h /\ j.pay = job[p].pay
    BY <1>2 DEF Jobs
  <2> HIDE DEF j
  <2> QED BY <1>1, <1>2, <1>3, <2>1, <2>2, SilentJob DEF BeforeBus, Owning
<1> QED BY <1>4, <1>5 DEF PostLease

LEMMA FullLease ==
  ASSUME TypeInv, TypeInv', LeaseInv, NEW p \in Posters, job[p].pc = "retained",
         SetPc(p, "undo"), UNCHANGED <<poolVars, queue, hold>>
  PROVE  LeaseInv'
<1>2. job[p] \in Jobs /\ job[p] # NoJob /\ BusTypeOK
  BY BusyJob DEF TypeInv
<1>3. /\ job' = [job EXCEPT ![p] = MovedTo(p, "undo")]
      /\ MovedTo(p, "undo") = [pc |-> "undo", ev |-> job[p].ev, h |-> job[p].h, pay |-> job[p].pay,
                               todo |-> job[p].todo, ok |-> job[p].ok, bad |-> job[p].bad]
  BY <1>2, SetPcIs
<1> DEFINE j == MovedTo(p, "undo")
<1>4. j.pc = "undo" /\ j.ev = job[p].ev /\ j.h = job[p].h /\ j.pay = job[p].pay
  BY <1>3
<1>5. UNCHANGED <<gen, refcnt, len, buf, aborted, queue, hold>>
  BY DEF poolVars
<1> HIDE DEF j
<1> QED BY <1>2, <1>3, <1>4, <1>5, SilentJob DEF BeforeBus, Owning

(* Before the post, the producer is the only one that looks at the slot.   *)
LEMMA SoleOwner ==
  ASSUME TypeInv, LeaseInv, NEW p \in Posters, job[p].pc \in BeforeBus,
         NEW i, i = job[p].h.idx
  PROVE  /\ job[p] \in Jobs /\ job[p] # NoJob /\ IsLease(job[p].ev) /\ Live(job[p].h)
         /\ i \in Slots /\ Debtors(i) = {<<"producer", p>>} /\ refcnt[i] > 0
         /\ \A r \in Posters : r # p /\ job[r].pc \in Owning => job[r].h.idx # i
         /\ \A q \in Queues : \A m \in Carried(q) : HasLease(m) => m.h.idx # i
<1>1. job[p] \in Jobs /\ job[p] # NoJob
  BY BusyJob DEF TypeInv, BeforeBus
<1>2. IsLease(job[p].ev) /\ job[p].pc \in Owning
  BY <1>1 DEF TypeInv, Shape, BeforeBus, Owning
<1>3. i \in Slots /\ Live(job[p].h) /\ refcnt[i] > 0
  BY <1>2, JobHolds DEF Live
<1>4. Debtors(i) = {<<"producer", p>>}
  BY <1>1, <1>2, <1>3 DEF LeaseInv, JobLease
<1>5. ASSUME NEW r \in Posters, r # p, job[r].pc \in Owning PROVE job[r].h.idx # i
  <2>1. SUFFICES ASSUME job[r].h.idx = i PROVE FALSE
    OBVIOUS
  <2>2. <<"producer", r>> \in Debtors(i)
    BY <1>5, <2>1, DebtorMember DEF Owes
  <2> QED BY <1>4, <1>5, <2>2
<1>6. ASSUME NEW q \in Queues, NEW m \in Carried(q), HasLease(m) PROVE m.h.idx # i
  <2>1. SUFFICES ASSUME m.h.idx = i PROVE FALSE
    OBVIOUS
  <2>2. <<"mail", <<q, m>>>> \in Debtors(i)
    BY <1>6, <2>1, DebtorMember DEF Owes
  <2> QED BY <1>4, <2>2
<1> QED BY <1>1, <1>2, <1>3, <1>4, <1>5, <1>6

LEMMA OwnerWrites ==
  ASSUME TypeInv, TypeInv', LeaseInv, NEW p \in Posters, job[p].pc \in BeforeBus,
         NEW i, i = job[p].h.idx,
         NEW j, job' = [job EXCEPT ![p] = j], j.pc \in BeforeBus, j.ev = job[p].ev, j.h = job[p].h,
         UNCHANGED <<gen, refcnt, aborted, queue, hold>>,
         \A k \in Slots : k # i => SlotKept(k),
         j.pc \notin {"owned", "mapped"} => buf'[i] = j.pay,
         j.pc \notin {"owned", "mapped", "filled"} => len'[i] = BufSize
  PROVE  LeaseInv'
<1>1. /\ job[p] \in Jobs /\ job[p] # NoJob /\ IsLease(job[p].ev)
      /\ i \in Slots /\ Debtors(i) = {<<"producer", p>>} /\ refcnt[i] > 0
      /\ \A r \in Posters : r # p /\ job[r].pc \in Owning => job[r].h.idx # i
      /\ \A q \in Queues : \A m \in Carried(q) : HasLease(m) => m.h.idx # i
  BY SoleOwner
<1>2. ASSUME NEW k PROVE Debtors(k)' = Debtors(k)
  BY SameJobDebtors DEF TypeInv, BeforeBus, Owning
<1>3. JobLease(p)'
  <2>1. j.pc \in Owning /\ job[p].pc \in Owning
    BY DEF BeforeBus, Owning
  <2> QED BY <1>1, <1>2, <2>1, SameLease
<1>4. \A r \in Posters : r # p => job'[r] = job[r]
  BY DEF TypeInv, BusTypeOK
<1>5. \A q \in Queues : Carried(q)' = Carried(q)
  BY DEF Carried, InQueue
<1>6. Running'
  BY DEF LeaseInv, Running
<1>7. \A k \in Slots : IsFiniteSet(Debtors(k)') /\ refcnt'[k] = Cardinality(Debtors(k)')
  BY <1>2 DEF LeaseInv
<1>8. Guard => \A k \in Slots : refcnt'[k] = 0 => buf'[k] = PoisonFree
  BY <1>1 DEF LeaseInv, SlotKept
<1>9. \A r \in Posters :
        \/ JobLease(r)'
        \/ /\ job'[r] = job[r]
           /\ \A k \in Slots : job[r].pc \in Owning /\ job[r].h.idx = k =>
                SlotKept(k) /\ (job[r].pc \in BeforeBus => Debtors(k)' = Debtors(k))
  BY <1>1, <1>2, <1>3, <1>4
<1>10. \A q \in Queues : \A m \in Carried(q)' : m # NoMsg =>
         MailLease(q, m)' \/ (m \in Carried(q) /\ (IsLease(m.ev) => SlotKept(m.h.idx)))
  <2>1. \A q \in Queues : \A m \in Carried(q) : HasLease(m) => m.h.idx \in Slots
    BY MailHolds
  <2> QED BY <1>1, <1>5, <2>1 DEF HasLease
<1> QED BY <1>6, <1>7, <1>8, <1>9, <1>10, LeaseFrame

LEMMA FillLease ==
  ASSUME TypeInv, TypeInv', LeaseInv, NEW p \in Posters, Fill(p)
  PROVE  LeaseInv'
<1>1. job[p].pc = "mapped" /\ WriteView(job[p].h.idx, p) /\ UNCHANGED <<queue, hold>>
  BY DEF Fill
<1>2. PICK i : i = job[p].h.idx
  OBVIOUS
<1>3. job[p] \in Jobs /\ i \in Slots
  BY <1>1, <1>2, SoleOwner DEF BeforeBus
<1> DEFINE j == [job[p] EXCEPT !.pc = "filled", !.pay = p]
<1>4. job' = [job EXCEPT ![p] = j]
  BY <1>3 DEF Fill, TypeInv, BusTypeOK
<1>5. j.pc = "filled" /\ j.ev = job[p].ev /\ j.h = job[p].h /\ j.pay = p
  BY <1>3 DEF Jobs
<1>6. buf' = [buf EXCEPT ![i] = p] /\ UNCHANGED <<gen, refcnt, len, aborted>>
  BY <1>1, <1>2 DEF WriteView
<1>7. buf \in [Slots -> Contents]
  BY DEF TypeInv, Inv, TypeOK
<1>8. buf'[i] = p /\ \A k \in Slots : k # i => SlotKept(k)
  BY <1>3, <1>6, <1>7 DEF SlotKept
<1>9. job[p].pc \in BeforeBus /\ UNCHANGED <<queue, hold>>
  BY <1>1 DEF BeforeBus
<1> HIDE DEF j
<1>10. /\ j.pc \in BeforeBus
       /\ j.pc \notin {"owned", "mapped"} => buf'[i] = j.pay
       /\ j.pc \notin {"owned", "mapped", "filled"} => len'[i] = BufSize
  BY <1>5, <1>8 DEF BeforeBus
<1>11. UNCHANGED <<gen, refcnt, aborted, queue, hold>>
  BY <1>6, <1>9
<1> QED BY <1>2, <1>4, <1>5, <1>8, <1>9, <1>10, <1>11, OwnerWrites

LEMMA PublishLease ==
  ASSUME TypeInv, TypeInv', LeaseInv, NEW p \in Posters, Publish(p)
  PROVE  LeaseInv'
<1>1. /\ job[p].pc = "filled" /\ Commit(job[p].h, BufSize) /\ SetPc(p, "ready")
      /\ UNCHANGED <<queue, hold>>
  BY DEF Publish
<1>2. PICK i : i = job[p].h.idx
  OBVIOUS
<1>3. job[p] \in Jobs /\ job[p] # NoJob /\ IsLease(job[p].ev) /\ i \in Slots /\ Live(job[p].h)
  BY <1>1, <1>2, SoleOwner DEF BeforeBus
<1>4. len' = [len EXCEPT ![i] = BufSize] /\ UNCHANGED <<gen, refcnt, buf, aborted>>
  BY <1>1, <1>2, <1>3, GoodCommit DEF TypeInv
<1>5. /\ job' = [job EXCEPT ![p] = MovedTo(p, "ready")]
      /\ MovedTo(p, "ready") = [pc |-> "ready", ev |-> job[p].ev, h |-> job[p].h, pay |-> job[p].pay,
                                todo |-> job[p].todo, ok |-> job[p].ok, bad |-> job[p].bad]
  BY <1>1, <1>3, SetPcIs DEF TypeInv
<1> DEFINE j == MovedTo(p, "ready")
<1>6. j.pc = "ready" /\ j.ev = job[p].ev /\ j.h = job[p].h /\ j.pay = job[p].pay
  BY <1>5
<1>7. len \in [Slots -> 0 .. BufSize]
  BY DEF TypeInv, Inv, TypeOK
<1>8. len'[i] = BufSize /\ \A k \in Slots : k # i => SlotKept(k)
  BY <1>3, <1>4, <1>7 DEF SlotKept
<1>9. buf'[i] = job[p].pay
  BY <1>1, <1>2, <1>3, <1>4 DEF LeaseInv, JobLease, Owning
<1>10. job[p].pc \in BeforeBus /\ job' = [job EXCEPT ![p] = j]
  BY <1>1, <1>5 DEF BeforeBus
<1> HIDE DEF j
<1>11. /\ j.pc \in BeforeBus
       /\ j.pc \notin {"owned", "mapped"} => buf'[i] = j.pay
       /\ j.pc \notin {"owned", "mapped", "filled"} => len'[i] = BufSize
  <2>1. buf'[i] = j.pay
    BY <1>4, <1>6, <1>9
  <2> QED BY <2>1, <1>6, <1>8 DEF BeforeBus
<1>12. UNCHANGED <<gen, refcnt, aborted, queue, hold>>
  BY <1>1, <1>4
<1> QED BY <1>2, <1>6, <1>8, <1>10, <1>11, <1>12, OwnerWrites

LEMMA BeginLease ==
  ASSUME TypeInv, TypeInv', LeaseInv, NEW p \in Posters, NEW e \in Posts[p], Begin(p, e)
  PROVE  LeaseInv'
<1> DEFINE j == [pc |-> "loop", ev |-> e, h |-> [idx |-> NoSlot, gen |-> 0],
                 pay |-> "00", todo |-> Snapshot, ok |-> 0, bad |-> 0]
<1>1. job' = [job EXCEPT ![p] = j] /\ ~IsLease(e) /\ job[p].pc = "idle"
  BY DEF Begin
<1>2. UNCHANGED <<gen, refcnt, len, buf, aborted, queue, hold>>
  BY DEF Begin, poolVars
<1>3. NoSlot \notin Slots /\ j.h.idx = NoSlot /\ j.ev = e
  BY PoolAssumption DEF NoSlot, Slots
<1> HIDE DEF j
<1>4. \A q \in Queues : Carried(q)' = Carried(q)
  BY <1>2 DEF Carried, InQueue
<1>5. ASSUME NEW k \in Slots PROVE Debtors(k)' = Debtors(k)
  <2>1. \A x : x \in Debtors(k)' <=>
          \/ x \in Debtors(k) /\ x # <<"producer", p>> /\ x # <<"broadcast", p>>
          \/ x = <<"producer", p>> /\ j.pc \in Owning /\ j.h.idx = k
          \/ x = <<"broadcast", p>> /\ j.pc \in {"retained", "undo"} /\ j.h.idx = k
    BY <1>1, <1>4, JobDebtors DEF TypeInv
  <2>2. <<"producer", p>> \notin Debtors(k) /\ <<"broadcast", p>> \notin Debtors(k)
    BY <1>1, DebtorMember DEF Owes, Owning
  <2>3. \A x : x \in Debtors(k)' <=> x \in Debtors(k)
    BY <1>3, <2>1, <2>2
  <2> QED BY <2>3
<1>6. job'[p] = j /\ \A r \in Posters : r # p => job'[r] = job[r]
  BY <1>1 DEF TypeInv, BusTypeOK
<1>7. JobLease(p)'
  BY <1>1, <1>3, <1>6 DEF JobLease
<1> QED BY <1>2, <1>4, <1>5, <1>6, <1>7, StillFrame

LEMMA AllocLease ==
  ASSUME TypeInv, TypeInv', LeaseInv, NEW p \in Posters, NEW e \in Posts[p], Alloc(p, e)
  PROVE  LeaseInv'
<1> DEFINE j == [pc |-> "owned", ev |-> e, h |-> NextHandle,
                 pay |-> "00", todo |-> <<>>, ok |-> 0, bad |-> 0]
<1>1. /\ job[p].pc = "idle" /\ IsLease(e) /\ AllocTry(BufSize) /\ UNCHANGED <<queue, hold>>
      /\ job' = IF freeTop = 0 THEN job ELSE [job EXCEPT ![p] = j]
  BY DEF Alloc
<1>2. \A q \in Queues : Carried(q)' = Carried(q)
  BY <1>1 DEF Carried, InQueue
<1>3. /\ aborted' = "no"
      /\ freeTop = 0 => UNCHANGED <<gen, refcnt, len, buf>>
      /\ freeTop # 0 =>
           /\ NextSlot \in Slots /\ refcnt[NextSlot] = 0
           /\ refcnt' = [refcnt EXCEPT ![NextSlot] = 1] /\ gen' = gen
           /\ \A k \in Slots : k # NextSlot => SlotKept(k)
  <2>1. Inv /\ Running /\ (Guard => \A i \in Slots : refcnt[i] = 0 => buf[i] = PoisonFree)
    BY DEF TypeInv, LeaseInv
  <2> QED BY <1>1, <2>1, GoodAlloc
<1>4. CASE freeTop = 0
  <2>1. UNCHANGED <<gen, refcnt, len, buf, aborted, job>>
    BY <1>1, <1>3, <1>4 DEF LeaseInv, Running
  <2>2. \A k \in Slots : Debtors(k)' = Debtors(k)
    BY <1>1, <2>1 DEF Debtors, Producers, Broadcasts, Mails, Carried, InQueue
  <2> QED BY <1>2, <2>1, <2>2, StillFrame
<1>5. CASE freeTop # 0
  <2> PICK n \in Slots : n = NextSlot
    BY <1>3, <1>5
  <2>1. /\ refcnt[n] = 0 /\ refcnt' = [refcnt EXCEPT ![n] = 1] /\ gen' = gen
        /\ \A k \in Slots : k # n => SlotKept(k)
    BY <1>3, <1>5
  <2>2. job' = [job EXCEPT ![p] = j]
    BY <1>1, <1>5
  <2>3. j.pc = "owned" /\ j.ev = e /\ j.h.idx = n /\ j.h.gen = gen[n]
    BY DEF NextHandle
  <2> HIDE DEF j
  <2>4. Debtors(n) = {}
    <3>1. IsFiniteSet(Debtors(n)) /\ Cardinality(Debtors(n)) = 0
      BY <2>1 DEF LeaseInv
    <3> QED BY <3>1, FS_EmptySet
  <2>5. ASSUME NEW k \in Slots
        PROVE  Debtors(k)' = IF k = n THEN {<<"producer", p>>} ELSE Debtors(k)
    <3>1. \A x : x \in Debtors(k)' <=>
            \/ x \in Debtors(k) /\ x # <<"producer", p>> /\ x # <<"broadcast", p>>
            \/ x = <<"producer", p>> /\ j.pc \in Owning /\ j.h.idx = k
            \/ x = <<"broadcast", p>> /\ j.pc \in {"retained", "undo"} /\ j.h.idx = k
      BY <1>2, <2>2, JobDebtors DEF TypeInv
    <3>2. <<"producer", p>> \notin Debtors(k) /\ <<"broadcast", p>> \notin Debtors(k)
      BY <1>1, DebtorMember DEF Owes, Owning
    <3>3. j.pc \in Owning /\ j.pc \notin {"retained", "undo"}
      BY <2>3 DEF Owning
    <3>4. \A x : x \in Debtors(k)' <=> x \in Debtors(k) \/ (x = <<"producer", p>> /\ k = n)
      BY <2>3, <3>1, <3>2, <3>3
    <3> QED BY <2>4, <3>4
  <2>6. refcnt \in [Slots -> 0 .. RefMax]
    BY DEF TypeInv, Inv, TypeOK
  <2>7. ASSUME NEW k \in Slots PROVE IsFiniteSet(Debtors(k)') /\ refcnt'[k] = Cardinality(Debtors(k)')
    <3>1. CASE k = n
      BY <2>1, <2>5, <2>6, <3>1, FS_Singleton
    <3>2. CASE k # n
      BY <2>1, <2>5, <2>6, <3>2 DEF LeaseInv
    <3> QED BY <3>1, <3>2
  <2>8. Guard => \A k \in Slots : refcnt'[k] = 0 => buf'[k] = PoisonFree
    BY <2>1, <2>6 DEF LeaseInv, SlotKept
  <2>9. job'[p] = j /\ \A r \in Posters : r # p => job'[r] = job[r]
    BY <2>2 DEF TypeInv, BusTypeOK
  <2>10. JobLease(p)'
    <3>1. j.pc \in BeforeBus /\ j.pc \in {"owned", "mapped"} /\ j.ev \in Posts[p] /\ IsLease(j.ev)
      BY <1>1, <2>3 DEF BeforeBus
    <3>2. ASSUME NEW i \in Slots, j.h.idx = i
          PROVE  gen'[i] = j.h.gen /\ Debtors(i)' = {<<"producer", p>>}
      BY <2>1, <2>3, <2>5, <3>2
    <3>3. j.h.idx \in Slots
      BY <2>3
    <3> QED BY <2>9, <3>1, <3>2, <3>3 DEF JobLease
  <2>11. ASSUME NEW r \in Posters, r # p, NEW k \in Slots, job[r].pc \in Owning, job[r].h.idx = k
         PROVE  SlotKept(k) /\ Debtors(k)' = Debtors(k)
    <3>1. <<"producer", r>> \in Debtors(k)
      BY <2>11, DebtorMember DEF Owes
    <3>2. k # n
      BY <2>4, <3>1
    <3> QED BY <2>1, <2>5, <3>2
  <2>12. ASSUME NEW q \in Queues, NEW m \in Carried(q), HasLease(m)
         PROVE  SlotKept(m.h.idx)
    <3>1. PICK k \in Slots : k = m.h.idx
      BY <2>12, MailHolds
    <3>2. <<"mail", <<q, m>>>> \in Debtors(k)
      BY <2>12, <3>1, DebtorMember DEF Owes
    <3>3. k # n
      BY <2>4, <3>2
    <3> QED BY <2>1, <3>1, <3>3
  <2>13. Running'
    BY <1>3 DEF Running
  <2>14. \A r \in Posters :
           \/ JobLease(r)'
           \/ /\ job'[r] = job[r]
              /\ \A k \in Slots : job[r].pc \in Owning /\ job[r].h.idx = k =>
                   SlotKept(k) /\ (job[r].pc \in BeforeBus => Debtors(k)' = Debtors(k))
    BY <2>9, <2>10, <2>11
  <2>15. \A q \in Queues : \A m \in Carried(q)' : m # NoMsg =>
           MailLease(q, m)' \/ (m \in Carried(q) /\ (IsLease(m.ev) => SlotKept(m.h.idx)))
    BY <1>2, <2>12 DEF HasLease
  <2> QED BY <2>7, <2>8, <2>13, <2>14, <2>15, LeaseFrame
<1> QED BY <1>4, <1>5

LEMMA RetainLease ==
  ASSUME LeaseClients, TypeInv, TypeInv', LeaseInv, NEW p \in Posters, Retain(p)
  PROVE  LeaseInv'
<1>1. /\ job[p].pc = "loop" /\ IsLease(job[p].ev) /\ AddRefN(job[p].h, 1) /\ SetPc(p, "retained")
      /\ UNCHANGED <<queue, hold>>
  BY DEF Retain, AtQueue
<1>2. /\ job[p] \in Jobs /\ job[p] # NoJob /\ Live(job[p].h)
      /\ job[p].h.idx \in Slots /\ <<"producer", p>> \in Debtors(job[p].h.idx)
  BY <1>1, JobHolds DEF Owning
<1> PICK i \in Slots : i = job[p].h.idx
  BY <1>2
<1>3. <<"broadcast", p>> \notin Debtors(i)
  BY <1>1, DebtorMember DEF Owes
<1>4. /\ IsFiniteSet(Debtors(i)) /\ Cardinality(Debtors(i)) \in Nat /\ Cardinality(Parties) \in Nat
      /\ Cardinality(Debtors(i)) < Cardinality(Parties)
  BY <1>3, DebtorsFit DEF TypeInv
<1>5. refcnt[i] = Cardinality(Debtors(i)) /\ refcnt[i] < RefMax
  <2>1. refcnt[i] = Cardinality(Debtors(i)) /\ Cardinality(Parties) <= RefMax /\ RefMax \in Nat
    BY PoolAssumption DEF LeaseInv, LeaseClients
  <2> QED BY <1>4, <2>1
<1>6. /\ refcnt' = [refcnt EXCEPT ![i] = refcnt[i] + 1]
      /\ UNCHANGED <<gen, len, buf, aborted>>
  BY <1>1, <1>2, <1>5, GoodAddRef DEF TypeInv
<1>7. /\ job' = [job EXCEPT ![p] = MovedTo(p, "retained")]
      /\ MovedTo(p, "retained") = [pc |-> "retained", ev |-> job[p].ev, h |-> job[p].h,
                                   pay |-> job[p].pay, todo |-> job[p].todo,
                                   ok |-> job[p].ok, bad |-> job[p].bad]
  BY <1>1, <1>2, SetPcIs DEF TypeInv
<1> DEFINE j == MovedTo(p, "retained")
<1>8. /\ j.pc = "retained" /\ j.ev = job[p].ev /\ j.h = job[p].h /\ j.pay = job[p].pay
      /\ job' = [job EXCEPT ![p] = j]
  BY <1>7
<1> HIDE DEF j
<1>9. \A q \in Queues : Carried(q)' = Carried(q)
  BY <1>1 DEF Carried, InQueue
<1>10. ASSUME NEW k \in Slots
       PROVE  Debtors(k)' = IF k = i THEN Debtors(i) \cup {<<"broadcast", p>>} ELSE Debtors(k)
  <2>1. \A x : x \in Debtors(k)' <=>
          \/ x \in Debtors(k) /\ x # <<"producer", p>> /\ x # <<"broadcast", p>>
          \/ x = <<"producer", p>> /\ j.pc \in Owning /\ j.h.idx = k
          \/ x = <<"broadcast", p>> /\ j.pc \in {"retained", "undo"} /\ j.h.idx = k
    BY <1>8, <1>9, JobDebtors DEF TypeInv
  <2>2. <<"producer", p>> \in Debtors(k) <=> k = i
    BY <1>1, DebtorMember DEF Owes, Owning
  <2>3. <<"broadcast", p>> \notin Debtors(k)
    BY <1>1, DebtorMember DEF Owes
  <2>4. j.pc \in Owning /\ j.pc \in {"retained", "undo"} /\ (j.h.idx = k <=> k = i)
    BY <1>8 DEF Owning
  <2>5. \A x : x \in Debtors(k)' <=> x \in Debtors(k) \/ (x = <<"broadcast", p>> /\ k = i)
    BY <2>1, <2>2, <2>3, <2>4
  <2> QED BY <2>5
<1>11. refcnt \in [Slots -> 0 .. RefMax]
  BY DEF TypeInv, Inv, TypeOK
<1>12. ASSUME NEW k \in Slots PROVE IsFiniteSet(Debtors(k)') /\ refcnt'[k] = Cardinality(Debtors(k)')
  <2>1. CASE k = i
    <3>1. /\ IsFiniteSet(Debtors(i) \cup {<<"broadcast", p>>})
          /\ Cardinality(Debtors(i) \cup {<<"broadcast", p>>}) = Cardinality(Debtors(i)) + 1
      BY <1>3, <1>4, FS_AddElement
    <3> QED BY <1>5, <1>6, <1>10, <1>11, <2>1, <3>1
  <2>2. CASE k # i
    BY <1>6, <1>10, <1>11, <2>2 DEF LeaseInv
  <2> QED BY <2>1, <2>2
<1>13. Guard => \A k \in Slots : refcnt'[k] = 0 => buf'[k] = PoisonFree
  <2>1. refcnt[i] + 1 # 0
    BY <1>4, <1>5
  <2> QED BY <1>6, <1>11, <2>1 DEF LeaseInv
<1>14. \A k \in Slots : SlotKept(k)
  BY <1>6 DEF SlotKept
<1>15. \A r \in Posters : r # p => job'[r] = job[r]
  BY <1>7 DEF TypeInv, BusTypeOK
<1>16. JobLease(p)'
  <2>1. job[p].pc \in Owning /\ j.pc \notin BeforeBus
    BY <1>1, <1>8 DEF Owning, BeforeBus
  <2>2. ASSUME NEW k \in Slots, job[p].h.idx = k
        PROVE  gen'[k] = gen[k] /\ buf'[k] = j.pay /\ len'[k] = BufSize
    BY <1>1, <1>2, <1>6, <1>8, <2>1, <2>2 DEF LeaseInv, JobLease
  <2> QED BY <1>2, <1>8, <2>1, <2>2, SameLease
<1>17. ASSUME NEW r \in Posters, r # p, NEW k \in Slots, job[r].pc \in BeforeBus, job[r].h.idx = k
       PROVE  Debtors(k)' = Debtors(k)
  <2>1. job[p].pc \in Owning
    BY <1>1 DEF Owning
  <2>2. job[p].h.idx # k
    BY <1>17, <2>1, SoleOwner
  <2> QED BY <1>10, <2>2
<1>18. Running'
  BY <1>6 DEF LeaseInv, Running
<1>19. \A r \in Posters :
         \/ JobLease(r)'
         \/ /\ job'[r] = job[r]
            /\ \A k \in Slots : job[r].pc \in Owning /\ job[r].h.idx = k =>
                 SlotKept(k) /\ (job[r].pc \in BeforeBus => Debtors(k)' = Debtors(k))
  BY <1>14, <1>15, <1>16, <1>17
<1>20. \A q \in Queues : \A m \in Carried(q)' : m # NoMsg =>
         MailLease(q, m)' \/ (m \in Carried(q) /\ (IsLease(m.ev) => SlotKept(m.h.idx)))
  BY <1>6, <1>9 DEF SlotKept
<1> QED BY <1>12, <1>13, <1>18, <1>19, <1>20, LeaseFrame

LEMMA UndoLease ==
  ASSUME TypeInv, TypeInv', LeaseInv, NEW p \in Posters, UndoRetain(p)
  PROVE  LeaseInv'
<1>1. /\ job[p].pc = "undo" /\ Release(job[p].h) /\ Advance(p, FALSE) /\ UNCHANGED <<queue, hold>>
  BY DEF UndoRetain
<1>2. /\ job[p] \in Jobs /\ job[p] # NoJob /\ IsLease(job[p].ev) /\ job[p].todo # <<>> /\ BusTypeOK
  BY <1>1, BusyJob DEF TypeInv, Shape
<1>3. Live(job[p].h) /\ job[p].h.idx \in Slots
  BY <1>1, <1>2, JobHolds DEF Owning
<1> PICK i \in Slots : i = job[p].h.idx
  BY <1>3
<1>4. <<"broadcast", p>> \in Debtors(i) /\ <<"producer", p>> \in Debtors(i)
  BY <1>1, DebtorMember DEF Owes, Owning
<1>5. /\ refcnt' = [refcnt EXCEPT ![i] = refcnt[i] - 1] /\ aborted' = "no"
      /\ \A k \in Slots : k # i \/ refcnt[k] > 1 => SlotKept(k)
      /\ Guard /\ refcnt[i] = 1 => buf'[i] = PoisonFree
  BY <1>1, <1>3, GoodRelease DEF TypeInv
<1> DEFINE j == Advanced(p, FALSE)
<1>6. job' = [job EXCEPT ![p] = j] /\ j.pc = "loop" /\ j.ev = job[p].ev /\ j.h = job[p].h
      /\ j.pay = job[p].pay
  BY <1>1, <1>2, AdvanceIs DEF Advanced
<1> HIDE DEF j
<1>7. \A q \in Queues : Carried(q)' = Carried(q)
  BY <1>1 DEF Carried, InQueue
<1>8. ASSUME NEW k \in Slots
      PROVE  Debtors(k)' = IF k = i THEN Debtors(i) \ {<<"broadcast", p>>} ELSE Debtors(k)
  <2>1. \A x : x \in Debtors(k)' <=>
          \/ x \in Debtors(k) /\ x # <<"producer", p>> /\ x # <<"broadcast", p>>
          \/ x = <<"producer", p>> /\ j.pc \in Owning /\ j.h.idx = k
          \/ x = <<"broadcast", p>> /\ j.pc \in {"retained", "undo"} /\ j.h.idx = k
    BY <1>6, <1>7, JobDebtors DEF TypeInv
  <2>2. <<"producer", p>> \in Debtors(k) <=> k = i
    BY <1>1, DebtorMember DEF Owes, Owning
  <2>3. <<"broadcast", p>> \in Debtors(k) <=> k = i
    BY <1>1, DebtorMember DEF Owes
  <2>4. j.pc \in Owning /\ j.pc \notin {"retained", "undo"} /\ (j.h.idx = k <=> k = i)
    BY <1>6 DEF Owning
  <2>5. \A x : x \in Debtors(k)' <=> x \in Debtors(k) /\ x # <<"broadcast", p>>
    BY <2>1, <2>2, <2>3, <2>4
  <2> QED BY <2>3, <2>5
<1>9. SlotKept(i)
  <2>1. IsFiniteSet(Debtors(i)) /\ refcnt[i] = Cardinality(Debtors(i))
    BY DEF LeaseInv
  <2>2. /\ IsFiniteSet(Debtors(i) \ {<<"broadcast", p>>})
        /\ Cardinality(Debtors(i) \ {<<"broadcast", p>>}) = Cardinality(Debtors(i)) - 1
    BY <1>4, <2>1, FS_RemoveElement
  <2>3. <<"producer", p>> \in Debtors(i) \ {<<"broadcast", p>>}
    BY <1>4
  <2>4. /\ Cardinality(Debtors(i) \ {<<"broadcast", p>>}) \in Nat
        /\ Cardinality(Debtors(i) \ {<<"broadcast", p>>}) # 0 /\ Cardinality(Debtors(i)) \in Nat
    BY <2>1, <2>2, <2>3, FS_EmptySet, FS_CardinalityType
  <2> QED BY <1>5, <2>1, <2>2, <2>4
<1>10. JobLease(p)'
  <2>1. job[p].pc \in Owning /\ j.pc \notin BeforeBus
    BY <1>1, <1>6 DEF Owning, BeforeBus
  <2>2. ASSUME NEW k \in Slots, job[p].h.idx = k
        PROVE  gen'[k] = gen[k] /\ buf'[k] = j.pay /\ len'[k] = BufSize
    BY <1>1, <1>2, <1>6, <1>9, <2>1, <2>2 DEF LeaseInv, JobLease, SlotKept
  <2> QED BY <1>2, <1>6, <2>1, <2>2, SameLease
<1>11. \A r \in Posters : r # p => job'[r] = job[r]
  BY <1>2, <1>6 DEF BusTypeOK
<1>12. Debtors(i)' = Debtors(i) \ {<<"broadcast", p>>} /\ \A k \in Slots : k # i => Debtors(k)' = Debtors(k)
  BY <1>8
<1>13. \A r \in Posters : (job'[r] = job[r] /\ <<"broadcast", p>> # <<"producer", r>>) \/ JobLease(r)'
  BY <1>10, <1>11
<1>14. \A q \in Queues : \A m \in Carried(q)' : m # NoMsg => m \in Carried(q)
  BY <1>7
<1> QED BY <1>4, <1>5, <1>12, <1>13, <1>14, ReleaseFrame

LEMMA ReleaseOwnLease ==
  ASSUME TypeInv, TypeInv', LeaseInv, NEW p \in Posters, ReleaseOwn(p)
  PROVE  LeaseInv'
<1>1. /\ job[p].pc = "loop" /\ IsLease(job[p].ev) /\ Release(job[p].h) /\ SetPc(p, "stats")
      /\ UNCHANGED <<queue, hold>>
  BY DEF ReleaseOwn
<1>2. /\ job[p] \in Jobs /\ job[p] # NoJob /\ Live(job[p].h) /\ job[p].h.idx \in Slots
  BY <1>1, JobHolds DEF Owning
<1> PICK i \in Slots : i = job[p].h.idx
  BY <1>2
<1>3. <<"producer", p>> \in Debtors(i)
  BY <1>1, DebtorMember DEF Owes, Owning
<1>4. /\ refcnt' = [refcnt EXCEPT ![i] = refcnt[i] - 1] /\ aborted' = "no"
      /\ \A k \in Slots : k # i \/ refcnt[k] > 1 => SlotKept(k)
      /\ Guard /\ refcnt[i] = 1 => buf'[i] = PoisonFree
  BY <1>1, <1>2, GoodRelease DEF TypeInv
<1> DEFINE j == MovedTo(p, "stats")
<1>5. /\ job' = [job EXCEPT ![p] = j]
      /\ j.pc = "stats" /\ j.ev = job[p].ev /\ j.h = job[p].h /\ j.pay = job[p].pay
  BY <1>1, <1>2, SetPcIs DEF TypeInv
<1> HIDE DEF j
<1>6. \A q \in Queues : Carried(q)' = Carried(q)
  BY <1>1 DEF Carried, InQueue
<1>7. ASSUME NEW k \in Slots
      PROVE  Debtors(k)' = IF k = i THEN Debtors(i) \ {<<"producer", p>>} ELSE Debtors(k)
  <2>1. \A x : x \in Debtors(k)' <=>
          \/ x \in Debtors(k) /\ x # <<"producer", p>> /\ x # <<"broadcast", p>>
          \/ x = <<"producer", p>> /\ j.pc \in Owning /\ j.h.idx = k
          \/ x = <<"broadcast", p>> /\ j.pc \in {"retained", "undo"} /\ j.h.idx = k
    BY <1>5, <1>6, JobDebtors DEF TypeInv
  <2>2. <<"producer", p>> \in Debtors(k) <=> k = i
    BY <1>1, DebtorMember DEF Owes, Owning
  <2>3. <<"broadcast", p>> \notin Debtors(k)
    BY <1>1, DebtorMember DEF Owes
  <2>4. j.pc \notin Owning /\ j.pc \notin {"retained", "undo"}
    BY <1>5 DEF Owning
  <2>5. \A x : x \in Debtors(k)' <=> x \in Debtors(k) /\ x # <<"producer", p>>
    BY <2>1, <2>3, <2>4
  <2> QED BY <2>2, <2>5
<1>8. JobLease(p)'
  <2>1. j.pc \notin Owning /\ j.pc \notin BeforeBus
    BY <1>5 DEF Owning, BeforeBus
  <2> QED BY <1>2, <1>5, <2>1, SameLease
<1>9. \A r \in Posters : r # p => job'[r] = job[r]
  BY <1>5 DEF TypeInv, BusTypeOK
<1>10. Debtors(i)' = Debtors(i) \ {<<"producer", p>>} /\ \A k \in Slots : k # i => Debtors(k)' = Debtors(k)
  BY <1>7
<1>11. \A r \in Posters : (job'[r] = job[r] /\ <<"producer", p>> # <<"producer", r>>) \/ JobLease(r)'
  BY <1>8, <1>9
<1>12. \A q \in Queues : \A m \in Carried(q)' : m # NoMsg => m \in Carried(q)
  BY <1>6
<1> QED BY <1>3, <1>4, <1>10, <1>11, <1>12, ReleaseFrame

LEMMA AccountLease ==
  ASSUME TypeInv, TypeInv', LeaseInv, NEW p \in Posters, Account(p)
  PROVE  LeaseInv'
<1>1. /\ job' = [job EXCEPT ![p] = NoJob] /\ UNCHANGED <<gen, refcnt, len, buf, aborted, queue, hold>>
      /\ job[p].pc = "stats" \/ (job[p].pc = "loop" /\ ~IsLease(job[p].ev))
  BY DEF Account, poolVars
<1>2. job[p] \in Jobs /\ job[p] # NoJob
  BY <1>1, BusyJob DEF TypeInv
<1>3. \A q \in Queues : Carried(q)' = Carried(q)
  BY <1>1 DEF Carried, InQueue
<1>4. NoSlot \notin Slots
  BY PoolAssumption DEF NoSlot, Slots
<1>5. ASSUME NEW k \in Slots PROVE Debtors(k)' = Debtors(k)
  <2>1. \A x : x \in Debtors(k)' <=>
          \/ x \in Debtors(k) /\ x # <<"producer", p>> /\ x # <<"broadcast", p>>
          \/ x = <<"producer", p>> /\ NoJob.pc \in Owning /\ NoJob.h.idx = k
          \/ x = <<"broadcast", p>> /\ NoJob.pc \in {"retained", "undo"} /\ NoJob.h.idx = k
    BY <1>1, <1>3, JobDebtors DEF TypeInv
  <2>2. <<"producer", p>> \notin Debtors(k)
    <3>1. job[p].pc \notin Owning \/ job[p].h.idx = NoSlot
      BY <1>1, <1>2 DEF LeaseInv, JobLease, Owning
    <3> QED BY <1>4, <3>1, DebtorMember DEF Owes
  <2>3. <<"broadcast", p>> \notin Debtors(k)
    BY <1>1, DebtorMember DEF Owes
  <2>4. NoJob.pc \notin Owning /\ NoJob.pc \notin {"retained", "undo"}
    BY DEF NoJob, Owning
  <2>5. \A x : x \in Debtors(k)' <=> x \in Debtors(k)
    BY <2>1, <2>2, <2>3, <2>4
  <2> QED BY <2>5
<1>6. job'[p] = NoJob /\ \A r \in Posters : r # p => job'[r] = job[r]
  BY <1>1 DEF TypeInv, BusTypeOK
<1>7. JobLease(p)'
  BY <1>6 DEF JobLease
<1> QED BY <1>1, <1>3, <1>5, <1>6, <1>7, StillFrame

(* A delivery hands the broadcast's reference over to the message.         *)
LEMMA DeliverLease ==
  ASSUME TypeInv, TypeInv', OrderInv, LeaseInv, NEW p \in Posters,
         IF IsLease(job[p].ev) THEN job[p].pc = "retained" ELSE job[p].pc = "loop",
         job[p].todo # <<>>, Head(job[p].todo) \in Queues,
         Enqueue(Head(job[p].todo), Message(p)), Advance(p, TRUE),
         UNCHANGED <<gen, refcnt, len, buf, aborted, hold>>
  PROVE  LeaseInv'
<1> PICK q \in Queues : q = Head(job[p].todo)
  OBVIOUS
<1> PICK m : m = Message(p)
  OBVIOUS
<1>1. /\ job[p] \in Jobs /\ job[p] # NoJob /\ BusTypeOK /\ JobLease(p)
      /\ job[p].pc \in Owning /\ job[p].pc \notin BeforeBus
  BY BusyJob DEF TypeInv, LeaseInv, Owning, BeforeBus
<1>2. /\ m \in Messages /\ m \notin Carried(q)
      /\ m.ev = job[p].ev /\ m.h = job[p].h /\ m.pay = job[p].pay /\ m.from = p
  BY <1>1, MessageType, NotYetThere DEF Message
<1> DEFINE j == Advanced(p, TRUE)
<1>3. /\ job' = [job EXCEPT ![p] = j] /\ j.pc = "loop" /\ j.ev = job[p].ev
      /\ j.h = job[p].h /\ j.pay = job[p].pay
  BY <1>1, AdvanceIs DEF Advanced
<1> HIDE DEF j
<1>4. Carried(q)' = Carried(q) \cup {m} /\ \A r \in Queues : r # q => Carried(r)' = Carried(r)
  BY <1>1, <1>2, EnqueueAdds DEF Carried
<1>5. HasLease(m) <=> IsLease(job[p].ev)
  BY <1>2, NoMsgIsNone DEF HasLease
<1>6. NoSlot \notin Slots
  BY PoolAssumption DEF NoSlot, Slots
<1>7. ASSUME NEW k \in Slots
      PROVE  Debtors(k)' = IF HasLease(m) /\ m.h.idx = k
                           THEN (Debtors(k) \ {<<"broadcast", p>>}) \cup {<<"mail", <<q, m>>>>}
                           ELSE Debtors(k)
  <2>1. \A x : x \in Debtors(k)' <=>
          \/ x \in Debtors(k) /\ x # <<"producer", p>> /\ x # <<"broadcast", p>>
          \/ x = <<"producer", p>> /\ j.pc \in Owning /\ j.h.idx = k
          \/ x = <<"broadcast", p>> /\ j.pc \in {"retained", "undo"} /\ j.h.idx = k
          \/ x = <<"mail", <<q, m>>>> /\ HasLease(m) /\ m.h.idx = k
    <3> SUFFICES ASSUME NEW x
                 PROVE  Owes(k, x)' <=>
                          \/ Owes(k, x) /\ x # <<"producer", p>> /\ x # <<"broadcast", p>>
                          \/ x = <<"producer", p>> /\ j.pc \in Owning /\ j.h.idx = k
                          \/ x = <<"broadcast", p>> /\ j.pc \in {"retained", "undo"} /\ j.h.idx = k
                          \/ x = <<"mail", <<q, m>>>> /\ HasLease(m) /\ m.h.idx = k
      BY DebtorMember
    <3>1. \A r \in Posters : job'[r] = IF r = p THEN j ELSE job[r]
      BY <1>1, <1>3 DEF BusTypeOK
    <3>2. CASE x[1] = "producer"
      BY <3>1, <3>2 DEF Owes
    <3>3. CASE x[1] = "broadcast"
      BY <3>1, <3>3 DEF Owes
    <3>4. CASE x[1] = "mail"
      <4>1. Owes(k, x) <=> \E r \in Queues : \E n \in Carried(r) :
                             x = <<"mail", <<r, n>>>> /\ HasLease(n) /\ n.h.idx = k
        BY <3>4 DEF Owes
      <4>2. Owes(k, x)' <=> \E r \in Queues : \E n \in Carried(r)' :
                              x = <<"mail", <<r, n>>>> /\ HasLease(n) /\ n.h.idx = k
        BY <3>4 DEF Owes
      <4> QED BY <1>4, <3>4, <4>1, <4>2
    <3>5. CASE x[1] \notin {"producer", "broadcast", "mail"}
      BY <3>5 DEF Owes
    <3> QED BY <3>2, <3>3, <3>4, <3>5
  <2>2. <<"producer", p>> \in Debtors(k) <=> job[p].h.idx = k
    BY <1>1, DebtorMember DEF Owes
  <2>3. <<"broadcast", p>> \in Debtors(k) <=> HasLease(m) /\ job[p].h.idx = k
    <3>1. job[p].pc \in {"retained", "undo"} <=> IsLease(job[p].ev)
      OBVIOUS
    <3>2. <<"broadcast", p>> \in Debtors(k) <=> job[p].pc \in {"retained", "undo"} /\ job[p].h.idx = k
      BY DebtorMember DEF Owes
    <3> QED BY <1>5, <3>1, <3>2
  <2>4. j.pc \in Owning /\ j.pc \notin {"retained", "undo"} /\ (j.h.idx = k <=> job[p].h.idx = k)
    BY <1>3 DEF Owning
  <2>5. \A x : x \in Debtors(k)' <=>
          \/ x \in Debtors(k) /\ x # <<"broadcast", p>>
          \/ x = <<"mail", <<q, m>>>> /\ HasLease(m) /\ m.h.idx = k
    BY <2>1, <2>2, <2>4
  <2>6. CASE HasLease(m) /\ m.h.idx = k
    <3>1. \A x : x \in Debtors(k)' <=> x \in Debtors(k) \ {<<"broadcast", p>>} \/ x = <<"mail", <<q, m>>>>
      BY <2>5, <2>6
    <3> QED BY <2>6, <3>1
  <2>7. CASE ~(HasLease(m) /\ m.h.idx = k)
    <3>1. <<"broadcast", p>> \notin Debtors(k)
      BY <1>2, <2>3, <2>7
    <3>2. \A x : x \in Debtors(k)' <=> x \in Debtors(k)
      BY <2>5, <2>7, <3>1
    <3> QED BY <2>7, <3>2
  <2> QED BY <2>6, <2>7
<1>8. ASSUME NEW k \in Slots PROVE IsFiniteSet(Debtors(k)') /\ refcnt'[k] = Cardinality(Debtors(k)')
  <2>1. IsFiniteSet(Debtors(k)) /\ refcnt[k] = Cardinality(Debtors(k))
    BY DEF LeaseInv
  <2>2. CASE HasLease(m) /\ m.h.idx = k
    <3> PICK S : S = Debtors(k) \ {<<"broadcast", p>>}
      OBVIOUS
    <3>1. <<"broadcast", p>> \in Debtors(k)
      <4>1. job[p].pc \in {"retained", "undo"}
        BY <1>5, <2>2
      <4> QED BY <1>2, <2>2, <4>1, DebtorMember DEF Owes
    <3>2. <<"mail", <<q, m>>>> \notin S
      <4>1. <<"mail", <<q, m>>>> \notin Debtors(k)
        BY <1>2, DebtorMember DEF Owes
      <4> QED BY <4>1
    <3>3. IsFiniteSet(S) /\ Cardinality(S) = Cardinality(Debtors(k)) - 1
      BY <2>1, <3>1, FS_RemoveElement
    <3>4. /\ IsFiniteSet(S \cup {<<"mail", <<q, m>>>>})
          /\ Cardinality(S \cup {<<"mail", <<q, m>>>>}) = Cardinality(S) + 1
      BY <3>2, <3>3, FS_AddElement
    <3>5. Cardinality(Debtors(k)) \in Nat
      BY <2>1, FS_CardinalityType
    <3>6. Cardinality(Debtors(k)) - 1 + 1 = Cardinality(Debtors(k))
      BY <3>5
    <3> QED BY <1>7, <2>1, <2>2, <3>3, <3>4, <3>6
  <2>3. CASE ~(HasLease(m) /\ m.h.idx = k)
    BY <1>7, <2>1, <2>3
  <2> QED BY <2>2, <2>3
<1>9. Guard => \A k \in Slots : refcnt'[k] = 0 => buf'[k] = PoisonFree
  BY DEF LeaseInv
<1>10. \A k \in Slots : SlotKept(k)
  BY DEF SlotKept
<1>11. \A r \in Posters : r # p => job'[r] = job[r]
  BY <1>1, <1>3 DEF BusTypeOK
<1>12. ASSUME NEW i \in Slots, job[p].h.idx = i
       PROVE  gen[i] = job[p].h.gen /\ buf[i] = job[p].pay /\ len[i] = BufSize
  <2>1. job[p].pc \notin {"owned", "mapped", "filled"}
    OBVIOUS
  <2> QED BY <1>1, <1>12, <2>1 DEF JobLease
<1>13. JobLease(p)'
  <2>1. j.pc \notin BeforeBus
    BY <1>3 DEF BeforeBus
  <2>2. ASSUME NEW k \in Slots, job[p].h.idx = k
        PROVE  gen'[k] = gen[k] /\ buf'[k] = j.pay /\ len'[k] = BufSize
    BY <1>3, <1>12, <2>2
  <2> QED BY <1>1, <1>3, <2>1, <2>2, SameLease
<1>14. MailLease(q, m)'
  <2>1. m.ev \in Posts[m.from] /\ (IsLease(m.ev) => m.h.idx \in Slots)
    BY <1>1, <1>2 DEF JobLease
  <2>2. IsLease(m.ev) => gen'[m.h.idx] = m.h.gen /\ buf'[m.h.idx] = m.pay /\ len'[m.h.idx] = BufSize
    BY <1>2, <1>12, <2>1
  <2> QED BY <2>1, <2>2 DEF MailLease
<1>15. ASSUME NEW r \in Posters, r # p, NEW k \in Slots, job[r].pc \in BeforeBus, job[r].h.idx = k
       PROVE  Debtors(k)' = Debtors(k)
  <2>1. job[p].h.idx # k
    BY <1>1, <1>15, SoleOwner
  <2> QED BY <1>2, <1>7, <2>1
<1>16. Running'
  BY DEF LeaseInv, Running
<1>17. \A r \in Posters :
         \/ JobLease(r)'
         \/ /\ job'[r] = job[r]
            /\ \A k \in Slots : job[r].pc \in Owning /\ job[r].h.idx = k =>
                 SlotKept(k) /\ (job[r].pc \in BeforeBus => Debtors(k)' = Debtors(k))
  BY <1>10, <1>11, <1>13, <1>15
<1>18. \A r \in Queues : \A n \in Carried(r)' : n # NoMsg =>
         MailLease(r, n)' \/ (n \in Carried(r) /\ (IsLease(n.ev) => SlotKept(n.h.idx)))
  <2> SUFFICES ASSUME NEW r \in Queues, NEW n \in Carried(r)'
               PROVE  MailLease(r, n)' \/ (n \in Carried(r) /\ (IsLease(n.ev) => SlotKept(n.h.idx)))
    OBVIOUS
  <2>1. CASE r = q /\ n = m
    BY <1>14, <2>1
  <2>2. CASE ~(r = q /\ n = m)
    <3>1. n \in Carried(r)
      BY <1>4, <2>2
    <3> QED BY <3>1 DEF SlotKept
  <2> QED BY <2>1, <2>2
<1> QED BY <1>8, <1>9, <1>16, <1>17, <1>18, LeaseFrame

LEMMA SendLeases ==
  ASSUME LeaseClients, TypeInv, TypeInv', OrderInv, LeaseInv, NEW p \in Posters,
         Overwrite(p) \/ Send(p) \/ SendLease(p)
  PROVE  LeaseInv'
<1>1. job[p].pc \in {"loop", "retained"}
  BY DEF Overwrite, Send, AtQueue, SendLease
<1>2. job[p] \in Jobs /\ job[p] # NoJob /\ BusTypeOK /\ Shape(job[p]) /\ JobLease(p)
  BY <1>1, BusyJob DEF TypeInv, LeaseInv
<1>3. job[p].todo \in Seq(Queues \cup {NoQueue}) /\ job[p].todo # <<>> /\ Head(job[p].todo) \in Queues
  <2>1. job[p].todo \in Seq(Queues \cup {NoQueue})
    BY <1>2 DEF Jobs
  <2>2. job[p].todo # <<>> => Head(job[p].todo) \in Queues \cup {NoQueue}
    BY <2>1, HeadTailProperties
  <2> QED BY <1>2, <2>1, <2>2 DEF Overwrite, Send, AtQueue, SendLease, Shape
<1>4. UNCHANGED <<gen, refcnt, len, buf, aborted, hold>> /\ UNCHANGED poolVars
  BY DEF Overwrite, Send, SendLease, poolVars
<1> PICK q \in Queues : q = Head(job[p].todo)
  BY <1>3
<1>5. ~Overwrite(p)
  <2> SUFFICES ASSUME Overwrite(p) PROVE FALSE
    OBVIOUS
  <2>1. EvQos[job[p].ev] = "REPLACE_LAST" /\ Depth[q] = 1
    BY DEF Overwrite, Overwrites
  <2>2. Depth[q] > 1
    BY <1>2, <2>1 DEF LeaseClients, JobLease
  <2> QED BY <2>1, <2>2
<1>6. CASE Send(p) /\ HasRoom(q)
  <2>1. Enqueue(q, Message(p)) /\ Advance(p, TRUE) /\ ~IsLease(job[p].ev) /\ job[p].pc = "loop"
    <3>1. HasRoom(q) = TRUE
      BY <1>6 DEF HasRoom
    <3> QED BY <1>6, <3>1 DEF Send, AtQueue
  <2> QED BY <1>3, <1>4, <2>1, DeliverLease
<1>7. CASE Send(p) /\ ~HasRoom(q)
  <2>1. UNCHANGED queue /\ job[p].pc = "loop" /\ Advance(p, FALSE)
    <3>1. HasRoom(q) = FALSE
      BY <1>7 DEF HasRoom
    <3> QED BY <1>7, <3>1 DEF Send, AtQueue
  <2> DEFINE j == Advanced(p, FALSE)
  <2>2. /\ job' = [job EXCEPT ![p] = j] /\ j.pc = "loop" /\ j.ev = job[p].ev
        /\ j.h = job[p].h /\ j.pay = job[p].pay
    BY <1>2, <1>3, <2>1, AdvanceIs DEF Advanced
  <2> HIDE DEF j
  <2> QED BY <1>2, <1>4, <2>1, <2>2, SilentJob DEF BeforeBus
<1>8. CASE SendLease(p)
  <2>1. job[p].pc = "retained" /\ IsLease(job[p].ev)
    BY <1>2, <1>8 DEF SendLease, Shape
  <2>2. CASE HasRoom(q)
    <3>1. Enqueue(q, Message(p)) /\ Advance(p, TRUE)
      BY <1>8, <2>2 DEF SendLease
    <3> QED BY <1>3, <1>4, <2>1, <3>1, DeliverLease
  <2>3. CASE ~HasRoom(q)
    <3>1. SetPc(p, "undo") /\ UNCHANGED queue
      BY <1>8, <2>3 DEF SendLease
    <3> QED BY <1>4, <2>1, <3>1, FullLease
  <2> QED BY <2>2, <2>3
<1> QED BY <1>5, <1>6, <1>7, <1>8

-----------------------------------------------------------------------------
(* The steps of a reader.                                                  *)
LEMMA HeldApart ==
  ASSUME TypeInv, OrderInv, NEW q \in Queues, hold[q] # NoMsg
  PROVE  hold[q] \notin InQueue(q)
<1> SUFFICES ASSUME hold[q] \in InQueue(q) PROVE FALSE
  OBVIOUS
<1>1. BusTypeOK /\ HeldFirst(q)
  BY DEF TypeInv, OrderInv
<1>2. PICK k \in 1 .. Len(queue[q]) : queue[q][k] = hold[q]
  BY <1>1, FiniteQueue
<1>3. queue[q][k].seq \in Nat
  BY <1>1, MessageFacts
<1>4. hold[q].seq < queue[q][k].seq
  BY <1>1, <1>2 DEF HeldFirst
<1>5. queue[q][k].seq < queue[q][k].seq
  BY <1>2, <1>4
<1> QED BY <1>3, <1>5

LEMMA ReceiveLease ==
  ASSUME TypeInv, TypeInv', OrderInv, LeaseInv, NEW q \in Queues, Receive(q)
  PROVE  LeaseInv'
<1>1. UNCHANGED <<gen, refcnt, len, buf, aborted, job>> /\ hold[q] = NoMsg
  BY DEF Receive, poolVars
<1> PICK m : m = Head(queue[q])
  OBVIOUS
<1>2. m \in InQueue(q) /\ InQueue(q)' = InQueue(q) \ {m} /\ \A r \in Queues : r # q => InQueue(r)' = InQueue(r)
  BY ReceiveTakes
<1>3. hold'[q] = m /\ \A r \in Queues : r # q => hold'[r] = hold[r]
  BY DEF Receive, TypeInv, BusTypeOK
<1> PICK S : S = {}
  OBVIOUS
<1>4. \A n : n # NoMsg => (n \in Carried(q)' <=> n \in Carried(q) /\ n \notin S)
  BY <1>1, <1>2, <1>3 DEF Carried
<1>5. \A r \in Queues : r # q => Carried(r)' = Carried(r)
  BY <1>2, <1>3 DEF Carried
<1>6. ASSUME NEW k \in Slots PROVE Debtors(k)' = Debtors(k)
  <2>1. \A x : x \in Debtors(k)' <=>
          x \in Debtors(k) /\ \A n \in S : HasLease(n) => x # <<"mail", <<q, n>>>>
    BY <1>1, <1>4, <1>5, MailDebtors
  <2>2. \A x : x \in Debtors(k)' <=> x \in Debtors(k)
    BY <2>1
  <2> QED BY <2>2
<1>7. \A r \in Queues : \A n \in Carried(r)' : n # NoMsg => n \in Carried(r)
  BY <1>4, <1>5
<1> QED BY <1>1, <1>6, <1>7, StillFrame

LEMMA HandleCarried ==
  ASSUME TypeInv, OrderInv, NEW q \in Queues, hold[q] # NoMsg,
         hold' = [hold EXCEPT ![q] = NoMsg], UNCHANGED queue
  PROVE  /\ \A n : n # NoMsg => (n \in Carried(q)' <=> n \in Carried(q) /\ n \notin {hold[q]})
         /\ \A r \in Queues : r # q => Carried(r)' = Carried(r)
         /\ \A r \in Queues : \A n \in Carried(r)' : n # NoMsg => n \in Carried(r)
<1>1. hold'[q] = NoMsg /\ \A r \in Queues : r # q => hold'[r] = hold[r]
  BY DEF TypeInv, BusTypeOK
<1>2. \A r : InQueue(r)' = InQueue(r)
  BY DEF InQueue
<1>3. hold[q] \notin InQueue(q)
  BY HeldApart
<1> QED BY <1>1, <1>2, <1>3 DEF Carried

LEMMA DiscardLease ==
  ASSUME LeaseClients, TypeInv, TypeInv', OrderInv, LeaseInv, NEW q \in Queues, Discard(q)
  PROVE  LeaseInv'
<1>1. /\ UNCHANGED <<gen, refcnt, len, buf, aborted, job, queue>>
      /\ hold[q] # NoMsg /\ hold' = [hold EXCEPT ![q] = NoMsg]
      /\ ~IsLease(hold[q].ev) \/ hold[q].ev \notin Serves[q]
  BY DEF Discard, poolVars
<1>2. ~HasLease(hold[q])
  <2>1. hold[q] \in Carried(q)
    BY DEF Carried
  <2>2. hold[q].ev \in Posts[hold[q].from]
    BY <1>1, <2>1 DEF LeaseInv, MailLease
  <2>3. hold[q].from \in Posters
    BY <1>1 DEF TypeInv, BusTypeOK, Messages
  <2> QED BY <1>1, <2>2, <2>3 DEF LeaseClients, HasLease
<1>3. /\ \A n : n # NoMsg => (n \in Carried(q)' <=> n \in Carried(q) /\ n \notin {hold[q]})
      /\ \A r \in Queues : r # q => Carried(r)' = Carried(r)
      /\ \A r \in Queues : \A n \in Carried(r)' : n # NoMsg => n \in Carried(r)
  BY <1>1, HandleCarried
<1>4. ASSUME NEW k \in Slots PROVE Debtors(k)' = Debtors(k)
  <2> PICK o : o = hold[q]
    OBVIOUS
  <2>1. \A n : n # NoMsg => (n \in Carried(q)' <=> n \in Carried(q) /\ n \notin {o})
    BY <1>3
  <2>2. \A x : x \in Debtors(k)' <=>
          x \in Debtors(k) /\ \A n \in {o} : HasLease(n) => x # <<"mail", <<q, n>>>>
    BY <1>1, <1>3, <2>1, MailDebtors
  <2>3. \A x : x \in Debtors(k)' <=> x \in Debtors(k)
    BY <1>2, <2>2
  <2> QED BY <2>3
<1> QED BY <1>1, <1>3, <1>4, StillFrame

LEMMA OpenLease ==
  ASSUME TypeInv, TypeInv', LeaseInv, NEW q \in Queues, OpenView(q)
  PROVE  LeaseInv'
<1>1. hold[q] \in Carried(q) /\ HasLease(hold[q])
  BY DEF OpenView, Carried, HasLease
<1>2. Live(hold[q].h)
  BY <1>1, MailHolds
<1>3. Acquire(hold[q].h) /\ UNCHANGED <<hold, queue, job>>
  BY <1>2 DEF OpenView
<1>4. UNCHANGED <<gen, refcnt, len, buf, aborted>>
  BY <1>2, <1>3, GoodAcquire DEF TypeInv
<1>5. \A k \in Slots : Debtors(k)' = Debtors(k)
  BY <1>3 DEF Debtors, Producers, Broadcasts, Mails, Carried, InQueue
<1>6. \A r \in Queues : Carried(r)' = Carried(r)
  BY <1>3 DEF Carried, InQueue
<1> QED BY <1>3, <1>4, <1>5, <1>6, StillFrame

LEMMA CloseLease ==
  ASSUME TypeInv, TypeInv', OrderInv, LeaseInv, NEW q \in Queues, CloseView(q)
  PROVE  LeaseInv'
<1> PICK m : m = hold[q]
  OBVIOUS
<1>1. /\ Release(m.h) /\ hold' = [hold EXCEPT ![q] = NoMsg] /\ UNCHANGED <<queue, job>> /\ q \in open
  BY DEF CloseView
<1>2. m # NoMsg /\ HasLease(m) /\ m \in Carried(q)
  BY <1>1 DEF TypeInv, OpenServed, HasLease, Carried
<1>3. Live(m.h) /\ m.h.idx \in Slots
  BY <1>2, MailHolds
<1> PICK i \in Slots : i = m.h.idx
  BY <1>3
<1>4. <<"mail", <<q, m>>>> \in Debtors(i)
  BY <1>2, MailHolds
<1>5. /\ refcnt' = [refcnt EXCEPT ![i] = refcnt[i] - 1] /\ aborted' = "no"
      /\ \A k \in Slots : k # i \/ refcnt[k] > 1 => SlotKept(k)
      /\ Guard /\ refcnt[i] = 1 => buf'[i] = PoisonFree
  BY <1>1, <1>3, GoodRelease DEF TypeInv
<1>6. /\ \A n : n # NoMsg => (n \in Carried(q)' <=> n \in Carried(q) /\ n \notin {m})
      /\ \A r \in Queues : r # q => Carried(r)' = Carried(r)
      /\ \A r \in Queues : \A n \in Carried(r)' : n # NoMsg => n \in Carried(r)
  BY <1>1, <1>2, HandleCarried
<1>7. ASSUME NEW k \in Slots
      PROVE  Debtors(k)' = IF k = i THEN Debtors(i) \ {<<"mail", <<q, m>>>>} ELSE Debtors(k)
  <2>1. \A x : x \in Debtors(k)' <=>
          x \in Debtors(k) /\ \A n \in {m} : HasLease(n) => x # <<"mail", <<q, n>>>>
    BY <1>1, <1>6, MailDebtors
  <2>2. \A x : x \in Debtors(k)' <=> x \in Debtors(k) /\ x # <<"mail", <<q, m>>>>
    BY <1>2, <2>1
  <2>3. k # i => <<"mail", <<q, m>>>> \notin Debtors(k)
    BY DebtorMember DEF Owes
  <2> QED BY <2>2, <2>3
<1>8. Debtors(i)' = Debtors(i) \ {<<"mail", <<q, m>>>>} /\ \A k \in Slots : k # i => Debtors(k)' = Debtors(k)
  BY <1>7
<1>9. \A r \in Posters : (job'[r] = job[r] /\ <<"mail", <<q, m>>>> # <<"producer", r>>) \/ JobLease(r)'
  BY <1>1
<1> QED BY <1>4, <1>5, <1>6, <1>8, <1>9, ReleaseFrame

-----------------------------------------------------------------------------
LEMMA LeaseInvNext ==
  ASSUME LeaseClients, TypeInv, TypeInv', OrderInv, LeaseInv, [BusNext]_vars
  PROVE  LeaseInv'
<1>1. ASSUME NEW p \in Posters, NEW e \in Posts[p], Begin(p, e) \/ Alloc(p, e) PROVE LeaseInv'
  BY <1>1, BeginLease, AllocLease
<1>2. ASSUME NEW p \in Posters, Map(p) \/ Fill(p) \/ Publish(p) PROVE LeaseInv'
  BY <1>2, MapLease, FillLease, PublishLease
<1>3. ASSUME NEW p \in Posters, PostLease(p) \/ SkipCleared(p) \/ Retain(p) PROVE LeaseInv'
  BY <1>3, PostLeaseLease, SkipLease, RetainLease
<1>4. ASSUME NEW p \in Posters, Overwrite(p) \/ Send(p) \/ SendLease(p) PROVE LeaseInv'
  BY <1>4, SendLeases
<1>5. ASSUME NEW p \in Posters, UndoRetain(p) \/ ReleaseOwn(p) \/ Account(p) PROVE LeaseInv'
  BY <1>5, UndoLease, ReleaseOwnLease, AccountLease
<1>6. ASSUME NEW q \in Queues, Receive(q) \/ Discard(q) PROVE LeaseInv'
  BY <1>6, ReceiveLease, DiscardLease
<1>7. ASSUME NEW q \in Queues, OpenView(q) \/ CloseView(q) PROVE LeaseInv'
  BY <1>7, OpenLease, CloseLease
<1>8. ASSUME UNCHANGED <<gen, refcnt, len, buf, aborted, job, queue, hold>> PROVE LeaseInv'
  <2>1. \A k \in Slots : Debtors(k)' = Debtors(k)
    BY <1>8 DEF Debtors, Producers, Broadcasts, Mails, Carried, InQueue
  <2>2. \A q \in Queues : Carried(q)' = Carried(q)
    BY <1>8 DEF Carried, InQueue
  <2> QED BY <1>8, <2>1, <2>2, StillFrame
<1>9. ASSUME NEW q \in Queues, Subscribe(q) \/ Unsubscribe(q) PROVE LeaseInv'
  BY <1>8, <1>9 DEF Subscribe, Unsubscribe, poolVars
<1>10. CASE EvResetStats \/ Finished \/ UNCHANGED vars
  BY <1>8, <1>10 DEF EvResetStats, Finished, vars, poolVars, busVars
<1> QED
  BY <1>1, <1>2, <1>3, <1>4, <1>5, <1>6, <1>7, <1>9, <1>10
     DEF BusNext, PosterStep, Proceed, Post, PostFromIsr, ReaderStep

LEMMA LeaseInvInit ==
  ASSUME BusInit
  PROVE  LeaseInv
<1>1. /\ job = [p \in Posters |-> NoJob] /\ queue = [q \in Queues |-> <<>>]
      /\ hold = [q \in Queues |-> NoMsg] /\ Init
  BY DEF BusInit
<1>2. \A q \in Queues : Carried(q) = {NoMsg}
  BY <1>1 DEF Carried, InQueue
<1>3. ASSUME NEW i \in Slots PROVE Debtors(i) = {}
  <2>1. \A x : ~Owes(i, x)
    BY <1>1, <1>2 DEF Owes, NoJob, Owning, HasLease
  <2> QED BY <2>1, DebtorMember
<1>4. \A i \in Slots : IsFiniteSet(Debtors(i)) /\ refcnt[i] = Cardinality(Debtors(i))
  BY <1>1, <1>3, FS_EmptySet DEF Init
<1>5. Running /\ (Guard => \A i \in Slots : buf[i] = PoisonFree)
  BY <1>1 DEF Init, Running
<1>6. \A p \in Posters : JobLease(p)
  BY <1>1 DEF JobLease
<1> QED BY <1>2, <1>4, <1>5, <1>6 DEF LeaseInv

LEMMA LeaseInvariant ==
  ASSUME LeaseClients
  PROVE  BusSpec => []LeaseInv
<1>1. BusInit => TypeInv /\ OrderInv /\ LeaseInv
  BY TypeInvInit, OrderInvInit, LeaseInvInit
<1>2. TypeInv /\ OrderInv /\ LeaseInv /\ [BusNext]_vars => (TypeInv /\ OrderInv /\ LeaseInv)'
  BY TypeInvNext, OrderInvNext, LeaseInvNext
<1> QED BY <1>1, <1>2, PTL DEF BusSpec

(* Whatever posts, failed sends, subscriptions and readers interleave, the *)
(* reference count of every slot is the number of parties that still owe   *)
(* it a release.                                                           *)
THEOREM RefsAreOwed ==
  ASSUME LeaseClients
  PROVE  BusSpec => []RefsAccounted
<1>1. LeaseInv => RefsAccounted
  BY DEF LeaseInv, RefsAccounted
<1> QED BY <1>1, LeaseInvariant, PTL

(* A lease that travels is live, and its buffer holds what was committed.  *)
THEOREM LeasesStayIntact ==
  ASSUME LeaseClients
  PROVE  BusSpec => []LeasesIntact
<1>1. TypeInv /\ LeaseInv => LeasesIntact
  <2> SUFFICES ASSUME TypeInv, LeaseInv, NEW q \in Queues, NEW m \in Carried(q), HasLease(m)
               PROVE  Live(m.h) /\ buf[m.h.idx] = m.pay /\ len[m.h.idx] = BufSize
    BY DEF LeasesIntact, Intact
  <2>1. Live(m.h)
    BY MailHolds
  <2> QED BY <2>1 DEF LeaseInv, MailLease, HasLease
<1>2. BusInit => TypeInv
  BY TypeInvInit
<1>3. TypeInv /\ [BusNext]_vars => TypeInv'
  BY TypeInvNext
<1> QED BY <1>1, <1>2, <1>3, LeaseInvariant, PTL DEF BusSpec

(* Clients that keep to the protocol never run into a guard of the pool.   *)
THEOREM PoolGuardsStaySilent ==
  ASSUME LeaseClients
  PROVE  BusSpec => []PoolNeverAborts
<1>1. LeaseInv => PoolNeverAborts
  BY DEF LeaseInv, PoolNeverAborts
<1> QED BY <1>1, LeaseInvariant, PTL

-----------------------------------------------------------------------------
(* Handles.  The generation of a slot is the number of its recycles, one   *)
(* ahead and modulo the width of gen, and a handle carries the generation  *)
(* that its own number of recycles gives.                                  *)
GensCount == \A i \in Slots : gen[i] = (1 + serial[i]) % GenMod
IssuedCounted ==
  \A x \in issued : /\ x.gen = (1 + x.serial) % GenMod
                    /\ x.serial <= serial[x.idx]
HandlesInv == HandleTypeOK /\ GensCount /\ IssuedCounted

(* The generation moves on when the last reference goes, and never else.   *)
Recycles(i) == refcnt[i] > 0 /\ refcnt'[i] = 0
GenFollows  == \A i \in Slots : gen'[i] = IF Recycles(i) THEN NextGen(gen[i]) ELSE gen[i]

(* Every call but a release recycles nothing.                              *)
LEMMA NothingRecycled ==
  ASSUME UNCHANGED gen, \A i \in Slots : ~Recycles(i)
  PROVE  GenFollows
BY DEF GenFollows

LEMMA FailRecyclesNothing == ASSUME TypeOK, NEW why, Fail(why) PROVE GenFollows
<1>1. UNCHANGED <<gen, refcnt>> BY DEF Fail, slotVars
<1> QED BY <1>1, NothingRecycled DEF Recycles

LEMMA AllocRecyclesNothing ==
  ASSUME Inv, NEW want, AllocTry(want)
  PROVE  GenFollows
<1>1. CASE AllocTooLong(want) \/ AllocEmpty(want)
  <2>1. UNCHANGED <<gen, refcnt>>
    BY <1>1 DEF AllocTooLong, AllocEmpty, NoOp, poolVars, slotVars
  <2> QED BY <2>1, NothingRecycled DEF Recycles
<1>2. CASE Handout(want)
  <2>1. UNCHANGED gen /\ refcnt' = [refcnt EXCEPT ![NextSlot] = 1] BY <1>2 DEF Handout
  <2>2. \A i \in Slots : ~Recycles(i) BY <2>1 DEF Inv, TypeOK, Recycles
  <2> QED BY <2>1, <2>2, NothingRecycled
<1>3. CASE AllocCaught(want) BY <1>3, FailRecyclesNothing DEF AllocCaught, Inv
<1> QED BY <1>1, <1>2, <1>3 DEF AllocTry

LEMMA AddRefRecyclesNothing ==
  ASSUME Inv, NEW h, NEW n \in Nat, AddRefN(h, n)
  PROVE  GenFollows
<1>1. CASE AddRefFault(h, n) # "no"
  <2>1. Fail(AddRefFault(h, n)) BY <1>1 DEF AddRefN
  <2> QED BY <2>1, FailRecyclesNothing DEF Inv
<1>2. CASE AddRefFault(h, n) = "no"
  <2>1. /\ UNCHANGED gen /\ n > 0
        /\ refcnt' = [refcnt EXCEPT ![h.idx] = IF @ + n > RefMax THEN RefMax ELSE @ + n]
    BY <1>2 DEF AddRefN
  <2>2. \A i \in Slots : ~Recycles(i) BY <2>1, PoolAssumption DEF Inv, TypeOK, Recycles
  <2> QED BY <2>1, <2>2, NothingRecycled
<1> QED BY <1>1, <1>2

LEMMA ReleaseRecyclesOne ==
  ASSUME Inv, NEW h, Release(h)
  PROVE  GenFollows
<1>1. CASE Fault(h) # "no" /\ Fail(Fault(h)) BY <1>1, FailRecyclesNothing DEF Inv
<1>2. CASE DropRef(h)
  <2>1. /\ UNCHANGED gen /\ refcnt[h.idx] > 1 /\ h.idx \in Slots
        /\ refcnt' = [refcnt EXCEPT ![h.idx] = @ - 1]
    BY <1>2 DEF DropRef, Release, ValidIdx
  <2>2. \A i \in Slots : ~Recycles(i) BY <2>1, PoolAssumption DEF Inv, TypeOK, Recycles
  <2> QED BY <2>1, <2>2, NothingRecycled
<1>3. CASE FreeSlot(h)
  <2>1. /\ refcnt[h.idx] = 1 /\ h.idx \in Slots
        /\ refcnt' = [refcnt EXCEPT ![h.idx] = 0]
        /\ gen' = [gen EXCEPT ![h.idx] = NextGen(@)]
    BY <1>3 DEF FreeSlot, Release, ValidIdx
  <2>2. ASSUME NEW i \in Slots PROVE gen'[i] = IF Recycles(i) THEN NextGen(gen[i]) ELSE gen[i]
    <3>1. CASE i = h.idx BY <3>1, <2>1 DEF Inv, TypeOK, Recycles
    <3>2. CASE i # h.idx
      <4>1. gen'[i] = gen[i] /\ refcnt'[i] = refcnt[i] BY <3>2, <2>1 DEF Inv, TypeOK
      <4> QED BY <4>1 DEF Inv, TypeOK, Recycles
    <3> QED BY <3>1, <3>2
  <2> QED BY <2>2 DEF GenFollows
<1> QED BY <1>1, <1>2, <1>3 DEF Release

LEMMA GenerationFollows ==
  ASSUME Inv, Next, Running
  PROVE  GenFollows
<1>1. ASSUME NEW want \in 0 .. BufSize + 1, AllocTry(want) PROVE GenFollows
  BY <1>1, AllocRecyclesNothing
<1>2. ASSUME NEW h \in Handles, Acquire(h) PROVE GenFollows
  <2>1. UNCHANGED <<gen, refcnt>> BY <1>2 DEF Acquire, Fail, slotVars
  <2> QED BY <2>1, NothingRecycled DEF Recycles
<1>3. ASSUME NEW h \in Handles, Release(h) PROVE GenFollows
  BY <1>3, ReleaseRecyclesOne
<1>4. ASSUME NEW h \in Handles, Refused(h) PROVE GenFollows
  <2>1. UNCHANGED <<gen, refcnt>> BY <1>4 DEF Refused, NoOp, poolVars
  <2> QED BY <2>1, NothingRecycled DEF Recycles
<1>5. ASSUME NEW h \in Handles, NEW n \in 0 .. BufSize + 1, Commit(h, n) PROVE GenFollows
  <2>1. UNCHANGED <<gen, refcnt>> BY <1>5 DEF Commit, Fail, slotVars
  <2> QED BY <2>1, NothingRecycled DEF Recycles
<1>6. ASSUME NEW h \in Handles, NEW n \in 1 .. RefMax, AddRefN(h, n) PROVE GenFollows
  <2>1. n \in Nat BY PoolAssumption
  <2> QED BY <1>6, <2>1, AddRefRecyclesNothing
<1>7. ASSUME NEW i \in Slots, NEW p \in Payloads, WriteView(i, p) PROVE GenFollows
  <2>1. UNCHANGED <<gen, refcnt>> BY <1>7 DEF WriteView
  <2> QED BY <2>1, NothingRecycled DEF Recycles
<1>8. CASE ResetStats
  <2>1. UNCHANGED <<gen, refcnt>> BY <1>8 DEF ResetStats, slotVars
  <2> QED BY <2>1, NothingRecycled DEF Recycles
<1>9. ~Reboot BY DEF Reboot, Running
<1> QED BY <1>1, <1>2, <1>3, <1>4, <1>5, <1>6, <1>7, <1>8, <1>9 DEF Next

LEMMA HandlesInit == HInit => HandlesInv
<1> SUFFICES ASSUME HInit PROVE HandlesInv
  OBVIOUS
<1>1. TypeOK BY InitInv DEF HInit, Inv
<1>2. serial = [i \in Slots |-> 0] /\ issued = {} /\ gen = [i \in Slots |-> 1]
  BY DEF HInit, Init
<1>3. HandleTypeOK BY <1>1, <1>2, SerialAssumption DEF HandleTypeOK
<1>4. 1 % GenMod = 1
  <2>1. GenMod \in Nat /\ 1 \in 0 .. GenMod - 1 BY PoolAssumption
  <2>2. (GenMod * 0 + 1) % GenMod = 1 BY <2>1, Remainder
  <2> QED BY <2>1, <2>2
<1> QED BY <1>2, <1>3, <1>4 DEF HandlesInv, GensCount, IssuedCounted

LEMMA BootHandles == ASSUME Inv, HBoot PROVE HandlesInv'
<1>1. TypeOK' BY RebootInv DEF HBoot, Inv
<1>2. serial' = [i \in Slots |-> 0] /\ issued' = {} /\ gen' = [i \in Slots |-> 1]
  BY DEF HBoot, Reboot
<1>3. HandleTypeOK' BY <1>1, <1>2, SerialAssumption DEF HandleTypeOK
<1>4. 1 % GenMod = 1
  <2>1. GenMod \in Nat /\ 1 \in 0 .. GenMod - 1 BY PoolAssumption
  <2>2. (GenMod * 0 + 1) % GenMod = 1 BY <2>1, Remainder
  <2> QED BY <2>1, <2>2
<1> QED BY <1>2, <1>3, <1>4 DEF HandlesInv, GensCount, IssuedCounted

LEMMA CallHandles == ASSUME Inv, HandlesInv, HCall PROVE HandlesInv'
<1>1. Inv' BY NextInv DEF HCall
<1>2. GenFollows BY GenerationFollows DEF HCall
<1>3. /\ gen \in [Slots -> Gens] /\ serial \in [Slots -> 0 .. MaxSerial]
      /\ issued \subseteq [idx : Slots, gen : Gens, serial : 0 .. MaxSerial]
      /\ \A i \in Slots : gen[i] = (1 + serial[i]) % GenMod
      /\ GenMod \in Nat /\ GenMod > 0 /\ MaxSerial \in Nat
  BY PoolAssumption, SerialAssumption DEF HandlesInv, HandleTypeOK, TypeOK, GensCount
<1>4. /\ serial' = [i \in Slots |-> IF refcnt[i] > 0 /\ refcnt'[i] = 0
                                    THEN serial[i] + 1 ELSE serial[i]]
      /\ \A i \in Slots : serial'[i] <= MaxSerial
      /\ issued' = issued \cup {Issue(i) : i \in {j \in Slots : refcnt[j] = 0 /\ refcnt'[j] > 0}}
  BY DEF HCall
<1>5. ASSUME NEW i \in Slots
      PROVE  /\ serial'[i] \in 0 .. MaxSerial /\ serial[i] <= serial'[i]
             /\ gen'[i] = (1 + serial'[i]) % GenMod
  <2>1. serial[i] \in 0 .. MaxSerial /\ gen[i] = (1 + serial[i]) % GenMod BY <1>3
  <2>2. CASE Recycles(i)
    <3>1. serial'[i] = serial[i] + 1 /\ serial'[i] <= MaxSerial BY <2>2, <1>4 DEF Recycles
    <3>2. gen'[i] = (gen[i] + 1) % GenMod BY <2>2, <1>2 DEF GenFollows, NextGen
    <3>3. (((1 + serial[i]) % GenMod) + 1) % GenMod = ((1 + serial[i]) + 1) % GenMod
      <4> DEFINE a == 1 + serial[i]
      <4>1. a \in Int /\ 1 \in Int BY <2>1
      <4> HIDE DEF a
      <4>2. GenMod \in Nat /\ GenMod > 0 BY <1>3
      <4>3. ((a % GenMod) + 1) % GenMod = (a + 1) % GenMod BY <4>1, <4>2, RemainderOfSum
      <4> QED BY <4>3 DEF a
    <3>4. (1 + serial[i]) + 1 = 1 + serial'[i] BY <2>1, <3>1
    <3> QED BY <2>1, <3>1, <3>2, <3>3, <3>4, <1>3
  <2>3. CASE ~Recycles(i)
    <3>1. serial'[i] = serial[i] BY <2>3, <1>4 DEF Recycles
    <3>2. gen'[i] = gen[i] BY <2>3, <1>2 DEF GenFollows
    <3> QED BY <2>1, <3>1, <3>2, <1>3
  <2> QED BY <2>2, <2>3
<1>6. serial' \in [Slots -> 0 .. MaxSerial] BY <1>4, <1>5
<1>7. ASSUME NEW x \in issued'
      PROVE  /\ x \in [idx : Slots, gen : Gens, serial : 0 .. MaxSerial]
             /\ x.gen = (1 + x.serial) % GenMod /\ x.serial <= serial'[x.idx]
  <2>1. CASE x \in issued
    <3>1. /\ x \in [idx : Slots, gen : Gens, serial : 0 .. MaxSerial]
          /\ x.gen = (1 + x.serial) % GenMod /\ x.serial <= serial[x.idx]
      BY <2>1, <1>3 DEF HandlesInv, IssuedCounted
    <3>2. x.idx \in Slots /\ x.serial \in 0 .. MaxSerial BY <3>1
    <3>3. /\ serial[x.idx] <= serial'[x.idx] /\ serial[x.idx] \in 0 .. MaxSerial
          /\ serial'[x.idx] \in 0 .. MaxSerial
      BY <3>2, <1>3, <1>5
    <3> QED BY <3>1, <3>2, <3>3, <1>3
  <2>2. CASE x \notin issued
    <3>1. PICK i \in Slots : x = [idx |-> i, gen |-> gen[i], serial |-> serial[i]]
      BY <2>2, <1>4 DEF Issue
    <3>2. x.idx = i /\ x.gen = gen[i] /\ x.serial = serial[i] BY <3>1
    <3>3. x \in [idx : Slots, gen : Gens, serial : 0 .. MaxSerial] BY <3>1, <1>3
    <3> QED BY <3>2, <3>3, <1>3, <1>5
  <2> QED BY <2>1, <2>2
<1>8. HandleTypeOK' BY <1>1, <1>6, <1>7 DEF HandleTypeOK, Inv
<1> QED BY <1>5, <1>7, <1>8 DEF HandlesInv, GensCount, IssuedCounted

LEMMA HandlesInvariant == HSpec => [](Inv /\ HandlesInv)
<1>1. HInit => Inv /\ HandlesInv BY InitInv, HandlesInit DEF HInit
<1>2. ASSUME Inv, HandlesInv, [HNext]_handleVars PROVE (Inv /\ HandlesInv)'
  <2>1. CASE HBoot
    <3>1. Inv' BY <2>1, RebootInv DEF HBoot
    <3> QED BY <1>2, <2>1, <3>1, BootHandles
  <2>2. CASE HCall
    <3>1. Inv' BY <1>2, <2>2, NextInv DEF HCall
    <3> QED BY <1>2, <2>2, <3>1, CallHandles
  <2>3. CASE UNCHANGED handleVars
    <3>1. UNCHANGED poolVars /\ UNCHANGED <<serial, issued>> /\ UNCHANGED gen
      BY <2>3 DEF handleVars, poolVars
    <3>2. Inv' BY <1>2, <3>1, UnchangedInv
    <3> QED BY <1>2, <3>1, <3>2 DEF HandlesInv, HandleTypeOK, GensCount, IssuedCounted, Inv
  <2> QED BY <1>2, <2>1, <2>2, <2>3 DEF HNext
<1> QED BY <1>1, <1>2, PTL DEF HSpec

(* A handle whose slot was recycled since is dead unless the number of     *)
(* recycles is a multiple of 2^16 (leasepool.c: every call compares the    *)
(* generation of the slot with that of the handle).                        *)
THEOREM StaleHandlesStayDead == HSpec => []StaleHandleRejected
<1>1. ASSUME HandlesInv, NEW x \in issued, Live([idx |-> x.idx, gen |-> x.gen])
      PROVE  (serial[x.idx] - x.serial) % GenMod = 0
  <2>1. x \in [idx : Slots, gen : Gens, serial : 0 .. MaxSerial]
    BY <1>1 DEF HandlesInv, HandleTypeOK
  <2>2. x.idx \in Slots /\ x.serial \in Int BY <2>1
  <2>3. serial[x.idx] \in Int BY <2>2, <1>1 DEF HandlesInv, HandleTypeOK
  <2>4. gen[x.idx] = x.gen BY <1>1 DEF Live
  <2>5. gen[x.idx] = (1 + serial[x.idx]) % GenMod /\ x.gen = (1 + x.serial) % GenMod
    BY <2>2, <1>1 DEF HandlesInv, GensCount, IssuedCounted
  <2> DEFINE a == serial[x.idx]
             b == x.serial
  <2>6. a \in Int /\ b \in Int /\ (1 + a) % GenMod = (1 + b) % GenMod
    BY <2>2, <2>3, <2>4, <2>5
  <2> HIDE DEF a, b
  <2>7. GenMod \in Nat /\ GenMod > 0 BY PoolAssumption
  <2>8. (((1 + a) % GenMod) + (-1 - b)) % GenMod = ((1 + a) + (-1 - b)) % GenMod
    <3>1. 1 + a \in Int /\ -1 - b \in Int BY <2>6
    <3> QED BY <3>1, <2>7, RemainderOfSum
  <2>9. (((1 + b) % GenMod) + (-1 - b)) % GenMod = ((1 + b) + (-1 - b)) % GenMod
    <3>1. 1 + b \in Int /\ -1 - b \in Int BY <2>6
    <3> QED BY <3>1, <2>7, RemainderOfSum
  <2>10. (1 + a) + (-1 - b) = a - b /\ (1 + b) + (-1 - b) = 0 BY <2>6
  <2>11. 0 % GenMod = 0
    <3>1. (GenMod * 0 + 0) % GenMod = 0 BY <2>7, Remainder
    <3> QED BY <3>1, <2>7
  <2>12. (a - b) % GenMod = 0
    BY <2>6, <2>8, <2>9, <2>10, <2>11
  <2> QED BY <2>12 DEF a, b
<1>2. HandlesInv => StaleHandleRejected BY <1>1 DEF StaleHandleRejected
<1> QED BY <1>2, HandlesInvariant, PTL
=============================================================================
