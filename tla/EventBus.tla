------------------------------- MODULE EventBus -------------------------------
(***************************************************************************)
(* core__ev on top of the LeasePool: tasks and interrupt handlers that     *)
(* post, subscribers that each own one FreeRTOS queue, and the leases that *)
(* travel between them.                                                    *)
(*                                                                         *)
(* A post is not atomic.  The bus copies the subscriber table in one       *)
(* critical section and then, without any lock, visits the copy queue by   *)
(* queue; for a lease it takes a reference before each enqueue and gives   *)
(* it back when the queue is full.  Each critical section and each queue   *)
(* call is one action here, so posters, readers and subscriptions          *)
(* interleave between any two of them.                                     *)
(*                                                                         *)
(* Abstractions: an event is a model value with its kind and QoS (the      *)
(* schema); a producer writes its name into the buffer; the global         *)
(* counters are the sums of the per-event ones and are not kept twice;     *)
(* timestamps are left out.  from, seq and pay are history values of a     *)
(* message: who posted it, as its which post, with what payload.           *)
(***************************************************************************)
EXTENDS LeasePool, Sequences

CONSTANTS
  Events, EvKind, EvQos,  (* EV_SCHEMA: event -> kind, event -> QoS         *)
  Posters,                (* tasks and interrupt handlers that post         *)
  Isrs,                   (* the posters that are interrupt handlers        *)
  Posts,                  (* poster -> the events it posts                  *)
  Queues, Depth,          (* queue objects and the depth of each            *)
  Serves,                 (* queue -> the lease events its reader releases  *)
  Leavers,                (* the queues whose readers unsubscribe           *)
  MaxSubs,                (* EV_MAX_SUBS                                    *)
  SchemaGuard,            (* CONFIG_CORE_EV_SCHEMA_GUARD                    *)
  MaxPosts,               (* bound: poster -> how many posts it makes       *)
  CliResets,              (* whether the CLI clears the counters            *)
  NoQueue                 (* a subscriber entry whose q is NULL             *)

ASSUME BusAssumption ==
  /\ IsFiniteSet(Posters) /\ IsFiniteSet(Queues)
  /\ EvKind \in [Events -> {"NONE", "COPY", "LEASE", "STREAM"}]
  /\ EvQos \in [Events -> {"DROP_NEW", "REPLACE_LAST"}]
  /\ Depth \in [Queues -> Nat \ {0}]
  /\ Posters \subseteq Payloads /\ Isrs \subseteq Posters
  /\ Posts \in [Posters -> SUBSET Events]
  /\ Serves \in [Queues -> SUBSET Events]
  /\ Leavers \subseteq Queues
  /\ MaxSubs \in Nat \ {0}
  /\ SchemaGuard \in BOOLEAN
  /\ MaxPosts \in [Posters -> Nat]
  /\ CliResets \in BOOLEAN
  /\ NoQueue \notin Queues

(* ev_schema_selftest_or_abort_, run by the first ev_init: REPLACE_LAST is *)
(* not for leases, which ev_post_lease checks once more.                   *)
ASSUME SchemaSelftest ==
  \A e \in Events : EvQos[e] = "REPLACE_LAST" => EvKind[e] \in {"NONE", "COPY", "STREAM"}

VARIABLES
  subs,      (* s_subs: entry -> queue or NoQueue                          *)
  subsCnt,   (* s_subs_cnt                                                 *)
  subRes,    (* queue -> what its ev_subscribe returned, "no" before it    *)
  queue,     (* queue -> the messages in it                                *)
  job,       (* poster -> the post it is executing                         *)
  posted,    (* poster -> how many posts it began                          *)
  hold,      (* queue -> the message its reader is handling                *)
  open,      (* the readers that acquired the lease they hold              *)
  gone,      (* history: event -> messages that left a queue, received or  *)
             (* replaced, since the counters were cleared                  *)
  stat,      (* event -> the per-event counters                            *)
  evAbort    (* ev_schema_abort_ was called                                *)

busVars == <<subs, subsCnt, subRes, queue, job, posted, hold, open, gone, stat, evAbort>>
vars    == <<poolVars, busVars>>

Entries == 0 .. MaxSubs - 1
IsLease(e) == EvKind[e] = "LEASE"
Up      == Running /\ ~evAbort

NoJob   == [pc |-> "idle"]
NoMsg   == [ev |-> "none"]

(* A handle packed into a0; the guard of ev_post_lease takes 0 for "no     *)
(* handle", although slot 0 with generation 0 packs to 0.                  *)
PacksToZero(h) == h.idx = 0 /\ h.gen = 0

Message(p) == [ev |-> job[p].ev, h |-> job[p].h, pay |-> job[p].pay, from |-> p, seq |-> posted[p]]

SetPc(p, l) == job' = [job EXCEPT ![p].pc = l]

-----------------------------------------------------------------------------
BusInit ==
  /\ Init
  /\ subs = [n \in Entries |-> NoQueue]
  /\ subsCnt = 0
  /\ subRes = [q \in Queues |-> "no"]
  /\ queue = [q \in Queues |-> <<>>]
  /\ job = [p \in Posters |-> NoJob]
  /\ posted = [p \in Posters |-> 0]
  /\ hold = [q \in Queues |-> NoMsg]
  /\ open = {}
  /\ gone = [e \in Events |-> 0]
  /\ stat = [e \in Events |-> [ok |-> 0, drop |-> 0, fail |-> 0, dlv |-> 0]]
  /\ evAbort = FALSE

EntryLeft      == subsCnt < MaxSubs

(* ev_subscribe: a new queue takes the next entry, or is deleted again.    *)
Subscribe(q) ==
  /\ Up
  /\ subRes[q] = "no"
  /\ IF EntryLeft
     THEN /\ subs' = [subs EXCEPT ![subsCnt] = q]
          /\ subsCnt' = subsCnt + 1
          /\ subRes' = [subRes EXCEPT ![q] = "ok"]
     ELSE /\ subRes' = [subRes EXCEPT ![q] = "failed"]
          /\ UNCHANGED <<subs, subsCnt>>
  /\ UNCHANGED <<poolVars, queue, job, posted, hold, open, gone, stat, evAbort>>

(* ev_unsubscribe: the entry is cleared, not given back.  The reader keeps *)
(* its queue and drains it.                                                *)
Unsubscribe(q) ==
  /\ Up
  /\ q \in Leavers
  /\ \E n \in Entries :
       /\ n < subsCnt
       /\ subs[n] = q
       /\ \A m \in 0 .. n - 1 : subs[m] # q
       /\ subs' = [subs EXCEPT ![n] = NoQueue]
  /\ UNCHANGED <<poolVars, subsCnt, subRes, queue, job, posted, hold, open, gone, stat, evAbort>>

-----------------------------------------------------------------------------
(* The copy of s_subs a broadcast works on, NULL entries included.         *)
Snapshot == [n \in 1 .. subsCnt |-> subs[n - 1]]

HasRoom(q)     == Len(queue[q]) < Depth[q]

EnqueueFront(q, m) == queue' = [queue EXCEPT ![q] = <<m>> \o @]
Enqueue(q, m) == queue' = [queue EXCEPT ![q] = Append(@, m)]

(* One queue of the copy is done, with or without success.                 *)
AdvanceCountsAll(p, delivered) ==
  job' = [job EXCEPT ![p].pc = "loop", ![p].todo = Tail(@), ![p].ok = @ + 1]
Advance(p, delivered) ==
  job' = [job EXCEPT ![p].pc = "loop", ![p].todo = Tail(@),
                     ![p].ok = IF delivered THEN @ + 1 ELSE @,
                     ![p].bad = IF delivered THEN @ ELSE @ + 1]

(* Any post of an event without a lease: the guards on kind and payload,   *)
(* then the snapshot.                                                      *)
Begin(p, e) ==
  /\ Up
  /\ job[p].pc = "idle" /\ posted[p] < MaxPosts[p]
  /\ e \in Posts[p] /\ ~IsLease(e)
  /\ posted' = [posted EXCEPT ![p] = @ + 1]
  /\ job' = [job EXCEPT ![p] = [pc |-> "loop", ev |-> e, h |-> [idx |-> NoSlot, gen |-> 0],
                                pay |-> "00", todo |-> Snapshot, ok |-> 0, bad |-> 0]]
  /\ UNCHANGED <<poolVars, subs, subsCnt, subRes, queue, hold, open, gone, stat, evAbort>>

(* ev_post, from a task; ev_post_from_isr, from an interrupt handler (on a *)
(* dual-core chip it interleaves with the tasks of the other core).  Both  *)
(* go on with the loop over the copy and the accounting below.             *)
Post(p, e)        == p \notin Isrs /\ Begin(p, e)
PostFromIsr(p, e) == p \in Isrs /\ Begin(p, e)

(* The next entry of the copy has a queue; both broadcasts skip one that   *)
(* was cleared.                                                            *)
AtQueue(p) == job[p].pc = "loop" /\ job[p].todo # <<>> /\ Head(job[p].todo) # NoQueue

SkipCleared(p) ==
  /\ Up
  /\ job[p].pc = "loop" /\ job[p].todo # <<>> /\ Head(job[p].todo) = NoQueue
  /\ job' = [job EXCEPT ![p].todo = Tail(@)]
  /\ UNCHANGED <<poolVars, subs, subsCnt, subRes, queue, posted, hold, open, gone, stat, evAbort>>

(* ev_broadcast, one queue: overwrite a mailbox, otherwise send without    *)
(* waiting.                                                                *)
Overwrites(p, q) == EvQos[job[p].ev] = "REPLACE_LAST" /\ Depth[q] = 1

Overwrite(p) ==
  /\ Up
  /\ AtQueue(p) /\ ~IsLease(job[p].ev)
  /\ LET q == Head(job[p].todo) IN
       /\ Overwrites(p, q)
       /\ queue' = [queue EXCEPT ![q] = <<Message(p)>>]
       /\ gone' = IF queue[q] = <<>> THEN gone ELSE [gone EXCEPT ![Head(queue[q]).ev] = @ + 1]
  /\ Advance(p, TRUE)
  /\ UNCHANGED <<poolVars, subs, subsCnt, subRes, posted, hold, open, stat, evAbort>>

Send(p) ==
  /\ Up
  /\ AtQueue(p) /\ ~IsLease(job[p].ev)
  /\ LET q == Head(job[p].todo) IN
       /\ ~Overwrites(p, q)
       /\ IF HasRoom(q) THEN Enqueue(q, Message(p)) ELSE UNCHANGED queue
       /\ Advance(p, HasRoom(q))
  /\ UNCHANGED <<poolVars, subs, subsCnt, subRes, posted, hold, open, gone, stat, evAbort>>

-----------------------------------------------------------------------------
(* The producer of a lease follows the protocol of leasepool.h.            *)
Alloc(p, e) ==
  /\ Up
  /\ job[p].pc = "idle" /\ posted[p] < MaxPosts[p]
  /\ p \notin Isrs /\ e \in Posts[p] /\ IsLease(e)
  /\ AllocTry(BufSize)
  /\ posted' = [posted EXCEPT ![p] = @ + 1]
  /\ job' = IF freeTop = 0 THEN job
            ELSE [job EXCEPT ![p] = [pc |-> "owned", ev |-> e, h |-> NextHandle,
                                     pay |-> "00", todo |-> <<>>, ok |-> 0, bad |-> 0]]
  /\ UNCHANGED <<subs, subsCnt, subRes, queue, hold, open, gone, stat, evAbort>>

Map(p) ==
  /\ Up
  /\ job[p].pc = "owned"
  /\ Acquire(job[p].h)
  /\ SetPc(p, "mapped")
  /\ UNCHANGED <<subs, subsCnt, subRes, queue, posted, hold, open, gone, stat, evAbort>>

Fill(p) ==
  /\ Up
  /\ job[p].pc = "mapped"
  /\ WriteView(job[p].h.idx, p)
  /\ job' = [job EXCEPT ![p].pc = "filled", ![p].pay = p]
  /\ UNCHANGED <<subs, subsCnt, subRes, queue, posted, hold, open, gone, stat, evAbort>>

Publish(p) ==
  /\ Up
  /\ job[p].pc = "filled"
  /\ Commit(job[p].h, BufSize)
  /\ SetPc(p, "ready")
  /\ UNCHANGED <<subs, subsCnt, subRes, queue, posted, hold, open, gone, stat, evAbort>>

(* ev_post_lease: guard, then the snapshot of ev_broadcast_lease.          *)
PostLease(p) ==
  /\ Up
  /\ job[p].pc = "ready"
  /\ IF SchemaGuard /\ PacksToZero(job[p].h)
     THEN evAbort' = TRUE /\ UNCHANGED job
     ELSE /\ job' = [job EXCEPT ![p].pc = "loop", ![p].todo = Snapshot]
          /\ UNCHANGED evAbort
  /\ UNCHANGED <<poolVars, subs, subsCnt, subRes, queue, posted, hold, open, gone, stat>>

RetainNothing(p) ==
  /\ Up
  /\ AtQueue(p) /\ IsLease(job[p].ev)
  /\ SetPc(p, "retained")
  /\ UNCHANGED <<poolVars, subs, subsCnt, subRes, queue, posted, hold, open, gone, stat, evAbort>>

Retain(p) ==
  /\ Up
  /\ AtQueue(p) /\ IsLease(job[p].ev)
  /\ AddRefN(job[p].h, 1)
  /\ SetPc(p, "retained")
  /\ UNCHANGED <<subs, subsCnt, subRes, queue, posted, hold, open, gone, stat, evAbort>>

SendLease(p) ==
  /\ Up
  /\ job[p].pc = "retained"
  /\ LET q == Head(job[p].todo) IN
       IF HasRoom(q) THEN Enqueue(q, Message(p)) /\ Advance(p, TRUE)
                     ELSE SetPc(p, "undo") /\ UNCHANGED queue
  /\ UNCHANGED <<poolVars, subs, subsCnt, subRes, posted, hold, open, gone, stat, evAbort>>

UndoNothing(p) ==
  /\ Up
  /\ job[p].pc = "undo"
  /\ Advance(p, FALSE)
  /\ UNCHANGED <<poolVars, subs, subsCnt, subRes, queue, posted, hold, open, gone, stat, evAbort>>

UndoRetain(p) ==
  /\ Up
  /\ job[p].pc = "undo"
  /\ Release(job[p].h)
  /\ Advance(p, FALSE)
  /\ UNCHANGED <<subs, subsCnt, subRes, queue, posted, hold, open, gone, stat, evAbort>>

(* The producer's own reference, given up after the broadcast.             *)
ReleaseOwn(p) ==
  /\ Up
  /\ job[p].pc = "loop" /\ IsLease(job[p].ev) /\ job[p].todo = <<>>
  /\ Release(job[p].h)
  /\ SetPc(p, "stats")
  /\ UNCHANGED <<subs, subsCnt, subRes, queue, posted, hold, open, gone, stat, evAbort>>

(* The second critical section of every post.                              *)
Account(p) ==
  /\ Up
  /\ \/ job[p].pc = "stats"
     \/ job[p].pc = "loop" /\ ~IsLease(job[p].ev) /\ job[p].todo = <<>>
  /\ LET j == job[p] IN
       stat' = [stat EXCEPT ![j.ev] =
                  [ok   |-> @.ok + (IF j.ok > 0 THEN 1 ELSE 0),
                   drop |-> @.drop + (IF j.ok > 0 THEN 0 ELSE 1),
                   fail |-> @.fail + j.bad,
                   dlv  |-> @.dlv + j.ok]]
  /\ job' = [job EXCEPT ![p] = NoJob]
  /\ UNCHANGED <<poolVars, subs, subsCnt, subRes, queue, posted, hold, open, gone, evAbort>>

-----------------------------------------------------------------------------
(* The reader of a queue: xQueueReceive, then by event.                    *)
Receive(q) ==
  /\ Up
  /\ hold[q] = NoMsg /\ queue[q] # <<>>
  /\ LET m == Head(queue[q]) IN
       /\ hold' = [hold EXCEPT ![q] = m]
       /\ gone' = [gone EXCEPT ![m.ev] = @ + 1]
  /\ queue' = [queue EXCEPT ![q] = Tail(@)]
  /\ UNCHANGED <<poolVars, subs, subsCnt, subRes, job, posted, open, stat, evAbort>>

(* A message that carries no lease, or a lease of an event the reader does *)
(* not look at, is dropped as it is.                                       *)
Discard(q) ==
  /\ Up
  /\ hold[q] # NoMsg
  /\ ~IsLease(hold[q].ev) \/ hold[q].ev \notin Serves[q]
  /\ hold' = [hold EXCEPT ![q] = NoMsg]
  /\ UNCHANGED <<poolVars, subs, subsCnt, subRes, queue, job, posted, open, gone, stat, evAbort>>

(* lp_acquire; a refused handle is only logged.                            *)
OpenView(q) ==
  /\ Up
  /\ hold[q] # NoMsg /\ IsLease(hold[q].ev) /\ hold[q].ev \in Serves[q]
  /\ q \notin open
  /\ IF Live(hold[q].h)
     THEN Acquire(hold[q].h) /\ open' = open \cup {q} /\ UNCHANGED hold
     ELSE hold' = [hold EXCEPT ![q] = NoMsg] /\ UNCHANGED <<poolVars, open>>
  /\ UNCHANGED <<subs, subsCnt, subRes, queue, job, posted, gone, stat, evAbort>>

(* The view has been used: lp_release.                                     *)
CloseView(q) ==
  /\ Up
  /\ q \in open
  /\ Release(hold[q].h)
  /\ open' = open \ {q}
  /\ hold' = [hold EXCEPT ![q] = NoMsg]
  /\ UNCHANGED <<subs, subsCnt, subRes, queue, job, posted, gone, stat, evAbort>>

-----------------------------------------------------------------------------
(* What the counters have to account for: messages of e in the queues and  *)
(* messages of e that posts still under way have delivered.                *)
InQueue(q)   == {queue[q][k] : k \in DOMAIN queue[q]}
QueuedSet(e) == UNION {{<<q, m>> : m \in {m \in InQueue(q) : m.ev = e}} : q \in Queues}
Queued(e)    == Cardinality(QueuedSet(e))

DoneBy(p, e)   == IF job[p] # NoJob /\ job[p].ev = e THEN {p} \X (1 .. job[p].ok) ELSE {}
UnderwaySet(e) == UNION {DoneBy(p, e) : p \in Posters}
Underway(e)    == Cardinality(UnderwaySet(e))

(* ev_reset_stats; gone restarts with the counters, from what is queued    *)
(* and under way.                                                          *)
EvResetStats ==
  /\ Up
  /\ CliResets
  /\ stat' = [e \in Events |-> [ok |-> 0, drop |-> 0, fail |-> 0, dlv |-> 0]]
  /\ gone' = [e \in Events |-> Underway(e) - Queued(e)]
  /\ UNCHANGED <<poolVars, subs, subsCnt, subRes, queue, job, posted, hold, open, evAbort>>

(* Every post of the bounded run is over and every message handled, or a   *)
(* guard stopped the chip.                                                 *)
Quiet ==
  /\ \A p \in Posters : job[p] = NoJob /\ posted[p] = MaxPosts[p]
  /\ \A q \in Queues : queue[q] = <<>> /\ hold[q] = NoMsg
Finished == (Quiet \/ evAbort) /\ UNCHANGED vars

(* A post under way goes on.                                               *)
Proceed(p) ==
  \/ SkipCleared(p) \/ Overwrite(p) \/ Send(p)
  \/ Map(p) \/ Fill(p) \/ Publish(p)
  \/ PostLease(p) \/ Retain(p) \/ SendLease(p) \/ UndoRetain(p)
  \/ ReleaseOwn(p) \/ Account(p)

PosterStep(p) ==
  \/ \E e \in Posts[p] : Post(p, e) \/ PostFromIsr(p, e) \/ Alloc(p, e)
  \/ Proceed(p)

ReaderStep(q) == Receive(q) \/ Discard(q) \/ OpenView(q) \/ CloseView(q)

BusNext ==
  \/ \E p \in Posters : PosterStep(p)
  \/ \E q \in Queues : ReaderStep(q) \/ Subscribe(q) \/ Unsubscribe(q)
  \/ EvResetStats
  \/ Finished

BusSpec == BusInit /\ [][BusNext]_vars

(* FreeRTOS runs every ready task in the end: services block on their      *)
(* queues and feed a watchdog that resets the chip when one of them        *)
(* starves, so each task and each reader that can step does.               *)
Fairness ==
  /\ \A p \in Posters : WF_vars(PosterStep(p))
  /\ \A q \in Queues : WF_vars(ReaderStep(q))

FairBusSpec == BusSpec /\ Fairness

-----------------------------------------------------------------------------
Messages == [ev : Events, h : Handles, pay : Contents, from : Posters, seq : Nat]
Jobs     == [pc : {"owned", "mapped", "filled", "ready", "loop", "retained", "undo", "stats"},
             ev : Events, h : Handles, pay : Contents, todo : Seq(Queues \cup {NoQueue}),
             ok : Nat, bad : Nat]

BusTypeOK ==
  /\ TypeOK
  /\ subs \in [Entries -> Queues \cup {NoQueue}]
  /\ subsCnt \in 0 .. MaxSubs
  /\ subRes \in [Queues -> {"no", "ok", "failed"}]
  /\ queue \in [Queues -> Seq(Messages)] /\ \A q \in Queues : Len(queue[q]) <= Depth[q]
  /\ job \in [Posters -> {NoJob} \cup Jobs]
  /\ hold \in [Queues -> {NoMsg} \cup Messages]
  /\ open \subseteq Queues /\ \A q \in open : hold[q] # NoMsg
  /\ posted \in [Posters -> Nat] /\ \A p \in Posters : posted[p] <= MaxPosts[p]
  /\ gone \in [Events -> Int]
  /\ stat \in [Events -> [ok : Nat, drop : Nat, fail : Nat, dlv : Nat]]
  /\ evAbort \in BOOLEAN

(* Everyone who owes slot i a release: the producer from lp_alloc_try to   *)
(* its own release, a broadcast between taking a reference and handing it  *)
(* to a queue or undoing it, a message in a queue or in its reader's       *)
(* hands.                                                                  *)
Owning == {"owned", "mapped", "filled", "ready", "loop", "retained", "undo"}

HasLease(m) == m # NoMsg /\ IsLease(m.ev)
Carried(q)  == {hold[q]} \cup InQueue(q)

Producers(i)  == {p \in Posters : job[p].pc \in Owning /\ job[p].h.idx = i}
Broadcasts(i) == {p \in Posters : job[p].pc \in {"retained", "undo"} /\ job[p].h.idx = i}
Mails(i)      == {x \in UNION {{q} \X Carried(q) : q \in Queues} :
                    HasLease(x[2]) /\ x[2].h.idx = i}
Debtors(i)    == ({"producer"} \X Producers(i)) \cup ({"broadcast"} \X Broadcasts(i))
                 \cup ({"mail"} \X Mails(i))

(* The reference count of a slot is the number of parties that still owe   *)
(* it a release, at every point of every interleaving: a slot is neither   *)
(* freed under a reader nor kept when nobody will ever release it.         *)
RefsAccounted == \A i \in Slots : refcnt[i] = Cardinality(Debtors(i))

(* A lease in a queue or in a reader's hands is the one its producer       *)
(* committed: the handle is live and the buffer still holds the payload,   *)
(* whatever other posts, failures and releases happened meanwhile.         *)
Intact(m) == HasLease(m) => /\ Live(m.h)
                            /\ buf[m.h.idx] = m.pay
                            /\ len[m.h.idx] = BufSize
LeasesIntact ==
  \A q \in Queues : \A m \in Carried(q) : Intact(m)

(* Clients that keep to the protocol never run into a guard of the pool    *)
(* (lp_abort_badrefs_ and the others of leasepool.c), however posts, failed *)
(* sends and readers interleave. The schema guard of ev_post_lease is      *)
(* another matter: it stops them on a live handle (AbortBlamesHandle).     *)
PoolNeverAborts == Running

(* The posts of one poster reach every queue in the order they were made,  *)
(* and a reader never goes back behind a message it already took.          *)
InPostOrder ==
  \A q \in Queues : LET all == IF hold[q] = NoMsg THEN queue[q] ELSE <<hold[q]>> \o queue[q] IN
    \A k, l \in 1 .. Len(all) :
      k < l /\ all[k].from = all[l].from => all[k].seq < all[l].seq

(* The delivered counters tell the truth: each delivery they count was     *)
(* received, is still in a queue or was replaced in a mailbox, whatever    *)
(* posts were under way when the counters were cleared.                    *)
DeliveriesAddUp == \A e \in Events : stat[e].dlv + Underway(e) = gone[e] + Queued(e)

(* A subscription is refused only when EV_MAX_SUBS subscribers are active: *)
(* ev_subscribe never reuses a cleared entry, so an unsubscription breaks  *)
(* it (EventBus_claims.cfg).                                               *)
Active == {q \in Queues : \E n \in Entries : subs[n] = q}
RefusedOnlyWhenFull ==
  [][\A q \in Queues : subRes[q] # "failed" /\ subRes'[q] = "failed"
                        => Cardinality(Active) = MaxSubs]_vars

(* Once every post is over and every message handled, the pool is full     *)
(* again (test_ev_post_lease.c asserts slots_free == slots_total).         *)
QuietMeansFree == Quiet => freeTop = NumSlots

(* ev_post_lease aborts with "invalid lease handle" only on a handle that  *)
(* is not live: a handle of slot 0 whose generation wrapped to 0 packs to  *)
(* 0 and is stopped all the same.                                          *)
AbortBlamesHandle ==
  evAbort => \E p \in Posters : job[p].pc = "ready" /\ ~Live(job[p].h)

(* Every slot that is handed out comes back and the pool does not drain,   *)
(* unless the schema guard stops the chip.                                 *)
SlotsComeBack == \A i \in Slots : refcnt[i] > 0 ~> refcnt[i] = 0 \/ evAbort
=============================================================================
