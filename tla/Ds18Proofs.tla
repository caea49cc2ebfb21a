----------------------------- MODULE Ds18Proofs -----------------------------
(***************************************************************************)
(* The thermometer.  Its service works on one tick at a time and reads the *)
(* sensor only after its conversion, whatever its queues lose; it gets     *)
(* stuck when its full queue refuses a tick, and only then.  A temperature *)
(* that passes the CRC of the transfer is the sensor's.                    *)
(*                                                                         *)
(* A step of the service is a step of the bus with a change of the         *)
(* service's own state, so the invariants of BusProofs hold beside the     *)
(* service's own (DsInvariant).                                            *)
(***************************************************************************)
EXTENDS BusProofs, Ds18Service, OneWire, NumberFacts, FiniteSetTheorems, SequenceTheorems

-----------------------------------------------------------------------------
(* A tick is in one of seven places, the one-shot and the task at work on  *)
(* a tick among them, and never in two.                                    *)
TickPosters == {Period, Once}
HasTickIn(s) == \E k \in 1 .. Len(s) : s[k].ev = DrvTick
OneTickIn(s) == \A k, l \in 1 .. Len(s) : s[k].ev = DrvTick /\ s[l].ev = DrvTick => k = l

OneOf(a, b, c, d, e, f, g) ==
  /\ a => ~b /\ ~c /\ ~d /\ ~e /\ ~f /\ ~g
  /\ b => ~c /\ ~d /\ ~e /\ ~f /\ ~g
  /\ c => ~d /\ ~e /\ ~f /\ ~g
  /\ d => ~e /\ ~f /\ ~g
  /\ e => ~f /\ ~g
  /\ f => ~g

Calling  == cb \in {"mark", "kick", "over"}
AtWork   == stage # "receive"
InHand   == stage = "receive" /\ HasTick
InLine   == HasTickIn(queue[ServiceQueue])
OnePlace == OneOf(Calling, Bound(Period), Bound(Once), InLine, InHand, shot, AtWork)
OneInLine == OneTickIn(queue[ServiceQueue])

(* Only the two callbacks post ticks, and they post nothing else.          *)
OwnEvents ==
  \A p \in Posters : job[p] # NoJob => (job[p].ev = DrvTick <=> p \in TickPosters)

DsTypes ==
  /\ st \in {"IDLE", "KICK", "WAIT", "READ"}
  /\ stage \in {"receive", "convert", "arm", "read", "report"}
  /\ cb \in {"none", "mark", "kick", "over", "posting"}
  /\ shot \in BOOLEAN
  /\ conv \in {"none", "running", "over"}

(* The state of the machine by where it stands; in IDLE nothing is under   *)
(* way but a callback that has seen it.                                    *)
Machine ==
  /\ st = "IDLE" => /\ cb \notin {"kick", "over"} /\ ~Bound(Period) /\ ~Bound(Once)
                    /\ ~InLine /\ ~InHand /\ ~shot /\ ~AtWork
  /\ cb = "mark" => st = "IDLE"
  /\ shot => st = "WAIT" /\ conv = "running"
  /\ stage = "convert" => st = "KICK"
  /\ stage = "arm" => st = "WAIT" /\ conv = "running"
  /\ stage = "read" => st = "READ" /\ conv = "over"
  /\ stage = "report" => st # "WAIT"
  /\ st = "WAIT" => stage = "arm" \/ shot \/ conv = "over"

DsInv == OwnEvents /\ OneInLine /\ DsTypes /\ OnePlace /\ Machine

(* A machine outside IDLE has a tick, unless one was lost.                 *)
Attended ==
  st # "IDLE" => \/ Calling \/ Bound(Period) \/ Bound(Once) \/ InLine
                 \/ InHand \/ shot \/ AtWork
Known ==
  /\ subRes[ServiceQueue] = "ok" => \E n \in 0 .. subsCnt - 1 : subs[n] = ServiceQueue
  /\ subRes[ServiceQueue] # "ok" => st = "IDLE" /\ cb = "none"

LossKnown == tickLost <=> ~Attended

(* Ticks in a queue.                                                       *)
LEMMA TicksInAppend ==
  ASSUME NEW s \in Seq(Messages), NEW m \in Messages
  PROVE  /\ m.ev # DrvTick => /\ HasTickIn(Append(s, m)) <=> HasTickIn(s)
                              /\ OneTickIn(s) => OneTickIn(Append(s, m))
         /\ m.ev = DrvTick /\ ~HasTickIn(s) => OneTickIn(Append(s, m))
         /\ m.ev = DrvTick => HasTickIn(Append(s, m))
<1> DEFINE n == Len(s)
           t == Append(s, m)
<1>1. n \in Nat BY LenProperties
<1>2. Len(t) = n + 1 /\ t[n + 1] = m /\ \A k \in 1 .. n : t[k] = s[k] BY AppendProperties
<1> HIDE DEF n, t
<1>3. \A k \in 1 .. Len(t) : k \in 1 .. n \/ k = n + 1 BY <1>1, <1>2
<1>4. n + 1 \in 1 .. Len(t) /\ \A k \in 1 .. n : k \in 1 .. Len(t) BY <1>1, <1>2
<1>5. m.ev = DrvTick => HasTickIn(t) BY <1>2, <1>4 DEF HasTickIn
<1>6. m.ev # DrvTick => (HasTickIn(t) <=> HasTickIn(s)) BY <1>2, <1>3, <1>4 DEF HasTickIn, n
<1>7. m.ev # DrvTick /\ OneTickIn(s) => OneTickIn(t) BY <1>2, <1>3 DEF OneTickIn, n
<1>8. m.ev = DrvTick /\ ~HasTickIn(s) => OneTickIn(t)
  BY <1>2, <1>3 DEF OneTickIn, HasTickIn, n
<1> QED BY <1>5, <1>6, <1>7, <1>8 DEF t

LEMMA TicksInTail ==
  ASSUME NEW s \in Seq(Messages), s # <<>>
  PROVE  /\ HasTickIn(s) <=> Head(s).ev = DrvTick \/ HasTickIn(Tail(s))
         /\ OneTickIn(s) => /\ OneTickIn(Tail(s))
                            /\ Head(s).ev = DrvTick => ~HasTickIn(Tail(s))
<1> DEFINE t == Tail(s)
<1>1. /\ Len(s) \in Nat /\ 1 \in 1 .. Len(s) /\ Head(s) = s[1] /\ Len(t) = Len(s) - 1
      /\ \A k \in 1 .. Len(t) : k + 1 \in 1 .. Len(s) /\ t[k] = s[k + 1]
  BY RestOf
<1> HIDE DEF t
<1>2. \A k \in 1 .. Len(s) : k = 1 \/ (k - 1 \in 1 .. Len(t) /\ t[k - 1] = s[k]) BY <1>1
<1>3. HasTickIn(s) <=> Head(s).ev = DrvTick \/ HasTickIn(t) BY <1>1, <1>2 DEF HasTickIn
<1>4. ASSUME OneTickIn(s) PROVE OneTickIn(t)
  <2> SUFFICES ASSUME NEW k \in 1 .. Len(t), NEW l \in 1 .. Len(t), t[k].ev = DrvTick, t[l].ev = DrvTick
               PROVE  k = l
    BY DEF OneTickIn
  <2>1. k + 1 \in 1 .. Len(s) /\ s[k + 1].ev = DrvTick BY <1>1
  <2>2. l + 1 \in 1 .. Len(s) /\ s[l + 1].ev = DrvTick BY <1>1
  <2>3. k + 1 = l + 1 BY <1>4, <2>1, <2>2, Zenon DEF OneTickIn
  <2>4. k \in Int /\ l \in Int OBVIOUS
  <2> QED BY <2>3, <2>4
<1>5. ASSUME OneTickIn(s), Head(s).ev = DrvTick, HasTickIn(t) PROVE FALSE
  <2>1. PICK k \in 1 .. Len(t) : t[k].ev = DrvTick BY <1>5 DEF HasTickIn
  <2>2. k + 1 \in 1 .. Len(s) /\ s[k + 1].ev = DrvTick BY <1>1, <2>1
  <2>3. 1 \in 1 .. Len(s) /\ s[1].ev = DrvTick BY <1>1, <1>5
  <2>4. k + 1 = 1 BY <1>5, <2>2, <2>3, Zenon DEF OneTickIn
  <2> QED BY <2>1, <2>4
<1> QED BY <1>3, <1>4, <1>5 DEF t

LEMMA OneMessage ==
  ASSUME NEW m
  PROVE  OneTickIn(<<m>>) /\ (HasTickIn(<<m>>) <=> m.ev = DrvTick)
BY DEF OneTickIn, HasTickIn

(* A post is done with an entry of its copy.                               *)
LEMMA BoundMoves ==
  ASSUME TypeInv, OrderInv, NEW p \in Posters, job[p].pc = "loop", job[p].todo # <<>>,
         job'[p].pc = "loop", job'[p].todo = Tail(job[p].todo), job'[p] # NoJob
  PROVE  /\ Head(job[p].todo) = ServiceQueue => Bound(p) /\ ~Bound(p)'
         /\ Head(job[p].todo) # ServiceQueue => (Bound(p)' <=> Bound(p))
<1>1. BusTypeOK /\ job[p] \in Jobs /\ job[p] # NoJob BY BusyJob DEF TypeInv
<1>2. job[p].todo \in Seq(Queues \cup {NoQueue}) BY <1>1 DEF Jobs
<1> DEFINE s == job[p].todo
           t == Tail(s)
<1>3. /\ Len(s) \in Nat /\ 1 \in 1 .. Len(s) /\ Head(s) = s[1] /\ Len(t) = Len(s) - 1
      /\ \A k \in 1 .. Len(t) : k + 1 \in 1 .. Len(s) /\ t[k] = s[k + 1]
  BY <1>2, RestOf
<1>4. \A k, l \in 1 .. Len(s) : s[k] = s[l] => k = l \/ s[k] = NoQueue
  BY <1>1 DEF OrderInv, RoundOnce
<1>5. ServiceQueue # NoQueue BY DsAssumption, BusAssumption
<1> HIDE DEF s, t
<1>6. \A k \in 1 .. Len(s) : k = 1 \/ (k - 1 \in 1 .. Len(t) /\ t[k - 1] = s[k]) BY <1>3
<1>7. Bound(p) <=> \E k \in 1 .. Len(s) : s[k] = ServiceQueue BY <1>1 DEF Bound, s
<1>8. Bound(p)' <=> \E k \in 1 .. Len(t) : t[k] = ServiceQueue BY <1>1 DEF Bound, s, t
<1>9. CASE Head(s) = ServiceQueue
  <2>1. \A k \in 1 .. Len(t) : t[k] # ServiceQueue
    <3> SUFFICES ASSUME NEW k \in 1 .. Len(t), t[k] = ServiceQueue PROVE FALSE
      OBVIOUS
    <3>1. k + 1 \in 1 .. Len(s) /\ s[k + 1] = ServiceQueue BY <1>3
    <3>2. 1 \in 1 .. Len(s) /\ s[1] = ServiceQueue BY <1>3, <1>9
    <3>3. k + 1 = 1 BY <1>4, <1>5, <3>1, <3>2, Zenon
    <3> QED BY <3>3
  <2> QED BY <2>1, <1>3, <1>7, <1>8, <1>9 DEF s
<1>10. CASE Head(s) # ServiceQueue
  <2>1. ASSUME NEW k \in 1 .. Len(s), s[k] = ServiceQueue
        PROVE  \E l \in 1 .. Len(t) : t[l] = ServiceQueue
    <3>1. k # 1 BY <1>3, <1>10, <2>1
    <3> QED BY <1>6, <2>1, <3>1
  <2>2. ASSUME NEW k \in 1 .. Len(t), t[k] = ServiceQueue
        PROVE  \E l \in 1 .. Len(s) : s[l] = ServiceQueue
    <3>1. k + 1 \in 1 .. Len(s) /\ s[k + 1] = ServiceQueue BY <1>3, <2>2
    <3> QED BY <3>1
  <2>3. Bound(p) <=> Bound(p)' BY <1>7, <1>8, <2>1, <2>2, Zenon
  <2> QED BY <1>10, <2>3, Zenon DEF s
<1> QED BY <1>9, <1>10 DEF s

(* A post keeps its event, and the readers' hands are not its business.    *)
LEMMA PostKeepsEvent ==
  ASSUME TypeInv, NEW p \in Posters, Proceed(p)
  PROVE  /\ job[p] \in Jobs /\ job[p] # NoJob
         /\ \A r \in Posters : r # p => job'[r] = job[r]
         /\ job'[p] # NoJob => job'[p].ev = job[p].ev
         /\ UNCHANGED <<hold, subs, subsCnt, subRes, posted>>
<1>1. job[p].pc # "idle" /\ UNCHANGED <<hold, subs, subsCnt, subRes, posted>>
  BY DEF Proceed, SkipCleared, Overwrite, Send, Map, Fill, Publish, PostLease, Retain, SendLease,
         UndoRetain, ReleaseOwn, Account, AtQueue
<1>2. BusTypeOK /\ job[p] \in Jobs /\ job[p] # NoJob /\ Shape(job[p]) BY <1>1, BusyJob DEF TypeInv
<1>3. job \in [Posters -> {NoJob} \cup Jobs] BY <1>2 DEF BusTypeOK
<1> DEFINE Becomes(j) == job' = [job EXCEPT ![p] = j] /\ (j = NoJob \/ j.ev = job[p].ev)
<1>4. ASSUME NEW j, Becomes(j)
      PROVE  /\ \A r \in Posters : r # p => job'[r] = job[r]
             /\ job'[p] # NoJob => job'[p].ev = job[p].ev
  BY <1>3, <1>4
<1>5. ASSUME NEW d \in BOOLEAN, Advance(p, d), job[p].todo # <<>> PROVE Becomes(Advanced(p, d))
  <2>1. job' = [job EXCEPT ![p] = Advanced(p, d)] BY <1>2, <1>5, AdvanceIs
  <2>2. Advanced(p, d).ev = job[p].ev BY DEF Advanced
  <2> QED BY <2>1, <2>2
<1>6. ASSUME NEW l, SetPc(p, l) PROVE Becomes(MovedTo(p, l))
  <2>1. job' = [job EXCEPT ![p] = MovedTo(p, l)] /\ MovedTo(p, l).ev = job[p].ev
    BY <1>2, <1>6, SetPcIs
  <2> QED BY <2>1
<1> SUFFICES /\ \A r \in Posters : r # p => job'[r] = job[r]
             /\ job'[p] # NoJob => job'[p].ev = job[p].ev
  BY <1>1, <1>2
<1>7. CASE job' = job
  BY <1>7, <1>3
<1>8. CASE \E d \in BOOLEAN : Advance(p, d) /\ job[p].todo # <<>>
  BY <1>4, <1>5, <1>8
<1>9. CASE \E l : SetPc(p, l)
  BY <1>4, <1>6, <1>9
<1>10. CASE SkipCleared(p)
  <2> DEFINE j == [job[p] EXCEPT !.todo = Tail(job[p].todo)]
  <2>1. job' = [job EXCEPT ![p] = j] BY <1>10 DEF SkipCleared
  <2>2. j.ev = job[p].ev BY <1>2 DEF Jobs
  <2> HIDE DEF j
  <2> QED BY <1>4, <2>1, <2>2
<1>11. CASE Fill(p)
  <2> DEFINE j == [job[p] EXCEPT !.pc = "filled", !.pay = p]
  <2>1. job' = [job EXCEPT ![p] = j] BY <1>11 DEF Fill
  <2>2. j.ev = job[p].ev BY <1>2 DEF Jobs
  <2> HIDE DEF j
  <2> QED BY <1>4, <2>1, <2>2
<1>12. CASE PostLease(p) /\ job' # job
  <2> DEFINE j == [job[p] EXCEPT !.pc = "loop", !.todo = Snapshot]
  <2>1. job' = [job EXCEPT ![p] = j] BY <1>12 DEF PostLease
  <2>2. j.ev = job[p].ev BY <1>2 DEF Jobs
  <2> HIDE DEF j
  <2> QED BY <1>4, <2>1, <2>2
<1>13. CASE Account(p)
  <2>1. job' = [job EXCEPT ![p] = NoJob] BY <1>13 DEF Account
  <2> QED BY <1>4, <2>1
<1>14. CASE Overwrite(p) \/ Send(p) \/ UndoRetain(p)
  <2>1. \E d \in BOOLEAN : Advance(p, d)
    <3>1. Overwrite(p) => Advance(p, TRUE) BY DEF Overwrite
    <3>2. UndoRetain(p) => Advance(p, FALSE) BY DEF UndoRetain
    <3>3. Send(p) => Advance(p, HasRoom(Head(job[p].todo))) BY DEF Send
    <3>4. HasRoom(Head(job[p].todo)) \in BOOLEAN BY DEF HasRoom
    <3> QED BY <1>14, <3>1, <3>2, <3>3, <3>4, Zenon
  <2>2. job[p].todo # <<>> BY <1>2, <1>14 DEF Overwrite, Send, UndoRetain, AtQueue, Shape
  <2> QED BY <2>1, <2>2, <1>8
<1>15. CASE SendLease(p)
  <2>1. job[p].todo # <<>> BY <1>2, <1>15 DEF SendLease, Shape
  <2>2. Advance(p, TRUE) \/ SetPc(p, "undo") BY <1>15 DEF SendLease
  <2> QED BY <2>1, <2>2, <1>8, <1>9
<1>16. CASE Map(p) \/ Publish(p) \/ Retain(p) \/ ReleaseOwn(p)
  BY <1>9, <1>16 DEF Map, Publish, Retain, ReleaseOwn
<1> QED
  BY <1>1, <1>2, <1>7, <1>10, <1>11, <1>12, <1>13, <1>14, <1>15, <1>16 DEF Proceed

(* What a callback's post does to its tick: it stays where it is, finds    *)
(* the service's queue full, or goes into it.                              *)
Holds(p) == /\ queue'[ServiceQueue] = queue[ServiceQueue] /\ (Bound(p)' <=> Bound(p))
            /\ ~TickRefused(p)
Loses(p) == /\ queue'[ServiceQueue] = queue[ServiceQueue] /\ Bound(p) /\ ~Bound(p)'
            /\ TickRefused(p)
Gives(p) == /\ Bound(p) /\ ~Bound(p)' /\ ~TickRefused(p)
            /\ \/ queue'[ServiceQueue] = Append(queue[ServiceQueue], Message(p))
               \/ queue'[ServiceQueue] = <<Message(p)>> /\ Depth[ServiceQueue] = 1

LEMMA TickProceeds ==
  ASSUME TypeInv, OrderInv, OwnEvents, NEW p \in TickPosters, Proceed(p)
  PROVE  Holds(p) \/ Loses(p) \/ Gives(p)
<1>1. p \in Posters /\ ServiceQueue \in Queues /\ ServiceQueue # NoQueue
  BY DsAssumption, BusAssumption DEF TickPosters
<1>2. job[p] \in Jobs /\ job[p] # NoJob /\ BusTypeOK /\ Shape(job[p])
  BY <1>1, PostKeepsEvent DEF TypeInv
<1>3. job[p].ev = DrvTick /\ ~IsLease(job[p].ev) BY <1>1, <1>2, DsAssumption DEF OwnEvents
<1>4. job[p].pc = "loop"
  <2>1. job[p].pc \in {"owned", "mapped", "filled", "ready", "loop", "retained", "undo", "stats"}
    BY <1>2 DEF Jobs
  <2> QED BY <2>1, <1>2, <1>3 DEF Shape, BeforeBus
<1>5. job \in [Posters -> {NoJob} \cup Jobs] /\ queue \in [Queues -> Seq(Messages)]
  BY <1>2 DEF BusTypeOK
<1>6. SkipCleared(p) \/ Overwrite(p) \/ Send(p) \/ Account(p)
  BY <1>3, <1>4 DEF Proceed, Map, Fill, Publish, PostLease, Retain, SendLease, UndoRetain, ReleaseOwn
<1>7. CASE SkipCleared(p)
  <2>1. /\ job[p].todo # <<>> /\ Head(job[p].todo) = NoQueue /\ queue' = queue
        /\ job' = [job EXCEPT ![p].todo = Tail(@)]
    BY <1>7 DEF SkipCleared
  <2> DEFINE j == [job[p] EXCEPT !.todo = Tail(job[p].todo)]
  <2>4. job' = [job EXCEPT ![p] = j] BY <2>1
  <2>5. j.pc = "loop" /\ j.todo = Tail(job[p].todo) /\ NoJob.pc = "idle"
    BY <1>2, <1>4 DEF Jobs, NoJob
  <2> HIDE DEF j
  <2>6. job'[p] = j BY <2>4, <1>1, <1>5
  <2>2. job'[p].pc = "loop" /\ job'[p].todo = Tail(job[p].todo) /\ job'[p] # NoJob
    BY <2>5, <2>6
  <2>3. Bound(p)' <=> Bound(p) BY <2>1, <2>2, <1>1, <1>4, BoundMoves
  <2> QED BY <2>1, <2>3, <1>1 DEF Holds, TickRefused
<1>8. ASSUME NEW d \in BOOLEAN, Advance(p, d), job[p].todo # <<>>
      PROVE  /\ job'[p].pc = "loop" /\ job'[p].todo = Tail(job[p].todo) /\ job'[p] # NoJob
  <2>1. job' = [job EXCEPT ![p] = Advanced(p, d)] /\ Advanced(p, d) \in Jobs
    BY <1>1, <1>2, <1>8, AdvanceIs
  <2>2. job'[p] = Advanced(p, d) BY <2>1, <1>1, <1>5
  <2>3. /\ Advanced(p, d).pc = "loop" /\ Advanced(p, d).todo = Tail(job[p].todo)
        /\ Advanced(p, d) # NoJob
    BY <2>1, NoJobIsNone DEF Advanced
  <2> QED BY <2>2, <2>3
<1>9. ~Overwrite(p) BY <1>3, DsAssumption DEF Overwrite, Overwrites
<1>10. CASE Send(p)
  <2> DEFINE q == Head(job[p].todo)
  <2>1. /\ job[p].todo # <<>> /\ Advance(p, HasRoom(q)) /\ HasRoom(q) \in BOOLEAN /\ AtQueue(p)
        /\ IF HasRoom(q) THEN queue' = [queue EXCEPT ![q] = Append(queue[q], Message(p))]
           ELSE queue' = queue
    BY <1>10 DEF Send, AtQueue, Enqueue, HasRoom
  <2>2. job'[p].pc = "loop" /\ job'[p].todo = Tail(job[p].todo) /\ job'[p] # NoJob BY <2>1, <1>8
  <2>3. /\ q = ServiceQueue => Bound(p) /\ ~Bound(p)'
        /\ q # ServiceQueue => (Bound(p)' <=> Bound(p))
    BY <2>1, <2>2, <1>1, <1>4, BoundMoves
  <2>4. CASE q = ServiceQueue /\ HasRoom(q)
    <3>1. queue'[ServiceQueue] = Append(queue[ServiceQueue], Message(p)) BY <2>1, <2>4, <1>1, <1>5
    <3> QED BY <3>1, <2>3, <2>4 DEF Gives, TickRefused
  <2>5. CASE q = ServiceQueue /\ ~HasRoom(q) BY <2>1, <2>3, <2>5 DEF Loses, TickRefused, TickPosters
  <2>6. CASE q # ServiceQueue
    <3>1. queue'[ServiceQueue] = queue[ServiceQueue] BY <2>1, <2>6, <1>1, <1>5
    <3> QED BY <3>1, <2>3, <2>6 DEF Holds, TickRefused
  <2> QED BY <2>4, <2>5, <2>6
<1>11. CASE Account(p)
  <2>1. job[p].todo = <<>> /\ queue' = queue /\ job'[p] = NoJob
    BY <1>11, <1>1, <1>4, <1>5 DEF Account
  <2> QED BY <2>1 DEF Holds, Bound, TickRefused, AtQueue
<1> QED BY <1>6, <1>7, <1>9, <1>10, <1>11

(* The posts of others bring no tick to the queue.                         *)
LEMMA OtherProceeds ==
  ASSUME TypeInv, OwnEvents, NEW p \in Posters \ TickPosters, Proceed(p)
  PROVE  \/ queue'[ServiceQueue] = queue[ServiceQueue]
         \/ queue'[ServiceQueue] = Append(queue[ServiceQueue], Message(p))
         \/ queue'[ServiceQueue] = <<Message(p)>> /\ Depth[ServiceQueue] = 1
<1>1. queue \in [Queues -> Seq(Messages)] /\ ServiceQueue \in Queues
  BY DsAssumption DEF TypeInv, BusTypeOK
<1>2. CASE Overwrite(p)
  <2> DEFINE q == Head(job[p].todo)
  <2>1. Depth[q] = 1 /\ queue' = [queue EXCEPT ![q] = <<Message(p)>>]
    BY <1>2 DEF Overwrite, Overwrites
  <2> QED BY <2>1, <1>1
<1>3. CASE Send(p) \/ SendLease(p)
  <2> DEFINE q == Head(job[p].todo)
  <2>1. queue' = queue \/ queue' = [queue EXCEPT ![q] = Append(queue[q], Message(p))]
    BY <1>3 DEF Send, SendLease, Enqueue
  <2> QED BY <2>1, <1>1
<1>4. CASE ~Overwrite(p) /\ ~Send(p) /\ ~SendLease(p)
  BY <1>4 DEF Proceed, SkipCleared, Map, Fill, Publish, PostLease, Retain, UndoRetain, ReleaseOwn,
              Account
<1> QED BY <1>2, <1>3, <1>4
LEMMA LineThen ==
  /\ InLine' <=> HasTickIn(queue'[ServiceQueue])
  /\ OneInLine' <=> OneTickIn(queue'[ServiceQueue])
BY DEF InLine, OneInLine, HasTickIn, OneTickIn

LEMMA WhoIsWho ==
  /\ Period \in Posters /\ Once \in Posters /\ Service \in Posters /\ Other \in Posters
  /\ Period # Once /\ Service \notin TickPosters /\ Other \notin TickPosters
  /\ Posters \ TickPosters \subseteq {Service, Other}
  /\ ServiceQueue \in Queues /\ AppQueue \in Queues /\ ServiceQueue # AppQueue
BY DsAssumption DEF TickPosters

(* A thermometer's step is a step of the bus or leaves it alone.           *)
LEMMA BusClient == ASSUME DsNext PROVE [BusNext]_vars
<1>1. CASE ServiceStart \/ AppStart
  BY <1>1, WhoIsWho DEF ServiceStart, AppStart, BusNext
<1>2. CASE TaskReceives \/ TaskIgnores \/ ConvertArms \/ BackToIdle \/ AppReads
  BY <1>2, WhoIsWho
     DEF TaskReceives, TaskIgnores, ConvertArms, BackToIdle, AppReads, ReaderStep, BusNext
<1>3. ASSUME NEW p \in Posters, NEW e, Post(p, e) \/ Alloc(p, e) PROVE BusNext
  <2>1. e \in Posts[p] BY <1>3 DEF Post, Begin, Alloc
  <2> QED BY <1>3, <2>1 DEF BusNext, PosterStep
<1>4. CASE PeriodPosts \/ OncePosts \/ ReadSucceeds \/ TransferFails \/ OtherPosts
  BY <1>3, <1>4, WhoIsWho DEF PeriodPosts, OncePosts, ReadSucceeds, TransferFails, OtherPosts
<1>5. CASE BusGoesOn BY <1>5 DEF BusGoesOn, BusNext, PosterStep
<1>6. CASE PeriodFires \/ PeriodMarks \/ OnceFires \/ CallbackReturns \/ TaskDispatches
           \/ ConvertStarts \/ RunOver
  BY <1>6 DEF PeriodFires, PeriodMarks, OnceFires, CallbackReturns, TaskDispatches, ConvertStarts,
              RunOver, allVars
<1> QED BY <1>1, <1>2, <1>4, <1>5, <1>6 DEF DsNext

(* What the steps of the bus do to the places of a tick.                   *)
JobsStay == /\ Bound(Period)' <=> Bound(Period)
            /\ Bound(Once)' <=> Bound(Once)
            /\ OwnEvents => OwnEvents'
LineStays == /\ InLine' <=> InLine
             /\ OneInLine => OneInLine'
HandStays == HasTick' <=> HasTick

LEMMA SameJobs == ASSUME UNCHANGED job PROVE JobsStay
BY DEF JobsStay, Bound, OwnEvents

LEMMA SameLine == ASSUME queue'[ServiceQueue] = queue[ServiceQueue] PROVE LineStays
BY LineThen DEF LineStays, InLine, OneInLine

LEMMA SameHand == ASSUME hold'[ServiceQueue] = hold[ServiceQueue] PROVE HandStays
BY DEF HandStays, HasTick

LEMMA OthersJobs ==
  ASSUME NEW p \in Posters, \A r \in Posters : r # p => job'[r] = job[r]
  PROVE  \A r \in Posters : r # p => (Bound(r)' <=> Bound(r))
BY DEF Bound

(* A post begins.                                                          *)
LEMMA Begun ==
  ASSUME BusTypeOK, NEW p \in Posters, NEW e, Post(p, e) \/ Alloc(p, e), e = DrvTick <=> p \in TickPosters
  PROVE  /\ OwnEvents => OwnEvents'
         /\ \A r \in Posters : r # p => (Bound(r)' <=> Bound(r))
         /\ LineStays /\ HandStays
<1>1. job \in [Posters -> {NoJob} \cup Jobs] BY DEF BusTypeOK
<1>2. UNCHANGED <<queue, hold>> BY DEF Post, Begin, Alloc
<1>3. \A r \in Posters : r # p => job'[r] = job[r] BY <1>1 DEF Post, Begin, Alloc
<1>4. job'[p] = job[p] \/ job'[p].ev = e BY <1>1 DEF Post, Begin, Alloc
<1>5. OwnEvents => OwnEvents' BY <1>3, <1>4 DEF OwnEvents
<1> QED BY <1>2, <1>3, <1>5, SameLine, SameHand, OthersJobs
(* The service takes a message, or is done with one.                       *)
LEMMA Taken ==
  ASSUME BusTypeOK, Receive(ServiceQueue)
  PROVE  /\ ~HasTick /\ JobsStay
         /\ InLine <=> HasTick' \/ InLine'
         /\ OneInLine => OneInLine' /\ (HasTick' => ~InLine')
<1> DEFINE s == queue[ServiceQueue]
<1>1. /\ hold[ServiceQueue] = NoMsg /\ s # <<>> /\ UNCHANGED job
      /\ hold' = [hold EXCEPT ![ServiceQueue] = Head(s)]
      /\ queue' = [queue EXCEPT ![ServiceQueue] = Tail(s)]
  BY DEF Receive
<1>2. /\ s \in Seq(Messages) /\ hold'[ServiceQueue] = Head(s) /\ queue'[ServiceQueue] = Tail(s)
  BY <1>1, WhoIsWho DEF BusTypeOK
<1>3. Head(s) # NoMsg BY <1>1, <1>2, HeadTailProperties, NoMsgIsNone
<1>4. HasTick' <=> Head(s).ev = DrvTick BY <1>2, <1>3 DEF HasTick
<1>5. /\ HasTickIn(s) <=> Head(s).ev = DrvTick \/ HasTickIn(Tail(s))
      /\ OneTickIn(s) => /\ OneTickIn(Tail(s))
                         /\ Head(s).ev = DrvTick => ~HasTickIn(Tail(s))
  BY <1>1, <1>2, TicksInTail
<1>6. InLine' <=> HasTickIn(Tail(s)) BY <1>2, LineThen
<1>7. OneInLine' <=> OneTickIn(Tail(s)) BY <1>2, LineThen
<1>8. ~HasTick /\ JobsStay BY <1>1, SameJobs DEF HasTick
<1> QED BY <1>4, <1>5, <1>6, <1>7, <1>8 DEF InLine, OneInLine

LEMMA PutAway ==
  ASSUME BusTypeOK, Discard(ServiceQueue)
  PROVE  ~HasTick' /\ JobsStay /\ LineStays
<1>1. hold'[ServiceQueue] = NoMsg /\ UNCHANGED <<job, queue>> BY WhoIsWho DEF Discard, BusTypeOK
<1> QED BY <1>1, SameJobs, SameLine DEF HasTick

LEMMA AppStays ==
  ASSUME BusTypeOK, ReaderStep(AppQueue)
  PROVE  JobsStay /\ LineStays /\ HandStays
<1>1. UNCHANGED job BY DEF ReaderStep, Receive, Discard, OpenView, CloseView
<1>2. queue' = queue \/ queue' = [queue EXCEPT ![AppQueue] = Tail(@)]
  BY DEF ReaderStep, Receive, Discard, OpenView, CloseView
<1>3. hold' = hold \/ \E m : hold' = [hold EXCEPT ![AppQueue] = m]
  BY DEF ReaderStep, Receive, Discard, OpenView, CloseView
<1>4. queue'[ServiceQueue] = queue[ServiceQueue] /\ hold'[ServiceQueue] = hold[ServiceQueue]
  BY <1>2, <1>3, WhoIsWho DEF BusTypeOK
<1> QED BY <1>1, <1>4, SameJobs, SameLine, SameHand

(* A post goes on: a tick stays where it is, is lost, or gets into line.   *)
LEMMA GoesOn ==
  ASSUME TypeInv, OrderInv, OwnEvents, NEW p \in Posters, Proceed(p)
  PROVE  /\ OwnEvents' /\ HandStays
         /\ \A r \in Posters : r # p => (Bound(r)' <=> Bound(r))
         /\ p \in TickPosters =>
              \/ LineStays /\ (Bound(p)' <=> Bound(p)) /\ ~TickRefused(p)
              \/ LineStays /\ Bound(p) /\ ~Bound(p)' /\ TickRefused(p)
              \/ /\ Bound(p) /\ ~Bound(p)' /\ InLine' /\ ~TickRefused(p)
                 /\ ~InLine => OneInLine'
         /\ p \notin TickPosters =>
              /\ InLine' => InLine
              /\ OneInLine => OneInLine'
              /\ Depth[ServiceQueue] # 1 => LineStays
<1>1. /\ job[p] \in Jobs /\ job[p] # NoJob /\ BusTypeOK
      /\ \A r \in Posters : r # p => job'[r] = job[r]
      /\ job'[p] # NoJob => job'[p].ev = job[p].ev
      /\ UNCHANGED hold
  BY PostKeepsEvent DEF TypeInv
<1>2. OwnEvents' BY <1>1 DEF OwnEvents
<1>3. HandStays /\ \A r \in Posters : r # p => (Bound(r)' <=> Bound(r))
  BY <1>1, SameHand, OthersJobs
<1> DEFINE s == queue[ServiceQueue]
           m == Message(p)
<1>4. s \in Seq(Messages) /\ m \in Messages BY <1>1, WhoIsWho, MessageType DEF BusTypeOK
<1>5. m.ev = DrvTick <=> p \in TickPosters BY <1>1 DEF OwnEvents, Message
<1> HIDE DEF m
<1>6. /\ m.ev # DrvTick => /\ HasTickIn(Append(s, m)) <=> HasTickIn(s)
                           /\ OneTickIn(s) => OneTickIn(Append(s, m))
      /\ m.ev = DrvTick /\ ~HasTickIn(s) => OneTickIn(Append(s, m))
      /\ m.ev = DrvTick => HasTickIn(Append(s, m))
  BY <1>4, TicksInAppend
<1>7. OneTickIn(<<m>>) /\ (HasTickIn(<<m>>) <=> m.ev = DrvTick) BY OneMessage
<1>8. CASE p \in TickPosters
  <2>1. Holds(p) \/ Loses(p) \/ Gives(p) BY <1>8, TickProceeds
  <2>2. CASE Holds(p) BY <1>2, <1>3, <1>8, <2>2, SameLine DEF Holds
  <2>3. CASE Loses(p) BY <1>2, <1>3, <1>8, <2>3, SameLine DEF Loses
  <2>4. CASE Gives(p)
    <3>1. /\ Bound(p) /\ ~Bound(p)' /\ ~TickRefused(p)
          /\ queue'[ServiceQueue] = Append(s, m) \/ queue'[ServiceQueue] = <<m>>
      BY <2>4 DEF Gives, m
    <3>2. InLine' /\ (~InLine => OneInLine')
      BY <1>5, <1>6, <1>7, <1>8, <3>1, LineThen DEF InLine
    <3> QED BY <1>2, <1>3, <1>8, <3>1, <3>2
  <2> QED BY <2>1, <2>2, <2>3, <2>4
<1>9. CASE p \notin TickPosters
  <2>1. \/ queue'[ServiceQueue] = s
        \/ queue'[ServiceQueue] = Append(s, m)
        \/ queue'[ServiceQueue] = <<m>> /\ Depth[ServiceQueue] = 1
    BY <1>9, OtherProceeds DEF m
  <2>2. CASE queue'[ServiceQueue] = s BY <1>2, <1>3, <1>9, <2>2, SameLine DEF LineStays
  <2>3. CASE queue'[ServiceQueue] = Append(s, m)
    <3>1. (InLine' <=> InLine) /\ (OneInLine => OneInLine')
      BY <1>5, <1>6, <1>9, <2>3, LineThen DEF InLine, OneInLine
    <3> QED BY <1>2, <1>3, <1>9, <3>1 DEF LineStays
  <2>4. CASE queue'[ServiceQueue] = <<m>> /\ Depth[ServiceQueue] = 1
    <3>1. ~InLine' /\ OneInLine' BY <1>5, <1>7, <1>9, <2>4, LineThen
    <3> QED BY <1>2, <1>3, <1>9, <2>4, <3>1
  <2> QED BY <2>1, <2>2, <2>3, <2>4
<1> QED BY <1>8, <1>9
-----------------------------------------------------------------------------
(* The invariant of the machine, action by action.                         *)
Callbacks == PeriodFires \/ PeriodMarks \/ OnceFires \/ CallbackReturns

LEMMA CallbackKeeps == ASSUME BusTypeOK, DsInv, Callbacks \/ TaskDispatches \/ ConvertStarts PROVE DsInv'
<1>1. UNCHANGED vars
  BY DEF Callbacks, PeriodFires, PeriodMarks, OnceFires, CallbackReturns, TaskDispatches, ConvertStarts
<1>2. JobsStay /\ LineStays /\ HandStays
  BY <1>1, SameJobs, SameLine, SameHand DEF vars, busVars
<1> USE DEF DsInv, DsTypes, OnePlace, OneOf, Machine, Calling, AtWork, InHand, JobsStay, LineStays,
            HandStays
<1>3. CASE PeriodFires BY <1>2, <1>3 DEF PeriodFires, PeriodWanted
<1>4. CASE PeriodMarks BY <1>2, <1>4 DEF PeriodMarks
<1>5. CASE OnceFires BY <1>2, <1>5 DEF OnceFires
<1>6. CASE CallbackReturns BY <1>2, <1>6 DEF CallbackReturns
<1>7. CASE TaskDispatches BY <1>2, <1>7 DEF TaskDispatches
<1>8. CASE ConvertStarts BY <1>2, <1>8 DEF ConvertStarts
<1> QED BY <1>3, <1>4, <1>5, <1>6, <1>7, <1>8 DEF Callbacks

LEMMA PostKeeps ==
  ASSUME BusTypeOK, DsInv, PeriodPosts \/ OncePosts \/ ReadSucceeds \/ TransferFails \/ OtherPosts
  PROVE  DsInv'
<1> DEFINE Begins(p, e) ==
      /\ OwnEvents'
      /\ \A r \in Posters : r # p => (Bound(r)' <=> Bound(r))
      /\ LineStays /\ HandStays
<1>1. ASSUME NEW p \in Posters, NEW e, Post(p, e) \/ Alloc(p, e), e = DrvTick <=> p \in TickPosters
      PROVE  Begins(p, e)
  BY <1>1, Begun DEF DsInv
<1>2. Ready # DrvTick /\ Error # DrvTick /\ Foreign # DrvTick /\ Period \in TickPosters /\ Once \in TickPosters
      /\ Period # Service /\ Period # Other /\ Once # Service /\ Once # Other
  BY DsAssumption DEF TickPosters
<1>3. CASE PeriodPosts
  <2>1. Begins(Period, DrvTick) BY <1>1, <1>2, <1>3, WhoIsWho DEF PeriodPosts
  <2>2. OwnEvents' /\ (Bound(Once)' <=> Bound(Once)) /\ LineStays /\ HandStays BY <2>1, WhoIsWho
  <2> HIDE DEF Begins
  <2> QED BY <1>3, <2>2 DEF PeriodPosts, DsInv, DsTypes, OnePlace, OneOf, Machine, Calling, AtWork,
                            InHand, LineStays, HandStays
<1>4. CASE OncePosts
  <2>1. Begins(Once, DrvTick) BY <1>1, <1>2, <1>4, WhoIsWho DEF OncePosts
  <2>2. OwnEvents' /\ (Bound(Period)' <=> Bound(Period)) /\ LineStays /\ HandStays BY <2>1, WhoIsWho
  <2> HIDE DEF Begins
  <2> QED BY <1>4, <2>2 DEF OncePosts, DsInv, DsTypes, OnePlace, OneOf, Machine, Calling, AtWork,
                            InHand, LineStays, HandStays
<1>5. CASE ReadSucceeds \/ TransferFails \/ OtherPosts
  <2>1. \/ Begins(Service, Ready) \/ Begins(Service, Error) \/ Begins(Other, Foreign)
    BY <1>1, <1>2, <1>5, WhoIsWho DEF ReadSucceeds, TransferFails, OtherPosts
  <2>2. /\ OwnEvents' /\ (Bound(Period)' <=> Bound(Period)) /\ (Bound(Once)' <=> Bound(Once))
        /\ LineStays /\ HandStays
    BY <1>2, <2>1, WhoIsWho
  <2> HIDE DEF Begins
  <2> USE DEF DsInv, DsTypes, OnePlace, OneOf, Machine, Calling, AtWork, InHand, LineStays, HandStays
  <2>3. CASE ReadSucceeds BY <2>2, <2>3 DEF ReadSucceeds
  <2>4. CASE TransferFails BY <2>2, <2>4 DEF TransferFails
  <2>5. CASE OtherPosts BY <2>2, <2>5 DEF OtherPosts, dsVars, ownVars
  <2> QED BY <1>5, <2>3, <2>4, <2>5
<1> QED BY <1>3, <1>4, <1>5

LEMMA TaskKeeps ==
  ASSUME BusTypeOK, DsInv, TaskReceives \/ TaskIgnores \/ ConvertArms \/ BackToIdle
  PROVE  DsInv'
<1> USE DEF DsInv, DsTypes, OnePlace, OneOf, Machine, Calling, AtWork, InHand, JobsStay, LineStays
<1>1. CASE TaskReceives
  <2>1. /\ ~HasTick /\ JobsStay /\ (InLine <=> HasTick' \/ InLine')
        /\ OneInLine => OneInLine' /\ (HasTick' => ~InLine')
    BY <1>1, Taken DEF TaskReceives
  <2> QED BY <1>1, <2>1 DEF TaskReceives, dsVars, ownVars
<1>2. CASE TaskIgnores
  <2>1. ~HasTick' /\ JobsStay /\ LineStays BY <1>2, PutAway DEF TaskIgnores
  <2> QED BY <1>2, <2>1 DEF TaskIgnores, dsVars, ownVars
<1>3. CASE ConvertArms
  <2>1. ~HasTick' /\ JobsStay /\ LineStays BY <1>3, PutAway DEF ConvertArms
  <2> QED BY <1>3, <2>1 DEF ConvertArms, StartOnce
<1>4. CASE BackToIdle
  <2>1. ~HasTick' /\ JobsStay /\ LineStays BY <1>4, PutAway DEF BackToIdle
  <2> QED BY <1>4, <2>1 DEF BackToIdle
<1> QED BY <1>1, <1>2, <1>3, <1>4

LEMMA BusKeeps ==
  ASSUME TypeInv, OrderInv, DsInv, ServiceStart \/ AppStart \/ BusGoesOn \/ AppReads \/ RunOver
  PROVE  DsInv'
<1>1. BusTypeOK /\ UNCHANGED ownVars
  BY DEF TypeInv, ServiceStart, AppStart, BusGoesOn, AppReads, RunOver, allVars, dsVars, ownVars
<1> USE DEF DsInv, DsTypes, OnePlace, OneOf, Machine, Calling, AtWork, InHand, JobsStay, LineStays,
            HandStays, ownVars
<1>2. CASE ServiceStart \/ AppStart \/ AppReads \/ RunOver
  <2>1. ServiceStart \/ AppStart \/ RunOver => UNCHANGED <<job, queue, hold>>
    BY DEF ServiceStart, AppStart, RunOver, Subscribe, allVars, vars, busVars
  <2>2. JobsStay /\ LineStays /\ HandStays
    BY <1>1, <1>2, <2>1, AppStays, SameJobs, SameLine, SameHand DEF AppReads
  <2> QED BY <1>1, <2>2
<1>3. CASE BusGoesOn
  <2>1. PICK p \in Posters : Proceed(p) BY <1>3 DEF BusGoesOn
  <2>2. /\ OwnEvents' /\ HandStays
        /\ \A r \in Posters : r # p => (Bound(r)' <=> Bound(r))
        /\ p \in TickPosters =>
             \/ LineStays /\ (Bound(p)' <=> Bound(p))
             \/ LineStays /\ ~Bound(p)'
             \/ /\ Bound(p) /\ ~Bound(p)' /\ InLine'
                /\ ~InLine => OneInLine'
        /\ p \notin TickPosters =>
             /\ InLine' => InLine
             /\ OneInLine => OneInLine'
    BY <2>1, GoesOn
  <2>3. CASE p = Period
    <3>1. p \in TickPosters /\ (Bound(Once)' <=> Bound(Once)) BY <2>2, <2>3, WhoIsWho DEF TickPosters
    <3> QED BY <1>1, <2>2, <2>3, <3>1
  <2>4. CASE p = Once
    <3>1. p \in TickPosters /\ (Bound(Period)' <=> Bound(Period)) BY <2>2, <2>4, WhoIsWho DEF TickPosters
    <3> QED BY <1>1, <2>2, <2>4, <3>1
  <2>5. CASE p \notin TickPosters
    <3>1. (Bound(Period)' <=> Bound(Period)) /\ (Bound(Once)' <=> Bound(Once))
      BY <2>2, <2>5, WhoIsWho DEF TickPosters
    <3> QED BY <1>1, <2>2, <2>5, <3>1
  <2> QED BY <2>3, <2>4, <2>5 DEF TickPosters
<1> QED BY <1>2, <1>3
LEMMA DsInvNext == ASSUME TypeInv, OrderInv, DsInv, [DsNext]_allVars PROVE DsInv'
<1>1. CASE DsNext
  <2>1. BusTypeOK BY DEF TypeInv
  <2> QED BY <1>1, <2>1, CallbackKeeps, PostKeeps, TaskKeeps, BusKeeps DEF DsNext, Callbacks
<1>2. CASE UNCHANGED allVars
  <2>1. RunOver \/ UNCHANGED allVars => UNCHANGED <<job, queue, hold>> /\ UNCHANGED dsVars
    BY DEF RunOver, allVars, vars, busVars
  <2>2. JobsStay /\ LineStays /\ HandStays BY <1>2, <2>1, SameJobs, SameLine, SameHand
  <2> QED BY <1>2, <2>1, <2>2
          DEF DsInv, DsTypes, OnePlace, OneOf, Machine, Calling, AtWork, InHand, JobsStay, LineStays,
              HandStays, dsVars, ownVars
<1> QED BY <1>1, <1>2

LEMMA DsInvInit == DsInit => TypeInv /\ OrderInv /\ DsInv
<1> SUFFICES ASSUME DsInit PROVE TypeInv /\ OrderInv /\ DsInv
  OBVIOUS
<1>1. TypeInv /\ OrderInv BY TypeInvInit, OrderInvInit DEF DsInit
<1>2. /\ \A p \in Posters : job[p] = NoJob
      /\ queue[ServiceQueue] = <<>> /\ hold[ServiceQueue] = NoMsg
  BY WhoIsWho DEF DsInit, BusInit
<1>3. Len(<<>>) = 0 /\ 1 .. 0 = {} OBVIOUS
<1>4. ~InLine /\ OneInLine BY <1>2, <1>3 DEF InLine, OneInLine, HasTickIn, OneTickIn
<1>5. ~Bound(Period) /\ ~Bound(Once) /\ ~HasTick /\ OwnEvents
  BY <1>2, WhoIsWho DEF Bound, HasTick, OwnEvents
<1> QED BY <1>1, <1>4, <1>5
        DEF DsInit, DsInv, DsTypes, OnePlace, OneOf, Machine, Calling, AtWork, InHand

LEMMA DsInvariant == DsSpec => [](TypeInv /\ OrderInv /\ DsInv)
<1>1. TypeInv /\ OrderInv /\ DsInv /\ [DsNext]_allVars => (TypeInv /\ OrderInv /\ DsInv)'
  <2> SUFFICES ASSUME TypeInv, OrderInv, DsInv, [DsNext]_allVars
               PROVE  TypeInv' /\ OrderInv' /\ DsInv'
    OBVIOUS
  <2>1. [BusNext]_vars BY BusClient DEF allVars
  <2> QED BY <2>1, TypeInvNext, OrderInvNext, DsInvNext
<1> QED BY <1>1, DsInvInit, PTL DEF DsSpec

(* The ticks that OneTickAtATime counts are in the places of the invariant.*)
IsTick(x) ==
  \/ x = <<"callback">> /\ Calling
  \/ x = <<"post", Period>> /\ Bound(Period)
  \/ x = <<"post", Once>> /\ Bound(Once)
  \/ \E k \in 1 .. Len(queue[ServiceQueue]) :
       x = <<"queue", k>> /\ queue[ServiceQueue][k].ev = DrvTick
  \/ x = <<"received">> /\ InHand

LEMMA TickMember == \A x : x \in Ticks <=> IsTick(x)
<1> SUFFICES ASSUME NEW x PROVE x \in Ticks <=> IsTick(x)
  OBVIOUS
<1> DEFINE s == queue[ServiceQueue]
           A == {<<"callback">> : y \in {cb} \cap {"mark", "kick", "over"}}
           B == {<<"post", p>> : p \in {p \in {Period, Once} : Bound(p)}}
           C == {<<"queue", k>> : k \in {k \in 1 .. Len(s) : s[k].ev = DrvTick}}
           D == {<<"received">> : y \in {y \in {stage} : y = "receive" /\ HasTick}}
<1>1. x \in A <=> x = <<"callback">> /\ Calling BY DEF Calling
<1>2. x \in B <=> \/ x = <<"post", Period>> /\ Bound(Period)
                  \/ x = <<"post", Once>> /\ Bound(Once)
  <2> DEFINE P == {r \in {Period, Once} : Bound(r)}
  <2>1. x \in B <=> \E r \in P : x = <<"post", r>> OBVIOUS
  <2>2. /\ Period \in P <=> Bound(Period)
        /\ Once \in P <=> Bound(Once)
        /\ \A r \in P : r = Period \/ r = Once
    OBVIOUS
  <2> HIDE DEF B, P
  <2> QED BY <2>1, <2>2
<1> HIDE DEF s
<1>3. x \in C <=> \E k \in 1 .. Len(s) : x = <<"queue", k>> /\ s[k].ev = DrvTick
  <2> DEFINE K == {k \in 1 .. Len(s) : s[k].ev = DrvTick}
  <2>1. x \in C <=> \E k \in K : x = <<"queue", k>> OBVIOUS
  <2> QED BY <2>1
<1>4. x \in D <=> x = <<"received">> /\ InHand BY DEF InHand
<1>5. Ticks = A \cup B \cup C \cup D BY DEF Ticks, s
<1>6. x \in Ticks <=> x \in A \/ x \in B \/ x \in C \/ x \in D BY <1>5
<1>7. IsTick(x) <=> \/ x = <<"callback">> /\ Calling
                    \/ x = <<"post", Period>> /\ Bound(Period)
                    \/ x = <<"post", Once>> /\ Bound(Once)
                    \/ \E k \in 1 .. Len(s) : x = <<"queue", k>> /\ s[k].ev = DrvTick
                    \/ x = <<"received">> /\ InHand
  BY DEF IsTick, s
<1> HIDE DEF A, B, C, D
<1> QED BY <1>1, <1>2, <1>3, <1>4, <1>6, <1>7

LEMMA AtMostOne ==
  ASSUME DsInv
  PROVE  /\ \A x, y \in Ticks : x = y
         /\ shot => Ticks = {}
<1> USE DEF DsInv, OnePlace, OneOf
<1>1. \A k \in 1 .. Len(queue[ServiceQueue]) : queue[ServiceQueue][k].ev = DrvTick => InLine
  BY DEF InLine, HasTickIn
<1>2. \A k, l \in 1 .. Len(queue[ServiceQueue]) :
        queue[ServiceQueue][k].ev = DrvTick /\ queue[ServiceQueue][l].ev = DrvTick => k = l
  BY DEF OneInLine, OneTickIn
<1>3. ASSUME NEW x \in Ticks, NEW y \in Ticks PROVE x = y
  <2>1. IsTick(x) /\ IsTick(y) BY <1>3, TickMember
  <2>2. CASE InLine
    <3>1. ~Calling /\ ~Bound(Period) /\ ~Bound(Once) /\ ~InHand BY <2>2
    <3> QED BY <1>2, <2>1, <3>1 DEF IsTick
  <2>3. CASE ~InLine
    <3>1. /\ Calling => ~Bound(Period) /\ ~Bound(Once) /\ ~InHand
          /\ Bound(Period) => ~Bound(Once) /\ ~InHand
          /\ Bound(Once) => ~InHand
      OBVIOUS
    <3> DEFINE At(z) == \/ z = <<"callback">> /\ Calling
                        \/ z = <<"post", Period>> /\ Bound(Period)
                        \/ z = <<"post", Once>> /\ Bound(Once)
                        \/ z = <<"received">> /\ InHand
    <3>2. At(x) /\ At(y) BY <1>1, <2>1, <2>3 DEF IsTick
    <3>3. CASE Calling BY <3>1, <3>2, <3>3
    <3>4. CASE Bound(Period) BY <3>1, <3>2, <3>4
    <3>5. CASE Bound(Once) BY <3>1, <3>2, <3>5
    <3>6. CASE InHand BY <3>1, <3>2, <3>6
    <3> QED BY <3>2, <3>3, <3>4, <3>5, <3>6
  <2> QED BY <2>2, <2>3
<1>4. ASSUME shot, NEW x \in Ticks PROVE FALSE
  <2>1. IsTick(x) BY <1>4, TickMember
  <2> QED BY <1>1, <1>4, <2>1 DEF IsTick
<1> QED BY <1>3, <1>4

(* At most one tick is ever under way, and none while the one-shot of a    *)
(* conversion is armed, although two callbacks and the task write s_st     *)
(* without a lock (services_ds18b20_ev.c:56-77, 92-158).                   *)
THEOREM NeverTwoTicks == DsSpec => []OneTickAtATime
<1>1. DsInv => OneTickAtATime
  <2> SUFFICES ASSUME DsInv PROVE OneTickAtATime
    OBVIOUS
  <2>1. (\A x, y \in Ticks : x = y) /\ (shot => Ticks = {}) BY AtMostOne
  <2>2. CASE Ticks = {} BY <2>2, FS_EmptySet DEF OneTickAtATime
  <2>3. CASE Ticks # {}
    <3>1. PICK x \in Ticks : TRUE BY <2>3
    <3>2. Ticks = {x} BY <2>1, <3>1
    <3>3. Cardinality(Ticks) = 1 BY <3>2, FS_Singleton
    <3> QED BY <2>1, <2>3, <3>3 DEF OneTickAtATime
  <2> QED BY <2>2, <2>3
<1> QED BY <1>1, DsInvariant, PTL

(* The scratchpad is read only after the conversion had its time: no stale *)
(* or early tick gets the machine to S_READ (services_ds18b20_ev.c:123).   *)
THEOREM ConversionFirst == DsSpec => []ReadsAfterConversion
<1>1. DsInv => ReadsAfterConversion BY DEF DsInv, Machine, ReadsAfterConversion
<1> QED BY <1>1, DsInvariant, PTL
-----------------------------------------------------------------------------
(* No tick is missing, as long as none is lost.                            *)
LEMMA TablesStay ==
  ASSUME DsNext
  PROVE  \/ UNCHANGED <<subs, subsCnt, subRes>>
         \/ (ServiceStart \/ AppStart) /\ \E q \in Queues : Subscribe(q)
<1>1. CASE ServiceStart \/ AppStart BY <1>1, WhoIsWho DEF ServiceStart, AppStart
<1>2. CASE TaskReceives \/ TaskIgnores \/ ConvertArms \/ BackToIdle \/ AppReads
  BY <1>2 DEF TaskReceives, TaskIgnores, ConvertArms, BackToIdle, AppReads, ReaderStep, Receive,
              Discard, OpenView, CloseView
<1>3. CASE PeriodPosts \/ OncePosts \/ ReadSucceeds \/ TransferFails \/ OtherPosts
  BY <1>3 DEF PeriodPosts, OncePosts, ReadSucceeds, TransferFails, OtherPosts, Post, Begin, Alloc
<1>4. CASE BusGoesOn
  <2> SUFFICES ASSUME NEW p \in Posters, Proceed(p) PROVE UNCHANGED <<subs, subsCnt, subRes>>
    BY <1>4 DEF BusGoesOn
  <2>1. CASE SkipCleared(p) \/ Overwrite(p) \/ Send(p)
    BY <2>1 DEF SkipCleared, Overwrite, Send
  <2>2. CASE Map(p) \/ Fill(p) \/ Publish(p) \/ PostLease(p) \/ Retain(p)
    BY <2>2 DEF Map, Fill, Publish, PostLease, Retain
  <2>3. CASE SendLease(p) \/ UndoRetain(p) \/ ReleaseOwn(p) \/ Account(p)
    BY <2>3 DEF SendLease, UndoRetain, ReleaseOwn, Account
  <2> QED BY <2>1, <2>2, <2>3 DEF Proceed
<1>5. CASE PeriodFires \/ PeriodMarks \/ OnceFires \/ CallbackReturns \/ TaskDispatches
           \/ ConvertStarts \/ RunOver
  BY <1>5 DEF PeriodFires, PeriodMarks, OnceFires, CallbackReturns, TaskDispatches, ConvertStarts,
              RunOver, allVars, vars, busVars
<1> QED BY <1>1, <1>2, <1>3, <1>4, <1>5 DEF DsNext

LEMMA SubscribeKeepsKnown ==
  ASSUME BusTypeOK, NEW q \in Queues, Subscribe(q),
         subRes[ServiceQueue] = "ok" => \E n \in 0 .. subsCnt - 1 : subs[n] = ServiceQueue
  PROVE  subRes'[ServiceQueue] = "ok" => \E n \in 0 .. subsCnt' - 1 : subs'[n] = ServiceQueue
<1>1. /\ subs \in [Entries -> Queues \cup {NoQueue}] /\ subRes \in [Queues -> {"no", "ok", "failed"}]
      /\ subsCnt \in Nat /\ subsCnt <= MaxSubs /\ MaxSubs \in Nat
  BY BusAssumption DEF BusTypeOK
<1>2. CASE EntryLeft
  <2>1. /\ subsCnt \in Entries /\ \A n \in 0 .. subsCnt - 1 : n \in Entries /\ n # subsCnt
        /\ subs' = [subs EXCEPT ![subsCnt] = q] /\ subsCnt' = subsCnt + 1
        /\ subRes' = [subRes EXCEPT ![q] = "ok"]
    BY <1>1, <1>2 DEF Subscribe, EntryLeft, Entries
  <2>2. /\ subs'[subsCnt] = q /\ \A n \in 0 .. subsCnt - 1 : subs'[n] = subs[n]
    BY <1>1, <2>1
  <2>3. subsCnt \in 0 .. subsCnt' - 1 /\ \A n \in 0 .. subsCnt - 1 : n \in 0 .. subsCnt' - 1
    BY <1>1, <2>1
  <2>4. CASE q = ServiceQueue BY <2>2, <2>3, <2>4
  <2>5. CASE q # ServiceQueue
    <3>1. subRes'[ServiceQueue] = subRes[ServiceQueue] BY <1>1, <2>1, <2>5, WhoIsWho
    <3> QED BY <2>2, <2>3, <3>1
  <2> QED BY <2>4, <2>5
<1>3. CASE ~EntryLeft
  <2>1. UNCHANGED <<subs, subsCnt>> /\ subRes' = [subRes EXCEPT ![q] = "failed"]
    BY <1>3 DEF Subscribe
  <2>2. subRes'[ServiceQueue] = "ok" => subRes[ServiceQueue] = "ok" BY <1>1, <2>1, WhoIsWho
  <2> QED BY <2>1, <2>2
<1> QED BY <1>2, <1>3

LEMMA KnownNext == ASSUME BusTypeOK, DsInv, Known, [DsNext]_allVars PROVE Known'
<1>1. CASE UNCHANGED allVars BY <1>1 DEF allVars, vars, busVars, dsVars, ownVars, Known
<1>2. CASE ServiceStart \/ AppStart
  <2>1. PICK q \in Queues : Subscribe(q) BY <1>2, WhoIsWho DEF ServiceStart, AppStart
  <2>2. UNCHANGED dsVars BY <1>2 DEF ServiceStart, AppStart
  <2>3. subRes'[ServiceQueue] = "ok" => \E n \in 0 .. subsCnt' - 1 : subs'[n] = ServiceQueue
    BY <2>1, SubscribeKeepsKnown DEF Known
  <2>4. subRes[ServiceQueue] = "ok" => subRes'[ServiceQueue] = "ok"
    <3>1. subRes[q] = "no" /\ \E r : subRes' = [subRes EXCEPT ![q] = r] BY <2>1 DEF Subscribe
    <3> QED BY <3>1, WhoIsWho DEF BusTypeOK
  <2> QED BY <2>2, <2>3, <2>4 DEF Known, dsVars, ownVars
<1>3. CASE DsNext /\ UNCHANGED <<subs, subsCnt, subRes>>
  <2>1. subRes'[ServiceQueue] = "ok" => \E n \in 0 .. subsCnt' - 1 : subs'[n] = ServiceQueue
    BY <1>3 DEF Known
  <2>2. ASSUME subRes[ServiceQueue] # "ok" PROVE st' = "IDLE" /\ cb' = "none"
    <3>1. st = "IDLE" /\ cb = "none" /\ ~InHand /\ ~AtWork /\ ~shot BY <2>2 DEF Known, DsInv, Machine
    <3> QED BY <1>3, <2>2, <3>1
            DEF DsNext, ServiceStart, AppStart, PeriodFires, PeriodMarks, PeriodPosts, OnceFires, OncePosts,
                CallbackReturns, TaskReceives, TaskIgnores, TaskDispatches, ConvertStarts, ConvertArms,
                ReadSucceeds, TransferFails, BackToIdle, BusGoesOn, OtherPosts, AppReads, RunOver,
                InHand, AtWork, dsVars, ownVars, allVars
  <2> QED BY <1>3, <2>1, <2>2 DEF Known
<1> QED BY <1>1, <1>2, <1>3, TablesStay

(* The copy of the table holds the service's queue.                        *)
LEMMA PostIsBound ==
  ASSUME BusTypeOK, Known, NEW p \in Posters, NEW e, Post(p, e), subRes[ServiceQueue] = "ok"
  PROVE  Bound(p)'
<1> DEFINE j == [pc |-> "loop", ev |-> e, h |-> [idx |-> NoSlot, gen |-> 0],
                 pay |-> "00", todo |-> Snapshot, ok |-> 0, bad |-> 0]
<1>1. job \in [Posters -> {NoJob} \cup Jobs] BY DEF BusTypeOK
<1>2. job'[p] = j BY <1>1 DEF Post, Begin
<1>3. j.pc = "loop" /\ j.todo = Snapshot /\ NoJob.pc = "idle" BY DEF NoJob
<1> HIDE DEF j
<1>4. PICK n \in 0 .. subsCnt - 1 : subs[n] = ServiceQueue BY DEF Known
<1>5. subsCnt \in Nat /\ n + 1 \in 1 .. subsCnt /\ (n + 1) - 1 = n BY <1>4, BusAssumption DEF BusTypeOK
<1>6. Len(Snapshot) = subsCnt /\ Snapshot[n + 1] = ServiceQueue
  BY <1>4, <1>5, SnapshotProperties
<1>7. \E k \in 1 .. Len(job'[p].todo) : job'[p].todo[k] = ServiceQueue
  BY <1>2, <1>3, <1>5, <1>6
<1> QED BY <1>2, <1>3, <1>7 DEF Bound

(* A machine stays attended, and stays forsaken, in every step but the     *)
(* refusal of a tick.                                                      *)
LEMMA CallbackAttends ==
  ASSUME BusTypeOK, DsInv, Callbacks \/ TaskDispatches \/ ConvertStarts
  PROVE  Attended' <=> Attended
<1>1. UNCHANGED vars
  BY DEF Callbacks, PeriodFires, PeriodMarks, OnceFires, CallbackReturns, TaskDispatches, ConvertStarts
<1>2. JobsStay /\ LineStays /\ HandStays
  BY <1>1, SameJobs, SameLine, SameHand DEF vars, busVars
<1> USE DEF DsInv, Machine, Attended, Calling, AtWork, InHand, JobsStay, LineStays, HandStays
<1>3. CASE PeriodFires BY <1>2, <1>3 DEF PeriodFires, PeriodWanted
<1>4. CASE PeriodMarks BY <1>2, <1>4 DEF PeriodMarks
<1>5. CASE OnceFires BY <1>2, <1>5 DEF OnceFires
<1>6. CASE CallbackReturns BY <1>2, <1>6 DEF CallbackReturns
<1>7. CASE TaskDispatches BY <1>2, <1>7 DEF TaskDispatches
<1>8. CASE ConvertStarts BY <1>2, <1>8 DEF ConvertStarts
<1> QED BY <1>3, <1>4, <1>5, <1>6, <1>7, <1>8 DEF Callbacks

LEMMA PostAttends ==
  ASSUME BusTypeOK, DsInv, Known,
         PeriodPosts \/ OncePosts \/ ReadSucceeds \/ TransferFails \/ OtherPosts
  PROVE  Attended' <=> Attended
<1>1. CASE PeriodPosts
  <2>1. /\ Post(Period, DrvTick) /\ subRes[ServiceQueue] = "ok" /\ Calling
    BY <1>1 DEF PeriodPosts, Known, Calling
  <2>2. Bound(Period)' BY <2>1, WhoIsWho, PostIsBound
  <2> QED BY <2>1, <2>2 DEF Attended
<1>2. CASE OncePosts
  <2>1. Post(Once, DrvTick) /\ subRes[ServiceQueue] = "ok" /\ Calling
    BY <1>2 DEF OncePosts, Known, Calling
  <2>2. Bound(Once)' BY <2>1, WhoIsWho, PostIsBound
  <2> QED BY <2>1, <2>2 DEF Attended
<1>3. CASE ReadSucceeds \/ TransferFails BY <1>3 DEF ReadSucceeds, TransferFails, Attended, AtWork
<1>4. CASE OtherPosts
  <2>1. Foreign # DrvTick BY DsAssumption
  <2>2. /\ \A r \in Posters : r # Other => (Bound(r)' <=> Bound(r))
        /\ LineStays /\ HandStays
    BY <1>4, <2>1, WhoIsWho, Begun DEF OtherPosts
  <2>3. (Bound(Period)' <=> Bound(Period)) /\ (Bound(Once)' <=> Bound(Once))
    BY <2>2, WhoIsWho DEF TickPosters
  <2> QED BY <1>4, <2>2, <2>3
          DEF OtherPosts, dsVars, ownVars, Attended, Calling, AtWork, InHand, LineStays, HandStays
<1> QED BY <1>1, <1>2, <1>3, <1>4

LEMMA TaskAttends ==
  ASSUME BusTypeOK, TaskReceives \/ TaskIgnores \/ ConvertArms \/ BackToIdle
  PROVE  Attended' <=> Attended
<1> USE DEF Attended, Calling, AtWork, InHand, JobsStay, LineStays
<1>1. CASE TaskReceives
  <2>1. ~HasTick /\ JobsStay /\ (InLine <=> HasTick' \/ InLine') BY <1>1, Taken DEF TaskReceives
  <2> QED BY <1>1, <2>1 DEF TaskReceives, dsVars, ownVars
<1>2. CASE TaskIgnores
  <2>1. ~HasTick' /\ JobsStay /\ LineStays BY <1>2, PutAway DEF TaskIgnores
  <2> QED BY <1>2, <2>1 DEF TaskIgnores, dsVars, ownVars
<1>3. CASE ConvertArms BY <1>3 DEF ConvertArms, StartOnce
<1>4. CASE BackToIdle BY <1>4 DEF BackToIdle
<1> QED BY <1>1, <1>2, <1>3, <1>4

LEMMA OthersAttend ==
  ASSUME BusTypeOK, ServiceStart \/ AppStart \/ AppReads \/ RunOver \/ UNCHANGED allVars
  PROVE  (Attended' <=> Attended) /\ tickLost' = tickLost
<1>1. UNCHANGED dsVars BY DEF ServiceStart, AppStart, AppReads, RunOver, allVars
<1>2. ~AppReads => UNCHANGED <<job, queue, hold>>
  BY DEF ServiceStart, AppStart, RunOver, Subscribe, allVars, vars, busVars
<1>3. JobsStay /\ LineStays /\ HandStays
  BY <1>2, AppStays, SameJobs, SameLine, SameHand DEF AppReads
<1> QED BY <1>1, <1>3
        DEF Attended, Calling, AtWork, InHand, JobsStay, LineStays, HandStays, dsVars, ownVars

(* A refused tick was the only one there was.                              *)
LEMMA GoingOnAttends ==
  ASSUME TypeInv, OrderInv, DsInv, LossKnown, Depth[ServiceQueue] > 1, BusGoesOn
  PROVE  LossKnown'
<1>1. PICK p \in Posters : Proceed(p) /\ tickLost' = (tickLost \/ TickRefused(p)) /\ UNCHANGED ownVars
  BY DEF BusGoesOn
<1>2. /\ HandStays
      /\ \A r \in Posters : r # p => (Bound(r)' <=> Bound(r))
      /\ p \in TickPosters =>
           \/ LineStays /\ (Bound(p)' <=> Bound(p)) /\ ~TickRefused(p)
           \/ LineStays /\ Bound(p) /\ ~Bound(p)' /\ TickRefused(p)
           \/ Bound(p) /\ ~Bound(p)' /\ InLine' /\ ~TickRefused(p)
      /\ p \notin TickPosters => LineStays /\ ~TickRefused(p)
  BY <1>1, GoesOn DEF DsInv, TickRefused, TickPosters
<1> USE DEF LossKnown, Attended, Calling, AtWork, InHand, LineStays, HandStays, ownVars
<1>3. CASE LineStays /\ (p \in TickPosters => (Bound(p)' <=> Bound(p))) /\ ~TickRefused(p)
  <2>1. (Bound(Period)' <=> Bound(Period)) /\ (Bound(Once)' <=> Bound(Once))
    BY <1>2, <1>3, WhoIsWho DEF TickPosters
  <2> QED BY <1>1, <1>2, <1>3, <2>1
<1>4. CASE p \in TickPosters /\ Bound(p) /\ InLine' /\ ~TickRefused(p)
  BY <1>1, <1>4 DEF TickPosters
<1>5. CASE p \in TickPosters /\ LineStays /\ Bound(p) /\ ~Bound(p)' /\ TickRefused(p)
  <2>1. ~Bound(Period)' /\ ~Bound(Once)'
    BY <1>2, <1>5, WhoIsWho DEF TickPosters, DsInv, OnePlace, OneOf
  <2>2. st # "IDLE" /\ ~Calling /\ ~InLine /\ ~InHand /\ ~shot /\ ~AtWork
    BY <1>5 DEF TickPosters, DsInv, OnePlace, OneOf, Machine
  <2> QED BY <1>1, <1>2, <1>5, <2>1, <2>2
<1> QED BY <1>2, <1>3, <1>4, <1>5

LEMMA LossKnownNext ==
  ASSUME TypeInv, OrderInv, DsInv, LossKnown, Known, Depth[ServiceQueue] > 1, [DsNext]_allVars
  PROVE  LossKnown'
<1>1. BusTypeOK BY DEF TypeInv
<1>2. CASE Callbacks \/ TaskDispatches \/ ConvertStarts
  BY <1>1, <1>2, CallbackAttends
     DEF LossKnown, Callbacks, PeriodFires, PeriodMarks, OnceFires, CallbackReturns, TaskDispatches,
         ConvertStarts
<1>3. CASE PeriodPosts \/ OncePosts \/ ReadSucceeds \/ TransferFails \/ OtherPosts
  BY <1>1, <1>3, PostAttends
     DEF LossKnown, PeriodPosts, OncePosts, ReadSucceeds, TransferFails, OtherPosts, dsVars
<1>4. CASE TaskReceives \/ TaskIgnores \/ ConvertArms \/ BackToIdle
  BY <1>1, <1>4, TaskAttends DEF LossKnown, TaskReceives, TaskIgnores, ConvertArms, BackToIdle, dsVars
<1>5. CASE ServiceStart \/ AppStart \/ AppReads \/ RunOver \/ UNCHANGED allVars
  BY <1>1, <1>5, OthersAttend DEF LossKnown
<1>6. CASE BusGoesOn BY <1>6, GoingOnAttends
<1> QED BY <1>2, <1>3, <1>4, <1>5, <1>6 DEF DsNext, Callbacks

(* The machine gets stuck when its full queue refuses a tick and in no     *)
(* other way (services_ds18b20_ev.c:56-77, 92-158), whatever the others    *)
(* post and however many conversions succeed or fail.  In a queue of one   *)
(* entry a command could also replace the tick.                            *)
THEOREM OnlyLossesStop ==
  ASSUME Depth[ServiceQueue] > 1
  PROVE  DsSpec => []StuckByLossAlone
<1>1. DsInit => LossKnown /\ Known
  BY WhoIsWho DEF DsInit, BusInit, LossKnown, Attended, Known
<1>2. TypeInv /\ OrderInv /\ DsInv /\ LossKnown /\ Known /\ [DsNext]_allVars => (LossKnown /\ Known)'
  <2> SUFFICES ASSUME TypeInv, OrderInv, DsInv, LossKnown, Known, [DsNext]_allVars
               PROVE  LossKnown' /\ Known'
    OBVIOUS
  <2>1. BusTypeOK BY DEF TypeInv
  <2> QED BY <2>1, LossKnownNext, KnownNext
<1>3. LossKnown => StuckByLossAlone
  <2>1. InLine <=> \E k \in 1 .. Len(queue[ServiceQueue]) : queue[ServiceQueue][k].ev = DrvTick
    BY DEF InLine, HasTickIn
  <2>2. (\E x : IsTick(x)) <=> Calling \/ Bound(Period) \/ Bound(Once) \/ InLine \/ InHand
    BY <2>1 DEF IsTick
  <2>3. Ticks = {} <=> ~(Calling \/ Bound(Period) \/ Bound(Once) \/ InLine \/ InHand)
    BY <2>2, TickMember
  <2>4. Stuck <=> ~Attended BY <2>3 DEF Stuck, Attended, AtWork
  <2> QED BY <2>4 DEF LossKnown, StuckByLossAlone
<1> QED BY <1>1, <1>2, <1>3, DsInvariant, PTL DEF DsSpec

-----------------------------------------------------------------------------
(* onewire_crc8 over a reading of 72 bits, shift by shift.                 *)
Crcs == [0 .. 7 -> {0, 1}]
Row(c, b0, b1, b2, b3, b4, b5, b6, b7) ==
  /\ c[0] = b0 /\ c[1] = b1 /\ c[2] = b2 /\ c[3] = b3
  /\ c[4] = b4 /\ c[5] = b5 /\ c[6] = b6 /\ c[7] = b7

LEMMA FlipIs ==
  ASSUME NEW a \in {0, 1}, NEW b \in {0, 1}
  PROVE  Flip(a, b) = (IF a = b THEN 0 ELSE 1) /\ Flip(a, b) \in {0, 1}
<1>1. CASE a = 0 /\ b = 0 BY <1>1 DEF Flip
<1>2. CASE a = 1 /\ b = 0 BY <1>2 DEF Flip
<1>3. CASE a = 0 /\ b = 1 BY <1>3 DEF Flip
<1>4. CASE a = 1 /\ b = 1 BY <1>4 DEF Flip
<1> QED BY <1>1, <1>2, <1>3, <1>4

LEMMA CrcBits == ASSUME NEW c \in Crcs PROVE \A k \in 0 .. 7 : c[k] \in {0, 1}
BY DEF Crcs

LEMMA ZeroIsCrc == ZeroCrc \in Crcs /\ Row(ZeroCrc, 0, 0, 0, 0, 0, 0, 0, 0)
BY DEF ZeroCrc, Crcs, Row

LEMMA ShiftRow ==
  ASSUME NEW c \in Crcs, NEW b \in {0, 1}
  PROVE  /\ ShiftIn(c, b) \in Crcs
         /\ Row(ShiftIn(c, b), c[1], c[2], Flip(c[3], Flip(c[0], b)), Flip(c[4], Flip(c[0], b)),
                c[5], c[6], c[7], Flip(c[0], b))
<1> DEFINE m == Flip(c[0], b)
           s == ShiftIn(c, b)
<1>1. m \in {0, 1} BY CrcBits, FlipIs
<1>2. s = [k \in 0 .. 7 |-> CASE k = 7 -> m
                              [] k \in {2, 3} -> Flip(c[k + 1], m)
                              [] OTHER -> c[k + 1]]
  BY DEF ShiftIn
<1> HIDE DEF m, s
<1>3. s[0] = c[1] /\ s[1] = c[2] BY <1>2
<1>4. s[2] = Flip(c[3], m) /\ s[3] = Flip(c[4], m) BY <1>2
<1>5. s[4] = c[5] /\ s[5] = c[6] /\ s[6] = c[7] BY <1>2
<1>6. s[7] = m BY <1>2
<1>7. \A k \in 0 .. 7 : s[k] \in {0, 1}
  <2> SUFFICES ASSUME NEW k \in 0 .. 7 PROVE s[k] \in {0, 1}
    OBVIOUS
  <2>1. \A i \in 0 .. 7 : c[i] \in {0, 1} BY CrcBits
  <2>2. Flip(c[3], m) \in {0, 1} /\ Flip(c[4], m) \in {0, 1} BY <1>1, <2>1, FlipIs
  <2>3. k = 0 \/ k = 1 \/ k = 2 \/ k = 3 \/ k = 4 \/ k = 5 \/ k = 6 \/ k = 7 OBVIOUS
  <2> QED BY <1>1, <1>3, <1>4, <1>5, <1>6, <2>1, <2>2, <2>3
<1>8. s \in Crcs
  <2>1. s = [k \in 0 .. 7 |-> s[k]] BY <1>2
  <2> QED BY <1>7, <2>1 DEF Crcs
<1> QED BY <1>3, <1>4, <1>5, <1>6, <1>8 DEF Row, m, s

LEMMA SameCrc ==
  ASSUME NEW c \in Crcs, NEW d \in Crcs, \A k \in 0 .. 7 : c[k] = d[k]
  PROVE  c = d
BY DEF Crcs

-----------------------------------------------------------------------------
(* The fold over a sequence goes through its elements from the first on.   *)
OnSubset(g, s, bits) ==
  g[s] = IF s = {} THEN ZeroCrc ELSE ShiftIn(g[s \ {Max(s)}], bits[Max(s)])

LEMMA MaxLast == ASSUME NEW n \in Nat, NEW s \in SUBSET (1 .. n + 1), n + 1 \in s PROVE Max(s) = n + 1
<1>1. s \subseteq 0 .. n + 1 /\ s # {} OBVIOUS
<1>2. Max(s) \in s /\ n + 1 <= Max(s)
  <2>1. n + 1 \in Nat OBVIOUS
  <2> QED BY <1>1, <2>1, MaxIs
<1>3. Max(s) \in 1 .. n + 1 BY <1>2
<1> QED
  <2> DEFINE m == Max(s)
  <2>1. m \in 1 .. n + 1 /\ n + 1 <= m BY <1>2, <1>3
  <2> HIDE DEF m
  <2>2. m = n + 1 BY <2>1
  <2> QED BY <2>2 DEF m

LEMMA FoldExtends ==
  ASSUME NEW bits, NEW n \in Nat, bits[n + 1] \in {0, 1},
         NEW g \in [SUBSET (1 .. n) -> Crcs], \A s \in SUBSET (1 .. n) : OnSubset(g, s, bits)
  PROVE  \E h \in [SUBSET (1 .. n + 1) -> Crcs] : \A s \in SUBSET (1 .. n + 1) : OnSubset(h, s, bits)
<1> DEFINE R == SUBSET (1 .. n)
           U == SUBSET (1 .. n + 1)
           val(s) == IF n + 1 \in s THEN ShiftIn(g[s \ {n + 1}], bits[n + 1]) ELSE g[s]
           h == [s \in U |-> val(s)]
<1>1. \A s \in U : (n + 1 \notin s => s \in R) /\ s \ {n + 1} \in R
  <2>1. \A x \in 1 .. n + 1 : x = n + 1 \/ x \in 1 .. n OBVIOUS
  <2> QED BY <2>1
<1>2. \A s \in R : s \in U /\ n + 1 \notin s
  <2>1. \A x \in 1 .. n : x \in 1 .. n + 1 /\ x # n + 1 OBVIOUS
  <2> QED BY <2>1
<1>3. \A s \in U : val(s) \in Crcs
  <2> SUFFICES ASSUME NEW s \in U PROVE val(s) \in Crcs
    OBVIOUS
  <2>1. CASE n + 1 \in s
    <3>1. g[s \ {n + 1}] \in Crcs BY <1>1
    <3> QED BY <2>1, <3>1, ShiftRow
  <2>2. CASE n + 1 \notin s
    <3>1. g[s] \in Crcs BY <1>1, <2>2
    <3> QED BY <2>2, <3>1
  <2> QED BY <2>1, <2>2
<1> HIDE DEF R
<1>4. h \in [U -> Crcs] BY <1>3
<1>5. \A s \in U : h[s] = val(s) OBVIOUS
<1>6. ASSUME NEW s \in U PROVE OnSubset(h, s, bits)
  <2>1. CASE n + 1 \in s
    <3>1. Max(s) = n + 1 BY <2>1, MaxLast
    <3>2. s \ {n + 1} \in R BY <1>1
    <3>3. s \ {n + 1} \in U /\ n + 1 \notin s \ {n + 1} BY <1>2, <3>2
    <3>4. h[s \ {n + 1}] = g[s \ {n + 1}] BY <1>5, <3>3
    <3>5. h[s] = ShiftIn(g[s \ {n + 1}], bits[n + 1]) BY <1>5, <2>1
    <3>6. s # {} BY <2>1
    <3> HIDE DEF h, val, U
    <3> QED BY <3>1, <3>4, <3>5, <3>6 DEF OnSubset
  <2>2. CASE n + 1 \notin s
    <3>1. s \in R BY <1>1, <2>2
    <3>2. h[s] = g[s] BY <1>5, <2>2
    <3>3. OnSubset(g, s, bits) BY <3>1 DEF R
    <3>4. CASE s = {}
      <4> HIDE DEF h, val, U
      <4> QED BY <3>2, <3>3, <3>4 DEF OnSubset
    <3>5. CASE s # {}
      <4>1. s \ {Max(s)} \in R BY <3>1 DEF R
      <4>2. s \ {Max(s)} \in U /\ n + 1 \notin s \ {Max(s)} BY <1>2, <4>1
      <4>3. h[s \ {Max(s)}] = g[s \ {Max(s)}] BY <1>5, <4>2
      <4> HIDE DEF h, val, U
      <4> QED BY <3>2, <3>3, <3>5, <4>3 DEF OnSubset
    <3> QED BY <3>4, <3>5
  <2> QED BY <2>1, <2>2
<1> HIDE DEF h, val
<1> QED BY <1>4, <1>6

LEMMA FoldExists ==
  ASSUME NEW bits, NEW N \in Nat, \A k \in 1 .. N : bits[k] \in {0, 1}
  PROVE  \E g \in [SUBSET (1 .. N) -> Crcs] : \A s \in SUBSET (1 .. N) : OnSubset(g, s, bits)
<1> DEFINE Has(n) == \E g \in [SUBSET (1 .. n) -> Crcs] : \A s \in SUBSET (1 .. n) : OnSubset(g, s, bits)
           S == {n \in Nat : n <= N => Has(n)}
<1>1. Has(0)
  <2> DEFINE g == [s \in SUBSET (1 .. 0) |-> ZeroCrc]
  <2>1. g \in [SUBSET (1 .. 0) -> Crcs] BY ZeroIsCrc
  <2>2. 1 .. 0 = {} OBVIOUS
  <2>3. \A s \in SUBSET (1 .. 0) : s = {} /\ g[s] = ZeroCrc BY <2>2
  <2>4. \A s \in SUBSET (1 .. 0) : OnSubset(g, s, bits)
    <3> HIDE DEF g
    <3> QED BY <2>3 DEF OnSubset
  <2> HIDE DEF g
  <2> QED BY <2>1, <2>4
<1>2. ASSUME NEW n \in Nat, n + 1 <= N, Has(n) PROVE Has(n + 1)
  <2>1. n + 1 \in 1 .. N BY <1>2
  <2>2. bits[n + 1] \in {0, 1} BY <2>1
  <2> QED BY <1>2, <2>2, FoldExtends
<1> HIDE DEF Has
<1>3. 0 \in S BY <1>1
<1>4. \A n \in S : n + 1 \in S
  <2> SUFFICES ASSUME NEW n \in S, n + 1 <= N PROVE Has(n + 1)
    OBVIOUS
  <2>1. n \in Nat /\ n <= N /\ Has(n) OBVIOUS
  <2> QED BY <1>2, <2>1
<1>5. S = Nat
  <2>1. S \subseteq Nat OBVIOUS
  <2> HIDE DEF S
  <2> QED BY <1>3, <1>4, <2>1, SetInduction
<1>6. Has(N) BY <1>5
<1> QED BY <1>6 DEF Has

LEMMA FoldRuns ==
  ASSUME NEW bits, NEW N \in Nat, DOMAIN bits = 1 .. N, \A k \in 1 .. N : bits[k] \in {0, 1}
  PROVE  \E c \in [0 .. N -> Crcs] :
            /\ c[0] = ZeroCrc /\ c[N] = Crc8(bits)
            /\ \A n \in 1 .. N : c[n] = ShiftIn(c[n - 1], bits[n])
<1> DEFINE D == SUBSET (1 .. N)
           body(f, s) == IF s = {} THEN ZeroCrc ELSE ShiftIn(f[s \ {Max(s)}], bits[Max(s)])
           f == CHOOSE g : g = [s \in D |-> body(g, s)]
<1>1. Crc8(bits) = f[1 .. N] BY DEF Crc8, FoldLeft, MapThenFoldSet
<1>2. PICK g \in [D -> Crcs] : \A s \in D : OnSubset(g, s, bits) BY FoldExists
<1>3. g = [s \in D |-> body(g, s)]
  <2>1. \A s \in D : g[s] = body(g, s) BY <1>2 DEF OnSubset
  <2>2. g = [s \in D |-> g[s]] BY <1>2
  <2> HIDE DEF body, D
  <2> QED BY <2>1, <2>2
<1>4. f = [s \in D |-> body(f, s)]
  <2> HIDE DEF body, D
  <2> QED BY <1>3
<1>5. \A s \in D : f[s] = body(f, s)
  <2> HIDE DEF body, D, f
  <2> QED BY <1>4
<1> DEFINE c == [n \in 0 .. N |-> f[1 .. n]]
<1>6. f[1 .. 0] = ZeroCrc
  <2>1. 1 .. 0 = {} /\ 1 .. 0 \in D OBVIOUS
  <2> HIDE DEF D, f
  <2> QED BY <1>5, <2>1
<1>7. \A n \in 1 .. N : f[1 .. n] = ShiftIn(f[1 .. n - 1], bits[n])
  <2> SUFFICES ASSUME NEW n \in 1 .. N PROVE f[1 .. n] = ShiftIn(f[1 .. n - 1], bits[n])
    OBVIOUS
  <2>1. n - 1 \in Nat /\ (n - 1) + 1 = n /\ n \in 1 .. n OBVIOUS
  <2>2. Max(1 .. n) = n
    <3>1. 1 .. n \in SUBSET (1 .. (n - 1) + 1) /\ (n - 1) + 1 \in 1 .. n BY <2>1
    <3>2. Max(1 .. n) = (n - 1) + 1 BY <2>1, <3>1, MaxLast
    <3> QED BY <2>1, <3>2
  <2>3. (1 .. n) \ {n} = 1 .. n - 1 OBVIOUS
  <2>4. 1 .. n \in D /\ 1 .. n # {} BY <2>1
  <2>5. f[1 .. n] = body(f, 1 .. n)
    <3> HIDE DEF body, D, f
    <3> QED BY <1>5, <2>4
  <2> HIDE DEF D, f
  <2> QED BY <2>2, <2>3, <2>4, <2>5
<1> HIDE DEF f, D
<1> DEFINE S == {n \in Nat : n <= N => f[1 .. n] \in Crcs}
<1>8. S = Nat
  <2>1. 0 \in S BY <1>6, ZeroIsCrc
  <2>2. \A n \in S : n + 1 \in S
    <3> SUFFICES ASSUME NEW n \in S, n + 1 <= N PROVE f[1 .. n + 1] \in Crcs
      OBVIOUS
    <3>1. n \in Nat /\ n + 1 \in 1 .. N /\ (n + 1) - 1 = n /\ f[1 .. n] \in Crcs OBVIOUS
    <3>2. f[1 .. n + 1] = ShiftIn(f[1 .. n], bits[n + 1])
      <4>1. f[1 .. n + 1] = ShiftIn(f[1 .. (n + 1) - 1], bits[n + 1]) BY <1>7, <3>1
      <4> QED BY <3>1, <4>1
    <3>3. bits[n + 1] \in {0, 1} BY <3>1
    <3> QED BY <3>1, <3>2, <3>3, ShiftRow
  <2>3. S \subseteq Nat OBVIOUS
  <2> HIDE DEF S
  <2> QED BY <2>1, <2>2, <2>3, SetInduction
<1>9. c \in [0 .. N -> Crcs]
  <2>1. \A n \in 0 .. N : n \in S /\ n <= N BY <1>8
  <2>2. \A n \in 0 .. N : f[1 .. n] \in Crcs BY <2>1
  <2> QED BY <2>2
<1>10. \A n \in 0 .. N : c[n] = f[1 .. n] OBVIOUS
<1>11. \A n \in 1 .. N : n \in 0 .. N /\ n - 1 \in 0 .. N OBVIOUS
<1>12. 0 \in 0 .. N /\ N \in 0 .. N OBVIOUS
<1> HIDE DEF c, S
<1>13. c[0] = ZeroCrc /\ c[N] = Crc8(bits) BY <1>1, <1>6, <1>10, <1>12
<1>14. \A n \in 1 .. N : c[n] = ShiftIn(c[n - 1], bits[n]) BY <1>7, <1>10, <1>11
<1> QED BY <1>9, <1>13, <1>14

-----------------------------------------------------------------------------
(* onewire_crc8 is linear: the CRCs of two readings differ by the CRC of   *)
(* their difference.                                                       *)
Diff(x, y) == [k \in 0 .. 7 |-> Flip(x[k], y[k])]

LEMMA FlipLaws ==
  ASSUME NEW a \in {0, 1}, NEW b \in {0, 1}, NEW c \in {0, 1}, NEW d \in {0, 1}
  PROVE  Flip(Flip(a, b), Flip(c, d)) = Flip(Flip(a, c), Flip(b, d))
<1>1. /\ Flip(0, 0) = 0 /\ Flip(0, 1) = 1 /\ Flip(1, 0) = 1 /\ Flip(1, 1) = 0
  BY FlipIs
<1>2. (a = 0 \/ a = 1) /\ (b = 0 \/ b = 1) /\ (c = 0 \/ c = 1) /\ (d = 0 \/ d = 1) OBVIOUS
<1> QED BY <1>1, <1>2

LEMMA DiffIsCrc ==
  ASSUME NEW x \in Crcs, NEW y \in Crcs
  PROVE  Diff(x, y) \in Crcs /\ \A k \in 0 .. 7 : Diff(x, y)[k] = Flip(x[k], y[k])
<1>1. \A k \in 0 .. 7 : Flip(x[k], y[k]) \in {0, 1} BY CrcBits, FlipIs
<1> QED BY <1>1 DEF Diff, Crcs

LEMMA DiffShifts ==
  ASSUME NEW x \in Crcs, NEW y \in Crcs, NEW p \in {0, 1}, NEW q \in {0, 1}
  PROVE  Diff(ShiftIn(x, p), ShiftIn(y, q)) = ShiftIn(Diff(x, y), Flip(p, q))
<1> DEFINE X == ShiftIn(x, p)
           Y == ShiftIn(y, q)
           d == Diff(x, y)
           E == ShiftIn(d, Flip(p, q))
<1>1. d \in Crcs /\ \A k \in 0 .. 7 : d[k] = Flip(x[k], y[k]) BY DiffIsCrc
<1>2. Flip(p, q) \in {0, 1} BY FlipIs
<1>3. X \in Crcs /\ Row(X, x[1], x[2], Flip(x[3], Flip(x[0], p)), Flip(x[4], Flip(x[0], p)),
                      x[5], x[6], x[7], Flip(x[0], p))
  BY ShiftRow
<1>4. Y \in Crcs /\ Row(Y, y[1], y[2], Flip(y[3], Flip(y[0], q)), Flip(y[4], Flip(y[0], q)),
                      y[5], y[6], y[7], Flip(y[0], q))
  BY ShiftRow
<1>5. E \in Crcs /\ Row(E, d[1], d[2], Flip(d[3], Flip(d[0], Flip(p, q))), Flip(d[4], Flip(d[0], Flip(p, q))),
                      d[5], d[6], d[7], Flip(d[0], Flip(p, q)))
  BY <1>1, <1>2, ShiftRow
<1>6. Diff(X, Y) \in Crcs /\ \A k \in 0 .. 7 : Diff(X, Y)[k] = Flip(X[k], Y[k])
  BY <1>3, <1>4, DiffIsCrc
<1> HIDE DEF X, Y, d, E
<1>7. \A k \in 0 .. 7 : x[k] \in {0, 1} /\ y[k] \in {0, 1} BY CrcBits
<1>8. Flip(x[0], p) \in {0, 1} /\ Flip(y[0], q) \in {0, 1} BY <1>7, FlipIs
<1>9. Flip(d[0], Flip(p, q)) = Flip(Flip(x[0], p), Flip(y[0], q)) BY <1>1, <1>7, FlipLaws
<1>10. /\ Flip(d[3], Flip(d[0], Flip(p, q))) = Flip(Flip(x[3], Flip(x[0], p)), Flip(y[3], Flip(y[0], q)))
       /\ Flip(d[4], Flip(d[0], Flip(p, q))) = Flip(Flip(x[4], Flip(x[0], p)), Flip(y[4], Flip(y[0], q)))
  BY <1>1, <1>7, <1>8, <1>9, FlipLaws
<1>11. Flip(X[0], Y[0]) = E[0] /\ Flip(X[1], Y[1]) = E[1] BY <1>1, <1>3, <1>4, <1>5 DEF Row
<1>12. Flip(X[2], Y[2]) = E[2] /\ Flip(X[3], Y[3]) = E[3] BY <1>3, <1>4, <1>5, <1>10 DEF Row
<1>13. Flip(X[4], Y[4]) = E[4] /\ Flip(X[5], Y[5]) = E[5] /\ Flip(X[6], Y[6]) = E[6]
  BY <1>1, <1>3, <1>4, <1>5 DEF Row
<1>14. Flip(X[7], Y[7]) = E[7] BY <1>3, <1>4, <1>5, <1>9 DEF Row
<1>15. \A k \in 0 .. 7 : Flip(X[k], Y[k]) = E[k]
  <2> SUFFICES ASSUME NEW k \in 0 .. 7 PROVE Flip(X[k], Y[k]) = E[k]
    OBVIOUS
  <2>1. k = 0 \/ k = 1 \/ k = 2 \/ k = 3 \/ k = 4 \/ k = 5 \/ k = 6 \/ k = 7 OBVIOUS
  <2> QED BY <1>11, <1>12, <1>13, <1>14, <2>1
<1>16. Diff(X, Y) = E BY <1>5, <1>6, <1>15, SameCrc
<1> QED BY <1>16 DEF X, Y, d, E

LEMMA DiffOfEqual == ASSUME NEW x \in Crcs PROVE Diff(x, x) = ZeroCrc
<1>1. \A k \in 0 .. 7 : Flip(x[k], x[k]) = 0 BY CrcBits, FlipIs
<1> QED BY <1>1 DEF Diff, ZeroCrc

(* A shift without a 1 moves no other CRC to 0, and one with a 1 only the  *)
(* CRC that is 1.                                                          *)
One == [k \in 0 .. 7 |-> IF k = 0 THEN 1 ELSE 0]

LEMMA OneIsCrc == One \in Crcs /\ Row(One, 1, 0, 0, 0, 0, 0, 0, 0)
BY DEF One, Crcs, Row

LEMMA RowsSame ==
  ASSUME NEW c \in Crcs, NEW d \in Crcs, NEW b0, NEW b1, NEW b2, NEW b3, NEW b4, NEW b5, NEW b6, NEW b7,
         Row(c, b0, b1, b2, b3, b4, b5, b6, b7), Row(d, b0, b1, b2, b3, b4, b5, b6, b7)
  PROVE  c = d
<1>1. \A k \in 0 .. 7 : c[k] = d[k]
  <2> SUFFICES ASSUME NEW k \in 0 .. 7 PROVE c[k] = d[k]
    OBVIOUS
  <2>1. k = 0 \/ k = 1 \/ k = 2 \/ k = 3 \/ k = 4 \/ k = 5 \/ k = 6 \/ k = 7 OBVIOUS
  <2> QED BY <2>1 DEF Row
<1> QED BY <1>1, SameCrc

LEMMA ShiftToZero ==
  ASSUME NEW c \in Crcs, NEW b \in {0, 1}, ShiftIn(c, b) = ZeroCrc
  PROVE  c = IF b = 0 THEN ZeroCrc ELSE One
<1> DEFINE m == Flip(c[0], b)
<1>1. Row(ZeroCrc, c[1], c[2], Flip(c[3], m), Flip(c[4], m), c[5], c[6], c[7], m) BY ShiftRow
<1>2. m = 0 /\ c[1] = 0 /\ c[2] = 0 /\ Flip(c[3], m) = 0 /\ Flip(c[4], m) = 0 /\ c[5] = 0 /\ c[6] = 0 /\ c[7] = 0
  BY <1>1, ZeroIsCrc DEF Row
<1>3. c[0] \in {0, 1} /\ c[3] \in {0, 1} /\ c[4] \in {0, 1} BY CrcBits
<1>4. c[0] = b BY <1>2, <1>3, FlipIs
<1>5. c[3] = 0 /\ c[4] = 0
  <2> HIDE DEF m
  <2> QED BY <1>2, <1>3, FlipIs
<1>6. Row(c, b, 0, 0, 0, 0, 0, 0, 0) BY <1>2, <1>4, <1>5 DEF Row
<1>7. CASE b = 0 BY <1>6, <1>7, ZeroIsCrc, RowsSame
<1>8. CASE b = 1 BY <1>6, <1>8, OneIsCrc, RowsSame
<1> QED BY <1>7, <1>8

LEMMA ZeroStays == ShiftIn(ZeroCrc, 0) = ZeroCrc /\ ShiftIn(ZeroCrc, 1) = ShiftIn(One, 0)
<1>1. Flip(0, 0) = 0 /\ Flip(0, 1) = 1 /\ Flip(1, 0) = 1 BY FlipIs
<1>2. ShiftIn(ZeroCrc, 0) \in Crcs /\ Row(ShiftIn(ZeroCrc, 0), 0, 0, 0, 0, 0, 0, 0, 0)
  <2>1. /\ ShiftIn(ZeroCrc, 0) \in Crcs
        /\ Row(ShiftIn(ZeroCrc, 0), ZeroCrc[1], ZeroCrc[2], Flip(ZeroCrc[3], Flip(ZeroCrc[0], 0)),
               Flip(ZeroCrc[4], Flip(ZeroCrc[0], 0)), ZeroCrc[5], ZeroCrc[6], ZeroCrc[7], Flip(ZeroCrc[0], 0))
    BY ZeroIsCrc, ShiftRow
  <2> QED BY <1>1, <2>1, ZeroIsCrc DEF Row
<1>3. ShiftIn(ZeroCrc, 1) \in Crcs /\ Row(ShiftIn(ZeroCrc, 1), 0, 0, 1, 1, 0, 0, 0, 1)
  <2>1. /\ ShiftIn(ZeroCrc, 1) \in Crcs
        /\ Row(ShiftIn(ZeroCrc, 1), ZeroCrc[1], ZeroCrc[2], Flip(ZeroCrc[3], Flip(ZeroCrc[0], 1)),
               Flip(ZeroCrc[4], Flip(ZeroCrc[0], 1)), ZeroCrc[5], ZeroCrc[6], ZeroCrc[7], Flip(ZeroCrc[0], 1))
    BY ZeroIsCrc, ShiftRow
  <2> QED BY <1>1, <2>1, ZeroIsCrc DEF Row
<1>4. ShiftIn(One, 0) \in Crcs /\ Row(ShiftIn(One, 0), 0, 0, 1, 1, 0, 0, 0, 1)
  <2>1. /\ ShiftIn(One, 0) \in Crcs
        /\ Row(ShiftIn(One, 0), One[1], One[2], Flip(One[3], Flip(One[0], 0)),
               Flip(One[4], Flip(One[0], 0)), One[5], One[6], One[7], Flip(One[0], 0))
    BY OneIsCrc, ShiftRow
  <2> QED BY <1>1, <2>1, OneIsCrc DEF Row
<1>5. ShiftIn(ZeroCrc, 0) = ZeroCrc BY <1>2, ZeroIsCrc, RowsSame
<1>6. ShiftIn(ZeroCrc, 1) = ShiftIn(One, 0) BY <1>3, <1>4, RowsSame
<1> QED BY <1>5, <1>6

-----------------------------------------------------------------------------
(* Shifting in zeros only, or ones only: the CRCs one comes through, the   *)
(* least significant bit first as in crc[0], 18 shifts to a table.  Each   *)
(* table begins with the row the one before it ends with.                  *)
Zeros1 ==
  << <<1, 0, 0, 0, 0, 0, 0, 0>>, <<0, 0, 1, 1, 0, 0, 0, 1>>, <<0, 1, 1, 0, 0, 0, 1, 0>>,
     <<1, 1, 0, 0, 0, 1, 0, 0>>, <<1, 0, 1, 1, 1, 0, 0, 1>>, <<0, 1, 0, 0, 0, 0, 1, 1>>,
     <<1, 0, 0, 0, 0, 1, 1, 0>>, <<0, 0, 1, 1, 1, 1, 0, 1>>, <<0, 1, 1, 1, 1, 0, 1, 0>>,
     <<1, 1, 1, 1, 0, 1, 0, 0>>, <<1, 1, 0, 1, 1, 0, 0, 1>>, <<1, 0, 0, 0, 0, 0, 1, 1>>,
     <<0, 0, 1, 1, 0, 1, 1, 1>>, <<0, 1, 1, 0, 1, 1, 1, 0>>, <<1, 1, 0, 1, 1, 1, 0, 0>>,
     <<1, 0, 0, 0, 1, 0, 0, 1>>, <<0, 0, 1, 0, 0, 0, 1, 1>>, <<0, 1, 0, 0, 0, 1, 1, 0>>,
     <<1, 0, 0, 0, 1, 1, 0, 0>> >>

Zeros2 ==
  << <<1, 0, 0, 0, 1, 1, 0, 0>>, <<0, 0, 1, 0, 1, 0, 0, 1>>, <<0, 1, 0, 1, 0, 0, 1, 0>>,
     <<1, 0, 1, 0, 0, 1, 0, 0>>, <<0, 1, 1, 1, 1, 0, 0, 1>>, <<1, 1, 1, 1, 0, 0, 1, 0>>,
     <<1, 1, 0, 1, 0, 1, 0, 1>>, <<1, 0, 0, 1, 1, 0, 1, 1>>, <<0, 0, 0, 0, 0, 1, 1, 1>>,
     <<0, 0, 0, 0, 1, 1, 1, 0>>, <<0, 0, 0, 1, 1, 1, 0, 0>>, <<0, 0, 1, 1, 1, 0, 0, 0>>,
     <<0, 1, 1, 1, 0, 0, 0, 0>>, <<1, 1, 1, 0, 0, 0, 0, 0>>, <<1, 1, 1, 1, 0, 0, 0, 1>>,
     <<1, 1, 0, 1, 0, 0, 1, 1>>, <<1, 0, 0, 1, 0, 1, 1, 1>>, <<0, 0, 0, 1, 1, 1, 1, 1>>,
     <<0, 0, 1, 1, 1, 1, 1, 0>> >>

Zeros3 ==
  << <<0, 0, 1, 1, 1, 1, 1, 0>>, <<0, 1, 1, 1, 1, 1, 0, 0>>, <<1, 1, 1, 1, 1, 0, 0, 0>>,
     <<1, 1, 0, 0, 0, 0, 0, 1>>, <<1, 0, 1, 1, 0, 0, 1, 1>>, <<0, 1, 0, 1, 0, 1, 1, 1>>,
     <<1, 0, 1, 0, 1, 1, 1, 0>>, <<0, 1, 1, 0, 1, 1, 0, 1>>, <<1, 1, 0, 1, 1, 0, 1, 0>>,
     <<1, 0, 0, 0, 0, 1, 0, 1>>, <<0, 0, 1, 1, 1, 0, 1, 1>>, <<0, 1, 1, 1, 0, 1, 1, 0>>,
     <<1, 1, 1, 0, 1, 1, 0, 0>>, <<1, 1, 1, 0, 1, 0, 0, 1>>, <<1, 1, 1, 0, 0, 0, 1, 1>>,
     <<1, 1, 1, 1, 0, 1, 1, 1>>, <<1, 1, 0, 1, 1, 1, 1, 1>>, <<1, 0, 0, 0, 1, 1, 1, 1>>,
     <<0, 0, 1, 0, 1, 1, 1, 1>> >>

Zeros4 ==
  << <<0, 0, 1, 0, 1, 1, 1, 1>>, <<0, 1, 0, 1, 1, 1, 1, 0>>, <<1, 0, 1, 1, 1, 1, 0, 0>>,
     <<0, 1, 0, 0, 1, 0, 0, 1>>, <<1, 0, 0, 1, 0, 0, 1, 0>>, <<0, 0, 0, 1, 0, 1, 0, 1>>,
     <<0, 0, 1, 0, 1, 0, 1, 0>>, <<0, 1, 0, 1, 0, 1, 0, 0>>, <<1, 0, 1, 0, 1, 0, 0, 0>>,
     <<0, 1, 1, 0, 0, 0, 0, 1>>, <<1, 1, 0, 0, 0, 0, 1, 0>>, <<1, 0, 1, 1, 0, 1, 0, 1>>,
     <<0, 1, 0, 1, 1, 0, 1, 1>>, <<1, 0, 1, 1, 0, 1, 1, 0>>, <<0, 1, 0, 1, 1, 1, 0, 1>>,
     <<1, 0, 1, 1, 1, 0, 1, 0>>, <<0, 1, 0, 0, 0, 1, 0, 1>>, <<1, 0, 0, 0, 1, 0, 1, 0>>,
     <<0, 0, 1, 0, 0, 1, 0, 1>> >>

Ones1 ==
  << <<0, 0, 0, 0, 0, 0, 0, 0>>, <<0, 0, 1, 1, 0, 0, 0, 1>>, <<0, 1, 0, 1, 0, 0, 1, 1>>,
     <<1, 0, 0, 1, 0, 1, 1, 1>>, <<0, 0, 1, 0, 1, 1, 1, 0>>, <<0, 1, 1, 0, 1, 1, 0, 1>>,
     <<1, 1, 1, 0, 1, 0, 1, 1>>, <<1, 1, 0, 1, 0, 1, 1, 0>>, <<1, 0, 1, 0, 1, 1, 0, 0>>,
     <<0, 1, 0, 1, 1, 0, 0, 0>>, <<1, 0, 0, 0, 0, 0, 0, 1>>, <<0, 0, 0, 0, 0, 0, 1, 0>>,
     <<0, 0, 1, 1, 0, 1, 0, 1>>, <<0, 1, 0, 1, 1, 0, 1, 1>>, <<1, 0, 0, 0, 0, 1, 1, 1>>,
     <<0, 0, 0, 0, 1, 1, 1, 0>>, <<0, 0, 1, 0, 1, 1, 0, 1>>, <<0, 1, 1, 0, 1, 0, 1, 1>>,
     <<1, 1, 1, 0, 0, 1, 1, 1>> >>

Ones2 ==
  << <<1, 1, 1, 0, 0, 1, 1, 1>>, <<1, 1, 0, 0, 1, 1, 1, 0>>, <<1, 0, 0, 1, 1, 1, 0, 0>>,
     <<0, 0, 1, 1, 1, 0, 0, 0>>, <<0, 1, 0, 0, 0, 0, 0, 1>>, <<1, 0, 1, 1, 0, 0, 1, 1>>,
     <<0, 1, 1, 0, 0, 1, 1, 0>>, <<1, 1, 1, 1, 1, 1, 0, 1>>, <<1, 1, 1, 1, 1, 0, 1, 0>>,
     <<1, 1, 1, 1, 0, 1, 0, 0>>, <<1, 1, 1, 0, 1, 0, 0, 0>>, <<1, 1, 0, 1, 0, 0, 0, 0>>,
     <<1, 0, 1, 0, 0, 0, 0, 0>>, <<0, 1, 0, 0, 0, 0, 0, 0>>, <<1, 0, 1, 1, 0, 0, 0, 1>>,
     <<0, 1, 1, 0, 0, 0, 1, 0>>, <<1, 1, 1, 1, 0, 1, 0, 1>>, <<1, 1, 1, 0, 1, 0, 1, 0>>,
     <<1, 1, 0, 1, 0, 1, 0, 0>> >>

Ones3 ==
  << <<1, 1, 0, 1, 0, 1, 0, 0>>, <<1, 0, 1, 0, 1, 0, 0, 0>>, <<0, 1, 0, 1, 0, 0, 0, 0>>,
     <<1, 0, 0, 1, 0, 0, 0, 1>>, <<0, 0, 1, 0, 0, 0, 1, 0>>, <<0, 1, 1, 1, 0, 1, 0, 1>>,
     <<1, 1, 0, 1, 1, 0, 1, 1>>, <<1, 0, 1, 1, 0, 1, 1, 0>>, <<0, 1, 1, 0, 1, 1, 0, 0>>,
     <<1, 1, 1, 0, 1, 0, 0, 1>>, <<1, 1, 0, 1, 0, 0, 1, 0>>, <<1, 0, 1, 0, 0, 1, 0, 0>>,
     <<0, 1, 0, 0, 1, 0, 0, 0>>, <<1, 0, 1, 0, 0, 0, 0, 1>>, <<0, 1, 0, 0, 0, 0, 1, 0>>,
     <<1, 0, 1, 1, 0, 1, 0, 1>>, <<0, 1, 1, 0, 1, 0, 1, 0>>, <<1, 1, 1, 0, 0, 1, 0, 1>>,
     <<1, 1, 0, 0, 1, 0, 1, 0>> >>

Ones4 ==
  << <<1, 1, 0, 0, 1, 0, 1, 0>>, <<1, 0, 0, 1, 0, 1, 0, 0>>, <<0, 0, 1, 0, 1, 0, 0, 0>>,
     <<0, 1, 1, 0, 0, 0, 0, 1>>, <<1, 1, 1, 1, 0, 0, 1, 1>>, <<1, 1, 1, 0, 0, 1, 1, 0>>,
     <<1, 1, 0, 0, 1, 1, 0, 0>>, <<1, 0, 0, 1, 1, 0, 0, 0>>, <<0, 0, 1, 1, 0, 0, 0, 0>>,
     <<0, 1, 0, 1, 0, 0, 0, 1>>, <<1, 0, 0, 1, 0, 0, 1, 1>>, <<0, 0, 1, 0, 0, 1, 1, 0>>,
     <<0, 1, 1, 1, 1, 1, 0, 1>>, <<1, 1, 0, 0, 1, 0, 1, 1>>, <<1, 0, 0, 1, 0, 1, 1, 0>>,
     <<0, 0, 1, 0, 1, 1, 0, 0>>, <<0, 1, 1, 0, 1, 0, 0, 1>>, <<1, 1, 1, 0, 0, 0, 1, 1>>,
     <<1, 1, 0, 0, 0, 1, 1, 0>> >>

Joined(t1, t2, t3, t4) ==
  [m \in 1 .. 73 |-> IF m <= 18 THEN t1[m] ELSE IF m <= 36 THEN t2[m - 18]
                     ELSE IF m <= 54 THEN t3[m - 36] ELSE t4[m - 54]]

ShiftedZeros == Joined(Zeros1, Zeros2, Zeros3, Zeros4)
ShiftedOnes  == Joined(Ones1, Ones2, Ones3, Ones4)

Word(c, t) == Row(c, t[1], t[2], t[3], t[4], t[5], t[6], t[7], t[8])

Shifted(b, s, t) ==
  /\ t[1] = s[2] /\ t[2] = s[3] /\ t[5] = s[6] /\ t[6] = s[7] /\ t[7] = s[8]
  /\ t[8] = Flip(s[1], b) /\ t[3] = Flip(s[4], t[8]) /\ t[4] = Flip(s[5], t[8])

ShiftTable(b, t) == \A m \in 1 .. 18 : Shifted(b, t[m], t[m + 1])

NotOne(t) ==
  t[1] # 1 \/ t[2] # 0 \/ t[3] # 0 \/ t[4] # 0 \/ t[5] # 0 \/ t[6] # 0 \/ t[7] # 0 \/ t[8] # 0

LEMMA FlipTable == Flip(0, 0) = 0 /\ Flip(0, 1) = 1 /\ Flip(1, 0) = 1 /\ Flip(1, 1) = 0
BY FlipIs

LEMMA JoinedShifts ==
  ASSUME NEW b, NEW t1, NEW t2, NEW t3, NEW t4,
         ShiftTable(b, t1), ShiftTable(b, t2), ShiftTable(b, t3), ShiftTable(b, t4),
         t1[19] = t2[1], t2[19] = t3[1], t3[19] = t4[1]
  PROVE  \A m \in 1 .. 72 : Shifted(b, Joined(t1, t2, t3, t4)[m], Joined(t1, t2, t3, t4)[m + 1])
<1> DEFINE t == Joined(t1, t2, t3, t4)
<1> SUFFICES ASSUME NEW m \in 1 .. 72 PROVE Shifted(b, t[m], t[m + 1])
  OBVIOUS
<1>1. \A k \in 1 .. 73 : t[k] = IF k <= 18 THEN t1[k] ELSE IF k <= 36 THEN t2[k - 18]
                                ELSE IF k <= 54 THEN t3[k - 36] ELSE t4[k - 54]
  BY DEF Joined
<1> HIDE DEF t
<1>2. m \in 1 .. 73 /\ m + 1 \in 1 .. 73 OBVIOUS
<1>3. CASE m <= 18
  <2>1. m \in 1 .. 18 /\ t[m] = t1[m] BY <1>1, <1>2, <1>3
  <2>2. t[m + 1] = t1[m + 1] BY <1>1, <1>2, <1>3
  <2> QED BY <2>1, <2>2 DEF ShiftTable
<1>4. CASE 18 < m /\ m <= 36
  <2>1. m - 18 \in 1 .. 18 /\ t[m] = t2[m - 18] BY <1>1, <1>2, <1>4
  <2>2. t[m + 1] = t2[(m - 18) + 1]
    <3>1. CASE m = 36 BY <1>1, <1>2, <3>1
    <3>2. CASE m # 36 BY <1>1, <1>2, <1>4, <3>2
    <3> QED BY <3>1, <3>2
  <2> QED BY <2>1, <2>2 DEF ShiftTable
<1>5. CASE 36 < m /\ m <= 54
  <2>1. m - 36 \in 1 .. 18 /\ t[m] = t3[m - 36] BY <1>1, <1>2, <1>5
  <2>2. t[m + 1] = t3[(m - 36) + 1]
    <3>1. CASE m = 54 BY <1>1, <1>2, <3>1
    <3>2. CASE m # 54 BY <1>1, <1>2, <1>5, <3>2
    <3> QED BY <3>1, <3>2
  <2> QED BY <2>1, <2>2 DEF ShiftTable
<1>6. CASE 54 < m
  <2>1. m - 54 \in 1 .. 18 /\ t[m] = t4[m - 54] BY <1>1, <1>2, <1>6
  <2>2. t[m + 1] = t4[(m - 54) + 1] BY <1>1, <1>2, <1>6
  <2> QED BY <2>1, <2>2 DEF ShiftTable
<1> QED BY <1>3, <1>4, <1>5, <1>6

LEMMA ZerosShift == \A m \in 1 .. 72 : Shifted(0, ShiftedZeros[m], ShiftedZeros[m + 1])
<1>1. ShiftTable(0, Zeros1) BY FlipTable DEF ShiftTable, Shifted, Zeros1
<1>2. ShiftTable(0, Zeros2) BY FlipTable DEF ShiftTable, Shifted, Zeros2
<1>3. ShiftTable(0, Zeros3) BY FlipTable DEF ShiftTable, Shifted, Zeros3
<1>4. ShiftTable(0, Zeros4) BY FlipTable DEF ShiftTable, Shifted, Zeros4
<1>5. Zeros1[19] = Zeros2[1] BY DEF Zeros1, Zeros2
<1>6. Zeros2[19] = Zeros3[1] BY DEF Zeros2, Zeros3
<1>7. Zeros3[19] = Zeros4[1] BY DEF Zeros3, Zeros4
<1> QED BY <1>1, <1>2, <1>3, <1>4, <1>5, <1>6, <1>7, JoinedShifts DEF ShiftedZeros

LEMMA OnesShift == \A m \in 1 .. 72 : Shifted(1, ShiftedOnes[m], ShiftedOnes[m + 1])
<1>1. ShiftTable(1, Ones1) BY FlipTable DEF ShiftTable, Shifted, Ones1
<1>2. ShiftTable(1, Ones2) BY FlipTable DEF ShiftTable, Shifted, Ones2
<1>3. ShiftTable(1, Ones3) BY FlipTable DEF ShiftTable, Shifted, Ones3
<1>4. ShiftTable(1, Ones4) BY FlipTable DEF ShiftTable, Shifted, Ones4
<1>5. Ones1[19] = Ones2[1] BY DEF Ones1, Ones2
<1>6. Ones2[19] = Ones3[1] BY DEF Ones2, Ones3
<1>7. Ones3[19] = Ones4[1] BY DEF Ones3, Ones4
<1> QED BY <1>1, <1>2, <1>3, <1>4, <1>5, <1>6, <1>7, JoinedShifts DEF ShiftedOnes

LEMMA ZerosLeadAway == \A m \in 2 .. 72 : NotOne(ShiftedZeros[m])
<1> SUFFICES ASSUME NEW m \in 2 .. 72 PROVE NotOne(ShiftedZeros[m])
  OBVIOUS
<1>1. \A k \in 2 .. 18 : NotOne(Zeros1[k]) BY DEF NotOne, Zeros1
<1>2. \A k \in 1 .. 18 : NotOne(Zeros2[k]) BY DEF NotOne, Zeros2
<1>3. \A k \in 1 .. 18 : NotOne(Zeros3[k]) BY DEF NotOne, Zeros3
<1>4. \A k \in 1 .. 18 : NotOne(Zeros4[k]) BY DEF NotOne, Zeros4
<1>5. ShiftedZeros[m] = IF m <= 18 THEN Zeros1[m] ELSE IF m <= 36 THEN Zeros2[m - 18]
                        ELSE IF m <= 54 THEN Zeros3[m - 36] ELSE Zeros4[m - 54]
  BY DEF ShiftedZeros, Joined
<1>6. CASE m <= 18 BY <1>1, <1>5, <1>6
<1>7. CASE 18 < m /\ m <= 36
  <2>1. m - 18 \in 1 .. 18 /\ ~(m <= 18) BY <1>7
  <2> QED BY <1>2, <1>5, <1>7, <2>1
<1>8. CASE 36 < m /\ m <= 54
  <2>1. m - 36 \in 1 .. 18 /\ ~(m <= 18) /\ ~(m <= 36) BY <1>8
  <2> QED BY <1>3, <1>5, <1>8, <2>1
<1>9. CASE 54 < m
  <2>1. m - 54 \in 1 .. 18 /\ ~(m <= 18) /\ ~(m <= 36) /\ ~(m <= 54) BY <1>9
  <2> QED BY <1>4, <1>5, <2>1
<1> QED BY <1>6, <1>7, <1>8, <1>9

LEMMA EndOfOnes == ShiftedOnes[1] = <<0, 0, 0, 0, 0, 0, 0, 0>> /\ ShiftedOnes[73][1] = 1
<1>1. ShiftedOnes[1] = Ones1[1] /\ ShiftedOnes[73] = Ones4[73 - 54] BY DEF ShiftedOnes, Joined
<1>2. Ones1[1] = <<0, 0, 0, 0, 0, 0, 0, 0>> BY DEF Ones1
<1>3. Ones4[19][1] = 1 BY DEF Ones4
<1>4. 73 - 54 = 19 OBVIOUS
<1> QED BY <1>1, <1>2, <1>3, <1>4

(* A run shifts in the same bit again and again.                           *)
Run(r, N, b) ==
  /\ N \in Nat /\ b \in {0, 1} /\ r \in [0 .. N -> Crcs]
  /\ \A n \in 1 .. N : r[n] = ShiftIn(r[n - 1], b)

LEMMA RunIsTable ==
  ASSUME NEW r, NEW N, NEW b, Run(r, N, b), NEW M \in Nat, N <= M,
         NEW T, \A m \in 1 .. M : Shifted(b, T[m], T[m + 1]), Word(r[0], T[1])
  PROVE  \A n \in 0 .. N : Word(r[n], T[n + 1])
<1>1. N \in Nat /\ b \in {0, 1} /\ r \in [0 .. N -> Crcs] /\ \A i \in 1 .. N : r[i] = ShiftIn(r[i - 1], b)
  BY DEF Run
<1> DEFINE S == {n \in Nat : n <= N => Word(r[n], T[n + 1])}
<1>2. 0 \in S OBVIOUS
<1>3. \A n \in S : n + 1 \in S
  <2> SUFFICES ASSUME NEW n \in S, n + 1 <= N PROVE Word(r[n + 1], T[(n + 1) + 1])
    OBVIOUS
  <2>1. n \in Nat /\ n \in 0 .. N /\ Word(r[n], T[n + 1]) BY <1>1
  <2>2. r[n + 1] = ShiftIn(r[n], b)
    <3>1. n + 1 \in 1 .. N /\ (n + 1) - 1 = n BY <1>1, <2>1
    <3> QED BY <1>1, <3>1
  <2>3. Shifted(b, T[n + 1], T[(n + 1) + 1])
    <3>1. n + 1 \in 1 .. M BY <1>1, <2>1
    <3> QED BY <3>1
  <2>4. r[n] \in Crcs BY <1>1, <2>1
  <2> DEFINE c == r[n]
             d == r[n + 1]
             s == T[n + 1]
             t == T[(n + 1) + 1]
  <2>5. Row(d, c[1], c[2], Flip(c[3], Flip(c[0], b)), Flip(c[4], Flip(c[0], b)), c[5], c[6], c[7], Flip(c[0], b))
    BY <1>1, <2>2, <2>4, ShiftRow
  <2>6. Word(c, s) /\ Shifted(b, s, t) BY <2>1, <2>3
  <2> HIDE DEF c, d, s, t
  <2>7. Word(d, t) BY <2>5, <2>6 DEF Word, Shifted, Row
  <2> QED BY <2>7 DEF d, t
<1>4. S = Nat
  <2>1. S \subseteq Nat OBVIOUS
  <2> HIDE DEF S
  <2> QED BY <1>2, <1>3, <2>1, SetInduction
<1> QED BY <1>1, <1>4

(* From the CRC 1, fewer than 72 zeros do not lead back to it.             *)
LEMMA NoWayBack ==
  ASSUME NEW r, NEW N \in 1 .. 71, Run(r, N, 0), r[0] = One
  PROVE  r[N] # One
<1>1. Word(r[0], ShiftedZeros[1])
  <2>1. ShiftedZeros[1] = Zeros1[1] BY DEF ShiftedZeros, Joined
  <2>2. Zeros1[1] = <<1, 0, 0, 0, 0, 0, 0, 0>> BY DEF Zeros1
  <2> QED BY <2>1, <2>2, OneIsCrc DEF Word
<1>2. \A n \in 0 .. N : Word(r[n], ShiftedZeros[n + 1])
  <2>1. 72 \in Nat /\ N <= 72 OBVIOUS
  <2> QED BY <1>1, <2>1, ZerosShift, RunIsTable
<1> SUFFICES ASSUME r[N] = One PROVE FALSE
  OBVIOUS
<1>3. Word(One, ShiftedZeros[N + 1])
  <2>1. N \in 0 .. N OBVIOUS
  <2> QED BY <1>2, <2>1
<1>4. N + 1 \in 2 .. 72 OBVIOUS
<1>5. NotOne(ShiftedZeros[N + 1]) BY <1>4, ZerosLeadAway
<1> QED BY <1>3, <1>5, OneIsCrc DEF Word, Row, NotOne

(* A reading of ones only does not pass.                                   *)
LEMMA OnesFail ==
  ASSUME NEW r, Run(r, 72, 1), r[0] = ZeroCrc
  PROVE  r[72] # ZeroCrc
<1>1. Word(r[0], ShiftedOnes[1]) BY ZeroIsCrc, EndOfOnes DEF Word
<1>2. Word(r[72], ShiftedOnes[72 + 1])
  <2>1. 72 \in Nat /\ 72 <= 72 /\ 72 \in 0 .. 72 OBVIOUS
  <2>2. \A n \in 0 .. 72 : Word(r[n], ShiftedOnes[n + 1]) BY <1>1, <2>1, OnesShift, RunIsTable
  <2> QED BY <2>1, <2>2
<1>3. r[72][0] = 1
  <2>1. 72 + 1 = 73 OBVIOUS
  <2> QED BY <1>2, <2>1, EndOfOnes DEF Word, Row
<1>4. ZeroCrc[0] = 0 BY ZeroIsCrc DEF Row
<1> QED BY <1>3, <1>4

-----------------------------------------------------------------------------
(* Two readings that both pass the CRC differ in no bit or in at least     *)
(* four: in an even number, as a shift keeps the parity of the CRC and of  *)
(* what was shifted in the same, and not in two, as ZerosLeadAway says.    *)
Even(c) == ((c[0] = 1 <=> c[1] = 1) <=> (c[2] = 1 <=> c[3] = 1))
           <=> ((c[4] = 1 <=> c[5] = 1) <=> (c[6] = 1 <=> c[7] = 1))

Mark(D, n) == IF n \in D THEN 1 ELSE 0
MarkedRun(d, D) ==
  /\ d \in [0 .. 72 -> Crcs] /\ d[0] = ZeroCrc
  /\ \A n \in 1 .. 72 : d[n] = ShiftIn(d[n - 1], Mark(D, n))

LEMMA DifferenceRuns ==
  ASSUME NEW a, NEW b, DOMAIN a = 1 .. 72, DOMAIN b = 1 .. 72,
         \A k \in 1 .. 72 : a[k] \in {0, 1} /\ b[k] \in {0, 1}
  PROVE  \E d : MarkedRun(d, {k \in 1 .. 72 : a[k] # b[k]}) /\ d[72] = Diff(Crc8(a), Crc8(b))
<1> DEFINE D == {k \in 1 .. 72 : a[k] # b[k]}
<1>0. 72 \in Nat OBVIOUS
<1>1. PICK ra \in [0 .. 72 -> Crcs] :
        /\ ra[0] = ZeroCrc /\ ra[72] = Crc8(a)
        /\ \A n \in 1 .. 72 : ra[n] = ShiftIn(ra[n - 1], a[n])
  BY <1>0, FoldRuns
<1>2. PICK rb \in [0 .. 72 -> Crcs] :
        /\ rb[0] = ZeroCrc /\ rb[72] = Crc8(b)
        /\ \A n \in 1 .. 72 : rb[n] = ShiftIn(rb[n - 1], b[n])
  BY <1>0, FoldRuns
<1> DEFINE d == [n \in 0 .. 72 |-> Diff(ra[n], rb[n])]
<1>3. \A n \in 0 .. 72 : d[n] = Diff(ra[n], rb[n]) /\ ra[n] \in Crcs /\ rb[n] \in Crcs OBVIOUS
<1>4. d \in [0 .. 72 -> Crcs]
  <2>1. \A n \in 0 .. 72 : Diff(ra[n], rb[n]) \in Crcs BY <1>3, DiffIsCrc
  <2> QED BY <2>1
<1> HIDE DEF d
<1>5. d[0] = ZeroCrc
  <2>1. 0 \in 0 .. 72 OBVIOUS
  <2> QED BY <1>1, <1>2, <1>3, <2>1, ZeroIsCrc, DiffOfEqual
<1>6. d[72] = Diff(Crc8(a), Crc8(b))
  <2>1. 72 \in 0 .. 72 OBVIOUS
  <2> QED BY <1>1, <1>2, <1>3, <2>1
<1>7. ASSUME NEW n \in 1 .. 72 PROVE d[n] = ShiftIn(d[n - 1], Mark(D, n))
  <2>1. n \in 0 .. 72 /\ n - 1 \in 0 .. 72 OBVIOUS
  <2>2. d[n] = Diff(ShiftIn(ra[n - 1], a[n]), ShiftIn(rb[n - 1], b[n])) BY <1>1, <1>2, <1>3, <2>1
  <2>3. ra[n - 1] \in Crcs /\ rb[n - 1] \in Crcs /\ a[n] \in {0, 1} /\ b[n] \in {0, 1} BY <1>3, <2>1
  <2>4. d[n - 1] = Diff(ra[n - 1], rb[n - 1]) BY <1>3, <2>1
  <2>5. Diff(ShiftIn(ra[n - 1], a[n]), ShiftIn(rb[n - 1], b[n])) =
          ShiftIn(Diff(ra[n - 1], rb[n - 1]), Flip(a[n], b[n]))
    BY <2>3, DiffShifts
  <2>6. Flip(a[n], b[n]) = Mark(D, n) BY <2>3, FlipIs DEF Mark
  <2> QED BY <2>2, <2>4, <2>5, <2>6
<1> QED BY <1>4, <1>5, <1>6, <1>7 DEF MarkedRun

LEMMA EvenShift ==
  ASSUME NEW c \in Crcs, NEW b \in {0, 1}
  PROVE  Even(ShiftIn(c, b)) <=> (Even(c) <=> b = 0)
<1> DEFINE m == Flip(c[0], b)
           s == ShiftIn(c, b)
<1>1. Row(s, c[1], c[2], Flip(c[3], m), Flip(c[4], m), c[5], c[6], c[7], m) BY ShiftRow
<1>2. c[0] \in {0, 1} /\ c[3] \in {0, 1} /\ c[4] \in {0, 1} BY CrcBits
<1>3. m \in {0, 1} /\ (m = 1 <=> ~(c[0] = 1 <=> b = 1)) BY <1>2, FlipIs
<1> HIDE DEF m, s
<1>4. /\ Flip(c[3], m) = 1 <=> ~(c[3] = 1 <=> m = 1)
      /\ Flip(c[4], m) = 1 <=> ~(c[4] = 1 <=> m = 1)
  BY <1>2, <1>3, FlipIs
<1>5. b = 0 <=> ~(b = 1) OBVIOUS
<1>6. /\ s[0] = c[1] /\ s[1] = c[2] /\ s[4] = c[5] /\ s[5] = c[6] /\ s[6] = c[7] /\ s[7] = m
      /\ s[2] = 1 <=> ~(c[3] = 1 <=> m = 1)
      /\ s[3] = 1 <=> ~(c[4] = 1 <=> m = 1)
  BY <1>1, <1>4 DEF Row
<1>7. Even(s) <=> (Even(c) <=> b = 0) BY <1>3, <1>5, <1>6 DEF Even
<1> QED BY <1>7 DEF s

LEMMA ParityCounts ==
  ASSUME NEW d, NEW D, D \subseteq 1 .. 72, MarkedRun(d, D), d[72] = ZeroCrc
  PROVE  IsFiniteSet(D) /\ Cardinality(D) \in Nat /\ Cardinality(D) % 2 = 0
<1> DEFINE Upto(n) == D \cap (1 .. n)
           Good(n) == /\ IsFiniteSet(Upto(n)) /\ Cardinality(Upto(n)) \in Nat
                      /\ Even(d[n]) <=> Cardinality(Upto(n)) % 2 = 0
           S == {n \in Nat : n <= 72 => Good(n)}
<1>1. Good(0)
  <2>1. Upto(0) = {} OBVIOUS
  <2>2. IsFiniteSet({}) /\ Cardinality({}) = 0 BY FS_EmptySet
  <2>3. Even(d[0]) BY ZeroIsCrc DEF MarkedRun, Even, Row
  <2> QED BY <2>1, <2>2, <2>3
<1>2. ASSUME NEW n \in Nat, n + 1 <= 72, Good(n) PROVE Good(n + 1)
  <2>1. n + 1 \in 1 .. 72 /\ n \in 0 .. 72 /\ (n + 1) - 1 = n BY <1>2
  <2>2. d[n + 1] = ShiftIn(d[n], Mark(D, n + 1)) /\ d[n] \in Crcs BY <2>1 DEF MarkedRun
  <2>3. Mark(D, n + 1) \in {0, 1} BY DEF Mark
  <2>4. Even(d[n + 1]) <=> (Even(d[n]) <=> Mark(D, n + 1) = 0) BY <2>2, <2>3, EvenShift
  <2>5. CASE n + 1 \in D
    <3>1. Upto(n + 1) = Upto(n) \cup {n + 1} /\ n + 1 \notin Upto(n) BY <2>5
    <3>2. /\ IsFiniteSet(Upto(n + 1)) /\ Cardinality(Upto(n + 1)) = Cardinality(Upto(n)) + 1
      <4> HIDE DEF Upto
      <4> QED BY <1>2, <3>1, FS_AddElement
    <3>3. Mark(D, n + 1) = 1 BY <2>5 DEF Mark
    <3> HIDE DEF Upto
    <3> QED BY <1>2, <2>4, <3>2, <3>3
  <2>6. CASE n + 1 \notin D
    <3>1. Upto(n + 1) = Upto(n)
      <4>1. \A x \in 1 .. n + 1 : x = n + 1 \/ x \in 1 .. n OBVIOUS
      <4>2. \A x \in 1 .. n : x \in 1 .. n + 1 OBVIOUS
      <4> QED BY <2>6, <4>1, <4>2
    <3>2. Mark(D, n + 1) = 0 BY <2>6 DEF Mark
    <3> HIDE DEF Upto
    <3> QED BY <1>2, <2>4, <3>1, <3>2
  <2> QED BY <2>5, <2>6
<1> HIDE DEF Good
<1>3. S = Nat
  <2>1. 0 \in S BY <1>1
  <2>2. \A n \in S : n + 1 \in S
    <3> SUFFICES ASSUME NEW n \in S, n + 1 <= 72 PROVE Good(n + 1)
      OBVIOUS
    <3>1. n \in Nat /\ Good(n) OBVIOUS
    <3> QED BY <1>2, <3>1
  <2>3. S \subseteq Nat OBVIOUS
  <2> HIDE DEF S
  <2> QED BY <2>1, <2>2, <2>3, SetInduction
<1>4. Good(72)
  <2>1. 72 \in S BY <1>3
  <2> QED BY <2>1
<1>5. Upto(72) = D OBVIOUS
<1>6. Even(d[72]) BY ZeroIsCrc DEF Even, Row
<1> QED BY <1>4, <1>5, <1>6 DEF Good

LEMMA ZeroBefore ==
  ASSUME NEW d, NEW D, MarkedRun(d, D), NEW i \in 1 .. 72, \A k \in D : i <= k
  PROVE  d[i - 1] = ZeroCrc
<1> DEFINE S == {n \in Nat : n < i => d[n] = ZeroCrc}
<1>1. 0 \in S BY DEF MarkedRun
<1>2. \A n \in S : n + 1 \in S
  <2> SUFFICES ASSUME NEW n \in S, n + 1 < i PROVE d[n + 1] = ZeroCrc
    OBVIOUS
  <2>1. n \in Nat /\ n + 1 \in 1 .. 72 /\ (n + 1) - 1 = n /\ d[n] = ZeroCrc OBVIOUS
  <2>2. d[n + 1] = ShiftIn(d[(n + 1) - 1], Mark(D, n + 1)) BY <2>1 DEF MarkedRun
  <2>3. n + 1 \notin D BY <2>1
  <2>4. Mark(D, n + 1) = 0 BY <2>3 DEF Mark
  <2> QED BY <2>1, <2>2, <2>4, ZeroStays
<1>3. S = Nat
  <2>1. S \subseteq Nat OBVIOUS
  <2> HIDE DEF S
  <2> QED BY <1>1, <1>2, <2>1, SetInduction
<1>4. i - 1 \in Nat /\ i - 1 < i OBVIOUS
<1>5. i - 1 \in S BY <1>3, <1>4
<1> QED BY <1>4, <1>5

LEMMA NonzeroAfter ==
  ASSUME NEW d, NEW D, MarkedRun(d, D), NEW j \in 1 .. 72, \A k \in D : k <= j, d[j] # ZeroCrc
  PROVE  d[72] # ZeroCrc
<1> DEFINE S == {n \in Nat : j + n <= 72 => d[j + n] # ZeroCrc}
<1>1. 0 \in S OBVIOUS
<1>2. \A n \in S : n + 1 \in S
  <2> SUFFICES ASSUME NEW n \in S, j + (n + 1) <= 72, d[j + (n + 1)] = ZeroCrc PROVE FALSE
    OBVIOUS
  <2>1. n \in Nat OBVIOUS
  <2>2. /\ j + (n + 1) \in 1 .. 72 /\ (j + (n + 1)) - 1 = j + n /\ j + n <= 72 /\ j + n \in 0 .. 72
        /\ ~(j + (n + 1) <= j)
    BY <2>1
  <2>3. d[j + n] # ZeroCrc BY <2>2
  <2>4. d[j + (n + 1)] = ShiftIn(d[j + n], Mark(D, j + (n + 1))) /\ d[j + n] \in Crcs BY <2>2 DEF MarkedRun
  <2>5. Mark(D, j + (n + 1)) = 0
    <3>1. j + (n + 1) \notin D BY <2>2
    <3> QED BY <3>1 DEF Mark
  <2>6. ShiftIn(d[j + n], 0) = ZeroCrc BY <2>4, <2>5
  <2>7. d[j + n] = ZeroCrc BY <2>4, <2>6, ShiftToZero
  <2> QED BY <2>3, <2>7
<1>3. S = Nat
  <2>1. S \subseteq Nat OBVIOUS
  <2> HIDE DEF S
  <2> QED BY <1>1, <1>2, <2>1, SetInduction
<1>4. 72 - j \in Nat /\ j + (72 - j) = 72 /\ j + (72 - j) <= 72 OBVIOUS
<1>5. 72 - j \in S BY <1>3, <1>4
<1> QED BY <1>4, <1>5

LEMMA NotTwo ==
  ASSUME NEW d, NEW D, MarkedRun(d, D), NEW i \in 1 .. 72, NEW j \in 1 .. 72, i < j, D = {i, j}
  PROVE  d[72] # ZeroCrc
<1>1. d[i - 1] = ZeroCrc
  <2>1. \A k \in D : i <= k OBVIOUS
  <2> QED BY <2>1, ZeroBefore
<1> DEFINE N == j - i
           r == [n \in 0 .. N |-> IF n = 0 THEN One ELSE d[(i - 1) + n]]
<1>2. N \in 1 .. 71 OBVIOUS
<1>3. d \in [0 .. 72 -> Crcs] /\ \A n \in 1 .. 72 : d[n] = ShiftIn(d[n - 1], Mark(D, n)) BY DEF MarkedRun
<1>4. r[0] = One /\ \A n \in 1 .. N : r[n] = d[(i - 1) + n] OBVIOUS
<1>5. r \in [0 .. N -> Crcs]
  <2>1. \A n \in 0 .. N : (IF n = 0 THEN One ELSE d[(i - 1) + n]) \in Crcs
    <3> SUFFICES ASSUME NEW n \in 0 .. N PROVE (IF n = 0 THEN One ELSE d[(i - 1) + n]) \in Crcs
      OBVIOUS
    <3>1. (i - 1) + n \in 0 .. 72 OBVIOUS
    <3>2. d[(i - 1) + n] \in Crcs BY <1>3, <3>1
    <3> QED BY <3>2, OneIsCrc
  <2> QED BY <2>1
<1> HIDE DEF r
<1>6. ASSUME NEW n \in 1 .. N PROVE r[n] = ShiftIn(r[n - 1], 0)
  <2>1. (i - 1) + n \in 1 .. 72 /\ ((i - 1) + n) - 1 = (i - 1) + (n - 1) OBVIOUS
  <2>2. r[n] = ShiftIn(d[(i - 1) + (n - 1)], Mark(D, (i - 1) + n)) BY <1>3, <1>4, <2>1
  <2>3. CASE n = 1
    <3>1. (i - 1) + (n - 1) = i - 1 /\ (i - 1) + n = i /\ n - 1 = 0 BY <2>3
    <3>2. Mark(D, i) = 1 BY DEF Mark
    <3>3. r[n] = ShiftIn(ZeroCrc, 1) BY <1>1, <2>2, <3>1, <3>2
    <3> QED BY <1>4, <3>1, <3>3, ZeroStays
  <2>4. CASE n # 1
    <3>1. n - 1 \in 1 .. N /\ (i - 1) + n # i /\ (i - 1) + n # j BY <2>4
    <3>2. Mark(D, (i - 1) + n) = 0 BY <3>1 DEF Mark
    <3>3. r[n - 1] = d[(i - 1) + (n - 1)] BY <1>4, <3>1
    <3> QED BY <2>2, <3>2, <3>3
  <2> QED BY <2>3, <2>4
<1>7. Run(r, N, 0)
  <2>1. N \in Nat /\ 0 \in {0, 1} BY <1>2
  <2> HIDE DEF N
  <2> QED BY <1>5, <1>6, <2>1 DEF Run
<1>8. r[N] # One
  <2> HIDE DEF N
  <2> QED BY <1>2, <1>4, <1>7, NoWayBack
<1>9. d[j - 1] # One
  <2>1. N \in 1 .. N /\ (i - 1) + N = j - 1 BY <1>2
  <2>2. r[N] = d[(i - 1) + N] BY <1>4, <2>1
  <2> QED BY <1>8, <2>1, <2>2
<1>10. d[j] # ZeroCrc
  <2>1. Mark(D, j) = 1 BY DEF Mark
  <2>2. j - 1 \in 0 .. 72 OBVIOUS
  <2>3. d[j] = ShiftIn(d[j - 1], 1) /\ d[j - 1] \in Crcs BY <1>3, <2>1, <2>2
  <2>4. ShiftIn(d[j - 1], 1) = ZeroCrc => d[j - 1] = One BY <2>3, ShiftToZero
  <2> QED BY <1>9, <2>3, <2>4
<1>11. \A k \in D : k <= j OBVIOUS
<1> QED BY <1>10, <1>11, NonzeroAfter

(* What the CRC is worth: two readings that pass it and differ in at most  *)
(* three of their 72 bits are the same.                                    *)
LEMMA CrcCatches ==
  ASSUME NEW a, NEW b, DOMAIN a = 1 .. 72, DOMAIN b = 1 .. 72,
         \A k \in 1 .. 72 : a[k] \in {0, 1} /\ b[k] \in {0, 1},
         Crc8(a) = ZeroCrc, Crc8(b) = ZeroCrc,
         Cardinality({k \in 1 .. 72 : a[k] # b[k]}) <= 3
  PROVE  \A k \in 1 .. 72 : a[k] = b[k]
<1> DEFINE D == {k \in 1 .. 72 : a[k] # b[k]}
<1>1. PICK d : MarkedRun(d, D) /\ d[72] = Diff(Crc8(a), Crc8(b)) BY DifferenceRuns
<1>2. d[72] = ZeroCrc BY <1>1, ZeroIsCrc, DiffOfEqual
<1>3. D \subseteq 1 .. 72 /\ Cardinality(D) <= 3 OBVIOUS
<1> SUFFICES D = {}
  OBVIOUS
<1> HIDE DEF D
<1>4. IsFiniteSet(D) /\ Cardinality(D) \in Nat /\ Cardinality(D) % 2 = 0 BY <1>1, <1>2, <1>3, ParityCounts
<1>5. Cardinality(D) = 0 \/ Cardinality(D) = 2
  <2>1. \A x \in Nat : x <= 3 /\ x % 2 = 0 => x = 0 \/ x = 2 OBVIOUS
  <2> QED BY <1>3, <1>4, <2>1
<1>6. CASE Cardinality(D) = 0 BY <1>4, <1>6, FS_EmptySet
<1>7. CASE Cardinality(D) = 2
  <2>1. D # {} BY <1>7, FS_EmptySet
  <2>2. PICK i \in D : \A k \in D : i <= k
    <3>1. D \subseteq Nat
      <4>1. 1 .. 72 \subseteq Nat OBVIOUS
      <4> QED BY <1>3, <4>1
    <3> QED BY <2>1, <3>1, LeastNat
  <2>3. IsFiniteSet(D \ {i}) /\ Cardinality(D \ {i}) = 1
    <3>1. IsFiniteSet(D \ {i}) /\ Cardinality(D \ {i}) = Cardinality(D) - 1 BY <1>4, FS_RemoveElement
    <3>2. 2 - 1 = 1 OBVIOUS
    <3> QED BY <1>7, <3>1, <3>2
  <2>4. PICK j : D \ {i} = {j} BY <2>3, FS_Singleton
  <2>5. j \in D /\ j # i /\ D = {i, j} BY <2>4
  <2>6. i \in 1 .. 72 /\ j \in 1 .. 72 BY <1>3, <2>5
  <2>7. i < j BY <2>2, <2>5, <2>6
  <2>8. d[72] # ZeroCrc BY <1>1, <2>5, <2>6, <2>7, NotTwo
  <2> QED BY <1>2, <2>8
<1> QED BY <1>5, <1>6, <1>7

-----------------------------------------------------------------------------
(* OneWire.  While the wire is intact the sensor follows the transfer step *)
(* by step, and of the bits read so far only late samples are wrong.       *)
SentBits(s) == [k \in 1 .. ReadSlots |-> s[((k - 1) \div 8) + 1][((k - 1) % 8) + 1]]
WrongBits   == {k \in 1 .. Len(got) : got[k] # SentBits(memory)[k]}

TransferTypes ==
  /\ owPc \in {"reset", "presence", "skip", "command", "read", "done"}
  /\ memory \in Scratchpads /\ late \in Nat /\ late <= MaxLate /\ broke = line
  /\ got \in Seq({0, 1}) /\ Len(got) <= ReadSlots
  /\ owPc \notin {"read", "done"} => got = <<>>

SensorFollows ==
  line = "intact" => /\ owPc = "presence" => sensor = "answering"
                     /\ owPc = "skip" => sensor = "listening"
                     /\ owPc = "command" => sensor = "addressed"
                     /\ owPc = "read" => sensor = "sending"

OnlyLateIsWrong ==
  line = "intact" => IsFiniteSet(WrongBits) /\ Cardinality(WrongBits) <= late

PassedTheCrc ==
  /\ outcome = "ok" => /\ owPc = "done" /\ Len(got) = ReadSlots /\ CrcOk(got)
                       /\ raw = SubSeq(got, 1, 16)
  /\ owPc = "done" /\ line = "intact" /\ late = 0 /\ outcome # "ok" =>
       Len(got) = ReadSlots /\ ~CrcOk(got)

TransferInv == TransferTypes /\ SensorFollows /\ OnlyLateIsWrong /\ PassedTheCrc

LEMMA BitsSent ==
  ASSUME NEW s \in Scratchpads
  PROVE  \A k \in 1 .. ReadSlots : SentBits(s)[k] \in {0, 1}
<1> SUFFICES ASSUME NEW k \in 1 .. ReadSlots PROVE SentBits(s)[k] \in {0, 1}
  OBVIOUS
<1> DEFINE i == ((k - 1) \div 8) + 1
           j == ((k - 1) % 8) + 1
<1>1. k \in 1 .. 72 BY DEF ReadSlots
<1>2. i \in 1 .. 9 BY <1>1
<1>3. j \in 1 .. 8 BY <1>1
<1>4. SentBits(s)[k] = s[i][j] BY DEF SentBits
<1> HIDE DEF i, j
<1>5. s \in Seq(Seq({0, 1})) /\ Len(s) = 9 /\ \A n \in 1 .. 9 : Len(s[n]) = 8 BY OneWireAssumption
<1>6. s[i] \in Seq({0, 1}) /\ Len(s[i]) = 8 BY <1>2, <1>5, ElementOfSeq
<1>7. s[i][j] \in {0, 1}
  <2> DEFINE w == s[i]
  <2>1. w \in Seq({0, 1}) /\ Len(w) = 8 BY <1>6
  <2> HIDE DEF w
  <2>2. w[j] \in {0, 1} BY <1>3, <2>1, ElementOfSeq
  <2> QED BY <2>2 DEF w
<1> QED BY <1>4, <1>7

LEMMA NothingWrong == ASSUME got = <<>> PROVE WrongBits = {}
BY DEF WrongBits

LEMMA TransferStarts == OwInit => TransferInv
<1> SUFFICES ASSUME OwInit PROVE TransferInv
  OBVIOUS
<1>1. TransferTypes BY OneWireAssumption DEF OwInit, TransferTypes, ReadSlots
<1>2. SensorFollows BY DEF OwInit, SensorFollows
<1>3. OnlyLateIsWrong
  <2>1. WrongBits = {} BY NothingWrong DEF OwInit
  <2>2. IsFiniteSet({}) /\ Cardinality({}) = 0 BY FS_EmptySet
  <2> QED BY <2>1, <2>2 DEF OwInit, OnlyLateIsWrong
<1>4. PassedTheCrc BY DEF OwInit, PassedTheCrc
<1> QED BY <1>1, <1>2, <1>3, <1>4 DEF TransferInv

(* A step that reads no bit leaves the wrong ones as they are.             *)
LEMMA NoBitRead ==
  ASSUME OnlyLateIsWrong, UNCHANGED <<got, memory, line>>, late \in Nat, late' \in Nat, late <= late'
  PROVE  OnlyLateIsWrong'
<1>1. WrongBits' = WrongBits BY DEF WrongBits
<1> SUFFICES ASSUME line = "intact" PROVE IsFiniteSet(WrongBits') /\ Cardinality(WrongBits') <= late'
  BY DEF OnlyLateIsWrong
<1>2. IsFiniteSet(WrongBits) /\ Cardinality(WrongBits) <= late BY DEF OnlyLateIsWrong
<1>3. Cardinality(WrongBits) \in Nat BY <1>2, FS_CardinalityType
<1> QED BY <1>1, <1>2, <1>3

LEMMA BreakKeeps == TransferInv /\ WireBreaks => TransferInv'
<1> SUFFICES ASSUME TransferInv, WireBreaks PROVE TransferInv'
  OBVIOUS
<1>1. TransferTypes' BY DEF TransferInv, TransferTypes, WireBreaks
<1>2. line' # "intact" BY DEF WireBreaks
<1>3. PassedTheCrc' BY <1>2 DEF TransferInv, PassedTheCrc, WireBreaks
<1> QED BY <1>1, <1>2, <1>3 DEF TransferInv, SensorFollows, OnlyLateIsWrong

LEMMA ResetKeeps == TransferInv /\ (ResetRefused \/ ResetPulse) => TransferInv'
<1> SUFFICES ASSUME TransferInv, ResetRefused \/ ResetPulse PROVE TransferInv'
  OBVIOUS
<1>0. TransferTypes /\ SensorFollows /\ OnlyLateIsWrong /\ PassedTheCrc BY DEF TransferInv
<1>1. TransferTypes' BY <1>0 DEF TransferTypes, ResetRefused, ResetPulse, OwReturn
<1>2. OnlyLateIsWrong'
  <2>1. UNCHANGED <<got, memory, line, late>> BY DEF ResetRefused, ResetPulse
  <2>2. late \in Nat BY <1>0 DEF TransferTypes
  <2> QED BY <1>0, <2>1, <2>2, NoBitRead
<1>3. CASE ResetRefused
  <2>1. line # "intact" /\ line' = line BY <1>3 DEF ResetRefused, Level
  <2>2. SensorFollows' BY <2>1 DEF SensorFollows
  <2>3. PassedTheCrc' BY <1>3, <2>1 DEF PassedTheCrc, ResetRefused, OwReturn
  <2> QED BY <1>1, <1>2, <2>2, <2>3 DEF TransferInv
<1>4. CASE ResetPulse
  <2>1. SensorFollows' BY <1>4 DEF SensorFollows, ResetPulse, Hears
  <2>2. PassedTheCrc' BY <1>0, <1>4 DEF PassedTheCrc, ResetPulse
  <2> QED BY <1>1, <1>2, <2>1, <2>2 DEF TransferInv
<1> QED BY <1>3, <1>4

LEMMA PresenceKeeps == TransferInv /\ (PresenceSeen \/ PresenceMissed) => TransferInv'
<1> SUFFICES ASSUME TransferInv, PresenceSeen \/ PresenceMissed PROVE TransferInv'
  OBVIOUS
<1>0. TransferTypes /\ SensorFollows /\ OnlyLateIsWrong /\ PassedTheCrc BY DEF TransferInv
<1>1. CASE PresenceSeen
  <2>1. TransferTypes' BY <1>0, <1>1 DEF TransferTypes, PresenceSeen
  <2>2. OnlyLateIsWrong' BY <1>0, <1>1, NoBitRead DEF TransferTypes, PresenceSeen
  <2>3. SensorFollows' BY <1>0, <1>1 DEF SensorFollows, PresenceSeen, SensorEnds, Hears
  <2>4. PassedTheCrc' BY <1>0, <1>1 DEF PassedTheCrc, PresenceSeen
  <2> QED BY <2>1, <2>2, <2>3, <2>4 DEF TransferInv
<1>2. CASE PresenceMissed
  <2>1. owPc = "presence" /\ owPc' = "done" /\ outcome' = "error" /\ UNCHANGED <<got, memory, line, broke>>
    BY <1>2 DEF PresenceMissed, OwReturn
  <2>2. line = "intact" => late < MaxLate /\ late' = late + 1
    <3> SUFFICES ASSUME line = "intact" PROVE late < MaxLate /\ late' = late + 1
      OBVIOUS
    <3>1. sensor = "answering" BY <1>0, <2>1 DEF SensorFollows
    <3>2. Level(sensor = "answering") = 0 BY <3>1 DEF Level, Hears
    <3>3. late < MaxLate
      <4>1. Level(sensor = "answering") = 1 \/ late < MaxLate BY <1>2 DEF PresenceMissed
      <4> QED BY <3>2, <4>1
    <3> QED BY <1>2, <3>1, <3>3 DEF PresenceMissed
  <2>3. line # "intact" => late' = late BY <1>2 DEF PresenceMissed
  <2>4. late \in Nat /\ late <= MaxLate /\ MaxLate \in Nat BY <1>0, OneWireAssumption DEF TransferTypes
  <2>5. late' \in Nat /\ late <= late' /\ late' <= MaxLate BY <2>2, <2>3, <2>4
  <2>6. TransferTypes' BY <1>0, <2>1, <2>5 DEF TransferTypes
  <2>7. OnlyLateIsWrong' BY <1>0, <2>1, <2>4, <2>5, NoBitRead
  <2>8. SensorFollows' BY <2>1 DEF SensorFollows
  <2>9. PassedTheCrc'
    <3>1. line' = "intact" => late' # 0 BY <2>1, <2>2, <2>4
    <3> QED BY <2>1, <3>1 DEF PassedTheCrc
  <2> QED BY <2>6, <2>7, <2>8, <2>9 DEF TransferInv
<1> QED BY <1>1, <1>2

LEMMA WriteKeeps == TransferInv /\ (WriteSkipRom \/ WriteConvert \/ WriteReadScratch) => TransferInv'
<1> SUFFICES ASSUME TransferInv, WriteSkipRom \/ WriteConvert \/ WriteReadScratch PROVE TransferInv'
  OBVIOUS
<1>0. TransferTypes /\ SensorFollows /\ OnlyLateIsWrong /\ PassedTheCrc BY DEF TransferInv
<1>1. /\ UNCHANGED <<got, raw, outcome, line, late, broke>> /\ owPc \in {"skip", "command"}
      /\ owPc' \in {"command", "reset", "read"} /\ memory' \in Scratchpads
  BY <1>0 DEF TransferTypes, WriteSkipRom, WriteConvert, WriteReadScratch
<1>2. got = <<>> BY <1>0, <1>1 DEF TransferTypes
<1>3. TransferTypes' BY <1>0, <1>1, <1>2 DEF TransferTypes
<1>4. SensorFollows'
  BY <1>0 DEF SensorFollows, WriteSkipRom, WriteConvert, WriteReadScratch, Hears
<1>5. OnlyLateIsWrong'
  <2>1. WrongBits = {} /\ WrongBits' = {} BY <1>1, <1>2 DEF WrongBits
  <2>2. (IsFiniteSet(WrongBits) /\ Cardinality(WrongBits) <= late)
        => (IsFiniteSet(WrongBits') /\ Cardinality(WrongBits') <= late') BY <1>1, <2>1
  <2> QED BY <1>0, <1>1, <2>2 DEF OnlyLateIsWrong
<1>6. PassedTheCrc' BY <1>0, <1>1 DEF PassedTheCrc
<1> QED BY <1>3, <1>4, <1>5, <1>6 DEF TransferInv

(* What the next slot carries.                                             *)
LEMMA NextIsSent ==
  ASSUME TransferTypes, Len(got) < ReadSlots
  PROVE  /\ Len(got) + 1 \in 1 .. ReadSlots /\ NextBit = SentBits(memory)[Len(got) + 1]
         /\ NextBit \in {0, 1}
<1>1. Len(got) \in Nat /\ memory \in Scratchpads BY LenProperties DEF TransferTypes
<1> DEFINE n == Len(got)
<1>2. n + 1 \in 1 .. ReadSlots /\ (n + 1) - 1 = n
  <2>1. n \in Nat /\ n < 72 BY <1>1 DEF ReadSlots
  <2> HIDE DEF n
  <2> QED BY <2>1 DEF ReadSlots
<1>3. NextBit = SentBits(memory)[Len(got) + 1] BY <1>2 DEF NextBit, SentBits
<1>4. SentBits(memory)[Len(got) + 1] \in {0, 1} BY <1>1, <1>2, BitsSent
<1> QED BY <1>2, <1>3, <1>4

LEMMA BitAppended ==
  ASSUME TransferTypes, Len(got) < ReadSlots, NEW b \in {0, 1}, got' = Append(got, b), memory' = memory
  PROVE  /\ got' \in Seq({0, 1}) /\ Len(got') = Len(got) + 1 /\ Len(got') <= ReadSlots
         /\ WrongBits' = IF b = NextBit THEN WrongBits ELSE WrongBits \cup {Len(got) + 1}
         /\ Len(got) + 1 \notin WrongBits
<1>1. got \in Seq({0, 1}) /\ Len(got) \in Nat BY LenProperties DEF TransferTypes
<1>2. /\ got' \in Seq({0, 1}) /\ Len(got') = Len(got) + 1 /\ got'[Len(got) + 1] = b
      /\ \A k \in 1 .. Len(got) : got'[k] = got[k]
  BY <1>1, AppendProperties
<1>3. NextBit = SentBits(memory)[Len(got) + 1] BY NextIsSent
<1>4. SentBits(memory)' = SentBits(memory) BY DEF SentBits, ReadSlots
<1>5. WrongBits' = {k \in 1 .. Len(got) + 1 : got'[k] # SentBits(memory)[k]} BY <1>2, <1>4 DEF WrongBits
<1>6. \A k : k \in 1 .. Len(got) + 1 <=> (k \in 1 .. Len(got) \/ k = Len(got) + 1) BY <1>1
<1>7. Len(got) + 1 \notin 1 .. Len(got) BY <1>1
<1>8. Len(got') <= ReadSlots BY <1>1, <1>2 DEF ReadSlots
<1>9. \A k : k \in WrongBits' <=> (k \in WrongBits \/ (k = Len(got) + 1 /\ b # NextBit))
  BY <1>2, <1>3, <1>5, <1>6, <1>7 DEF WrongBits
<1>10. WrongBits' = IF b = NextBit THEN WrongBits ELSE WrongBits \cup {Len(got) + 1} BY <1>9
<1> QED BY <1>2, <1>7, <1>8, <1>10 DEF WrongBits

LEMMA ReadKeeps == TransferInv /\ (ReadBit \/ ReadBitLate) => TransferInv'
<1> SUFFICES ASSUME TransferInv, ReadBit \/ ReadBitLate PROVE TransferInv'
  OBVIOUS
<1>0. TransferTypes /\ SensorFollows /\ OnlyLateIsWrong /\ PassedTheCrc BY DEF TransferInv
<1>1. /\ owPc = "read" /\ Len(got) < ReadSlots
      /\ UNCHANGED <<owPc, op, raw, outcome, sensor, memory, line, broke>>
  BY DEF ReadBit, ReadBitLate
<1>2. NextBit \in {0, 1} BY <1>0, <1>1, NextIsSent
<1>3. SensorFollows' BY <1>0, <1>1 DEF SensorFollows
<1>4. PassedTheCrc' BY <1>0, <1>1 DEF PassedTheCrc
<1>5. late \in Nat /\ MaxLate \in Nat /\ late <= MaxLate BY <1>0, OneWireAssumption DEF TransferTypes
<1>6. CASE ReadBit
  <2> DEFINE b == Level(PullsLow)
  <2>1. b \in {0, 1} BY DEF Level
  <2>2. got' = Append(got, b) /\ late' = late BY <1>6 DEF ReadBit
  <2>3. line = "intact" => b = NextBit BY <1>0, <1>1, <1>2 DEF SensorFollows, Level, PullsLow, Hears
  <2> HIDE DEF b
  <2>4. /\ got' \in Seq({0, 1}) /\ Len(got') <= ReadSlots
        /\ WrongBits' = IF b = NextBit THEN WrongBits ELSE WrongBits \cup {Len(got) + 1}
    BY <1>0, <1>1, <2>1, <2>2, BitAppended
  <2>5. TransferTypes' BY <1>0, <1>1, <2>2, <2>4 DEF TransferTypes
  <2>6. OnlyLateIsWrong' BY <1>0, <1>1, <2>2, <2>3, <2>4 DEF OnlyLateIsWrong
  <2> QED BY <1>3, <1>4, <2>5, <2>6 DEF TransferInv
<1>7. CASE ReadBitLate
  <2>1. /\ got' = Append(got, 1) /\ late' = late + 1 /\ late < MaxLate /\ line = "intact" /\ NextBit = 0
    BY <1>7 DEF ReadBitLate, Hears, PullsLow
  <2>2. /\ got' \in Seq({0, 1}) /\ Len(got') <= ReadSlots
        /\ WrongBits' = WrongBits \cup {Len(got) + 1} /\ Len(got) + 1 \notin WrongBits
    BY <1>0, <1>1, <2>1, BitAppended
  <2>3. late' \in Nat /\ late' <= MaxLate BY <1>5, <2>1
  <2>4. TransferTypes' BY <1>0, <1>1, <2>2, <2>3 DEF TransferTypes
  <2>5. IsFiniteSet(WrongBits) /\ Cardinality(WrongBits) <= late BY <1>0, <2>1 DEF OnlyLateIsWrong
  <2>6. Cardinality(WrongBits) \in Nat BY <2>5, FS_CardinalityType
  <2>7. IsFiniteSet(WrongBits') /\ Cardinality(WrongBits') = Cardinality(WrongBits) + 1
    BY <2>2, <2>5, FS_AddElement
  <2>8. Cardinality(WrongBits') <= late' BY <1>5, <2>1, <2>5, <2>6, <2>7
  <2>9. OnlyLateIsWrong' BY <2>7, <2>8 DEF OnlyLateIsWrong
  <2> QED BY <1>3, <1>4, <2>4, <2>9 DEF TransferInv
<1> QED BY <1>6, <1>7

LEMMA CheckKeeps == TransferInv /\ CheckCrc => TransferInv'
<1> SUFFICES ASSUME TransferInv, CheckCrc PROVE TransferInv'
  OBVIOUS
<1>0. TransferTypes /\ SensorFollows /\ OnlyLateIsWrong /\ PassedTheCrc BY DEF TransferInv
<1>1. /\ owPc = "read" /\ owPc' = "done" /\ Len(got) = ReadSlots
      /\ UNCHANGED <<got, memory, line, late, broke>>
      /\ IF CrcOk(got) THEN outcome' = "ok" /\ raw' = SubSeq(got, 1, 16) ELSE outcome' = "error"
  BY DEF CheckCrc, OwReturn
<1>2. TransferTypes' BY <1>0, <1>1 DEF TransferTypes
<1>3. SensorFollows' BY <1>1 DEF SensorFollows
<1>4. OnlyLateIsWrong' BY <1>0, <1>1, NoBitRead DEF TransferTypes
<1>5. PassedTheCrc'
  <2>1. CrcOk(got)' = CrcOk(got) BY <1>1 DEF CrcOk
  <2> QED BY <1>1, <2>1 DEF PassedTheCrc
<1> QED BY <1>2, <1>3, <1>4, <1>5 DEF TransferInv

LEMMA TransferStays == TransferInv /\ [OwNext]_owVars => TransferInv'
<1> SUFFICES ASSUME TransferInv, [OwNext]_owVars PROVE TransferInv'
  OBVIOUS
<1>1. CASE OwNext
  BY <1>1, BreakKeeps, ResetKeeps, PresenceKeeps, WriteKeeps, ReadKeeps, CheckKeeps DEF OwNext
<1>2. CASE UNCHANGED owVars
  <2>1. UNCHANGED <<owPc, got, raw, outcome, sensor, memory, line, late, broke>> BY <1>2 DEF owVars
  <2>2. UNCHANGED WrongBits BY <2>1 DEF WrongBits
  <2>3. TransferTypes' /\ SensorFollows' /\ OnlyLateIsWrong' /\ PassedTheCrc'
    BY <2>1, <2>2 DEF TransferInv, TransferTypes, SensorFollows, OnlyLateIsWrong, PassedTheCrc, CrcOk
  <2> QED BY <2>3 DEF TransferInv
<1> QED BY <1>1, <1>2

LEMMA TransferAlways == OwSpec => []TransferInv
BY TransferStarts, TransferStays, PTL DEF OwSpec

(* The first two bytes sent are the temperature.                           *)
LEMMA PlaceInByte ==
  ASSUME NEW k \in 1 .. 16
  PROVE  /\ k <= 8 => ((k - 1) \div 8) + 1 = 1 /\ ((k - 1) % 8) + 1 = k
         /\ ~(k <= 8) => ((k - 1) \div 8) + 1 = 2 /\ ((k - 1) % 8) + 1 = k - 8
<1> DEFINE q == (k - 1) \div 8
           r == (k - 1) % 8
<1>1. k - 1 \in Int /\ 8 \in Nat /\ 8 > 0 OBVIOUS
<1>2. q \in Int /\ r \in 0 .. 8 - 1 /\ k - 1 = 8 * q + r BY <1>1, Division
<1> HIDE DEF q, r
<1>3. /\ k <= 8 => q + 1 = 1 /\ r + 1 = k
      /\ ~(k <= 8) => q + 1 = 2 /\ r + 1 = k - 8
  BY <1>2
<1> QED BY <1>3 DEF q, r

LEMMA FirstTwoBytes ==
  ASSUME NEW s \in Scratchpads, NEW g \in Seq({0, 1}), Len(g) = ReadSlots,
         \A k \in 1 .. 72 : g[k] = SentBits(s)[k]
  PROVE  SubSeq(g, 1, 16) = s[1] \o s[2]
<1> DEFINE x == SubSeq(g, 1, 16)
           y == s[1] \o s[2]
<1>1. s \in Seq(Seq({0, 1})) /\ Len(s) = 9 /\ \A n \in 1 .. 9 : Len(s[n]) = 8 BY OneWireAssumption
<1>2. s[1] \in Seq({0, 1}) /\ s[2] \in Seq({0, 1}) /\ Len(s[1]) = 8 /\ Len(s[2]) = 8
  <2>1. 1 \in 1 .. Len(s) /\ 2 \in 1 .. Len(s) /\ 1 \in 1 .. 9 /\ 2 \in 1 .. 9 BY <1>1
  <2>2. s[1] \in Seq({0, 1}) /\ s[2] \in Seq({0, 1}) BY <1>1, <2>1, ElementOfSeq
  <2> QED BY <1>1, <2>1, <2>2
<1>3. y \in Seq({0, 1}) /\ Len(y) = 16 /\ \A k \in 1 .. 16 : y[k] = IF k <= 8 THEN s[1][k] ELSE s[2][k - 8]
  <2> DEFINE p == s[1]
             q == s[2]
  <2>1. p \in Seq({0, 1}) /\ q \in Seq({0, 1}) /\ Len(p) = 8 /\ Len(q) = 8 BY <1>2
  <2> HIDE DEF p, q
  <2>2. p \o q \in Seq({0, 1}) /\ Len(p \o q) = Len(p) + Len(q) BY <2>1, ConcatProperties
  <2>3. \A k \in 1 .. Len(p) + Len(q) : (p \o q)[k] = IF k <= Len(p) THEN p[k] ELSE q[k - Len(p)]
    BY <2>1, ConcatProperties
  <2>4. p \o q \in Seq({0, 1}) /\ Len(p \o q) = 16 BY <2>1, <2>2
  <2>5. \A k \in 1 .. 16 : (p \o q)[k] = IF k <= 8 THEN p[k] ELSE q[k - 8]
    <3>1. Len(p) + Len(q) = 16 BY <2>1
    <3> QED BY <2>1, <2>3, <3>1
  <2> QED BY <2>4, <2>5 DEF p, q
<1>4. x \in Seq({0, 1}) /\ Len(x) = 16 /\ \A k \in 1 .. 16 : x[k] = g[k]
  <2>1. Len(g) = 72 BY DEF ReadSlots
  <2>2. \A k \in 1 .. 16 : g[k] \in {0, 1}
    <3>1. \A k \in 1 .. 16 : k \in 1 .. Len(g) BY <2>1
    <3> QED BY <3>1, ElementOfSeq
  <2>3. /\ x \in Seq({0, 1}) /\ Len(x) = IF 1 <= 16 THEN (16 - 1) + 1 ELSE 0
        /\ \A k \in 1 .. (16 - 1) + 1 : x[k] = g[(1 + k) - 1]
    <3>1. 1 \in Int /\ 16 \in Int OBVIOUS
    <3> QED BY <2>2, <3>1, SubSeqProperties
  <2> HIDE DEF x
  <2>4. Len(x) = 16 BY <2>3
  <2>5. ASSUME NEW k \in 1 .. 16 PROVE x[k] = g[k]
    <3>1. k \in 1 .. (16 - 1) + 1 OBVIOUS
    <3>2. (1 + k) - 1 = k OBVIOUS
    <3>3. x[k] = g[(1 + k) - 1] BY <2>3, <3>1
    <3> QED BY <3>2, <3>3
  <2> QED BY <2>3, <2>4, <2>5
<1> HIDE DEF x, y
<1>5. ASSUME NEW k \in 1 .. 16 PROVE x[k] = y[k]
  <2>1. k \in 1 .. 72 /\ k \in 1 .. ReadSlots BY DEF ReadSlots
  <2>2. x[k] = s[((k - 1) \div 8) + 1][((k - 1) % 8) + 1] BY <1>4, <2>1 DEF SentBits
  <2>3. CASE k <= 8
    <3>1. ((k - 1) \div 8) + 1 = 1 /\ ((k - 1) % 8) + 1 = k BY <2>3, PlaceInByte, Zenon
    <3> QED BY <1>3, <2>2, <2>3, <3>1
  <2>4. CASE ~(k <= 8)
    <3>1. ((k - 1) \div 8) + 1 = 2 /\ ((k - 1) % 8) + 1 = k - 8 BY <2>4, PlaceInByte, Zenon
    <3> QED BY <1>3, <2>2, <2>4, <3>1
  <2> QED BY <2>3, <2>4
<1>6. x = y
  <2>1. Len(x) = Len(y) /\ \A k \in 1 .. Len(x) : x[k] = y[k] BY <1>3, <1>4, <1>5
  <2> QED BY <1>3, <1>4, <2>1, SeqEqual
<1> QED BY <1>6 DEF x, y

LEMMA ReadingBits ==
  ASSUME TransferInv, Len(got) = ReadSlots
  PROVE  LET s == SentBits(memory) IN
           /\ DOMAIN got = 1 .. 72 /\ DOMAIN s = 1 .. 72
           /\ \A k \in 1 .. 72 : got[k] \in {0, 1} /\ s[k] \in {0, 1}
           /\ WrongBits = {k \in 1 .. 72 : got[k] # s[k]}
<1>1. got \in Seq({0, 1}) /\ memory \in Scratchpads /\ Len(got) = 72 BY DEF TransferInv, TransferTypes, ReadSlots
<1>2. DOMAIN got = 1 .. 72 BY <1>1, LenProperties
<1>3. ASSUME NEW k \in 1 .. 72 PROVE got[k] \in {0, 1}
  <2>1. got \in Seq({0, 1}) /\ k \in 1 .. Len(got) BY <1>1
  <2> QED BY <2>1, ElementOfSeq
<1>4. \A k \in 1 .. 72 : SentBits(memory)[k] \in {0, 1}
  <2>1. \A k \in 1 .. ReadSlots : SentBits(memory)[k] \in {0, 1} BY <1>1, BitsSent
  <2> QED BY <2>1 DEF ReadSlots
<1>5. DOMAIN SentBits(memory) = 1 .. 72 BY DEF SentBits, ReadSlots
<1> QED BY <1>1, <1>2, <1>3, <1>4, <1>5 DEF WrongBits

(* The sensor computes the CRC byte over the eight others.                 *)
SensorsAddCrc == \A s \in Scratchpads : CrcOk(SentBits(s))

(* An accepted temperature is the one in the sensor, for every scratchpad  *)
(* that carries its CRC and every way in which up to three samples of a    *)
(* transfer can be late: onewire_read_byte, ds_read_temp_raw.              *)
THEOREM AcceptedTemperatureIsTrue ==
  ASSUME MaxLate <= 3, SensorsAddCrc
  PROVE  OwSpec => []AcceptedIsTrue
<1>1. TransferInv => AcceptedIsTrue
  <2> SUFFICES ASSUME TransferInv, outcome = "ok", broke = "intact" PROVE raw = memory[1] \o memory[2]
    BY DEF AcceptedIsTrue
  <2> DEFINE s == SentBits(memory)
  <2>1. /\ got \in Seq({0, 1}) /\ memory \in Scratchpads /\ line = "intact"
        /\ late \in Nat /\ late <= MaxLate
    BY DEF TransferInv, TransferTypes
  <2>2. Len(got) = ReadSlots /\ CrcOk(got) /\ raw = SubSeq(got, 1, 16) BY DEF TransferInv, PassedTheCrc
  <2>3. IsFiniteSet(WrongBits) /\ Cardinality(WrongBits) <= late BY <2>1 DEF TransferInv, OnlyLateIsWrong
  <2>4. Cardinality(WrongBits) <= 3
    <3>1. Cardinality(WrongBits) \in Nat BY <2>3, FS_CardinalityType
    <3>2. MaxLate \in Nat BY OneWireAssumption
    <3> QED BY <2>1, <2>3, <3>1, <3>2
  <2>5. /\ DOMAIN got = 1 .. 72 /\ DOMAIN s = 1 .. 72
        /\ \A k \in 1 .. 72 : got[k] \in {0, 1} /\ s[k] \in {0, 1}
        /\ WrongBits = {k \in 1 .. 72 : got[k] # s[k]}
    BY <2>2, ReadingBits
  <2>6. CrcOk(s) BY <2>1 DEF SensorsAddCrc
  <2> HIDE DEF s
  <2>7. Crc8(got) = ZeroCrc /\ Crc8(s) = ZeroCrc BY <2>2, <2>6 DEF CrcOk
  <2>8. Cardinality({k \in 1 .. 72 : got[k] # s[k]}) <= 3 BY <2>4, <2>5
  <2>9. \A k \in 1 .. 72 : got[k] = s[k] BY <2>5, <2>7, <2>8, CrcCatches
  <2> QED BY <2>1, <2>2, <2>9, FirstTwoBytes DEF s
<1> QED BY <1>1, TransferAlways, PTL

(* Nothing is accepted from a wire no sensor pulls at: the pull-up reads   *)
(* as ones, whose CRC is not 0.                                            *)
THEOREM NothingFromSilence == OwSpec => []SilenceRefused
<1>1. TransferInv => SilenceRefused
  <2> SUFFICES ASSUME TransferInv, outcome = "ok", \A k \in 1 .. 72 : got[k] # 0 PROVE FALSE
    BY DEF SilenceRefused, ReadSlots
  <2>1. Len(got) = ReadSlots /\ CrcOk(got) BY DEF TransferInv, PassedTheCrc
  <2>2. DOMAIN got = 1 .. 72 /\ \A k \in 1 .. 72 : got[k] \in {0, 1} BY <2>1, ReadingBits
  <2>3. 72 \in Nat OBVIOUS
  <2>4. PICK c \in [0 .. 72 -> Crcs] :
          /\ c[0] = ZeroCrc /\ c[72] = Crc8(got)
          /\ \A n \in 1 .. 72 : c[n] = ShiftIn(c[n - 1], got[n])
    BY <2>2, <2>3, FoldRuns
  <2>5. \A n \in 1 .. 72 : c[n] = ShiftIn(c[n - 1], 1)
    <3>1. \A n \in 1 .. 72 : got[n] = 1 BY <2>2
    <3> QED BY <2>4, <3>1
  <2>6. Run(c, 72, 1) BY <2>3, <2>4, <2>5 DEF Run
  <2> QED BY <2>1, <2>4, <2>6, OnesFail DEF CrcOk
<1> QED BY <1>1, TransferAlways, PTL

(* A transfer without a late sample on an intact wire succeeds.            *)
THEOREM UndisturbedIsAccepted ==
  ASSUME SensorsAddCrc
  PROVE  OwSpec => []UndisturbedSucceeds
<1>1. TransferInv => UndisturbedSucceeds
  <2> SUFFICES ASSUME TransferInv, owPc = "done", late = 0, broke = "intact", outcome # "ok" PROVE FALSE
    BY DEF UndisturbedSucceeds
  <2> DEFINE s == SentBits(memory)
  <2>1. got \in Seq({0, 1}) /\ memory \in Scratchpads /\ line = "intact" BY DEF TransferInv, TransferTypes
  <2>2. Len(got) = ReadSlots /\ ~CrcOk(got) BY <2>1 DEF TransferInv, PassedTheCrc
  <2>3. WrongBits = {}
    <3>1. IsFiniteSet(WrongBits) /\ Cardinality(WrongBits) <= 0 BY <2>1 DEF TransferInv, OnlyLateIsWrong
    <3>2. Cardinality(WrongBits) \in Nat BY <3>1, FS_CardinalityType
    <3>3. Cardinality(WrongBits) = 0 BY <3>1, <3>2
    <3> QED BY <3>1, <3>3, FS_EmptySet
  <2>4. DOMAIN got = 1 .. 72 /\ DOMAIN s = 1 .. 72 /\ WrongBits = {k \in 1 .. 72 : got[k] # s[k]}
    BY <2>2, ReadingBits
  <2>5. \A k \in 1 .. 72 : got[k] = s[k] BY <2>3, <2>4
  <2>6. got = [k \in 1 .. 72 |-> got[k]]
    <3>1. got = [k \in 1 .. Len(got) |-> got[k]] BY <2>1
    <3> QED BY <2>2, <3>1 DEF ReadSlots
  <2>7. s = [k \in 1 .. 72 |-> s[k]] BY DEF SentBits, ReadSlots
  <2> HIDE DEF s
  <2>8. got = s BY <2>5, <2>6, <2>7
  <2>9. CrcOk(s) BY <2>1 DEF SensorsAddCrc, s
  <2> QED BY <2>2, <2>8, <2>9
<1> QED BY <1>1, TransferAlways, PTL

=============================================================================
