---------------------------- MODULE ServicesProofs ----------------------------
(***************************************************************************)
(* The services of Services for every value of their constants: what a     *)
(* failed start of the LED leaves and which colour its strip shows, who    *)
(* owns the memory of the I2C requests and in which order they are         *)
(* answered, where the UART cuts its lines and when it reads them, in      *)
(* which order it writes, and that its queue set loses no handle; for whom *)
(* the sensor of the chip is installed.                                    *)
(***************************************************************************)
EXTENDS Services, NumberFacts, FiniteSetTheorems, SequenceTheorems,
        FunctionTheorems, TLAPS

-----------------------------------------------------------------------------
(* LedService.  How much of the service exists at each step of the start.  *)
LedNothing == strips = {} /\ queues = {} /\ subs = 0

LedInv ==
  /\ s_task \in BOOLEAN
  /\ ledBoot \in {"off", "subscribe", "task", "unsubscribe", "delete", "returned"}
  /\ ledBoot \in {"off", "returned"} /\ ~s_task => LedNothing
  /\ s_task => ledBoot = "returned" /\ ledResult = "true"
  /\ ledResult = "true" => s_task
  /\ ledBoot = "subscribe" => strips = {s_strip} /\ queues = {} /\ subs = 0
  /\ ledBoot \in {"task", "unsubscribe"} \/ s_task =>
       strips = {s_strip} /\ queues = {s_led_q} /\ subs = s_led_q
  /\ ledBoot = "delete" => strips = {s_strip} /\ queues = {s_led_q} /\ subs = 0

LEMMA LedKeeps == LedInv /\ [LedNext]_ledVars => LedInv'
<1> SUFFICES ASSUME LedInv, [LedNext]_ledVars
             PROVE  LedInv'
  OBVIOUS
<1>1. ASSUME UNCHANGED ledStartVars PROVE LedInv'
  BY <1>1 DEF ledStartVars, LedInv, LedNothing
<1>2. CASE LedStartAgain BY <1>2 DEF LedStartAgain, Called, LedInv, LedNothing
<1>3. CASE CreateStrip BY <1>3 DEF CreateStrip, Called, LedInv, LedNothing
<1>4. CASE Subscribe
  <2>1. /\ ledBoot = "subscribe" /\ strips = {s_strip} /\ queues = {} /\ subs = 0 /\ ~s_task
        /\ s_strip' = s_strip /\ s_task' = s_task
    BY <1>4 DEF Subscribe, LedInv
  <2>2. CASE GiveUp /\ UNCHANGED <<queues, subs, s_led_q, q>>
    BY <2>1, <2>2 DEF GiveUp, LedInv, LedNothing
  <2>3. CASE /\ queues' = queues \cup {ledStarts} /\ subs' = ledStarts /\ s_led_q' = ledStarts
             /\ ledBoot' = "task" /\ UNCHANGED <<ledResult, strips>>
    BY <2>1, <2>3 DEF LedInv, LedNothing
  <2> QED BY <1>4, <2>2, <2>3 DEF Subscribe
<1>5. CASE LedCreateTask
  <2>1. /\ ledBoot = "task" /\ strips = {s_strip} /\ queues = {s_led_q} /\ subs = s_led_q
        /\ ~s_task /\ ledResult # "true"
        /\ strips' = strips /\ queues' = queues /\ subs' = subs
        /\ s_strip' = s_strip /\ s_led_q' = s_led_q
    BY <1>5 DEF LedCreateTask, LedInv
  <2>2. \/ s_task' = TRUE /\ ledBoot' = "returned" /\ ledResult' = "true"
        \/ s_task' = s_task /\ ledBoot' = "unsubscribe" /\ ledResult' = ledResult
    BY <1>5 DEF LedCreateTask
  <2>3. CASE s_task' = TRUE /\ ledBoot' = "returned" /\ ledResult' = "true"
    BY <2>1, <2>3 DEF LedInv
  <2>4. CASE s_task' = s_task /\ ledBoot' = "unsubscribe" /\ ledResult' = ledResult
    BY <2>1, <2>4 DEF LedInv
  <2> QED BY <2>2, <2>3, <2>4
<1>6. CASE Unsubscribe BY <1>6 DEF Unsubscribe, UnsubscribeQ, LedInv, LedNothing
<1>7. CASE DeleteQueue BY <1>7 DEF DeleteQueue, GiveUp, LedInv, LedNothing
<1>8. CASE LedTask BY <1>1, <1>8 DEF LedTask, Receive, Refresh
<1>9. ASSUME NEW c, LedCommand(c) PROVE LedInv'
  BY <1>1, <1>9 DEF LedCommand
<1>10. ASSUME NEW code, OtherPost(code) PROVE LedInv'
  BY <1>1, <1>10 DEF OtherPost
<1>11. ASSUME NEW p, Send(p) PROVE LedInv' BY <1>1, <1>11 DEF Send
<1>12. CASE UNCHANGED ledVars BY <1>1, <1>12 DEF ledVars
<1> QED
  BY <1>2, <1>3, <1>4, <1>5, <1>6, <1>7, <1>8, <1>9, <1>10, <1>11, <1>12 DEF LedNext, LedStart

LEMMA LedStarts == LedInit => LedInv
BY DEF LedInit, LedInv, LedNothing

(* Whichever calls of services_led_start fail, and however often it is     *)
(* called: after a call that returned false nothing of it is left.         *)
THEOREM FailedStartIsUndone == LedSpec => []FailureLeavesNothing
<1>1. LedInv => FailureLeavesNothing
  BY DEF LedInv, LedNothing, FailureLeavesNothing
<1> QED BY <1>1, LedStarts, LedKeeps, PTL DEF LedSpec

(* After a call that returned true there is one strip, one queue that the  *)
(* bus knows, and the task that serves it.                                 *)
THEOREM StartedIsWhole == LedSpec => []SuccessIsComplete
<1>1. LedInv => SuccessIsComplete BY DEF LedInv, SuccessIsComplete
<1> QED BY <1>1, LedStarts, LedKeeps, PTL DEF LedSpec

(* What the strip shows.  A colour fits in a word and comes out again as   *)
(* it went in; the colour that counts is that of the last event in the     *)
(* queue that has one, or the one in the strip's buffer if none has.       *)
LEMMA QuotientIs ==
  ASSUME NEW m \in Nat, m > 0, NEW k \in Int, NEW r \in 0 .. m - 1
  PROVE  (m * k + r) \div m = k
<1> DEFINE x == m * k + r
           d == x \div m
<1>1. m * k \in Int BY Z3
<1>2. x \in Int BY <1>1
<1>3. x % m = r BY Remainder
<1>4. d \in Int /\ x = m * d + r BY <1>2, <1>3, Division
<1> HIDE DEF d
<1>5. m * d \in Int /\ m * (d - k) = m * d - m * k BY <1>4, Z3
<1>6. m * (d - k) = 0 BY <1>1, <1>4, <1>5
<1>7. d - k = 0
  <2>1. d - k \in Int /\ -m < m * (d - k) /\ m * (d - k) < m BY <1>4, <1>6
  <2> QED BY <2>1, SmallMultiple
<1>8. d = k BY <1>4, <1>7
<1> QED BY <1>8 DEF d

LEMMA CutFits == ASSUME NEW i \in Nat PROVE Cut(i) \in 0 .. 255
BY DEF Cut

LEMMA PackUnpack ==
  ASSUME NEW c \in Nat \X Nat \X Nat
  PROVE  Unpack(Pack(c)) = [k \in 1 .. 3 |-> Cut(c[k])]
<1> DEFINE x == Cut(c[1])
           y == Cut(c[2])
           z == Cut(c[3])
           a == Pack(c)
<1>1. x \in 0 .. 255 /\ y \in 0 .. 255 /\ z \in 0 .. 255
  <2>1. c[1] \in Nat /\ c[2] \in Nat /\ c[3] \in Nat OBVIOUS
  <2> QED BY <2>1, CutFits
<1>2. a = x + 256 * y + 65536 * z BY DEF Pack
<1>3. [k \in 1 .. 3 |-> Cut(c[k])] = <<x, y, z>>
  <2> DEFINE f == [k \in 1 .. 3 |-> Cut(c[k])]
  <2>1. f[1] = x /\ f[2] = y /\ f[3] = z OBVIOUS
  <2>2. DOMAIN f = 1 .. 3 /\ f = [k \in 1 .. 3 |-> f[k]] OBVIOUS
  <2> HIDE DEF f, x, y, z
  <2>3. <<x, y, z>> = [k \in 1 .. 3 |-> <<x, y, z>>[k]] OBVIOUS
  <2>4. \A k \in 1 .. 3 : f[k] = <<x, y, z>>[k]
    <3>1. \A k \in 1 .. 3 : k = 1 \/ k = 2 \/ k = 3 OBVIOUS
    <3> QED BY <2>1, <3>1
  <2>5. f = <<x, y, z>> BY <2>2, <2>3, <2>4
  <2> QED BY <2>5 DEF f
<1> HIDE DEF x, y, z, a
<1>4. a = 256 * (y + 256 * z) + x /\ a = 65536 * z + (256 * y + x) BY <1>1, <1>2
<1>5. y + 256 * z \in Int /\ x \in 0 .. 256 - 1 /\ 256 \in Nat /\ 256 > 0 BY <1>1
<1>6. a % 256 = x BY <1>4, <1>5, Remainder
<1>7. a \div 256 = y + 256 * z BY <1>4, <1>5, QuotientIs
<1>8. (y + 256 * z) % 256 = y
  <2>1. y + 256 * z = 256 * z + y /\ z \in Int /\ y \in 0 .. 256 - 1 BY <1>1
  <2>2. (256 * z + y) % 256 = y BY <1>5, <2>1, Remainder
  <2> QED BY <2>1, <2>2
<1>9. a \div 65536 = z
  <2> DEFINE r == 256 * y + x
             m == 65536
  <2>1. z \in Int /\ m \in Nat /\ m > 0 BY <1>1
  <2>2. r \in Int /\ 0 <= r /\ r <= m - 1 BY <1>1
  <2>3. a = m * z + r BY <1>4
  <2> HIDE DEF r, m
  <2>4. r \in 0 .. m - 1 BY <2>1, <2>2
  <2>5. (m * z + r) \div m = z BY <2>1, <2>4, QuotientIs
  <2>6. a \div m = z BY <2>3, <2>5
  <2> QED BY <2>6 DEF m
<1>10. z % 256 = z
  <2>1. 256 * 0 + z = z /\ z \in 0 .. 256 - 1 /\ 0 \in Int BY <1>1
  <2>2. (256 * 0 + z) % 256 = z BY <1>5, <2>1, Remainder
  <2> QED BY <2>1, <2>2
<1>11. Unpack(a) = <<x, y, z>> BY <1>6, <1>7, <1>8, <1>9, <1>10 DEF Unpack
<1> QED BY <1>3, <1>11 DEF a

LedPosts ==
  {m \in [code : {"rgb", "start", "tick"}, a0 : Nat, want : [1 .. 3 -> Nat], to : Nat] :
     /\ m.code = "rgb" => Unpack(m.a0) = m.want
     /\ m.code = "start" => m.want = Blue}

LastColour(i) == Shows(q[i]) /\ \A j \in 1 .. Len(q) : i < j => ~Shows(q[j])

ShowTypes ==
  /\ ledStarts \in Nat /\ subs \in Nat
  /\ q \in Seq(LedPosts) /\ post \in [Posters -> LedPosts \cup {NoPost}]

ShowInv ==
  /\ \A i \in 1 .. Len(q) : LastColour(i) => q[i].want = queued
  /\ (\A i \in 1 .. Len(q) : ~Shows(q[i])) => pixel = queued
  /\ ledPc # "refresh" /\ ledFresh => shown = pixel
  /\ ledPc # "none" => s_task
  /\ ~s_task => pixel = Off
  /\ queues = {} => q = <<>> /\ queued = Off

LEMMA PostsShow ==
  ASSUME NEW m \in LedPosts
  PROVE  /\ Shows(m) <=> m.code # "tick"
         /\ Shows(m) => Colour(m) = m.want
BY DEF LedPosts, Shows, Colour

LEMMA CommandStands ==
  ASSUME NEW c \in Requests, NEW t \in Nat
  PROVE  [code |-> "rgb", a0 |-> Pack(c), want |-> [k \in 1 .. 3 |-> Cut(c[k])], to |-> t] \in LedPosts
<1> DEFINE w == [k \in 1 .. 3 |-> Cut(c[k])]
           m == [code |-> "rgb", a0 |-> Pack(c), want |-> w, to |-> t]
<1>1. c \in Nat \X Nat \X Nat BY LedAssumption
<1>2. c[1] \in Nat /\ c[2] \in Nat /\ c[3] \in Nat BY <1>1
<1>3. w \in [1 .. 3 -> Nat]
  <2>1. \A k \in 1 .. 3 : Cut(c[k]) \in Nat
    <3> SUFFICES ASSUME NEW k \in 1 .. 3 PROVE Cut(c[k]) \in Nat
      OBVIOUS
    <3>1. k = 1 \/ k = 2 \/ k = 3 OBVIOUS
    <3> QED BY <1>2, <3>1 DEF Cut
  <2> QED BY <2>1
<1>4. Pack(c) \in Nat
  <2>1. Cut(c[1]) \in Nat /\ Cut(c[2]) \in Nat /\ Cut(c[3]) \in Nat BY <1>2 DEF Cut
  <2> QED BY <2>1 DEF Pack
<1>5. Unpack(Pack(c)) = w BY <1>1, PackUnpack
<1> HIDE DEF w
<1>6. m.code = "rgb" /\ m.a0 = Pack(c) /\ m.want = w OBVIOUS
<1>7. m \in [code : {"rgb", "start", "tick"}, a0 : Nat, want : [1 .. 3 -> Nat], to : Nat] BY <1>3, <1>4
<1> HIDE DEF m
<1>8. m \in LedPosts BY <1>5, <1>6, <1>7 DEF LedPosts
<1> QED BY <1>8 DEF m, w

LEMMA OtherStands ==
  ASSUME NEW code \in {"start", "tick"}, NEW t \in Nat
  PROVE  [code |-> code, a0 |-> 0, want |-> Blue, to |-> t] \in LedPosts
<1>1. Blue \in [1 .. 3 -> Nat] BY DEF Blue
<1> QED BY <1>1 DEF LedPosts

LEMMA ShowStarts == LedInit => ShowTypes /\ ShowInv
<1> SUFFICES ASSUME LedInit PROVE ShowTypes /\ ShowInv
  OBVIOUS
<1>1. ShowTypes BY DEF LedInit, ShowTypes
<1>2. Len(q) = 0 BY DEF LedInit
<1>3. \A i \in 1 .. Len(q) : FALSE BY <1>2
<1>4. ShowInv BY <1>3 DEF LedInit, ShowInv
<1> QED BY <1>1, <1>4

(* A step that leaves the queue alone.                                     *)
LEMMA SameQueue ==
  ASSUME ShowInv, UNCHANGED <<q, queued>>, queues' = {} => queues = {},
         (\A i \in 1 .. Len(q) : ~Shows(q[i])) /\ pixel = queued => pixel' = queued,
         ledPc' # "refresh" /\ ledFresh' => shown' = pixel', ledPc' # "none" => s_task', ~s_task' => pixel' = Off
  PROVE  ShowInv'
<1>1. \A i \in 1 .. Len(q) : LastColour(i)' => LastColour(i) BY DEF LastColour
<1> QED BY <1>1 DEF ShowInv

(* The service's start: while the queue is not there it is empty, and no   *)
(* task has run.                                                           *)
LEMMA NoQueueKeeps ==
  ASSUME ShowInv, q' = <<>>, queued' = Off, ~s_task, UNCHANGED <<s_task, ledTaskVars>>
  PROVE  ShowInv'
<1>1. Len(q') = 0 BY DEF ShowInv
<1>2. \A i \in 1 .. Len(q') : FALSE BY <1>1
<1>3. /\ ledPc' = ledPc /\ pixel' = pixel /\ shown' = shown /\ ledFresh' = ledFresh
  BY DEF ledTaskVars
<1> QED BY <1>2, <1>3 DEF ShowInv

LEMMA StartShows ==
  ASSUME LedInv, ShowTypes, ShowInv, LedStart
  PROVE  ShowTypes' /\ ShowInv'
<1>1. CASE LedStartAgain \/ CreateStrip \/ Unsubscribe
  <2>1. /\ UNCHANGED <<q, queued, queues, s_task, post>> /\ UNCHANGED ledTaskVars
        /\ ledStarts' \in Nat /\ subs' \in Nat
    BY <1>1 DEF LedStartAgain, CreateStrip, Unsubscribe, UnsubscribeQ, ledPostVars, ShowTypes
  <2>2. ShowTypes' BY <2>1 DEF ShowTypes
  <2>3. UNCHANGED <<ledPc, pixel, shown, ledFresh>> BY <2>1 DEF ledTaskVars
  <2>4. ShowInv' BY <2>1, <2>3, SameQueue DEF ShowInv
  <2> QED BY <2>2, <2>4
<1>2. CASE Subscribe
  <2>1. queues = {} /\ ~s_task BY <1>2 DEF Subscribe, LedInv
  <2>2. /\ UNCHANGED <<queued, s_task, post, ledStarts>> /\ UNCHANGED ledTaskVars
        /\ q' = <<>> /\ subs' \in Nat
    BY <1>2, <2>1 DEF Subscribe, ledPostVars, ShowTypes, ShowInv
  <2>3. ShowTypes' BY <2>2 DEF ShowTypes
  <2>4. queued' = Off BY <2>1, <2>2 DEF ShowInv
  <2> QED BY <2>1, <2>2, <2>3, <2>4, NoQueueKeeps
<1>3. CASE LedCreateTask
  <2>1. ledBoot = "task" /\ ~s_task /\ ledPc = "none" /\ pixel = Off
    BY <1>3 DEF LedCreateTask, LedInv, ShowInv
  <2>2. /\ UNCHANGED <<q, queued, queues, post, ledStarts, subs, pixel, shown, ledFresh>>
        /\ \/ s_task' = TRUE /\ ledPc' = "wait"
           \/ s_task' = s_task /\ ledPc' = ledPc
    BY <1>3 DEF LedCreateTask, ledPostVars
  <2>3. ShowTypes' BY <2>2 DEF ShowTypes
  <2>4. ledFresh => shown = pixel BY <2>1 DEF ShowInv
  <2>5. ShowInv' BY <2>1, <2>2, <2>4, SameQueue
  <2> QED BY <2>3, <2>5
<1>4. CASE DeleteQueue
  <2>1. ~s_task BY <1>4 DEF DeleteQueue, LedInv
  <2>2. /\ q' = <<>> /\ queued' = Off /\ UNCHANGED <<s_task, post, ledStarts, subs>> /\ UNCHANGED ledTaskVars
    BY <1>4 DEF DeleteQueue
  <2>3. ShowTypes' BY <2>2 DEF ShowTypes
  <2> QED BY <2>1, <2>2, <2>3, NoQueueKeeps
<1> QED BY <1>1, <1>2, <1>3, <1>4 DEF LedStart

LEMMA PostShows ==
  ASSUME ShowTypes, ShowInv,
         (\E c \in Requests : LedCommand(c)) \/ (\E code \in {"start", "tick"} : OtherPost(code))
  PROVE  ShowTypes' /\ ShowInv'
<1>1. PICK p \in Posters, m \in LedPosts : post' = [post EXCEPT ![p] = m]
  <2>0. subs \in Nat BY DEF ShowTypes
  <2>1. ASSUME NEW c \in Requests, LedCommand(c)
        PROVE  \E p \in Posters, m \in LedPosts : post' = [post EXCEPT ![p] = m]
    <3>1. "console" \in Posters BY DEF Posters
    <3> QED BY <2>0, <2>1, <3>1, CommandStands DEF LedCommand, CopySubs
  <2>2. ASSUME NEW code \in {"start", "tick"}, OtherPost(code)
        PROVE  \E p \in Posters, m \in LedPosts : post' = [post EXCEPT ![p] = m]
    <3>1. "others" \in Posters BY DEF Posters
    <3> QED BY <2>0, <2>2, <3>1, OtherStands DEF OtherPost, CopySubs
  <2> QED BY <2>1, <2>2
<1>2. UNCHANGED ledStartVars /\ UNCHANGED ledTaskVars /\ UNCHANGED <<q, queued>>
  BY DEF LedCommand, OtherPost
<1>3. UNCHANGED <<ledStarts, subs, queues, s_task, ledPc, pixel, shown, ledFresh>>
  BY <1>2 DEF ledStartVars, ledTaskVars
<1>4. post' \in [Posters -> LedPosts \cup {NoPost}] BY <1>1 DEF ShowTypes
<1>5. ShowTypes' BY <1>2, <1>3, <1>4 DEF ShowTypes
<1>6. ShowInv' BY <1>2, <1>3, SameQueue DEF ShowInv
<1> QED BY <1>5, <1>6

(* An event at the end of the queue counts if it has a colour.             *)
LEMMA EventQueued ==
  ASSUME ShowTypes, ShowInv, NEW m \in LedPosts, q' = Append(q, m),
         queued' = IF m.code # "tick" THEN m.want ELSE queued, queues' # {},
         UNCHANGED <<s_task, ledPc, pixel, shown, ledFresh>>
  PROVE  ShowInv'
<1>1. q \in Seq(LedPosts) BY DEF ShowTypes
<1> DEFINE N == Len(q)
<1>2. N \in Nat BY <1>1, LenProperties
<1>3. Len(q') = N + 1 /\ q'[N + 1] = m /\ \A i \in 1 .. N : q'[i] = q[i]
  BY <1>1, AppendProperties
<1>4. Shows(m) <=> m.code # "tick" BY PostsShow
<1> HIDE DEF N
<1>5. \A i \in 1 .. N + 1 : i \in 1 .. N \/ i = N + 1 BY <1>2
<1>6. N + 1 \in 1 .. N + 1 /\ \A i \in 1 .. N : i \in 1 .. N + 1 /\ i < N + 1 BY <1>2
<1>7. ASSUME NEW i \in 1 .. Len(q'), LastColour(i)' PROVE q'[i].want = queued'
  <2>1. Shows(q'[i]) /\ \A j \in 1 .. N + 1 : i < j => ~Shows(q'[j]) BY <1>3, <1>7 DEF LastColour
  <2>2. CASE i = N + 1
    <3>1. Shows(m) BY <1>3, <2>1, <2>2
    <3> QED BY <1>3, <1>4, <2>2, <3>1
  <2>3. CASE i \in 1 .. N
    <3>1. ~Shows(m) BY <1>3, <1>6, <2>1, <2>3
    <3>2. Shows(q[i]) /\ \A j \in 1 .. N : i < j => ~Shows(q[j]) BY <1>3, <1>6, <2>1, <2>3
    <3>3. q[i].want = queued BY <2>3, <3>2 DEF ShowInv, LastColour, N
    <3> QED BY <1>3, <1>4, <2>3, <3>1, <3>3
  <2> QED BY <1>3, <1>5, <2>2, <2>3
<1>8. (\A i \in 1 .. Len(q') : ~Shows(q'[i])) => pixel' = queued'
  <2> SUFFICES ASSUME \A i \in 1 .. Len(q') : ~Shows(q'[i]) PROVE pixel' = queued'
    OBVIOUS
  <2>1. ~Shows(m) BY <1>3, <1>6
  <2>2. \A i \in 1 .. N : ~Shows(q[i]) BY <1>3, <1>6
  <2>3. pixel = queued BY <2>2 DEF ShowInv, N
  <2> QED BY <1>4, <2>1, <2>3
<1> QED BY <1>7, <1>8 DEF ShowInv

LEMMA SendShows ==
  ASSUME ShowTypes, ShowInv, NEW p \in Posters, Send(p)
  PROVE  ShowTypes' /\ ShowInv'
<1> DEFINE m  == post[p]
           in == m.to = s_led_q /\ m.to \in queues /\ LedRoom
<1>1. m \in LedPosts BY DEF Send, ShowTypes
<1>2. /\ post' = [post EXCEPT ![p] = NoPost] /\ UNCHANGED ledStartVars /\ UNCHANGED ledTaskVars
      /\ q' = (IF in THEN Append(q, m) ELSE q)
      /\ queued' = IF in /\ m.code # "tick" THEN m.want ELSE queued
  BY DEF Send
<1>3. UNCHANGED <<ledStarts, subs, queues, s_task, ledPc, pixel, shown, ledFresh>>
  BY <1>2 DEF ledStartVars, ledTaskVars
<1>4. in => queues # {} OBVIOUS
<1> HIDE DEF m, in
<1>5. ShowTypes'
  <2>1. post' \in [Posters -> LedPosts \cup {NoPost}] BY <1>2 DEF ShowTypes
  <2>2. q' \in Seq(LedPosts) BY <1>1, <1>2, AppendProperties DEF ShowTypes
  <2> QED BY <1>3, <2>1, <2>2 DEF ShowTypes
<1>6. CASE in
  <2>1. q' = Append(q, m) /\ queued' = (IF m.code # "tick" THEN m.want ELSE queued) /\ queues' # {}
    BY <1>2, <1>3, <1>4, <1>6
  <2> QED BY <1>1, <1>3, <1>5, <2>1, EventQueued
<1>7. CASE ~in
  <2>1. q' = q /\ queued' = queued BY <1>2, <1>7
  <2> QED BY <1>3, <1>5, <2>1, SameQueue DEF ShowInv
<1> QED BY <1>6, <1>7

LEMMA TaskShows ==
  ASSUME ShowTypes, ShowInv, LedTask
  PROVE  ShowTypes' /\ ShowInv'
<1>1. CASE Refresh
  <2>1. /\ ledPc = "refresh" /\ ledPc' = "wait" /\ UNCHANGED ledStartVars
        /\ UNCHANGED <<post, queued, pixel, q>>
        /\ shown' = pixel \/ ~ledFresh'
    BY <1>1 DEF Refresh
  <2>2. UNCHANGED <<ledStarts, subs, queues, s_task>> BY <2>1 DEF ledStartVars
  <2>3. ShowTypes' BY <2>1, <2>2 DEF ShowTypes
  <2>4. s_task BY <2>1 DEF ShowInv
  <2>5. ShowInv' BY <2>1, <2>2, <2>4, SameQueue
  <2> QED BY <2>3, <2>5
<1>2. CASE Receive
  <2> DEFINE h == Head(q)
  <2>1. /\ ledPc = "wait" /\ q # <<>> /\ q' = Tail(q) /\ UNCHANGED ledStartVars /\ UNCHANGED ledPostVars
        /\ UNCHANGED <<shown, ledFresh>>
        /\ IF Shows(h) THEN pixel' = Colour(h) /\ ledPc' = "refresh" ELSE UNCHANGED <<pixel, ledPc>>
    BY <1>2 DEF Receive
  <2>2. UNCHANGED <<ledStarts, subs, queues, s_task, post, queued>> BY <2>1 DEF ledStartVars, ledPostVars
  <2>3. q \in Seq(LedPosts) BY DEF ShowTypes
  <2> DEFINE N == Len(q)
  <2>4. /\ q' \in Seq(LedPosts) /\ N \in Nat \ {0} /\ Len(q') = N - 1
        /\ \A i \in 1 .. N - 1 : q'[i] = q[i + 1]
        /\ h = q[1] /\ h \in LedPosts
    <3>1. Tail(q) \in Seq(LedPosts) /\ Len(Tail(q)) = N - 1 /\ \A i \in 1 .. N - 1 : Tail(q)[i] = q[i + 1]
      BY <2>1, <2>3, HeadTailProperties
    <3>2. N \in Nat \ {0} BY <2>1, <2>3, LenProperties, EmptySeq
    <3>3. h = q[1] /\ h \in LedPosts BY <2>1, <2>3, HeadTailProperties
    <3> QED BY <2>1, <3>1, <3>2, <3>3
  <2>5. (Shows(h) <=> h.code # "tick") /\ (Shows(h) => Colour(h) = h.want) BY <2>4, PostsShow
  <2>6. ShowTypes' BY <2>2, <2>4 DEF ShowTypes
  <2> HIDE DEF N, h
  <2>7. \A i \in 1 .. N - 1 : i + 1 \in 1 .. N /\ 1 < i + 1 BY <2>4
  <2>8. \A j \in 1 .. N : j = 1 \/ (j - 1 \in 1 .. N - 1 /\ (j - 1) + 1 = j) BY <2>4
  <2>9. 1 \in 1 .. N BY <2>4
  <2>10. ASSUME NEW i \in 1 .. Len(q'), LastColour(i)' PROVE q'[i].want = queued'
    <3>1. i \in 1 .. N - 1 /\ Shows(q'[i]) /\ \A j \in 1 .. N - 1 : i < j => ~Shows(q'[j])
      BY <2>4, <2>10 DEF LastColour
    <3>2. ASSUME NEW j \in 1 .. N, i + 1 < j PROVE ~Shows(q[j])
      <4>1. i < j - 1 /\ j # 1 BY <3>1, <3>2
      <4>2. j - 1 \in 1 .. N - 1 /\ (j - 1) + 1 = j BY <2>8, <4>1
      <4>3. ~Shows(q'[j - 1]) BY <3>1, <4>1, <4>2
      <4> QED BY <2>4, <4>2, <4>3
    <3>3. Shows(q[i + 1]) /\ i + 1 \in 1 .. N BY <2>4, <2>7, <3>1
    <3>4. q[i + 1].want = queued BY <3>2, <3>3 DEF ShowInv, LastColour, N
    <3> QED BY <2>2, <2>4, <3>1, <3>4
  <2>11. (\A i \in 1 .. Len(q') : ~Shows(q'[i])) => pixel' = queued'
    <3> SUFFICES ASSUME \A i \in 1 .. Len(q') : ~Shows(q'[i]) PROVE pixel' = queued'
      OBVIOUS
    <3>1. \A j \in 1 .. N : 1 < j => ~Shows(q[j])
      <4> SUFFICES ASSUME NEW j \in 1 .. N, 1 < j PROVE ~Shows(q[j])
        OBVIOUS
      <4>1. j - 1 \in 1 .. N - 1 /\ (j - 1) + 1 = j BY <2>8
      <4>2. ~Shows(q'[j - 1]) BY <2>4, <4>1
      <4> QED BY <2>4, <4>1, <4>2
    <3>2. CASE Shows(h)
      <4>1. Shows(q[1]) BY <2>4, <3>2
      <4>2. LastColour(1) BY <3>1, <4>1 DEF LastColour, N
      <4>3. q[1].want = queued BY <2>9, <4>2 DEF ShowInv, N
      <4>4. pixel' = h.want BY <2>1, <2>5, <3>2
      <4> QED BY <2>2, <2>4, <4>3, <4>4
    <3>3. CASE ~Shows(h)
      <4>1. ~Shows(q[1]) BY <2>4, <3>3
      <4>2. \A j \in 1 .. N : j = 1 \/ 1 < j BY <2>4
      <4>3. \A j \in 1 .. N : ~Shows(q[j]) BY <3>1, <4>1, <4>2
      <4>4. pixel = queued BY <4>3 DEF ShowInv, N
      <4>5. pixel' = pixel BY <2>1, <3>3
      <4> QED BY <2>2, <4>4, <4>5
    <3> QED BY <3>2, <3>3
  <2>12. s_task /\ s_task' = s_task BY <2>1, <2>2 DEF ShowInv
  <2>13. ledPc' # "refresh" /\ ledFresh' => shown' = pixel'
    <3>1. CASE Shows(h) BY <2>1, <3>1
    <3>2. CASE ~Shows(h) BY <2>1, <3>2 DEF ShowInv
    <3> QED BY <3>1, <3>2
  <2>14. queues' # {} BY <2>1, <2>2 DEF ShowInv
  <2>15. ShowInv' BY <2>10, <2>11, <2>12, <2>13, <2>14 DEF ShowInv
  <2> QED BY <2>6, <2>15
<1> QED BY <1>1, <1>2 DEF LedTask

LEMMA ShowKeeps == LedInv /\ ShowTypes /\ ShowInv /\ [LedNext]_ledVars => ShowTypes' /\ ShowInv'
<1> SUFFICES ASSUME LedInv, ShowTypes, ShowInv, [LedNext]_ledVars
             PROVE  ShowTypes' /\ ShowInv'
  OBVIOUS
<1>1. CASE UNCHANGED ledVars
  <2>1. UNCHANGED <<ledStarts, subs, queues, s_task, post, q, queued, ledPc, pixel, shown, ledFresh>>
    BY <1>1 DEF ledVars, ledStartVars, ledPostVars, ledTaskVars
  <2> QED BY <2>1, SameQueue DEF ShowTypes, ShowInv
<1>2. CASE LedNext
  BY <1>2, StartShows, PostShows, SendShows, TaskShows DEF LedNext
<1> QED BY <1>1, <1>2

(* With the queue empty, the task at rest and the last transfer gone       *)
(* through, the strip shows the last colour that found room, each channel  *)
(* as the console cut it: cmd_led, led_task.                               *)
THEOREM StripShowsLastQueued == LedSpec => []ShowsLastQueued
<1>1. ShowInv => ShowsLastQueued
  <2> SUFFICES ASSUME ShowInv, ledPc = "wait", q = <<>>, ledFresh PROVE shown = queued
    BY DEF ShowsLastQueued
  <2>1. Len(q) = 0 OBVIOUS
  <2>2. \A i \in 1 .. Len(q) : FALSE BY <2>1
  <2> QED BY <2>2 DEF ShowInv
<1> QED BY <1>1, LedStarts, LedKeeps, ShowStarts, ShowKeeps, PTL DEF LedSpec

-----------------------------------------------------------------------------
(* I2cRequests.  No two requests that are being built, wait or are carried *)
(* out have the same number, so that what one gives back is its own.       *)
Node == [id : Nat, user : Clients \cup {"none"}, shape : Shapes \cup {NoNode.shape},
         bytes : Nat, want : Nat]

Building == {c \in Clients : at[c] # "out"}

ReqTypes ==
  /\ ids \in Nat
  /\ at \in [Clients -> {"out", "tx", "rx", "send"}]
  /\ node \in [Clients -> Node] /\ n \in Node /\ s_q \in Seq(Node)
  /\ txbuf \in [Clients -> Nat] /\ accepted \in [Clients -> Seq(Nat)]
  /\ reqPc \in {"none", "wait", "run", "copy", "post", "free"}
  /\ reqBoot # "up" => reqPc = "none"

RequestsApart ==
  /\ \A c \in Clients : IF at[c] = "out" THEN node[c] = NoNode ELSE node[c].id \in 1 .. ids
  /\ \A c \in Building, d \in Building : c # d => node[c].id # node[d].id
  /\ \A i \in DOMAIN s_q : s_q[i].id \in 1 .. ids
  /\ \A i \in DOMAIN s_q, j \in DOMAIN s_q : i # j => s_q[i].id # s_q[j].id
  /\ \A c \in Building, i \in DOMAIN s_q : node[c].id # s_q[i].id
  /\ reqPc \in {"none", "wait"} => n = NoNode
  /\ n = NoNode \/ n.id \in 1 .. ids
  /\ \A c \in Building : node[c].id # n.id
  /\ \A i \in DOMAIN s_q : s_q[i].id # n.id

(* HeapIsOwned, block by block.                                            *)
HasOwner(b) ==
  \/ \E c \in Building : b \in Owned(node[c], at[c])
  \/ \E i \in DOMAIN s_q : b \in Owned(s_q[i], "sent")
  \/ b \in Owned(n, "sent")

ReqInv == ReqTypes /\ RequestsApart /\ \A b : b \in heap <=> HasOwner(b)

LEMMA OwnerOf ==
  ASSUME NEW m \in Node, NEW l, NEW b \in Owned(m, l)
  PROVE  m.id # 0 /\ b \in Blocks(m.id) /\ b[1] = m.id
BY DEF Owned, Blocks

LEMMA NothingOwned == \A l : Owned(NoNode, l) = {}
BY DEF Owned, NoNode

LEMMA HeapBlockByBlock ==
  ASSUME ReqTypes, RequestsApart
  PROVE  HeapIsOwned <=> \A b : b \in heap <=> HasOwner(b)
<1> DEFINE All == UNION ({Owned(node[c], at[c]) : c \in Clients} \cup {Owned(m, "sent") : m \in ToSet(s_q)}
                         \cup {Owned(n, "sent")})
<1>1. ToSet(s_q) = {s_q[i] : i \in DOMAIN s_q} BY DEF ToSet
<1>2. \A c \in Clients : c \notin Building => Owned(node[c], at[c]) = {}
  BY NothingOwned DEF RequestsApart, Building
<1>3. Building \subseteq Clients BY DEF Building
<1>4. ASSUME NEW b PROVE b \in All <=> HasOwner(b)
  <2>1. b \in All <=> \/ \E c \in Clients : b \in Owned(node[c], at[c])
                      \/ \E m \in ToSet(s_q) : b \in Owned(m, "sent")
                      \/ b \in Owned(n, "sent")
    OBVIOUS
  <2>2. (\E m \in ToSet(s_q) : b \in Owned(m, "sent"))
          <=> (\E i \in DOMAIN s_q : b \in Owned(s_q[i], "sent"))
    BY <1>1
  <2>3. (\E c \in Clients : b \in Owned(node[c], at[c]))
          <=> (\E c \in Building : b \in Owned(node[c], at[c]))
    BY <1>2, <1>3
  <2> QED BY <2>1, <2>2, <2>3 DEF HasOwner
<1>5. HeapIsOwned <=> heap = All BY DEF HeapIsOwned
<1> HIDE DEF All
<1> QED BY <1>4, <1>5

(* A request under construction gets more blocks.                          *)
LEMMA GrowKeeps ==
  ASSUME ReqInv, NEW c \in Building, NEW m \in Node, NEW l \in {"rx", "send"},
         m.id = node[c].id, Owned(node[c], at[c]) \subseteq Owned(m, l),
         node' = [node EXCEPT ![c] = m], at' = [at EXCEPT ![c] = l],
         heap' = heap \cup Owned(m, l),
         s_q' = s_q, n' = n, ids' = ids, reqPc' = reqPc, reqBoot' = reqBoot,
         txbuf' = txbuf, accepted' = accepted
  PROVE  ReqInv'
<1> USE DEF ReqInv
<1>1. c \in Clients /\ Building \subseteq Clients BY DEF Building
<1>2. /\ node \in [Clients -> Node] /\ at \in [Clients -> {"out", "tx", "rx", "send"}]
  BY DEF ReqTypes
<1>3. /\ node'[c] = m /\ at'[c] = l
      /\ \A d \in Clients : d # c => node'[d] = node[d] /\ at'[d] = at[d]
      /\ \A d \in Clients : node'[d].id = node[d].id
  BY <1>1, <1>2
<1>4. Building' = Building BY <1>1, <1>3 DEF Building
<1>5. ReqTypes' BY <1>1, <1>2 DEF ReqTypes
<1>6. RequestsApart'
  <2>1. \A d \in Clients : IF at'[d] = "out" THEN node'[d] = NoNode ELSE node'[d].id \in 1 .. ids
    BY <1>3 DEF RequestsApart, Building
  <2>2. \A d \in Building : node'[d].id = node[d].id BY <1>1, <1>3
  <2> QED BY <1>4, <2>1, <2>2 DEF RequestsApart
<1>7. ASSUME NEW b PROVE b \in heap' <=> HasOwner(b)'
  <2>1. b \in heap <=> HasOwner(b) OBVIOUS
  <2>2. HasOwner(b) <=> \/ \E d \in Building : d # c /\ b \in Owned(node[d], at[d])
                        \/ b \in Owned(node[c], at[c])
                        \/ \E i \in DOMAIN s_q : b \in Owned(s_q[i], "sent")
                        \/ b \in Owned(n, "sent")
    BY DEF HasOwner
  <2>3. HasOwner(b)' <=> \/ \E d \in Building : d # c /\ b \in Owned(node'[d], at'[d])
                         \/ b \in Owned(m, l)
                         \/ \E i \in DOMAIN s_q : b \in Owned(s_q[i], "sent")
                         \/ b \in Owned(n, "sent")
    BY <1>3, <1>4 DEF HasOwner
  <2>4. (\E d \in Building : d # c /\ b \in Owned(node'[d], at'[d]))
          <=> (\E d \in Building : d # c /\ b \in Owned(node[d], at[d]))
    BY <1>1, <1>3
  <2> QED BY <2>1, <2>2, <2>3, <2>4
<1> QED BY <1>5, <1>6, <1>7

(* A request that is refused gives all its blocks back, and no other's.    *)
LEMMA GiveBackKeeps ==
  ASSUME ReqInv, NEW c \in Building, GiveBack(c), Return(c),
         s_q' = s_q, n' = n, ids' = ids, reqPc' = reqPc, reqBoot' = reqBoot,
         txbuf' = txbuf, accepted' = accepted
  PROVE  ReqInv'
<1> USE DEF ReqInv
<1>1. c \in Clients /\ Building \subseteq Clients BY DEF Building
<1>2. /\ node \in [Clients -> Node] /\ at \in [Clients -> {"out", "tx", "rx", "send"}]
      /\ n \in Node /\ s_q \in Seq(Node) /\ ids \in Nat
  BY DEF ReqTypes
<1>3. /\ at' = [at EXCEPT ![c] = "out"] /\ node' = [node EXCEPT ![c] = NoNode]
      /\ heap' = heap \ Blocks(node[c].id)
  BY DEF Return, GiveBack
<1>4. /\ node'[c] = NoNode /\ at'[c] = "out"
      /\ \A d \in Clients : d # c => node'[d] = node[d] /\ at'[d] = at[d]
  BY <1>1, <1>2, <1>3
<1>5. Building' = Building \ {c} BY <1>1, <1>4 DEF Building
<1>6. ReqTypes'
  <2>1. NoNode \in Node BY DEF NoNode, Node
  <2> QED BY <1>1, <1>2, <1>3, <2>1 DEF ReqTypes
<1>7. RequestsApart'
  <2>1. \A d \in Clients : IF at'[d] = "out" THEN node'[d] = NoNode ELSE node'[d].id \in 1 .. ids
    BY <1>4 DEF RequestsApart
  <2>2. \A d \in Building \ {c} : node'[d] = node[d] BY <1>1, <1>4
  <2> QED BY <1>5, <2>1, <2>2 DEF RequestsApart
<1>8. ASSUME NEW b PROVE b \in heap' <=> HasOwner(b)'
  <2>1. b \in heap <=> HasOwner(b) OBVIOUS
  <2>2. HasOwner(b)' <=> \/ \E d \in Building \ {c} : b \in Owned(node[d], at[d])
                         \/ \E i \in DOMAIN s_q : b \in Owned(s_q[i], "sent")
                         \/ b \in Owned(n, "sent")
    <3>1. \A d \in Building \ {c} : node'[d] = node[d] /\ at'[d] = at[d] BY <1>1, <1>4
    <3> QED BY <1>5, <3>1 DEF HasOwner
  <2>3. b \in Owned(node[c], at[c]) => b \in Blocks(node[c].id) BY <1>1, <1>2, OwnerOf
  <2>4. b \in Blocks(node[c].id) => b[1] = node[c].id BY DEF Blocks
  <2>5. HasOwner(b)' => b[1] # node[c].id
    <3>1. ASSUME NEW d \in Building \ {c}, b \in Owned(node[d], at[d]) PROVE b[1] # node[c].id
      <4>1. b[1] = node[d].id BY <1>1, <1>2, <3>1, OwnerOf
      <4> QED BY <4>1 DEF RequestsApart
    <3>2. ASSUME NEW i \in DOMAIN s_q, b \in Owned(s_q[i], "sent") PROVE b[1] # node[c].id
      <4>1. s_q[i] \in Node BY <1>2
      <4>2. b[1] = s_q[i].id BY <3>2, <4>1, OwnerOf
      <4> QED BY <4>2 DEF RequestsApart
    <3>3. ASSUME b \in Owned(n, "sent") PROVE b[1] # node[c].id
      <4>1. b[1] = n.id BY <1>2, <3>3, OwnerOf
      <4> QED BY <4>1 DEF RequestsApart
    <3> QED BY <2>2, <3>1, <3>2, <3>3
  <2>6. HasOwner(b) <=> HasOwner(b)' \/ b \in Owned(node[c], at[c])
    BY <2>2 DEF HasOwner
  <2> QED BY <1>3, <2>1, <2>3, <2>4, <2>5, <2>6
<1> QED BY <1>6, <1>7, <1>8

LEMMA AllocKeeps ==
  ASSUME ReqInv, NEW c \in Clients, NEW s \in Shapes, AllocNode(c, s)
  PROVE  ReqInv'
<1> USE DEF ReqInv
<1> DEFINE i0 == ids + 1
           m  == [NoNode EXCEPT !.id = i0, !.user = c, !.shape = s]
<1>1. /\ node \in [Clients -> Node] /\ at \in [Clients -> {"out", "tx", "rx", "send"}]
      /\ n \in Node /\ s_q \in Seq(Node) /\ ids \in Nat
  BY DEF ReqTypes
<1>2. /\ at[c] = "out" /\ ids' = i0 /\ s_q' = s_q /\ n' = n /\ txbuf' = txbuf
      /\ accepted' = accepted /\ reqPc' = reqPc /\ reqBoot' = reqBoot
  BY DEF AllocNode, reqWorkerVars
<1>3. i0 \in Nat /\ i0 # 0 /\ \A i \in 1 .. ids : i \in 1 .. i0 /\ i # i0
  BY <1>1
<1>4. CASE heap' = heap /\ node' = node /\ at' = at
  <2>1. Building' = Building BY <1>4 DEF Building
  <2>2. ReqTypes' BY <1>1, <1>2, <1>3, <1>4 DEF ReqTypes
  <2>3. RequestsApart'
    <3> HIDE DEF i0
    <3> QED BY <1>2, <1>3, <1>4, <2>1 DEF RequestsApart
  <2>4. \A b : HasOwner(b)' <=> HasOwner(b) BY <1>2, <1>4, <2>1 DEF HasOwner
  <2> QED BY <1>4, <2>2, <2>3, <2>4
<1>5. CASE /\ heap' = heap \cup {<<ids', "node">>} /\ node' = [node EXCEPT ![c] = m]
           /\ at' = [at EXCEPT ![c] = "tx"]
  <2>1. m \in Node /\ m.id = i0 /\ m.shape = s
    <3>1. NoNode \in Node BY DEF NoNode, Node
    <3> QED BY <1>3, <3>1 DEF Node
  <2>2. Owned(m, "tx") = {<<i0, "node">>} BY <1>3, <2>1 DEF Owned
  <2> HIDE DEF m, i0
  <2>3. /\ node'[c] = m /\ at'[c] = "tx"
        /\ \A d \in Clients : d # c => node'[d] = node[d] /\ at'[d] = at[d]
    BY <1>1, <1>5
  <2>4. Building' = Building \cup {c} /\ c \notin Building /\ Building \subseteq Clients
    BY <1>2, <2>3 DEF Building
  <2>5. ReqTypes' BY <1>1, <1>2, <1>3, <1>5, <2>1 DEF ReqTypes
  <2>6. RequestsApart'
    <3>1. \A d \in Building : node'[d] = node[d] /\ node[d].id \in 1 .. ids
      BY <2>3, <2>4 DEF RequestsApart, Building
    <3>2. \A d \in Clients : IF at'[d] = "out" THEN node'[d] = NoNode ELSE node'[d].id \in 1 .. ids'
      <4>1. i0 \in 1 .. i0 BY <1>3
      <4> QED BY <1>2, <1>3, <2>1, <2>3, <4>1 DEF RequestsApart
    <3>3. \A i \in DOMAIN s_q : s_q[i].id \in 1 .. ids' /\ s_q[i].id # i0
      BY <1>2, <1>3 DEF RequestsApart
    <3>4. n.id # i0 /\ (n = NoNode \/ n.id \in 1 .. ids')
      BY <1>2, <1>3 DEF RequestsApart, NoNode
    <3>5. \A d \in Building', e \in Building' : d # e => node'[d].id # node'[e].id
      BY <1>3, <2>1, <2>3, <2>4, <3>1 DEF RequestsApart
    <3>6. \A d \in Building' : node'[d].id # n.id /\ \A i \in DOMAIN s_q : node'[d].id # s_q[i].id
      BY <2>1, <2>3, <2>4, <3>1, <3>3, <3>4 DEF RequestsApart
    <3> QED BY <1>2, <3>2, <3>3, <3>4, <3>5, <3>6 DEF RequestsApart
  <2>7. ASSUME NEW b PROVE b \in heap' <=> HasOwner(b)'
    <3>1. HasOwner(b)' <=> \/ \E d \in Building : b \in Owned(node[d], at[d])
                           \/ b \in Owned(m, "tx")
                           \/ \E i \in DOMAIN s_q : b \in Owned(s_q[i], "sent")
                           \/ b \in Owned(n, "sent")
      <4>1. \A d \in Building : node'[d] = node[d] /\ at'[d] = at[d] BY <2>3, <2>4
      <4> QED BY <1>2, <2>3, <2>4, <4>1 DEF HasOwner
    <3>2. HasOwner(b)' <=> HasOwner(b) \/ b \in Owned(m, "tx") BY <3>1 DEF HasOwner
    <3> QED BY <1>2, <1>5, <2>2, <3>2
  <2> QED BY <2>5, <2>6, <2>7
<1> QED BY <1>4, <1>5 DEF AllocNode, Goto

LEMMA CopyTxKeeps ==
  ASSUME ReqInv, NEW c \in Clients, CopyTx(c)
  PROVE  ReqInv'
<1>1. at[c] = "tx" /\ c \in Building BY DEF CopyTx, Building
<1>2. /\ s_q' = s_q /\ n' = n /\ ids' = ids /\ reqPc' = reqPc /\ reqBoot' = reqBoot
      /\ txbuf' = txbuf /\ accepted' = accepted
  BY DEF CopyTx, reqWorkerVars
<1>3. /\ node \in [Clients -> Node] /\ at \in [Clients -> {"out", "tx", "rx", "send"}]
      /\ txbuf \in [Clients -> Nat] /\ node[c].id # 0
  <2>1. ids \in Nat BY DEF ReqInv, ReqTypes
  <2>2. node[c].id \in 1 .. ids BY <1>1 DEF ReqInv, RequestsApart
  <2> QED BY <2>1, <2>2 DEF ReqInv, ReqTypes
<1>4. \A b \in Owned(node[c], at[c]) : b \in heap BY <1>1 DEF ReqInv, HasOwner
<1>5. CASE ~node[c].shape.tx /\ Goto(c, "rx") /\ UNCHANGED <<heap, node, fails>>
  <2>1. Owned(node[c], "rx") = Owned(node[c], at[c]) BY <1>1, <1>5 DEF Owned
  <2>2. node[c] \in Node BY <1>3
  <2>3. node' = [node EXCEPT ![c] = node[c]] /\ heap' = heap \cup Owned(node[c], "rx")
    BY <1>3, <1>4, <1>5, <2>1
  <2>4. at' = [at EXCEPT ![c] = "rx"] BY <1>5 DEF Goto
  <2> QED BY <1>1, <1>2, <2>1, <2>2, <2>3, <2>4, GrowKeeps
<1>6. CASE /\ node[c].shape.tx
           /\ heap' = heap \cup {<<node[c].id, "tx">>}
           /\ node' = [node EXCEPT ![c].bytes = txbuf[c], ![c].want = txbuf[c]]
           /\ Goto(c, "rx")
  <2> DEFINE m == [node[c] EXCEPT !.bytes = txbuf[c], !.want = txbuf[c]]
  <2>1. m \in Node /\ m.id = node[c].id /\ m.shape = node[c].shape BY <1>3 DEF Node
  <2>2. node' = [node EXCEPT ![c] = m] BY <1>3, <1>6
  <2> HIDE DEF m
  <2>3. Owned(m, "rx") = Owned(node[c], at[c]) \cup {<<node[c].id, "tx">>}
    BY <1>1, <1>3, <1>6, <2>1 DEF Owned
  <2>4. heap' = heap \cup Owned(m, "rx") BY <1>4, <1>6, <2>3
  <2>5. at' = [at EXCEPT ![c] = "rx"] BY <1>6 DEF Goto
  <2> QED BY <1>1, <1>2, <2>1, <2>2, <2>3, <2>4, <2>5, GrowKeeps
<1>7. CASE GiveBack(c) /\ Return(c) BY <1>1, <1>2, <1>7, GiveBackKeeps
<1> QED BY <1>5, <1>6, <1>7 DEF CopyTx

LEMMA StageRxKeeps ==
  ASSUME ReqInv, NEW c \in Clients, StageRx(c)
  PROVE  ReqInv'
<1>1. at[c] = "rx" /\ c \in Building BY DEF StageRx, Building
<1>2. /\ s_q' = s_q /\ n' = n /\ ids' = ids /\ reqPc' = reqPc /\ reqBoot' = reqBoot
      /\ txbuf' = txbuf /\ accepted' = accepted
  BY DEF StageRx, reqWorkerVars
<1>3. /\ node \in [Clients -> Node] /\ at \in [Clients -> {"out", "tx", "rx", "send"}]
      /\ node[c].id # 0
  <2>1. ids \in Nat BY DEF ReqInv, ReqTypes
  <2>2. node[c].id \in 1 .. ids BY <1>1 DEF ReqInv, RequestsApart
  <2> QED BY <2>1, <2>2 DEF ReqInv, ReqTypes
<1>4. \A b \in Owned(node[c], at[c]) : b \in heap BY <1>1 DEF ReqInv, HasOwner
<1>5. CASE ~node[c].shape.rx /\ Goto(c, "send") /\ UNCHANGED <<heap, node, fails>>
  <2>1. Owned(node[c], "send") = Owned(node[c], at[c]) BY <1>1, <1>5 DEF Owned
  <2>2. node[c] \in Node BY <1>3
  <2>3. node' = [node EXCEPT ![c] = node[c]] /\ heap' = heap \cup Owned(node[c], "send")
    BY <1>3, <1>4, <1>5, <2>1
  <2>4. at' = [at EXCEPT ![c] = "send"] BY <1>5 DEF Goto
  <2> QED BY <1>1, <1>2, <2>1, <2>2, <2>3, <2>4, GrowKeeps
<1>6. CASE /\ node[c].shape.rx
           /\ heap' = heap \cup {<<node[c].id, "rx">>}
           /\ Goto(c, "send") /\ UNCHANGED <<node, fails>>
  <2>1. Owned(node[c], "send") = Owned(node[c], at[c]) \cup {<<node[c].id, "rx">>}
    BY <1>1, <1>3, <1>6 DEF Owned
  <2>2. node[c] \in Node BY <1>3
  <2>3. node' = [node EXCEPT ![c] = node[c]] /\ heap' = heap \cup Owned(node[c], "send")
    BY <1>3, <1>4, <1>6, <2>1
  <2>4. at' = [at EXCEPT ![c] = "send"] BY <1>6 DEF Goto
  <2> QED BY <1>1, <1>2, <2>1, <2>2, <2>3, <2>4, GrowKeeps
<1>7. CASE GiveBack(c) /\ Return(c) BY <1>1, <1>2, <1>7, GiveBackKeeps
<1> QED BY <1>5, <1>6, <1>7 DEF StageRx

(* submit hands a whole request to the queue, or gives its blocks back.    *)
LEMMA EnqueueKeeps ==
  ASSUME ReqInv, NEW c \in Clients, Enqueue(c)
  PROVE  ReqInv'
<1>1. at[c] = "send" /\ c \in Building /\ Building \subseteq Clients
  BY DEF Enqueue, Building
<1>2. /\ n' = n /\ ids' = ids /\ reqPc' = reqPc /\ reqBoot' = reqBoot /\ txbuf' = txbuf
      /\ Return(c)
  BY DEF Enqueue, reqWorkerVars
<1>3. /\ node \in [Clients -> Node] /\ at \in [Clients -> {"out", "tx", "rx", "send"}]
      /\ n \in Node /\ s_q \in Seq(Node) /\ accepted \in [Clients -> Seq(Nat)] /\ ids \in Nat
  BY DEF ReqInv, ReqTypes
<1>4. CASE ~Room
  <2>1. GiveBack(c) /\ s_q' = s_q /\ accepted' = accepted BY <1>4 DEF Enqueue
  <2> QED BY <1>1, <1>2, <2>1, GiveBackKeeps
<1>5. CASE Room
  <2>1. s_q' = Append(s_q, node[c]) /\ heap' = heap
        /\ accepted' = [accepted EXCEPT ![c] = Append(@, node[c].id)]
    BY <1>5 DEF Enqueue, Queued
  <2>2. at' = [at EXCEPT ![c] = "out"] /\ node' = [node EXCEPT ![c] = NoNode]
    BY <1>2 DEF Return
  <2>3. /\ node'[c] = NoNode /\ at'[c] = "out"
        /\ \A d \in Clients : d # c => node'[d] = node[d] /\ at'[d] = at[d]
    BY <1>3, <2>2
  <2>4. Building' = Building \ {c} BY <1>1, <2>3 DEF Building
  <2> DEFINE l == Len(s_q) + 1
  <2>5. l \in Nat /\ DOMAIN s_q' = DOMAIN s_q \cup {l} /\ l \notin DOMAIN s_q /\ s_q'[l] = node[c]
        /\ \A i \in DOMAIN s_q : s_q'[i] = s_q[i]
    BY <1>3, <2>1
  <2>6. ReqTypes'
    <3>1. NoNode \in Node BY DEF NoNode, Node
    <3>2. node' \in [Clients -> Node] /\ at' \in [Clients -> {"out", "tx", "rx", "send"}]
      BY <1>3, <2>2, <3>1
    <3>3. node[c] \in Node /\ node[c].id \in Nat BY <1>3 DEF Node
    <3>4. s_q' \in Seq(Node) BY <1>3, <2>1, <3>3
    <3>5. accepted' \in [Clients -> Seq(Nat)]
      <4>1. Append(accepted[c], node[c].id) \in Seq(Nat) BY <1>3, <3>3
      <4> QED BY <1>3, <2>1, <4>1
    <3> QED BY <1>2, <3>2, <3>4, <3>5 DEF ReqInv, ReqTypes
  <2>7. RequestsApart'
    <3>1. \A d \in Building \ {c} : node'[d] = node[d] BY <1>1, <2>3
    <3>2. \A d \in Clients : IF at'[d] = "out" THEN node'[d] = NoNode ELSE node'[d].id \in 1 .. ids'
      BY <1>2, <2>3 DEF ReqInv, RequestsApart
    <3>3. \A d \in Building', e \in Building' : d # e => node'[d].id # node'[e].id
      BY <2>4, <3>1 DEF ReqInv, RequestsApart
    <3>4. node[c].id \in 1 .. ids /\ node[c].id # n.id BY <1>1 DEF ReqInv, RequestsApart
    <3>5. \A i \in DOMAIN s_q' : s_q'[i].id \in 1 .. ids' /\ s_q'[i].id # n.id
      BY <1>2, <2>5, <3>4 DEF ReqInv, RequestsApart
    <3>6. \A i \in DOMAIN s_q', j \in DOMAIN s_q' : i # j => s_q'[i].id # s_q'[j].id
      BY <1>1, <2>5 DEF ReqInv, RequestsApart
    <3>7. \A d \in Building', i \in DOMAIN s_q' : node'[d].id # s_q'[i].id
      BY <1>1, <2>4, <2>5, <3>1 DEF ReqInv, RequestsApart
    <3>8. \A d \in Building' : node'[d].id # n.id
      BY <2>4, <3>1 DEF ReqInv, RequestsApart
    <3> HIDE DEF l
    <3> QED BY <1>2, <3>2, <3>3, <3>5, <3>6, <3>7, <3>8 DEF ReqInv, RequestsApart
  <2>8. Owned(node[c], "send") = Owned(node[c], "sent") BY DEF Owned
  <2> HIDE DEF l
  <2>9. ASSUME NEW b PROVE b \in heap' <=> HasOwner(b)'
    <3>1. HasOwner(b) <=> \/ \E d \in Building \ {c} : b \in Owned(node[d], at[d])
                          \/ b \in Owned(node[c], "sent")
                          \/ \E i \in DOMAIN s_q : b \in Owned(s_q[i], "sent")
                          \/ b \in Owned(n, "sent")
      BY <1>1, <2>8 DEF HasOwner
    <3>2. (\E i \in DOMAIN s_q' : b \in Owned(s_q'[i], "sent"))
            <=> \/ \E i \in DOMAIN s_q : b \in Owned(s_q[i], "sent")
                \/ b \in Owned(node[c], "sent")
      BY <2>5
    <3>3. (\E d \in Building' : b \in Owned(node'[d], at'[d]))
            <=> (\E d \in Building \ {c} : b \in Owned(node[d], at[d]))
      BY <1>1, <2>3, <2>4
    <3>4. b \in heap <=> HasOwner(b) BY DEF ReqInv
    <3> QED BY <1>2, <2>1, <3>1, <3>2, <3>3, <3>4 DEF HasOwner
  <2> QED BY <2>6, <2>7, <2>9 DEF ReqInv
<1> QED BY <1>4, <1>5

LEMMA ScribbleKeeps ==
  ASSUME ReqInv, NEW c \in Clients, Scribble(c)
  PROVE  ReqInv'
<1>1. /\ s_q' = s_q /\ heap' = heap /\ at' = at /\ node' = node /\ reqPc' = reqPc /\ n' = n
      /\ reqBoot' = reqBoot /\ ids' = ids /\ accepted' = accepted
      /\ txbuf' = [txbuf EXCEPT ![c] = Last(accepted[c])] /\ accepted[c] # <<>>
  BY DEF Scribble, reqWorkerVars
<1>2. txbuf' \in [Clients -> Nat]
  <2>1. accepted[c] \in Seq(Nat) /\ txbuf \in [Clients -> Nat] BY DEF ReqInv, ReqTypes
  <2>2. Last(accepted[c]) \in Nat BY <1>1, <2>1 DEF Last
  <2> QED BY <1>1, <2>1, <2>2
<1>3. Building' = Building BY <1>1 DEF Building
<1>4. ReqTypes' BY <1>1, <1>2 DEF ReqInv, ReqTypes
<1>5. RequestsApart' BY <1>1, <1>3 DEF ReqInv, RequestsApart
<1>6. \A b : HasOwner(b)' <=> HasOwner(b) BY <1>1, <1>3 DEF HasOwner
<1> QED BY <1>1, <1>4, <1>5, <1>6 DEF ReqInv

LEMMA TakeKeeps ==
  ASSUME ReqInv, Take
  PROVE  ReqInv'
<1>1. /\ heap' = heap /\ at' = at /\ node' = node /\ txbuf' = txbuf /\ reqBoot' = reqBoot
      /\ ids' = ids /\ accepted' = accepted
      /\ reqPc = "wait" /\ reqPc' = "run" /\ s_q # <<>> /\ n' = Head(s_q) /\ s_q' = Tail(s_q)
  BY DEF Take, clientVars
<1>2. s_q \in Seq(Node) /\ ids \in Nat BY DEF ReqInv, ReqTypes
<1>3. /\ 1 \in DOMAIN s_q /\ n' = s_q[1]
      /\ \A i \in DOMAIN s_q' : i + 1 \in DOMAIN s_q /\ i + 1 # 1 /\ s_q'[i] = s_q[i + 1]
      /\ \A i \in DOMAIN s_q : i # 1 => i - 1 \in DOMAIN s_q' /\ s_q'[i - 1] = s_q[i]
      /\ \A i, j \in DOMAIN s_q' : i # j => i + 1 # j + 1
  BY <1>1, <1>2
<1>4. n = NoNode BY <1>1 DEF ReqInv, RequestsApart
<1>5. Building' = Building BY <1>1 DEF Building
<1>6. ReqTypes'
  <2>1. reqBoot' = "up" BY <1>1 DEF ReqInv, ReqTypes
  <2>2. n' \in Node /\ s_q' \in Seq(Node) BY <1>1, <1>2
  <2> QED BY <1>1, <2>1, <2>2 DEF ReqInv, ReqTypes
<1>7. RequestsApart'
  <2>1. /\ \A i \in DOMAIN s_q' : s_q'[i].id \in 1 .. ids /\ s_q'[i].id # n'.id
        /\ n'.id \in 1 .. ids
    BY <1>3 DEF ReqInv, RequestsApart
  <2>2. \A i \in DOMAIN s_q', j \in DOMAIN s_q' : i # j => s_q'[i].id # s_q'[j].id
    BY <1>3 DEF ReqInv, RequestsApart
  <2>3. \A c \in Building : node[c].id # n'.id
                            /\ \A i \in DOMAIN s_q' : node[c].id # s_q'[i].id
    BY <1>3 DEF ReqInv, RequestsApart
  <2>4. \A c \in Clients : IF at'[c] = "out" THEN node'[c] = NoNode ELSE node'[c].id \in 1 .. ids'
    BY <1>1 DEF ReqInv, RequestsApart
  <2>5. \A c \in Building', d \in Building' : c # d => node'[c].id # node'[d].id
    BY <1>1, <1>5 DEF ReqInv, RequestsApart
  <2>6. reqPc' \notin {"none", "wait"} BY <1>1
  <2> QED BY <1>1, <1>5, <2>1, <2>2, <2>3, <2>4, <2>5, <2>6 DEF RequestsApart
<1>8. ASSUME NEW b PROVE b \in heap' <=> HasOwner(b)'
  <2>1. b \in heap <=> HasOwner(b) BY DEF ReqInv
  <2>2. b \notin Owned(n, "sent") BY <1>4, NothingOwned
  <2>3. (\E i \in DOMAIN s_q : b \in Owned(s_q[i], "sent"))
          <=> \/ \E i \in DOMAIN s_q' : b \in Owned(s_q'[i], "sent")
              \/ b \in Owned(n', "sent")
    BY <1>3
  <2>4. (\E c \in Building' : b \in Owned(node'[c], at'[c]))
          <=> (\E c \in Building : b \in Owned(node[c], at[c]))
    BY <1>1, <1>5
  <2> QED BY <1>1, <2>1, <2>2, <2>3, <2>4 DEF HasOwner
<1> QED BY <1>6, <1>7, <1>8 DEF ReqInv

LEMMA FreeKeeps ==
  ASSUME ReqInv, Free
  PROVE  ReqInv'
<1>1. /\ heap' = heap \ Blocks(n.id) /\ at' = at /\ node' = node /\ txbuf' = txbuf
      /\ reqBoot' = reqBoot /\ ids' = ids /\ accepted' = accepted /\ s_q' = s_q
      /\ reqPc = "free" /\ reqPc' = "wait" /\ n' = NoNode
  BY DEF Free, clientVars
<1>2. /\ node \in [Clients -> Node] /\ n \in Node /\ s_q \in Seq(Node) /\ ids \in Nat
  BY DEF ReqInv, ReqTypes
<1>3. Building' = Building /\ Building \subseteq Clients BY <1>1 DEF Building
<1>4. ReqTypes'
  <2>1. reqBoot' = "up" BY <1>1 DEF ReqInv, ReqTypes
  <2>2. NoNode \in Node BY DEF NoNode, Node
  <2> QED BY <1>1, <2>1, <2>2 DEF ReqInv, ReqTypes
<1>5. RequestsApart'
  <2>1. NoNode.id = 0 BY DEF NoNode
  <2>2. \A c \in Building : node[c].id \in 1 .. ids /\ node[c].id # 0
    BY <1>2, <1>3 DEF ReqInv, RequestsApart, Building
  <2>3. \A i \in DOMAIN s_q : s_q[i].id \in 1 .. ids /\ s_q[i].id # 0
    BY <1>2 DEF ReqInv, RequestsApart
  <2> QED BY <1>1, <1>3, <2>1, <2>2, <2>3 DEF ReqInv, RequestsApart
<1>6. ASSUME NEW b PROVE b \in heap' <=> HasOwner(b)'
  <2>1. b \in heap <=> HasOwner(b) BY DEF ReqInv
  <2>2. b \in Owned(n, "sent") => b \in Blocks(n.id) BY <1>2, OwnerOf
  <2>3. b \in Blocks(n.id) => b[1] = n.id BY DEF Blocks
  <2>4. ASSUME NEW c \in Building, b \in Owned(node[c], at[c]) PROVE b[1] # n.id
    <3>1. b[1] = node[c].id BY <1>2, <1>3, <2>4, OwnerOf
    <3> QED BY <3>1 DEF ReqInv, RequestsApart
  <2>5. ASSUME NEW i \in DOMAIN s_q, b \in Owned(s_q[i], "sent") PROVE b[1] # n.id
    <3>1. s_q[i] \in Node BY <1>2
    <3>2. b[1] = s_q[i].id BY <2>5, <3>1, OwnerOf
    <3> QED BY <3>2 DEF ReqInv, RequestsApart
  <2>6. HasOwner(b)' <=> \/ \E c \in Building : b \in Owned(node[c], at[c])
                         \/ \E i \in DOMAIN s_q : b \in Owned(s_q[i], "sent")
    <3>1. b \notin Owned(n', "sent") BY <1>1, NothingOwned
    <3> QED BY <1>1, <1>3, <3>1 DEF HasOwner
  <2>7. HasOwner(b) <=> HasOwner(b)' \/ b \in Owned(n, "sent") BY <2>6 DEF HasOwner
  <2>8. HasOwner(b)' => b[1] # n.id BY <2>4, <2>5, <2>6
  <2> QED BY <1>1, <2>1, <2>2, <2>3, <2>7, <2>8
<1> QED BY <1>4, <1>5, <1>6 DEF ReqInv

LEMMA ReqKeeps == ReqInv /\ [ReqNext]_reqVars => ReqInv'
<1> SUFFICES ASSUME ReqInv, [ReqNext]_reqVars
             PROVE  ReqInv'
  OBVIOUS
<1>1. ASSUME /\ heap' = heap /\ at' = at /\ node' = node /\ txbuf' = txbuf /\ ids' = ids
             /\ accepted' = accepted /\ s_q' = s_q /\ n' = n,
             \/ reqPc' = reqPc /\ reqBoot' = reqBoot
             \/ reqPc' = reqPc /\ reqBoot # "up"
             \/ reqPc \in {"none", "wait"} /\ reqPc' = "wait" /\ reqBoot' = "up"
             \/ reqPc \notin {"none", "wait"} /\ reqBoot' = reqBoot
                /\ reqPc' \in {"run", "copy", "post", "free"}
      PROVE  ReqInv'
  <2>1. Building' = Building BY <1>1 DEF Building
  <2>2. ReqTypes' BY <1>1 DEF ReqInv, ReqTypes
  <2>3. RequestsApart' BY <1>1, <2>1 DEF ReqInv, RequestsApart
  <2>4. \A b : HasOwner(b)' <=> HasOwner(b) BY <1>1, <2>1 DEF HasOwner
  <2> QED BY <1>1, <2>2, <2>3, <2>4 DEF ReqInv
<1>2. CASE CreateQueue BY <1>1, <1>2 DEF CreateQueue, clientVars, reqWorkerVars
<1>3. CASE CreateTask
  <2>1. reqPc = "none" BY <1>3 DEF CreateTask, ReqInv, ReqTypes
  <2> QED BY <1>1, <1>3, <2>1 DEF CreateTask, clientVars
<1>4. CASE Worker
  <2>1. CASE Transact BY <1>1, <2>1 DEF Transact, clientVars
  <2>2. CASE CopyRx BY <1>1, <2>2 DEF CopyRx, clientVars
  <2>3. CASE PostEvent BY <1>1, <2>3 DEF PostEvent, clientVars
  <2> QED BY <1>4, <2>1, <2>2, <2>3, TakeKeeps, FreeKeeps DEF Worker
<1>5. ASSUME NEW c \in Clients, Client(c) PROVE ReqInv'
  BY <1>5, AllocKeeps, CopyTxKeeps, StageRxKeeps, EnqueueKeeps, ScribbleKeeps DEF Client
<1>6. CASE UNCHANGED reqVars BY <1>1, <1>6 DEF reqVars, clientVars, reqWorkerVars
<1> QED BY <1>2, <1>3, <1>4, <1>5, <1>6 DEF ReqNext

LEMMA ReqStarts == ReqInit => ReqInv
<1> SUFFICES ASSUME ReqInit PROVE ReqInv OBVIOUS
<1>1. NoNode \in Node /\ n = NoNode /\ s_q = <<>> /\ ids = 0 /\ reqPc = "none"
  BY DEF ReqInit, NoNode, Node
<1>2. /\ at = [c \in Clients |-> "out"] /\ node = [c \in Clients |-> NoNode]
      /\ txbuf = [c \in Clients |-> 0] /\ accepted = [c \in Clients |-> <<>>] /\ heap = {}
  BY DEF ReqInit
<1>3. ReqTypes BY <1>1, <1>2 DEF ReqTypes
<1>4. Building = {} BY <1>2 DEF Building
<1>5. RequestsApart BY <1>1, <1>2, <1>4 DEF RequestsApart
<1>6. \A b : ~HasOwner(b) BY <1>1, <1>4, NothingOwned DEF HasOwner
<1> QED BY <1>2, <1>3, <1>5, <1>6 DEF ReqInv

(* Whatever fails inside submit and whatever the worker is doing, the heap *)
(* holds exactly the blocks of the requests that are being built, wait or  *)
(* are carried out: no error path leaks one or frees one early.            *)
THEOREM EveryBlockHasItsOwner == ReqSpec => []HeapIsOwned
<1>1. ReqInv => HeapIsOwned BY HeapBlockByBlock DEF ReqInv
<1> QED BY <1>1, ReqStarts, ReqKeeps, PTL DEF ReqSpec

(* The order of the answers.  The line is the request being carried out,   *)
(* if it has no answer yet, and behind it those in the queue.  A client's  *)
(* requests without an answer are the ones of its that stand in line, in   *)
(* the order of their numbers, which is that of their acceptance.          *)
Line      == {p \in 0 .. Len(s_q) : p = 0 => reqPc \in {"run", "copy", "post"}}
InLine(p) == IF p = 0 THEN n ELSE s_q[p]

AcceptedRises ==
  \A c \in Clients : \A k \in 1 .. Len(accepted[c]) :
     /\ accepted[c][k] <= ids
     /\ at[c] # "out" => accepted[c][k] < node[c].id
     /\ \A j \in 1 .. Len(accepted[c]) : j < k => accepted[c][j] < accepted[c][k]

UsersKnown ==
  /\ \A p \in Line : InLine(p).user \in Clients
  /\ \A c \in Building : node[c].user = c

LineIsWaiting ==
  \A p \in Line : \E k \in 1 .. Len(accepted[InLine(p).user]) :
     k > Len(answered[InLine(p).user]) /\ accepted[InLine(p).user][k] = InLine(p).id

WaitingIsInLine ==
  \A c \in Clients : \A k \in 1 .. Len(accepted[c]) :
     k > Len(answered[c]) => \E p \in Line : InLine(p).user = c /\ InLine(p).id = accepted[c][k]

LineInOrder ==
  \A p \in Line, r \in Line : p < r /\ InLine(p).user = InLine(r).user => InLine(p).id < InLine(r).id

AnsweredFirst ==
  /\ answered \in [Clients -> Seq(Nat)]
  /\ \A c \in Clients : /\ Len(answered[c]) <= Len(accepted[c])
                        /\ \A k \in 1 .. Len(answered[c]) : answered[c][k] = accepted[c][k]

AnswerInv == /\ AcceptedRises /\ UsersKnown /\ LineIsWaiting /\ WaitingIsInLine
             /\ LineInOrder /\ AnsweredFirst

LEMMA LineTypes ==
  ASSUME ReqTypes, UsersKnown
  PROVE  /\ \A p \in Line : p \in Nat /\ p <= Len(s_q) /\ InLine(p) \in Node /\ InLine(p).id \in Nat
                            /\ InLine(p).user \in Clients
         /\ \A c \in Clients : accepted[c] \in Seq(Nat) /\ Len(accepted[c]) \in Nat
         /\ \A c \in Clients : \A k \in 1 .. Len(accepted[c]) : accepted[c][k] \in Nat
         /\ \A c \in Clients : node[c].id \in Nat
         /\ ids \in Nat /\ Len(s_q) \in Nat
<1>1. s_q \in Seq(Node) /\ n \in Node /\ ids \in Nat /\ node \in [Clients -> Node]
      /\ accepted \in [Clients -> Seq(Nat)]
  BY DEF ReqTypes
<1>2. Len(s_q) \in Nat BY <1>1, LenProperties
<1>3. ASSUME NEW p \in Line
      PROVE  /\ p \in Nat /\ p <= Len(s_q) /\ InLine(p) \in Node /\ InLine(p).id \in Nat
             /\ InLine(p).user \in Clients
  <2>1. p \in 0 .. Len(s_q) BY DEF Line
  <2>2. p \in Nat /\ p <= Len(s_q) BY <1>2, <2>1
  <2>3. p # 0 => p \in 1 .. Len(s_q) BY <1>2, <2>1
  <2>4. InLine(p) \in Node BY <1>1, <2>3, ElementOfSeq DEF InLine
  <2>5. InLine(p).id \in Nat BY <2>4 DEF Node
  <2> QED BY <2>2, <2>4, <2>5 DEF UsersKnown
<1>4. \A c \in Clients : node[c].id \in Nat BY <1>1 DEF Node
<1>5. ASSUME NEW c \in Clients PROVE accepted[c] \in Seq(Nat) /\ Len(accepted[c]) \in Nat
  <2>1. accepted[c] \in Seq(Nat) BY <1>1
  <2> QED BY <2>1, LenProperties
<1>6. ASSUME NEW c \in Clients, NEW k \in 1 .. Len(accepted[c]) PROVE accepted[c][k] \in Nat
  BY <1>5, ElementOfSeq
<1> QED BY <1>1, <1>2, <1>3, <1>4, <1>5, <1>6

(* A step that accepts and answers nothing, and moves the whole line by d. *)
LEMMA LineMoves ==
  ASSUME ReqTypes, AnswerInv, NEW d \in Nat, UNCHANGED <<answered, accepted>>,
         \A p \in Line' : p + d \in Line /\ InLine(p)' = InLine(p + d),
         \A p \in Line : p - d \in Line' /\ InLine(p - d)' = InLine(p),
         ids' \in Nat, ids <= ids', Line' \subseteq Nat,
         \A c \in Clients : at'[c] # "out" =>
            /\ node'[c].user = c /\ node'[c].id \in Nat
            /\ (at[c] # "out" /\ node'[c].id = node[c].id) \/ ids < node'[c].id
  PROVE  AnswerInv'
<1>0. AcceptedRises /\ UsersKnown /\ LineIsWaiting /\ WaitingIsInLine /\ LineInOrder /\ AnsweredFirst
  BY DEF AnswerInv
<1>1. /\ \A p \in Line : p \in Nat
      /\ \A c \in Clients : \A k \in 1 .. Len(accepted[c]) : accepted[c][k] \in Nat
      /\ ids \in Nat
  BY <1>0, LineTypes
<1>2. AcceptedRises'
  <2> SUFFICES ASSUME NEW c \in Clients, NEW k \in 1 .. Len(accepted[c])
               PROVE  /\ accepted[c][k] <= ids'
                      /\ at'[c] # "out" => accepted[c][k] < node'[c].id
                      /\ \A j \in 1 .. Len(accepted[c]) : j < k => accepted[c][j] < accepted[c][k]
    BY DEF AcceptedRises
  <2>1. /\ accepted[c][k] <= ids
        /\ at[c] # "out" => accepted[c][k] < node[c].id
        /\ \A j \in 1 .. Len(accepted[c]) : j < k => accepted[c][j] < accepted[c][k]
    BY <1>0 DEF AcceptedRises
  <2>2. accepted[c][k] \in Nat BY <1>1
  <2> DEFINE x == accepted[c][k]
             y == node'[c].id
  <2>5. x \in Nat /\ x <= ids BY <1>1, <2>1
  <2>3. x <= ids'
    <3> HIDE DEF x
    <3> QED BY <1>1, <2>5
  <2>4. ASSUME at'[c] # "out" PROVE x < y
    <3>1. CASE at[c] # "out" /\ node'[c].id = node[c].id BY <2>1, <3>1
    <3>2. CASE ids < node'[c].id
      <4>1. y \in Nat /\ ids < y BY <2>4, <3>2
      <4> HIDE DEF x, y
      <4> QED BY <1>1, <2>5, <4>1
    <3> QED BY <2>4, <3>1, <3>2
  <2> QED BY <2>1, <2>3, <2>4
<1>3. UsersKnown'
  <2>1. \A p \in Line' : InLine(p)'.user \in Clients BY <1>0 DEF UsersKnown
  <2>2. \A c \in Building' : node'[c].user = c BY DEF Building
  <2> QED BY <2>1, <2>2 DEF UsersKnown
<1>4. LineIsWaiting'
  <2> SUFFICES ASSUME NEW p \in Line'
               PROVE  \E k \in 1 .. Len(accepted[InLine(p)'.user]) :
                         k > Len(answered[InLine(p)'.user]) /\ accepted[InLine(p)'.user][k] = InLine(p)'.id
    BY DEF LineIsWaiting
  <2>1. p + d \in Line /\ InLine(p)' = InLine(p + d) OBVIOUS
  <2> QED BY <1>0, <2>1 DEF LineIsWaiting
<1>5. WaitingIsInLine'
  <2> SUFFICES ASSUME NEW c \in Clients, NEW k \in 1 .. Len(accepted[c]), k > Len(answered[c])
               PROVE  \E p \in Line' : InLine(p)'.user = c /\ InLine(p)'.id = accepted[c][k]
    BY DEF WaitingIsInLine
  <2>1. PICK p \in Line : InLine(p).user = c /\ InLine(p).id = accepted[c][k] BY <1>0 DEF WaitingIsInLine
  <2>2. p - d \in Line' /\ InLine(p - d)' = InLine(p) OBVIOUS
  <2> QED BY <2>1, <2>2
<1>6. LineInOrder'
  <2> SUFFICES ASSUME NEW p \in Line', NEW r \in Line', p < r, InLine(p)'.user = InLine(r)'.user
               PROVE  InLine(p)'.id < InLine(r)'.id
    BY DEF LineInOrder
  <2>1. p + d \in Line /\ InLine(p)' = InLine(p + d) /\ r + d \in Line /\ InLine(r)' = InLine(r + d)
    OBVIOUS
  <2>2. p + d < r + d
    <3>1. p \in Nat /\ r \in Nat OBVIOUS
    <3> QED BY <3>1
  <2> QED BY <1>0, <2>1, <2>2 DEF LineInOrder
<1>7. AnsweredFirst' BY <1>0 DEF AnsweredFirst
<1> QED BY <1>2, <1>3, <1>4, <1>5, <1>6, <1>7 DEF AnswerInv

(* A step that leaves the line alone.                                      *)
LEMMA LineStays ==
  ASSUME ReqTypes, AnswerInv, UNCHANGED <<answered, accepted, s_q>>,
         UNCHANGED n \/ reqPc' \notin {"run", "copy", "post"},
         (reqPc \in {"run", "copy", "post"}) <=> (reqPc' \in {"run", "copy", "post"}),
         ids' \in Nat, ids <= ids',
         \A c \in Clients : at'[c] # "out" =>
            /\ node'[c].user = c /\ node'[c].id \in Nat
            /\ (at[c] # "out" /\ node'[c].id = node[c].id) \/ ids < node'[c].id
  PROVE  AnswerInv'
<1>1. Line' = Line BY DEF Line
<1>2. ASSUME NEW p \in Line PROVE InLine(p)' = InLine(p)
  <2>1. CASE p = 0
    <3>1. reqPc \in {"run", "copy", "post"} BY <2>1 DEF Line
    <3> QED BY <2>1, <3>1 DEF InLine
  <2>2. CASE p # 0 BY <2>2 DEF InLine
  <2> QED BY <2>1, <2>2
<1>3. \A p \in Line : p \in Nat BY LineTypes DEF AnswerInv
<1>4. \A p \in Line : p + 0 = p /\ p - 0 = p BY <1>3
<1>5. \A p \in Line' : p + 0 \in Line /\ InLine(p)' = InLine(p + 0) BY <1>1, <1>2, <1>4
<1>6. \A p \in Line : p - 0 \in Line' /\ InLine(p - 0)' = InLine(p) BY <1>1, <1>2, <1>4
<1>7. Line' \subseteq Nat /\ 0 \in Nat BY <1>1, <1>3
<1> QED BY <1>5, <1>6, <1>7, LineMoves

(* Those who build a request while others step.                            *)
LEMMA BuildersStay ==
  ASSUME ReqInv, AnswerInv, UNCHANGED <<at, node>>
  PROVE  \A c \in Clients : at'[c] # "out" =>
            /\ node'[c].user = c /\ node'[c].id \in Nat
            /\ (at[c] # "out" /\ node'[c].id = node[c].id) \/ ids < node'[c].id
<1>1. \A c \in Clients : node[c].id \in Nat BY LineTypes DEF ReqInv, AnswerInv
<1> QED BY <1>1 DEF AnswerInv, UsersKnown, Building

LEMMA OthersKeepOrder ==
  ASSUME ReqInv, AnswerInv, CreateQueue \/ CreateTask \/ Transact \/ CopyRx \/ Free \/ \E c \in Clients : Scribble(c)
  PROVE  AnswerInv'
<1>1. ReqTypes /\ ids \in Nat /\ (reqBoot # "up" => reqPc = "none") BY DEF ReqInv, ReqTypes
<1>2. UNCHANGED <<answered, accepted, s_q, at, node, ids>>
  BY DEF CreateQueue, CreateTask, Transact, CopyRx, Free, Scribble, clientVars, reqWorkerVars
<1>3. /\ UNCHANGED n \/ reqPc' \notin {"run", "copy", "post"}
      /\ (reqPc \in {"run", "copy", "post"}) <=> (reqPc' \in {"run", "copy", "post"})
  BY <1>1 DEF CreateQueue, CreateTask, Transact, CopyRx, Free, Scribble, clientVars, reqWorkerVars
<1>4. ids' \in Nat /\ ids <= ids' BY <1>1, <1>2
<1> QED BY <1>1, <1>2, <1>3, <1>4, BuildersStay, LineStays

LEMMA BuildingKeepsOrder ==
  ASSUME ReqInv, AnswerInv, NEW c \in Clients,
         (\E s \in Shapes : AllocNode(c, s)) \/ CopyTx(c) \/ StageRx(c) \/ (Enqueue(c) /\ ~Room)
  PROVE  AnswerInv'
<1>1. /\ ReqTypes /\ ids \in Nat
      /\ node \in [Clients -> Node] /\ at \in [Clients -> {"out", "tx", "rx", "send"}]
      /\ \A d \in Clients : node[d].id \in Nat
  BY LineTypes DEF ReqInv, ReqTypes, AnswerInv
<1>2. UNCHANGED <<answered, accepted, s_q, n, reqPc>>
  BY DEF AllocNode, CopyTx, StageRx, Enqueue, reqWorkerVars
<1>3. ids' \in Nat /\ ids <= ids'
  <2>1. ids' = ids \/ ids' = ids + 1 BY DEF AllocNode, CopyTx, StageRx, Enqueue
  <2> QED BY <1>1, <2>1
<1>4. \A d \in Clients : at[d] # "out" => node[d].user = d BY DEF AnswerInv, UsersKnown, Building
<1>5. \A d \in Clients : d # c => at'[d] = at[d] /\ node'[d] = node[d]
  BY <1>1 DEF AllocNode, CopyTx, StageRx, Enqueue, Goto, Return
<1>6. at'[c] # "out" => /\ node'[c].user = c /\ node'[c].id \in Nat
                        /\ (at[c] # "out" /\ node'[c].id = node[c].id) \/ ids < node'[c].id
  <2>1. ASSUME NEW s \in Shapes, AllocNode(c, s)
        PROVE  at'[c] # "out" => /\ node'[c].user = c /\ node'[c].id \in Nat
                                 /\ (at[c] # "out" /\ node'[c].id = node[c].id) \/ ids < node'[c].id
    <3>1. at[c] = "out" /\ ids' = ids + 1 BY <2>1 DEF AllocNode
    <3>2. CASE at' = at BY <3>1, <3>2
    <3>3. CASE node' = [node EXCEPT ![c] = [NoNode EXCEPT !.id = ids', !.user = c, !.shape = s]]
      <4>1. node'[c].id = ids' /\ node'[c].user = c BY <1>1, <3>3 DEF NoNode
      <4>2. ids < ids' BY <1>1, <3>1
      <4> QED BY <1>3, <4>1, <4>2
    <3> QED BY <2>1, <3>2, <3>3 DEF AllocNode
  <2>2. ASSUME CopyTx(c) \/ StageRx(c) \/ Enqueue(c)
        PROVE  at'[c] # "out" => at[c] # "out" /\ node'[c].id = node[c].id /\ node'[c].user = node[c].user
    <3>1. at[c] # "out" BY <2>2 DEF CopyTx, StageRx, Enqueue
    <3>2. CASE Return(c) BY <1>1, <3>2 DEF Return
    <3>3. CASE node' = node BY <3>1, <3>3
    <3>4. CASE node' = [node EXCEPT ![c].bytes = txbuf[c], ![c].want = txbuf[c]]
      <4>1. node'[c].id = node[c].id /\ node'[c].user = node[c].user BY <1>1, <3>4 DEF Node
      <4> QED BY <3>1, <4>1
    <3> QED BY <2>2, <3>2, <3>3, <3>4 DEF CopyTx, StageRx, Enqueue
  <2> QED BY <1>1, <1>4, <2>1, <2>2
<1>7. \A d \in Clients : at'[d] # "out" =>
            /\ node'[d].user = d /\ node'[d].id \in Nat
            /\ (at[d] # "out" /\ node'[d].id = node[d].id) \/ ids < node'[d].id
  BY <1>1, <1>4, <1>5, <1>6
<1> QED BY <1>1, <1>2, <1>3, <1>7, LineStays

LEMMA TakeKeepsOrder ==
  ASSUME ReqInv, AnswerInv, Take
  PROVE  AnswerInv'
<1>1. /\ ReqTypes /\ ids \in Nat /\ s_q \in Seq(Node)
      /\ reqPc = "wait" /\ s_q # <<>> /\ n' = Head(s_q) /\ s_q' = Tail(s_q) /\ reqPc' = "run"
      /\ UNCHANGED <<answered, accepted, at, node, ids>>
  BY DEF ReqInv, ReqTypes, Take, clientVars
<1>2. /\ Len(s_q) \in Nat \ {0} /\ n' = s_q[1]
      /\ s_q' \in Seq(Node) /\ Len(s_q') = Len(s_q) - 1
      /\ \A p \in 1 .. Len(s_q) - 1 : s_q'[p] = s_q[p + 1]
  BY <1>1, HeadTailProperties, EmptySeq, LenProperties
<1> DEFINE l == Len(s_q)
<1>3. Line = 1 .. l
  <2>1. Line = {p \in 0 .. l : p # 0} BY <1>1 DEF Line
  <2> QED BY <1>2, <2>1
<1>4. Line' = 0 .. l - 1
  <2>1. Line' = {p \in 0 .. Len(s_q') : TRUE} BY <1>1 DEF Line
  <2> QED BY <1>2, <2>1
<1>5. ASSUME NEW p \in 0 .. l - 1 PROVE p + 1 \in 1 .. l /\ InLine(p)' = InLine(p + 1)
  <2>1. p + 1 \in 1 .. l /\ p + 1 # 0 BY <1>2
  <2>2. CASE p = 0 BY <1>2, <2>1, <2>2 DEF InLine
  <2>3. CASE p # 0
    <3>1. p \in 1 .. l - 1 BY <1>2, <2>3
    <3>2. s_q'[p] = s_q[p + 1] BY <1>2, <3>1
    <3> QED BY <2>1, <2>3, <3>2 DEF InLine
  <2> QED BY <2>2, <2>3
<1>6. ASSUME NEW p \in 1 .. l PROVE p - 1 \in 0 .. l - 1 /\ InLine(p - 1)' = InLine(p)
  <2>1. p - 1 \in 0 .. l - 1 /\ (p - 1) + 1 = p BY <1>2
  <2>2. InLine(p - 1)' = InLine((p - 1) + 1) BY <1>5, <2>1
  <2> QED BY <2>1, <2>2
<1>7. \A p \in Line' : p + 1 \in Line /\ InLine(p)' = InLine(p + 1) BY <1>3, <1>4, <1>5
<1>8. \A p \in Line : p - 1 \in Line' /\ InLine(p - 1)' = InLine(p) BY <1>3, <1>4, <1>6
<1>9. Line' \subseteq Nat /\ 1 \in Nat /\ ids' \in Nat /\ ids <= ids' BY <1>1, <1>2, <1>4
<1> HIDE DEF l
<1> QED BY <1>1, <1>7, <1>8, <1>9, BuildersStay, LineMoves

(* The worker answers the request at the head of the line, which is its    *)
(* client's first without an answer.                                       *)
LEMMA HeadIsNext ==
  ASSUME ReqInv, AnswerInv, reqPc \in {"run", "copy", "post"}
  PROVE  /\ 0 \in Line /\ n.user \in Clients
         /\ Len(answered[n.user]) + 1 \in 1 .. Len(accepted[n.user])
         /\ accepted[n.user][Len(answered[n.user]) + 1] = n.id
         /\ n.id \in Nat
<1> DEFINE u == n.user
           a == Len(answered[u]) + 1
<1>0. AcceptedRises /\ UsersKnown /\ LineIsWaiting /\ WaitingIsInLine /\ LineInOrder /\ AnsweredFirst
  BY DEF AnswerInv
<1>1. /\ \A p \in Line : p \in Nat /\ InLine(p).id \in Nat /\ InLine(p).user \in Clients
      /\ \A c \in Clients : Len(accepted[c]) \in Nat
      /\ \A c \in Clients : \A k \in 1 .. Len(accepted[c]) : accepted[c][k] \in Nat
      /\ Len(s_q) \in Nat
  BY <1>0, LineTypes DEF ReqInv
<1>2. 0 \in Line /\ InLine(0) = n BY <1>1 DEF Line, InLine
<1>3. u \in Clients /\ n.id \in Nat BY <1>1, <1>2
<1>4. Len(answered[u]) \in Nat
  <2>1. answered[u] \in Seq(Nat) BY <1>0, <1>3 DEF AnsweredFirst
  <2> QED BY <2>1, LenProperties
<1>5. PICK k \in 1 .. Len(accepted[u]) : k > Len(answered[u]) /\ accepted[u][k] = n.id
  BY <1>0, <1>2 DEF LineIsWaiting
<1>6. a \in 1 .. Len(accepted[u]) /\ (k # a => a < k)
  <2> DEFINE x == Len(answered[u])
             y == Len(accepted[u])
  <2>1. x \in Nat /\ y \in Nat /\ k \in 1 .. y /\ k > x BY <1>1, <1>3, <1>4, <1>5
  <2> HIDE DEF x, y
  <2>2. x + 1 \in 1 .. y /\ (k # x + 1 => x + 1 < k) BY <2>1
  <2> QED BY <2>2 DEF x, y
<1>8. a > Len(answered[u]) BY <1>4
<1>7. ASSUME k # a PROVE FALSE
  <2>1. PICK p \in Line : InLine(p).user = u /\ InLine(p).id = accepted[u][a]
    BY <1>0, <1>3, <1>6, <1>8 DEF WaitingIsInLine
  <2>2. accepted[u][a] < n.id BY <1>0, <1>3, <1>5, <1>6, <1>7 DEF AcceptedRises
  <2>3. accepted[u][a] \in Nat BY <1>1, <1>3, <1>6
  <2>4. p # 0 BY <1>2, <1>3, <2>1, <2>2, <2>3
  <2>5. 0 < p BY <1>1, <2>4
  <2>6. n.id < InLine(p).id BY <1>0, <1>2, <2>1, <2>5 DEF LineInOrder
  <2> HIDE DEF a
  <2> QED BY <1>3, <2>1, <2>2, <2>3, <2>6
<1> QED BY <1>2, <1>3, <1>5, <1>6, <1>7

LEMMA PostKeepsOrder ==
  ASSUME ReqInv, AnswerInv, PostEvent
  PROVE  AnswerInv'
<1> DEFINE u == n.user
           a == Len(answered[u]) + 1
<1>0. AcceptedRises /\ UsersKnown /\ LineIsWaiting /\ WaitingIsInLine /\ LineInOrder /\ AnsweredFirst
  BY DEF AnswerInv
<1>1. /\ \A p \in Line : p \in Nat /\ InLine(p).id \in Nat /\ InLine(p).user \in Clients
      /\ \A c \in Clients : Len(accepted[c]) \in Nat
      /\ \A c \in Clients : \A k \in 1 .. Len(accepted[c]) : accepted[c][k] \in Nat
      /\ Len(s_q) \in Nat
  BY <1>0, LineTypes DEF ReqInv
<1>2. /\ reqPc = "post" /\ reqPc' = "free" /\ UNCHANGED <<s_q, at, node, n, ids, accepted>>
      /\ answered' = [answered EXCEPT ![u] = Append(answered[u], n.id)]
  BY DEF PostEvent, Posts, clientVars
<1>3. /\ 0 \in Line /\ u \in Clients /\ a \in 1 .. Len(accepted[u]) /\ accepted[u][a] = n.id /\ n.id \in Nat
  BY <1>2, HeadIsNext
<1>4. answered \in [Clients -> Seq(Nat)] /\ answered[u] \in Seq(Nat) /\ Len(answered[u]) \in Nat
  <2>1. answered \in [Clients -> Seq(Nat)] BY <1>0 DEF AnsweredFirst
  <2>2. answered[u] \in Seq(Nat) BY <1>3, <2>1
  <2> QED BY <2>1, <2>2, LenProperties
<1>5. /\ answered'[u] = Append(answered[u], n.id)
      /\ \A c \in Clients : c # u => answered'[c] = answered[c]
      /\ answered'[u] \in Seq(Nat) /\ Len(answered'[u]) = a
      /\ answered'[u][a] = n.id
      /\ \A k \in 1 .. Len(answered[u]) : answered'[u][k] = answered[u][k]
  <2>1. answered'[u] = Append(answered[u], n.id) BY <1>2, <1>3, <1>4
  <2>2. /\ Append(answered[u], n.id) \in Seq(Nat) /\ Len(Append(answered[u], n.id)) = a
        /\ Append(answered[u], n.id)[a] = n.id
        /\ \A k \in 1 .. Len(answered[u]) : Append(answered[u], n.id)[k] = answered[u][k]
    BY <1>3, <1>4, AppendProperties
  <2>3. \A c \in Clients : c # u => answered'[c] = answered[c] BY <1>2, <1>3, <1>4
  <2> QED BY <2>1, <2>2, <2>3
<1>6. \A p \in Line' : p \in Line /\ p # 0 /\ 0 < p
  <2>1. Line' \subseteq Line \ {0} BY <1>2 DEF Line
  <2> QED BY <1>1, <2>1
<1>7. \A p \in Line : p # 0 => p \in Line' BY <1>2 DEF Line
<1>8. \A p \in Line : InLine(p)' = InLine(p) BY <1>2 DEF InLine
<1>9. InLine(0) = n BY DEF InLine
<1>10. AcceptedRises' BY <1>0, <1>2 DEF AcceptedRises
<1>11. UsersKnown' BY <1>0, <1>2, <1>6, <1>8 DEF UsersKnown, Building
<1>12. LineIsWaiting'
  <2> SUFFICES ASSUME NEW p \in Line'
               PROVE  \E k \in 1 .. Len(accepted[InLine(p).user]) :
                         k > Len(answered'[InLine(p).user]) /\ accepted[InLine(p).user][k] = InLine(p).id
    BY <1>2, <1>6, <1>8 DEF LineIsWaiting
  <2>1. p \in Line /\ 0 < p BY <1>6
  <2>2. PICK k \in 1 .. Len(accepted[InLine(p).user]) :
               k > Len(answered[InLine(p).user]) /\ accepted[InLine(p).user][k] = InLine(p).id
    BY <1>0, <2>1 DEF LineIsWaiting
  <2>3. CASE InLine(p).user # u BY <1>1, <1>5, <2>1, <2>2, <2>3
  <2>4. CASE InLine(p).user = u
    <3>1. n.id < InLine(p).id BY <1>0, <1>3, <1>9, <2>1, <2>4 DEF LineInOrder
    <3>2. k # a
      <4>1. accepted[u][k] = InLine(p).id /\ InLine(p).id \in Nat BY <1>1, <2>1, <2>2, <2>4
      <4> HIDE DEF a
      <4> QED BY <1>3, <3>1, <4>1
    <3>3. k > a BY <1>1, <1>3, <1>4, <2>2, <2>4, <3>2
    <3>4. k > Len(answered'[u]) BY <1>5, <3>3
    <3> QED BY <2>2, <2>4, <3>4
  <2> QED BY <2>3, <2>4
<1>13. WaitingIsInLine'
  <2> SUFFICES ASSUME NEW c \in Clients, NEW k \in 1 .. Len(accepted[c]), k > Len(answered'[c])
               PROVE  \E p \in Line' : InLine(p)'.user = c /\ InLine(p)'.id = accepted[c][k]
    BY <1>2 DEF WaitingIsInLine
  <2>1. k > Len(answered[c])
    <3>1. CASE c = u BY <1>1, <1>3, <1>4, <1>5, <3>1
    <3>2. CASE c # u BY <1>5, <3>2
    <3> QED BY <3>1, <3>2
  <2>2. PICK p \in Line : InLine(p).user = c /\ InLine(p).id = accepted[c][k]
    BY <1>0, <2>1 DEF WaitingIsInLine
  <2>3. p # 0
    <3>1. SUFFICES ASSUME p = 0 PROVE FALSE OBVIOUS
    <3>2. c = u /\ n.id = accepted[u][k] BY <1>9, <2>2, <3>1
    <3>3. a < k BY <1>1, <1>3, <1>5, <3>2
    <3>4. accepted[u][a] < accepted[u][k] BY <1>0, <1>3, <3>2, <3>3 DEF AcceptedRises
    <3> HIDE DEF a
    <3> QED BY <1>3, <3>2, <3>4
  <2> QED BY <1>7, <1>8, <2>2, <2>3
<1>14. LineInOrder' BY <1>0, <1>6, <1>8 DEF LineInOrder
<1>15. AnsweredFirst'
  <2>1. answered' \in [Clients -> Seq(Nat)] BY <1>2, <1>4, <1>5
  <2>2. ASSUME NEW c \in Clients
        PROVE  /\ Len(answered'[c]) <= Len(accepted[c])
               /\ \A k \in 1 .. Len(answered'[c]) : answered'[c][k] = accepted[c][k]
    <3>1. CASE c # u BY <1>0, <1>5, <3>1 DEF AnsweredFirst
    <3>2. CASE c = u
      <4>1. a <= Len(accepted[u]) BY <1>1, <1>3
      <4>2. \A k \in 1 .. Len(answered[u]) : answered[u][k] = accepted[u][k]
        BY <1>0, <1>3 DEF AnsweredFirst
      <4>3. \A k \in 1 .. a : k = a \/ k \in 1 .. Len(answered[u]) BY <1>4
      <4>4. \A k \in 1 .. a : answered'[u][k] = accepted[u][k] BY <1>3, <1>5, <4>2, <4>3
      <4> QED BY <1>5, <3>2, <4>1, <4>4
    <3> QED BY <3>1, <3>2
  <2> QED BY <1>2, <2>1, <2>2 DEF AnsweredFirst
<1> QED BY <1>10, <1>11, <1>12, <1>13, <1>14, <1>15 DEF AnswerInv

(* A request that submit hands to the queue stands last in line.           *)
LEMMA EnqueueKeepsOrder ==
  ASSUME ReqInv, AnswerInv, NEW c \in Clients, Enqueue(c), Room
  PROVE  AnswerInv'
<1> DEFINE l == Len(s_q) + 1
           a == Len(accepted[c]) + 1
           i == node[c].id
<1>0. AcceptedRises /\ UsersKnown /\ LineIsWaiting /\ WaitingIsInLine /\ LineInOrder /\ AnsweredFirst
  BY DEF AnswerInv
<1>1. /\ \A p \in Line : p \in Nat /\ p <= Len(s_q) /\ InLine(p).id \in Nat /\ InLine(p).user \in Clients
      /\ \A d \in Clients : accepted[d] \in Seq(Nat) /\ Len(accepted[d]) \in Nat
      /\ Len(s_q) \in Nat /\ i \in Nat
  BY <1>0, LineTypes DEF ReqInv
<1>2. /\ at[c] = "send" /\ s_q' = Append(s_q, node[c])
      /\ accepted' = [accepted EXCEPT ![c] = Append(accepted[c], i)]
      /\ at' = [at EXCEPT ![c] = "out"] /\ node' = [node EXCEPT ![c] = NoNode]
      /\ UNCHANGED <<ids, n, reqPc, answered>>
  BY DEF Enqueue, Queued, Return, reqWorkerVars
<1>3. /\ ids \in Nat /\ s_q \in Seq(Node) /\ node \in [Clients -> Node]
      /\ at \in [Clients -> {"out", "tx", "rx", "send"}] /\ accepted \in [Clients -> Seq(Nat)]
      /\ node[c] \in Node
  BY DEF ReqInv, ReqTypes
<1>4. at'[c] = "out" /\ \A d \in Clients : d # c => at'[d] = at[d] /\ node'[d] = node[d]
  BY <1>2, <1>3
<1>5. /\ accepted'[c] = Append(accepted[c], i)
      /\ \A d \in Clients : d # c => accepted'[d] = accepted[d]
      /\ Len(accepted'[c]) = a /\ accepted'[c][a] = i
      /\ \A k \in 1 .. Len(accepted[c]) : accepted'[c][k] = accepted[c][k]
  <2>1. accepted'[c] = Append(accepted[c], i) /\ \A d \in Clients : d # c => accepted'[d] = accepted[d]
    BY <1>2, <1>3
  <2>2. /\ Len(Append(accepted[c], i)) = a /\ Append(accepted[c], i)[a] = i
        /\ \A k \in 1 .. Len(accepted[c]) : Append(accepted[c], i)[k] = accepted[c][k]
    BY <1>1, AppendProperties
  <2> QED BY <2>1, <2>2
<1>6. a \in Nat /\ \A k \in 1 .. a : k = a \/ (k \in 1 .. Len(accepted[c]) /\ k < a)
  BY <1>1
<1>7. \A d \in Clients : \A k \in 1 .. Len(accepted[d]) :
         k \in 1 .. Len(accepted'[d]) /\ accepted'[d][k] = accepted[d][k]
  <2>1. \A k \in 1 .. Len(accepted[c]) : k \in 1 .. a BY <1>1
  <2> QED BY <1>5, <2>1
<1>8. /\ Len(s_q') = l /\ s_q'[l] = node[c] /\ \A p \in 1 .. Len(s_q) : s_q'[p] = s_q[p]
  BY <1>2, <1>3, AppendProperties
<1>9. /\ \A p \in Line' : p = l \/ p \in Line
      /\ l \in Line' /\ \A p \in Line : p \in Line' /\ p < l
  <2>1. 0 .. l = (0 .. Len(s_q)) \cup {l} /\ l # 0 /\ \A p \in 0 .. Len(s_q) : p < l BY <1>1
  <2> HIDE DEF l
  <2> QED BY <1>2, <1>8, <2>1 DEF Line
<1>10. /\ \A p \in Line' : p = l => InLine(p)' = node[c]
       /\ \A p \in Line : InLine(p)' = InLine(p)
  <2>1. l # 0 BY <1>1
  <2>2. \A p \in Line : p = 0 \/ p \in 1 .. Len(s_q) BY <1>1
  <2> HIDE DEF l
  <2>3. \A p \in Line' : p = l => InLine(p)' = node[c] BY <1>8, <2>1 DEF InLine
  <2>4. \A p \in Line : InLine(p)' = InLine(p) BY <1>2, <1>8, <2>2 DEF InLine
  <2> QED BY <2>3, <2>4
<1>11. node[c].user = c /\ i <= ids
  <2>1. c \in Building BY <1>2 DEF Building
  <2>2. i \in 1 .. ids BY <2>1 DEF ReqInv, RequestsApart, Building
  <2> HIDE DEF i
  <2> QED BY <1>0, <1>3, <2>1, <2>2 DEF UsersKnown
<1>12. \A k \in 1 .. Len(accepted[c]) : accepted[c][k] < i BY <1>0, <1>2 DEF AcceptedRises
<1> HIDE DEF l, i
<1>13. AcceptedRises'
  <2> SUFFICES ASSUME NEW d \in Clients, NEW k \in 1 .. Len(accepted'[d])
               PROVE  /\ accepted'[d][k] <= ids
                      /\ at'[d] # "out" => accepted'[d][k] < node'[d].id
                      /\ \A j \in 1 .. Len(accepted'[d]) : j < k => accepted'[d][j] < accepted'[d][k]
    BY <1>2 DEF AcceptedRises
  <2>1. CASE d # c BY <1>0, <1>4, <1>5, <2>1 DEF AcceptedRises
  <2>2. CASE d = c
    <3>1. accepted'[c][k] <= ids
      <4>1. CASE k = a BY <1>5, <1>11, <4>1
      <4>2. CASE k # a
        <5>1. k \in 1 .. Len(accepted[c]) BY <1>5, <1>6, <2>2, <4>2
        <5> QED BY <1>0, <1>5, <5>1 DEF AcceptedRises
      <4> QED BY <4>1, <4>2
    <3>2. ASSUME NEW j \in 1 .. a, j < k PROVE accepted'[c][j] < accepted'[c][k]
      <4>1. k \in 1 .. a BY <1>5, <2>2
      <4>2. j \in 1 .. Len(accepted[c]) BY <1>1, <1>6, <3>2, <4>1
      <4>3. CASE k = a BY <1>5, <1>12, <4>2, <4>3
      <4>4. CASE k # a
        <5>1. k \in 1 .. Len(accepted[c]) BY <1>6, <4>1, <4>4
        <5>2. accepted[c][j] < accepted[c][k] BY <1>0, <3>2, <4>2, <5>1 DEF AcceptedRises
        <5> QED BY <1>5, <4>2, <5>1, <5>2
      <4> QED BY <4>3, <4>4
    <3> QED BY <1>4, <1>5, <2>2, <3>1, <3>2
  <2> QED BY <2>1, <2>2
<1>14. UsersKnown'
  <2>1. \A p \in Line' : InLine(p)'.user \in Clients BY <1>0, <1>9, <1>10, <1>11 DEF UsersKnown
  <2>2. \A d \in Building' : d # c /\ d \in Building /\ node'[d] = node[d] BY <1>4 DEF Building
  <2> QED BY <1>0, <2>1, <2>2 DEF UsersKnown
<1>15. LineIsWaiting'
  <2> SUFFICES ASSUME NEW p \in Line'
               PROVE  \E k \in 1 .. Len(accepted'[InLine(p)'.user]) :
                         /\ k > Len(answered[InLine(p)'.user])
                         /\ accepted'[InLine(p)'.user][k] = InLine(p)'.id
    BY <1>2 DEF LineIsWaiting
  <2>1. CASE p \in Line
    <3>1. PICK k \in 1 .. Len(accepted[InLine(p).user]) :
             k > Len(answered[InLine(p).user]) /\ accepted[InLine(p).user][k] = InLine(p).id
      BY <1>0, <2>1 DEF LineIsWaiting
    <3> QED BY <1>1, <1>7, <1>10, <2>1, <3>1
  <2>2. CASE p = l
    <3>1. a \in 1 .. Len(accepted'[c]) BY <1>1, <1>5
    <3>2. a > Len(answered[c])
      <4>1. answered[c] \in Seq(Nat) /\ Len(answered[c]) <= Len(accepted[c]) BY <1>0 DEF AnsweredFirst
      <4>2. Len(answered[c]) \in Nat BY <4>1, LenProperties
      <4> QED BY <1>1, <4>1, <4>2
    <3>3. InLine(p)'.user = c /\ InLine(p)'.id = i BY <1>10, <1>11, <2>2 DEF i
    <3> QED BY <1>5, <3>1, <3>2, <3>3
  <2> QED BY <1>9, <2>1, <2>2
<1>16. WaitingIsInLine'
  <2> SUFFICES ASSUME NEW d \in Clients, NEW k \in 1 .. Len(accepted'[d]), k > Len(answered[d])
               PROVE  \E p \in Line' : InLine(p)'.user = d /\ InLine(p)'.id = accepted'[d][k]
    BY <1>2 DEF WaitingIsInLine
  <2>1. CASE k \in 1 .. Len(accepted[d])
    <3>1. PICK p \in Line : InLine(p).user = d /\ InLine(p).id = accepted[d][k]
      BY <1>0, <2>1 DEF WaitingIsInLine
    <3> QED BY <1>7, <1>9, <1>10, <2>1, <3>1
  <2>2. CASE k \notin 1 .. Len(accepted[d])
    <3>1. d = c /\ k = a BY <1>5, <1>6, <2>2
    <3> QED BY <1>5, <1>9, <1>10, <1>11, <3>1 DEF i
  <2> QED BY <2>1, <2>2
<1>17. LineInOrder'
  <2> SUFFICES ASSUME NEW p \in Line', NEW r \in Line', p < r, InLine(p)'.user = InLine(r)'.user
               PROVE  InLine(p)'.id < InLine(r)'.id
    BY DEF LineInOrder
  <2>1. p \in Line
    <3>1. SUFFICES ASSUME p = l PROVE FALSE BY <1>9
    <3>2. r = l \/ r < l BY <1>9
    <3>3. l \in Nat /\ r \in Nat BY <1>1, <1>9 DEF l
    <3> QED BY <3>1, <3>2, <3>3
  <2>2. CASE r \in Line BY <1>0, <1>10, <2>1, <2>2 DEF LineInOrder
  <2>3. CASE r = l
    <3>1. PICK k \in 1 .. Len(accepted[InLine(p).user]) : accepted[InLine(p).user][k] = InLine(p).id
      BY <1>0, <2>1 DEF LineIsWaiting
    <3>2. InLine(p).user = c BY <1>10, <1>11, <2>1, <2>3
    <3> QED BY <1>10, <1>12, <2>1, <2>3, <3>1, <3>2 DEF i
  <2> QED BY <1>9, <2>2, <2>3
<1>18. AnsweredFirst'
  <2>1. \A d \in Clients : Len(accepted[d]) <= Len(accepted'[d])
    <3>1. Len(accepted[c]) <= a BY <1>1
    <3> QED BY <1>1, <1>5, <3>1
  <2>2. ASSUME NEW d \in Clients
        PROVE  /\ Len(answered[d]) <= Len(accepted'[d])
               /\ \A k \in 1 .. Len(answered[d]) : answered[d][k] = accepted'[d][k]
    <3>1. /\ answered[d] \in Seq(Nat) /\ Len(answered[d]) <= Len(accepted[d])
          /\ \A k \in 1 .. Len(answered[d]) : answered[d][k] = accepted[d][k]
      BY <1>0 DEF AnsweredFirst
    <3>2. Len(answered[d]) \in Nat BY <3>1, LenProperties
    <3>3. Len(accepted'[d]) \in Nat BY <1>1, <1>5, <1>6
    <3>4. \A k \in 1 .. Len(answered[d]) : k \in 1 .. Len(accepted[d]) BY <1>1, <3>1, <3>2
    <3>5. Len(answered[d]) <= Len(accepted'[d]) BY <1>1, <2>1, <3>1, <3>2, <3>3
    <3> QED BY <1>7, <3>1, <3>4, <3>5
  <2> QED BY <1>0, <1>2, <2>2 DEF AnsweredFirst
<1> QED BY <1>13, <1>14, <1>15, <1>16, <1>17, <1>18 DEF AnswerInv

LEMMA OrderKeeps == ReqInv /\ AnswerInv /\ [ReqNext]_reqVars => AnswerInv'
<1> SUFFICES ASSUME ReqInv, AnswerInv, [ReqNext]_reqVars
             PROVE  AnswerInv'
  OBVIOUS
<1>1. CASE CreateQueue \/ CreateTask \/ Transact \/ CopyRx \/ Free \/ \E c \in Clients : Scribble(c)
  BY <1>1, OthersKeepOrder
<1>2. CASE Take BY <1>2, TakeKeepsOrder
<1>3. CASE PostEvent BY <1>3, PostKeepsOrder
<1>4. ASSUME NEW c \in Clients,
             (\E s \in Shapes : AllocNode(c, s)) \/ CopyTx(c) \/ StageRx(c) \/ (Enqueue(c) /\ ~Room)
      PROVE  AnswerInv'
  BY <1>4, BuildingKeepsOrder
<1>5. ASSUME NEW c \in Clients, Enqueue(c), Room PROVE AnswerInv' BY <1>5, EnqueueKeepsOrder
<1>6. CASE UNCHANGED reqVars
  <2>1. UNCHANGED <<answered, accepted, s_q, n, reqPc, at, node, ids>>
    BY <1>6 DEF reqVars, clientVars, reqWorkerVars
  <2>2. ReqTypes /\ ids \in Nat BY DEF ReqInv, ReqTypes
  <2>3. ids' \in Nat /\ ids <= ids' BY <2>1, <2>2
  <2> QED BY <2>1, <2>2, <2>3, BuildersStay, LineStays
<1> QED BY <1>1, <1>2, <1>3, <1>4, <1>5, <1>6 DEF ReqNext, Worker, Client

LEMMA OrderStarts == ReqInit => AnswerInv
<1> SUFFICES ASSUME ReqInit PROVE AnswerInv
  OBVIOUS
<1>1. /\ s_q = <<>> /\ reqPc = "none" /\ Len(s_q) = 0
      /\ \A c \in Clients : accepted[c] = <<>> /\ answered[c] = <<>> /\ at[c] = "out"
      /\ answered = [c \in Clients |-> <<>>]
  BY DEF ReqInit
<1>2. Line = {} BY <1>1 DEF Line
<1>3. \A c \in Clients : Len(accepted[c]) = 0 /\ Len(answered[c]) = 0 BY <1>1
<1>4. 1 .. 0 = {} OBVIOUS
<1>5. AcceptedRises /\ WaitingIsInLine BY <1>3, <1>4 DEF AcceptedRises, WaitingIsInLine
<1>6. UsersKnown /\ LineIsWaiting /\ LineInOrder
  BY <1>1, <1>2 DEF UsersKnown, LineIsWaiting, LineInOrder, Building
<1>7. AnsweredFirst
  <2>1. answered \in [Clients -> Seq(Nat)] BY <1>1
  <2> QED BY <1>3, <1>4, <2>1 DEF AnsweredFirst
<1> QED BY <1>5, <1>6, <1>7 DEF AnswerInv

(* However many clients submit, wherever their submits stop for want of    *)
(* memory or room, and whichever transactions fail: the answers a client   *)
(* has got are to its first requests that were accepted, in their order,   *)
(* one to each.                                                            *)
THEOREM AnswersComeInOrder == ReqSpec => []AnsweredInOrder
<1>1. ReqInv /\ AnswerInv => AnsweredInOrder
  <2> SUFFICES ASSUME ReqInv, AnswerInv, NEW c \in Clients
               PROVE  IsPrefix(answered[c], accepted[c])
    BY DEF AnsweredInOrder
  <2>1. /\ answered[c] \in Seq(Nat) /\ Len(answered[c]) <= Len(accepted[c])
        /\ \A k \in 1 .. Len(answered[c]) : answered[c][k] = accepted[c][k]
    BY DEF AnswerInv, AnsweredFirst
  <2>2. accepted[c] \in Seq(Nat) BY DEF ReqInv, ReqTypes
  <2> DEFINE w == Len(answered[c])
  <2>3. w \in Nat /\ Len(accepted[c]) \in Nat BY <2>1, <2>2, LenProperties
  <2>4. SubSeq(accepted[c], 1, w) = SubSeq(answered[c], 1, w)
    <3>1. SubSeq(accepted[c], 1, w) = [k \in 1 .. w |-> accepted[c][k]] BY <2>1, <2>2, <2>3
    <3>2. SubSeq(answered[c], 1, w) = [k \in 1 .. w |-> answered[c][k]] BY <2>1, <2>3
    <3> QED BY <2>1, <3>1, <3>2
  <2> QED BY <2>1, <2>4 DEF IsPrefix
<1> QED BY <1>1, ReqStarts, ReqKeeps, OrderStarts, OrderKeeps, PTL DEF ReqSpec

(* Readings.  A reading that was reported is one that was answered, so     *)
(* what the worker copies next is a later one.                             *)
DataInv ==
  /\ rxbuf \in [Clients -> Nat] /\ told \in [Clients -> Nat]
  /\ \A c \in Clients : told[c] <= rxbuf[c]
  /\ \A c \in Clients : told[c] = 0 \/ \E k \in 1 .. Len(answered[c]) : answered[c][k] = told[c]
  /\ reqPc = "post" /\ Reads => rxbuf[n.user] = n.id

LEMMA NextIsLater ==
  ASSUME ReqInv, AnswerInv, DataInv, reqPc \in {"run", "copy", "post"}
  PROVE  n.user \in Clients /\ n.id \in Nat /\ told[n.user] <= n.id
<1> DEFINE u == n.user
           a == Len(answered[u]) + 1
<1>1. /\ u \in Clients /\ a \in 1 .. Len(accepted[u]) /\ accepted[u][a] = n.id /\ n.id \in Nat
  BY HeadIsNext
<1>2. CASE told[u] = 0 BY <1>1, <1>2
<1>3. ASSUME NEW k \in 1 .. Len(answered[u]), answered[u][k] = told[u]
      PROVE  told[u] <= n.id
  <2>1. /\ answered[u] \in Seq(Nat) /\ Len(answered[u]) <= Len(accepted[u])
        /\ answered[u][k] = accepted[u][k]
    BY <1>1 DEF AnswerInv, AnsweredFirst
  <2>2. Len(answered[u]) \in Nat /\ Len(accepted[u]) \in Nat
    <3>1. Len(answered[u]) \in Nat BY <2>1, LenProperties
    <3>2. accepted[u] \in Seq(Nat) BY <1>1 DEF ReqInv, ReqTypes
    <3> QED BY <3>1, <3>2, LenProperties
  <2>3. k < a /\ k \in 1 .. Len(accepted[u]) BY <2>1, <2>2
  <2>4. accepted[u][k] < accepted[u][a] BY <1>1, <2>3 DEF AnswerInv, AcceptedRises
  <2>5. told[u] \in Nat BY <1>1 DEF DataInv
  <2> HIDE DEF a
  <2> QED BY <1>1, <1>3, <2>1, <2>4, <2>5
<1> QED BY <1>1, <1>2, <1>3 DEF DataInv

LEMMA DataKeeps == ReqInv /\ AnswerInv /\ DataInv /\ [ReqNext]_reqVars => DataInv'
<1> SUFFICES ASSUME ReqInv, AnswerInv, DataInv, [ReqNext]_reqVars
             PROVE  DataInv'
  OBVIOUS
<1>1. ASSUME UNCHANGED <<rxbuf, told, answered>>,
             reqPc' # "post" \/ UNCHANGED <<reqPc, n, ok>>
      PROVE  DataInv'
  BY <1>1 DEF DataInv, Reads
<1>2. CASE CreateQueue BY <1>1, <1>2 DEF CreateQueue, reqWorkerVars
<1>3. CASE CreateTask
  <2>1. UNCHANGED <<rxbuf, told, answered, n, ok>> /\ (reqPc' = "wait" \/ reqPc' = reqPc)
    BY <1>3 DEF CreateTask
  <2> QED BY <1>1, <2>1
<1>4. CASE Take BY <1>1, <1>4 DEF Take
<1>5. CASE Transact BY <1>1, <1>5 DEF Transact
<1>6. CASE Free BY <1>1, <1>6 DEF Free
<1>7. CASE CopyRx
  <2>1. /\ reqPc = "copy" /\ UNCHANGED <<told, answered, n, ok>>
        /\ rxbuf' = IF Reads THEN [rxbuf EXCEPT ![n.user] = n.id] ELSE rxbuf
    BY <1>7 DEF CopyRx
  <2>2. n.user \in Clients /\ n.id \in Nat /\ told[n.user] <= n.id BY <2>1, NextIsLater
  <2>3. Reads' <=> Reads BY <2>1 DEF Reads
  <2>4. CASE Reads
    <3>1. rxbuf' = [rxbuf EXCEPT ![n.user] = n.id] BY <2>1, <2>4
    <3>2. rxbuf' \in [Clients -> Nat] /\ rxbuf'[n.user] = n.id BY <2>2, <3>1 DEF DataInv
    <3>3. \A c \in Clients : told[c] <= rxbuf'[c] BY <2>2, <3>1 DEF DataInv
    <3> QED BY <2>1, <3>2, <3>3 DEF DataInv
  <2>5. CASE ~Reads
    <3>1. rxbuf' = rxbuf BY <2>1, <2>5
    <3> QED BY <2>1, <2>3, <2>5, <3>1 DEF DataInv
  <2> QED BY <2>4, <2>5
<1>8. CASE PostEvent
  <2> DEFINE u == n.user
             a == Len(answered[u]) + 1
  <2>1. /\ reqPc = "post" /\ reqPc' = "free" /\ rxbuf' = rxbuf
        /\ answered' = [answered EXCEPT ![u] = Append(answered[u], n.id)]
        /\ told' = IF Reads THEN [told EXCEPT ![u] = n.id] ELSE told
    BY <1>8 DEF PostEvent, Posts, Reads
  <2>2. u \in Clients /\ n.id \in Nat BY <2>1, NextIsLater
  <2>3. answered \in [Clients -> Seq(Nat)] /\ answered[u] \in Seq(Nat) /\ Len(answered[u]) \in Nat
    <3>1. answered \in [Clients -> Seq(Nat)] BY DEF AnswerInv, AnsweredFirst
    <3>2. answered[u] \in Seq(Nat) BY <2>2, <3>1
    <3> QED BY <3>1, <3>2, LenProperties
  <2>4. /\ answered'[u] = Append(answered[u], n.id)
        /\ \A c \in Clients : c # u => answered'[c] = answered[c]
    BY <2>1, <2>2, <2>3
  <2>5. /\ Len(answered'[u]) = a /\ answered'[u][a] = n.id
        /\ \A k \in 1 .. Len(answered[u]) : answered'[u][k] = answered[u][k]
    BY <2>2, <2>3, <2>4, AppendProperties
  <2>6. a \in 1 .. Len(answered'[u]) /\ \A k \in 1 .. Len(answered[u]) : k \in 1 .. Len(answered'[u])
    BY <2>3, <2>5
  <2>7. told' \in [Clients -> Nat] BY <2>1, <2>2 DEF DataInv
  <2>8. \A c \in Clients : told'[c] = told[c] \/ (c = u /\ Reads /\ told'[c] = n.id)
    BY <2>1, <2>2 DEF DataInv
  <2>9. \A c \in Clients : told'[c] <= rxbuf[c] BY <2>1, <2>2, <2>8 DEF DataInv
  <2> HIDE DEF a
  <2>10. ASSUME NEW c \in Clients
         PROVE  told'[c] = 0 \/ \E k \in 1 .. Len(answered'[c]) : answered'[c][k] = told'[c]
    <3>1. CASE c = u /\ told'[c] = n.id BY <2>5, <2>6, <3>1
    <3>2. CASE told'[c] = told[c] /\ c = u BY <2>5, <2>6, <3>2 DEF DataInv
    <3>3. CASE told'[c] = told[c] /\ c # u BY <2>4, <3>3 DEF DataInv
    <3> QED BY <2>8, <3>1, <3>2, <3>3
  <2> QED BY <2>1, <2>7, <2>9, <2>10 DEF DataInv
<1>9. ASSUME NEW c \in Clients, Client(c) PROVE DataInv'
  BY <1>1, <1>9 DEF Client, AllocNode, CopyTx, StageRx, Enqueue, Scribble, reqWorkerVars
<1>10. CASE UNCHANGED reqVars BY <1>1, <1>10 DEF reqVars, reqWorkerVars
<1> QED BY <1>2, <1>3, <1>4, <1>5, <1>6, <1>7, <1>8, <1>9, <1>10 DEF ReqNext, Worker

LEMMA DataStarts == ReqInit => DataInv
<1> SUFFICES ASSUME ReqInit PROVE DataInv
  OBVIOUS
<1>1. rxbuf = [c \in Clients |-> 0] /\ told = [c \in Clients |-> 0] /\ reqPc = "none" BY DEF ReqInit
<1> QED BY <1>1 DEF DataInv

(* A client that is told of a reading finds this one in its buffer, or a   *)
(* later one of its own, whatever other requests failed on the way.        *)
THEOREM ReportedDataIsThere == ReqSpec => []DoneMeansDataThere
<1>1. DataInv => DoneMeansDataThere
  <2> SUFFICES ASSUME DataInv, NEW c \in Clients PROVE rxbuf[c] >= told[c]
    BY DEF DoneMeansDataThere
  <2>1. rxbuf[c] \in Nat /\ told[c] \in Nat /\ told[c] <= rxbuf[c] BY DEF DataInv
  <2> QED BY <2>1
<1> QED
  BY <1>1, ReqStarts, ReqKeeps, OrderStarts, OrderKeeps, DataStarts, DataKeeps, PTL DEF ReqSpec

-----------------------------------------------------------------------------
(* UartService.  What the ring, the noted positions and the worker's       *)
(* request have to do with each other.                                     *)
UartBytes == {"x", "nl"}

RingInv ==
  /\ ring \in Seq(UartBytes) /\ patpos \in Seq(Nat) /\ want \in Nat /\ byLine \in BOOLEAN
  /\ \A k \in DOMAIN patpos : patpos[k] < Len(ring) /\ ring[patpos[k] + 1] = "nl"
  /\ uartPc \in {"pop", "read"} => want <= Len(ring)
  /\ uartPc = "pop" => ~byLine
  /\ uartPc = "read" /\ byLine => want > 0 /\ ring[want] = "nl"
  /\ LinesEndWithPattern

LEMMA LastPatternIs ==
  ASSUME NEW c \in Chunks, Contains(c, "nl")
  PROVE  /\ LastPattern(c) \in DOMAIN c /\ c[LastPattern(c)] = "nl"
         /\ PromptInterrupts => LastPattern(c) = Len(c)
<1> DEFINE S == {k \in DOMAIN c : c[k] = "nl"}
           m == Max(S)
<1>1. c \in Seq(UartBytes) /\ Len(c) \in Nat BY UartAssumption DEF UartBytes
<1>2. S \subseteq 0 .. Len(c) /\ S # {} BY <1>1 DEF Contains
<1>3. m \in S /\ \A y \in S : y <= m
  <2> HIDE DEF S
  <2> QED BY <1>1, <1>2, MaxIs
<1> HIDE DEF m
<1>4. \A l \in m + 1 .. Len(c) : c[l] # "nl"
  <2> SUFFICES ASSUME NEW l \in m + 1 .. Len(c), c[l] = "nl" PROVE FALSE OBVIOUS
  <2>1. m \in 1 .. Len(c) BY <1>1, <1>3
  <2>2. l \in S BY <1>1, <2>1
  <2>3. l <= m BY <1>3, <2>2
  <2> QED BY <2>1, <2>3
<1>5. LastPattern(c) \in DOMAIN c /\ c[LastPattern(c)] = "nl"
  BY <1>3, <1>4 DEF LastPattern
<1> QED BY <1>5 DEF PromptInterrupts

(* Reading n bytes forgets a number of positions and moves the others.     *)
LEMMA PositionsLeftAre ==
  ASSUME patpos \in Seq(Nat), NEW b \in Nat
  PROVE  \E g \in 0 .. Len(patpos) :
           /\ PositionsLeft(b) = [k \in 1 .. Len(patpos) - g |-> patpos[g + k] - b]
           /\ \A k \in 1 .. Len(patpos) - g : g + k \in DOMAIN patpos /\ patpos[g + k] - b \in Nat
<1> DEFINE S == {0} \cup {k \in DOMAIN patpos : patpos[k] < b}
           g == Max(S)
<1>1. Len(patpos) \in Nat /\ DOMAIN patpos = 1 .. Len(patpos) OBVIOUS
<1>2. S \subseteq 0 .. Len(patpos) /\ S # {} BY <1>1
<1>3. g \in S /\ \A y \in S : y <= g
  <2> HIDE DEF S
  <2> QED BY <1>1, <1>2, MaxIs
<1>4. PositionsLeft(b) = [k \in 1 .. Len(patpos) - g |-> patpos[g + k] - b]
  BY DEF PositionsLeft
<1> HIDE DEF g
<1>5. g \in 0 .. Len(patpos) BY <1>2, <1>3
<1>6. ASSUME NEW k \in 1 .. Len(patpos) - g
      PROVE  g + k \in DOMAIN patpos /\ patpos[g + k] - b \in Nat
  <2>1. g + k \in DOMAIN patpos /\ g + k > g BY <1>1, <1>5
  <2>2. patpos[g + k] \in Nat BY <2>1
  <2>3. ~(patpos[g + k] < b)
    <3>1. g + k \notin S BY <1>3, <1>5, <2>1
    <3> QED BY <2>1, <3>1
  <2> QED BY <2>1, <2>2, <2>3
<1> QED BY <1>4, <1>5, <1>6

LEMMA RingInterrupt ==
  ASSUME RingInv, NEW c \in Chunks, RxInterrupt(c)
  PROVE  RingInv'
<1>1. /\ c \in Seq(UartBytes) /\ ring \in Seq(UartBytes) /\ patpos \in Seq(Nat)
      /\ Len(c) \in Nat /\ Len(ring) \in Nat
  BY UartAssumption DEF RingInv, UartBytes
<1>2. /\ ring' = ring \o c
      /\ patpos' = IF DetectsPattern /\ Contains(c, "nl") /\ Len(patpos) < EvDepth
                   THEN Append(patpos, Len(ring) + LastPattern(c) - 1) ELSE patpos
      /\ want' = want /\ byLine' = byLine /\ uartPc' = uartPc /\ frame' = frame
  BY DEF RxInterrupt, uartWorkerVars
<1>3. /\ ring' \in Seq(UartBytes) /\ Len(ring') = Len(ring) + Len(c)
      /\ \A i \in 1 .. Len(ring) : ring'[i] = ring[i]
      /\ \A i \in 1 .. Len(c) : ring'[Len(ring) + i] = c[i]
  BY <1>1, <1>2
<1>4. ASSUME NEW p \in Nat, p < Len(ring), ring[p + 1] = "nl"
      PROVE  p < Len(ring') /\ ring'[p + 1] = "nl"
  BY <1>1, <1>3, <1>4, SMTT(30)
<1>5. /\ patpos' \in Seq(Nat)
      /\ \A k \in DOMAIN patpos' : patpos'[k] < Len(ring') /\ ring'[patpos'[k] + 1] = "nl"
  <2>1. \A k \in DOMAIN patpos : patpos[k] < Len(ring') /\ ring'[patpos[k] + 1] = "nl"
    BY <1>1, <1>4 DEF RingInv
  <2>2. CASE patpos' = patpos BY <1>1, <2>1, <2>2
  <2>3. CASE patpos' # patpos
    <3> DEFINE l == LastPattern(c)
               p == Len(ring) + l - 1
    <3>1. l \in 1 .. Len(c) /\ c[l] = "nl" BY <1>1, <1>2, <2>3, LastPatternIs
    <3>2. patpos' = Append(patpos, p) BY <1>2, <2>3
    <3> HIDE DEF l
    <3>3. p \in Nat /\ p < Len(ring') /\ p + 1 = Len(ring) + l BY <1>1, <1>3, <3>1
    <3>4. ring'[p + 1] = "nl" BY <1>3, <3>1, <3>3
    <3> HIDE DEF p
    <3>5. /\ patpos' \in Seq(Nat) /\ DOMAIN patpos' = DOMAIN patpos \cup {Len(patpos) + 1}
          /\ \A k \in DOMAIN patpos : patpos'[k] = patpos[k]
          /\ patpos'[Len(patpos) + 1] = p
      BY <1>1, <3>2, <3>3
    <3> QED BY <2>1, <3>3, <3>4, <3>5
  <2> QED BY <2>2, <2>3
<1>6. want \in Nat /\ byLine \in BOOLEAN BY DEF RingInv
<1>7. uartPc' \in {"pop", "read"} => want' <= Len(ring') BY <1>1, <1>2, <1>3, <1>6 DEF RingInv
<1>8. uartPc' = "read" /\ byLine' => want' > 0 /\ ring'[want'] = "nl"
  <2> SUFFICES ASSUME uartPc = "read", byLine PROVE want > 0 /\ ring'[want] = "nl" BY <1>2
  <2>1. want \in 1 .. Len(ring) /\ ring[want] = "nl" BY <1>1, <1>6 DEF RingInv
  <2> QED BY <1>3, <2>1
<1> QED BY <1>2, <1>3, <1>5, <1>6, <1>7, <1>8 DEF RingInv, LinesEndWithPattern

LEMMA RingTake ==
  ASSUME RingInv, want > 0, want <= Len(ring), TakeBytes(want),
         want' = want, byLine' = byLine, uartPc' \in {"publish", "select"},
         uartPc' = "publish" => uartPc = "read" /\ frame' = SubSeq(ring, 1, want)
  PROVE  RingInv'
<1>1. /\ ring \in Seq(UartBytes) /\ patpos \in Seq(Nat) /\ want \in Nat /\ byLine \in BOOLEAN
      /\ Len(ring) \in Nat
  BY DEF RingInv
<1>2. /\ ring' \in Seq(UartBytes) /\ Len(ring') = Len(ring) - want
      /\ \A i \in 1 .. Len(ring) - want : ring'[i] = ring[want + i]
  BY <1>1 DEF TakeBytes
<1>3. PICK g \in 0 .. Len(patpos) :
         /\ PositionsLeft(want) = [k \in 1 .. Len(patpos) - g |-> patpos[g + k] - want]
         /\ \A k \in 1 .. Len(patpos) - g : g + k \in DOMAIN patpos /\ patpos[g + k] - want \in Nat
  BY <1>1, PositionsLeftAre
<1>4. patpos' = [k \in 1 .. Len(patpos) - g |-> patpos[g + k] - want] BY <1>3 DEF TakeBytes
<1>5. patpos' \in Seq(Nat) /\ DOMAIN patpos' = 1 .. Len(patpos) - g
  <2> DEFINE m == Len(patpos) - g
  <2>1. m \in Nat BY <1>1
  <2>2. \A k \in 1 .. m : patpos[g + k] - want \in Nat BY <1>3
  <2>3. patpos' = [k \in 1 .. m |-> patpos[g + k] - want] BY <1>4
  <2> HIDE DEF m
  <2>4. patpos' \in Seq(Nat) /\ DOMAIN patpos' = 1 .. m BY <2>1, <2>2, <2>3
  <2> QED BY <2>4 DEF m
<1>6. ASSUME NEW k \in DOMAIN patpos'
      PROVE  patpos'[k] < Len(ring') /\ ring'[patpos'[k] + 1] = "nl"
  <2> DEFINE p == patpos[g + k]
  <2>1. patpos'[k] = p - want /\ p - want \in Nat /\ g + k \in DOMAIN patpos BY <1>3, <1>4, <1>5
  <2>2. p \in Nat /\ p < Len(ring) /\ ring[p + 1] = "nl" BY <1>1, <2>1 DEF RingInv
  <2> HIDE DEF p
  <2>3. /\ p - want < Len(ring) - want /\ (p - want) + 1 \in 1 .. Len(ring) - want
        /\ want + ((p - want) + 1) = p + 1
    BY <1>1, <2>1, <2>2
  <2> QED BY <1>2, <2>1, <2>2, <2>3
<1>7. LinesEndWithPattern'
  <2> SUFFICES ASSUME uartPc' = "publish", byLine PROVE Last(frame') = "nl"
    BY DEF LinesEndWithPattern
  <2>1. ring[want] = "nl" /\ frame' = SubSeq(ring, 1, want) BY DEF RingInv
  <2>2. Len(frame') = want /\ frame'[want] = ring[want] BY <1>1, <2>1
  <2> QED BY <2>1, <2>2 DEF Last
<1> QED BY <1>1, <1>2, <1>5, <1>6, <1>7 DEF RingInv

LEMMA RingKeeps == RingInv /\ [UartNext]_uartVars => RingInv'
<1> SUFFICES ASSUME RingInv, [UartNext]_uartVars
             PROVE  RingInv'
  OBVIOUS
<1>1. ASSUME ring' = ring, patpos' = patpos, want' = want, byLine' = byLine, frame' = frame,
             uartPc' = uartPc \/ uartPc' \in {"select", "measure", "write"}
      PROVE  RingInv'
  BY <1>1 DEF RingInv, LinesEndWithPattern
<1>2. CASE StartStep
  <2>1. ring' = ring /\ want' = want /\ byLine' = byLine /\ frame' = frame
    BY <1>2 DEF StartStep, CreatePort, UartStartAgain, EnablePattern, SubscribeTx, CreateSet,
       AddRxToSet, AddTxToSet, StartWorker, driverVars, uartWorkerVars
  <2>2. uartPc' = uartPc \/ uartPc' = "select"
    BY <1>2 DEF StartStep, CreatePort, UartStartAgain, EnablePattern, SubscribeTx, CreateSet,
       AddRxToSet, AddTxToSet, StartWorker, uartWorkerVars
  <2>3. patpos' = patpos \/ patpos' = <<>>
    BY <1>2 DEF StartStep, CreatePort, UartStartAgain, EnablePattern, SubscribeTx, CreateSet,
       AddRxToSet, AddTxToSet, StartWorker, driverVars
  <2>4. CASE patpos' = patpos BY <1>1, <2>1, <2>2, <2>4
  <2>5. CASE patpos' = <<>>
    <3>1. patpos' \in Seq(Nat) /\ DOMAIN patpos' = {} BY <2>5
    <3> QED BY <2>1, <2>2, <3>1 DEF RingInv, LinesEndWithPattern
  <2> QED BY <2>3, <2>4, <2>5
<1>3. CASE SelectRx BY <1>1, <1>3 DEF SelectRx
<1>4. CASE SelectTx BY <1>1, <1>4 DEF SelectTx, driverVars
<1>5. CASE Measure
  <2>1. /\ ring' = ring /\ patpos' = patpos /\ want' = Len(ring) /\ byLine' = FALSE
        /\ uartPc' \in {"pop", "read"}
    BY <1>5 DEF Measure, driverVars
  <2>2. ring \in Seq(UartBytes) BY DEF RingInv
  <2>3. want' \in Nat /\ want' <= Len(ring) BY <2>1, <2>2
  <2>4. patpos' \in Seq(Nat) /\ byLine' \in BOOLEAN BY <2>1 DEF RingInv
  <2>5. \A k \in DOMAIN patpos' : patpos'[k] < Len(ring') /\ ring'[patpos'[k] + 1] = "nl"
    BY <2>1 DEF RingInv
  <2>6. ~byLine' /\ uartPc' # "publish" BY <2>1
  <2> QED BY <2>1, <2>2, <2>3, <2>4, <2>5, <2>6 DEF RingInv, LinesEndWithPattern
<1>6. CASE PopPattern
  <2>1. uartPc = "pop" /\ uartPc' = "read" /\ ring' = ring BY <1>6 DEF PopPattern
  <2>2. CASE patpos = <<>>
    <3>1. want' = want /\ byLine' = byLine /\ patpos' = patpos BY <1>6, <2>2 DEF PopPattern
    <3> QED BY <2>1, <3>1 DEF RingInv, LinesEndWithPattern
  <2>3. CASE patpos # <<>>
    <3>1. want' = patpos[1] + 1 /\ byLine' = TRUE /\ patpos' = Tail(patpos)
      BY <1>6, <2>3 DEF PopPattern, LineLength
    <3>2. ring \in Seq(UartBytes) /\ patpos \in Seq(Nat) BY DEF RingInv
    <3>3. 1 \in DOMAIN patpos /\ Len(ring) \in Nat BY <2>3, <3>2
    <3>4. patpos[1] \in Nat /\ patpos[1] < Len(ring) /\ ring[patpos[1] + 1] = "nl"
      BY <3>2, <3>3 DEF RingInv
    <3>5. /\ patpos' \in Seq(Nat)
          /\ \A k \in DOMAIN patpos' : k + 1 \in DOMAIN patpos /\ patpos'[k] = patpos[k + 1]
      BY <2>3, <3>1, <3>2
    <3>6. \A k \in DOMAIN patpos' : patpos'[k] < Len(ring) /\ ring[patpos'[k] + 1] = "nl"
      BY <3>5 DEF RingInv
    <3>7. want' \in Nat /\ want' <= Len(ring) /\ want' > 0 /\ ring[want'] = "nl"
      BY <3>1, <3>3, <3>4
    <3> QED BY <2>1, <3>1, <3>2, <3>5, <3>6, <3>7 DEF RingInv, LinesEndWithPattern
  <2> QED BY <2>2, <2>3
<1>7. CASE ReadNothing BY <1>1, <1>7 DEF ReadNothing, driverVars
<1>8. CASE ReadIntoSlot
  <2>1. want <= Len(ring) BY <1>8 DEF ReadIntoSlot, RingInv
  <2> QED BY <1>8, <2>1, RingTake DEF ReadIntoSlot
<1>9. CASE ReadIntoTrash
  <2>1. want <= Len(ring) BY <1>9 DEF ReadIntoTrash, RingInv
  <2> QED BY <1>9, <2>1, RingTake DEF ReadIntoTrash, Trashed
<1>10. CASE PublishFrame BY <1>1, <1>10 DEF PublishFrame, driverVars
<1>11. CASE WriteOut BY <1>1, <1>11 DEF WriteOut, driverVars
<1>12. ASSUME NEW c \in Chunks, RxInterrupt(c) PROVE RingInv' BY <1>12, RingInterrupt
<1>13. CASE RequestTx BY <1>1, <1>13 DEF RequestTx, driverVars, uartWorkerVars
<1>14. CASE PostOther BY <1>1, <1>14 DEF PostOther, driverVars, uartWorkerVars
<1>15. CASE UNCHANGED uartVars BY <1>1, <1>15 DEF uartVars, driverVars, uartWorkerVars
<1> QED
  BY <1>2, <1>3, <1>4, <1>5, <1>6, <1>7, <1>8, <1>9, <1>10, <1>11, <1>12, <1>13, <1>14, <1>15
  DEF UartNext, WorkerStep

LEMMA RingStarts == UartInit => RingInv
<1> SUFFICES ASSUME UartInit PROVE RingInv OBVIOUS
<1>1. ring = <<>> /\ patpos = <<>> /\ want = 0 /\ byLine = FALSE /\ uartPc = "none"
  BY DEF UartInit
<1>2. ring \in Seq(UartBytes) /\ patpos \in Seq(Nat) /\ DOMAIN patpos = {} BY <1>1
<1> QED BY <1>1, <1>2 DEF RingInv, LinesEndWithPattern

(* A frame that was cut at a pattern position ends with the pattern        *)
(* character, whatever chunks the interrupts bring and however many        *)
(* positions the driver notes.                                             *)
THEOREM LinesAreWhole == UartSpec => []LinesEndWithPattern
<1>1. RingInv => LinesEndWithPattern BY DEF RingInv
<1> QED BY <1>1, RingStarts, RingKeeps, PTL DEF UartSpec

(* Which event will make the worker look at which position: the positions  *)
(* are noted by pattern events that are still to come, in this order, and  *)
(* the last event there is has noted the last byte.                        *)
UartEvents == {"data", "pattern"}

Pending == IF uartPc \in {"measure", "pop"} THEN <<evt>> \o evq ELSE evq

Noted(w) ==
  /\ \A k \in DOMAIN patpos : w[k] \in DOMAIN Pending /\ Pending[w[k]] = "pattern"
  /\ \A k \in DOMAIN patpos, l \in DOMAIN patpos : k < l => w[k] < w[l]
  /\ \A k \in DOMAIN patpos : w[k] = Len(Pending) => patpos[k] = Len(ring) - 1

AllCovered ==
  /\ \E w \in [DOMAIN patpos -> Nat] : Noted(w)
  /\ evq = <<>> /\ uartPc \in {"pop", "read"} => want = Len(ring)
  /\ evq = <<>> /\ uartPc \notin {"measure", "pop", "read"} => ring = <<>>

CoverInv ==
  /\ evq \in Seq(UartEvents) /\ evt \in UartEvents /\ (uartPc = "pop" => evt = "pattern")
  /\ PromptInterrupts /\ ~overrun => AllCovered

LEMMA PendingIs ==
  ASSUME CoverInv
  PROVE  /\ Pending \in Seq(UartEvents)
         /\ uartPc \in {"measure", "pop"} =>
              /\ Len(Pending) = Len(evq) + 1 /\ Pending[1] = evt
              /\ \A i \in DOMAIN evq : Pending[i + 1] = evq[i]
         /\ uartPc \notin {"measure", "pop"} => Pending = evq
BY DEF CoverInv, Pending

LEMMA CoverSame ==
  ASSUME RingInv, CoverInv, evq' = evq, evt' = evt, ring' = ring, overrun' = overrun,
         want' = want, patpos' = patpos \/ patpos' = <<>>,
         \/ uartPc' = uartPc
         \/ uartPc \notin {"measure", "pop", "read"} /\ uartPc' \notin {"measure", "pop", "read"}
  PROVE  CoverInv'
<1>1. Pending' = Pending BY DEF Pending
<1>2. ASSUME PromptInterrupts, ~overrun PROVE AllCovered'
  <2>1. PICK w \in [DOMAIN patpos -> Nat] : Noted(w) BY <1>2 DEF CoverInv, AllCovered
  <2>2. \E v \in [DOMAIN patpos' -> Nat] : Noted(v)'
    <3>1. CASE patpos' = patpos BY <1>1, <2>1, <3>1 DEF Noted
    <3>2. CASE patpos' = <<>>
      <4>1. DOMAIN patpos' = {} BY <3>2
      <4>2. [k \in {} |-> 0] \in [DOMAIN patpos' -> Nat] BY <4>1
      <4>3. Noted([k \in {} |-> 0])' BY <4>1 DEF Noted
      <4> QED BY <4>2, <4>3
    <3> QED BY <3>1, <3>2
  <2> QED BY <1>2, <2>2 DEF CoverInv, AllCovered
<1> QED BY <1>2 DEF CoverInv

LEMMA CoverInterrupt ==
  ASSUME RingInv, CoverInv, NEW c \in Chunks, RxInterrupt(c)
  PROVE  CoverInv'
<1> DEFINE hit == DetectsPattern /\ Contains(c, "nl")
           e   == IF hit THEN "pattern" ELSE "data"
           l   == Len(Pending) + 1
<1>1. /\ ring' = ring \o c /\ uartPc' = uartPc /\ evt' = evt /\ want' = want
      /\ patpos' = IF hit /\ Len(patpos) < EvDepth
                   THEN Append(patpos, Len(ring) + LastPattern(c) - 1) ELSE patpos
      /\ \/ evq' = Append(evq, e) /\ overrun' = overrun
         \/ evq' = evq /\ overrun' = TRUE
  BY DEF RxInterrupt, uartWorkerVars
<1>2. evq \in Seq(UartEvents) /\ evt \in UartEvents /\ (uartPc = "pop" => evt = "pattern")
  BY DEF CoverInv
<1>3. e \in UartEvents /\ (hit => e = "pattern") BY DEF UartEvents
<1>4. evq' \in Seq(UartEvents) /\ (uartPc' = "pop" => evt' = "pattern")
  <2> HIDE DEF e
  <2> QED BY <1>1, <1>2, <1>3
<1>5. ASSUME PromptInterrupts, ~overrun' PROVE AllCovered'
  <2>1. evq' = Append(evq, e) /\ ~overrun BY <1>1, <1>5
  <2>2. evq' # <<>> BY <1>2, <2>1
  <2> HIDE DEF e
  <2>3. Pending \in Seq(UartEvents) /\ Len(Pending) \in Nat BY PendingIs
  <2>4. Pending' = Append(Pending, e)
    BY <1>1, <1>2, <1>3, <2>1 DEF Pending
  <2>5. /\ l \in Nat /\ Len(Pending') = l /\ l \in DOMAIN Pending' /\ Pending'[l] = e
        /\ \A i \in DOMAIN Pending : i < l /\ i \in DOMAIN Pending' /\ Pending'[i] = Pending[i]
    BY <1>3, <2>3, <2>4
  <2>6. PICK w \in [DOMAIN patpos -> Nat] : Noted(w) BY <1>5, <2>1 DEF CoverInv, AllCovered
  <2>7. \A k \in DOMAIN patpos : /\ w[k] \in DOMAIN Pending' /\ Pending'[w[k]] = "pattern"
                                 /\ w[k] < l /\ w[k] # Len(Pending')
    <3> SUFFICES ASSUME NEW k \in DOMAIN patpos
                 PROVE  /\ w[k] \in DOMAIN Pending' /\ Pending'[w[k]] = "pattern"
                        /\ w[k] < l /\ w[k] # Len(Pending')
      OBVIOUS
    <3>1. w[k] \in DOMAIN Pending /\ Pending[w[k]] = "pattern" /\ w[k] \in Nat
      BY <2>6 DEF Noted
    <3> HIDE DEF l
    <3>2. w[k] \in DOMAIN Pending' /\ Pending'[w[k]] = "pattern" /\ w[k] < l BY <2>5, <3>1
    <3> QED BY <2>5, <3>1, <3>2
  <2>8. CASE patpos' = patpos
    <3>1. Noted(w)' BY <2>6, <2>7, <2>8 DEF Noted
    <3> QED BY <2>2, <2>6, <2>8, <3>1 DEF AllCovered
  <2>9. CASE patpos' # patpos
    <3> DEFINE m == Len(patpos) + 1
               p == Len(ring) + LastPattern(c) - 1
    <3>1. patpos' = Append(patpos, p) /\ hit BY <1>1, <2>9
    <3>2. p \in Nat /\ p = Len(ring') - 1
      <4>1. ring \in Seq(UartBytes) /\ c \in Seq(UartBytes)
        BY UartAssumption DEF RingInv, UartBytes
      <4>2. LastPattern(c) = Len(c) /\ Len(c) \in 1 .. Len(c) BY <1>5, <3>1, <4>1, LastPatternIs
      <4> QED BY <1>1, <4>1, <4>2
    <3>3. patpos \in Seq(Nat) BY DEF RingInv
    <3> HIDE DEF p
    <3>4. /\ m \in Nat /\ DOMAIN patpos' = DOMAIN patpos \cup {m}
          /\ patpos'[m] = p /\ \A k \in DOMAIN patpos : k < m /\ k \in Nat /\ patpos'[k] = patpos[k]
      BY <3>1, <3>2, <3>3
    <3>5. e = "pattern" BY <1>3, <3>1
    <3> HIDE DEF m, l
    <3>6. PICK v \in [DOMAIN patpos' -> Nat] : v[m] = l /\ \A k \in DOMAIN patpos : v[k] = w[k]
      <4> DEFINE u == [k \in DOMAIN patpos' |-> IF k = m THEN l ELSE w[k]]
      <4>1. u \in [DOMAIN patpos' -> Nat] /\ u[m] = l /\ \A k \in DOMAIN patpos : u[k] = w[k]
        BY <2>5, <2>6, <3>4
      <4> HIDE DEF u
      <4> QED BY <4>1
    <3>7. Noted(v)'
      <4>1. \A k \in DOMAIN patpos' : v[k] \in DOMAIN Pending' /\ Pending'[v[k]] = "pattern"
        BY <2>5, <2>7, <3>4, <3>5, <3>6
      <4>2. \A j \in DOMAIN patpos', k \in DOMAIN patpos' : j < k => v[j] < v[k]
        BY <2>6, <2>7, <3>4, <3>6 DEF Noted
      <4>3. \A k \in DOMAIN patpos' : v[k] = Len(Pending') => patpos'[k] = Len(ring') - 1
        BY <2>7, <3>2, <3>4, <3>6
      <4> QED BY <4>1, <4>2, <4>3 DEF Noted
    <3> QED BY <2>2, <3>6, <3>7 DEF AllCovered
  <2> QED BY <2>8, <2>9
<1> QED BY <1>1, <1>2, <1>4, <1>5 DEF CoverInv

LEMMA CoverSelect ==
  ASSUME RingInv, CoverInv, SelectRx
  PROVE  CoverInv'
<1>1. /\ uartPc = "select" /\ ring' = ring /\ patpos' = patpos /\ want' = want
      /\ overrun' = overrun
  BY DEF SelectRx, uartHistVars
<1>2. CASE evq = <<>>
  <2>1. evq' = evq /\ evt' = evt /\ uartPc' = uartPc BY <1>2 DEF SelectRx
  <2> QED BY <1>1, <2>1, CoverSame
<1>3. CASE evq # <<>>
  <2>1. evq' = Tail(evq) /\ evt' = Head(evq) /\ uartPc' = "measure" BY <1>3 DEF SelectRx
  <2>2. evq \in Seq(UartEvents) BY DEF CoverInv
  <2>3. /\ evq' \in Seq(UartEvents) /\ evt' \in UartEvents /\ <<evt'>> \o evq' = evq
    BY <1>3, <2>1, <2>2
  <2>4. Pending' = Pending BY <1>1, <2>1, <2>3 DEF Pending
  <2>5. ASSUME PromptInterrupts, ~overrun PROVE AllCovered'
    <3>1. PICK w \in [DOMAIN patpos -> Nat] : Noted(w) BY <2>5 DEF CoverInv, AllCovered
    <3>2. Noted(w)' BY <1>1, <2>4, <3>1 DEF Noted
    <3> QED BY <1>1, <2>1, <3>1, <3>2 DEF AllCovered
  <2> QED BY <1>1, <2>1, <2>3, <2>5 DEF CoverInv
<1> QED BY <1>2, <1>3

LEMMA CoverMeasure ==
  ASSUME RingInv, CoverInv, Measure
  PROVE  CoverInv'
<1>1. /\ uartPc = "measure" /\ ring' = ring /\ patpos' = patpos /\ evq' = evq /\ evt' = evt
      /\ want' = Len(ring) /\ overrun' = overrun
      /\ uartPc' = IF evt = "pattern" THEN "pop" ELSE "read"
  BY DEF Measure, driverVars, uartHistVars
<1>2. evq \in Seq(UartEvents) /\ evt \in UartEvents BY DEF CoverInv
<1>3. ASSUME PromptInterrupts, ~overrun PROVE AllCovered'
  <2>1. PICK w \in [DOMAIN patpos -> Nat] : Noted(w) BY <1>3 DEF CoverInv, AllCovered
  <2>2. CASE evt = "pattern"
    <3>1. Pending' = Pending BY <1>1, <2>2 DEF Pending
    <3>2. Noted(w)' BY <1>1, <2>1, <3>1 DEF Noted
    <3> QED BY <1>1, <2>1, <2>2, <3>2 DEF AllCovered
  <2>3. CASE evt # "pattern"
    <3>1. Pending' = evq BY <1>1, <2>3 DEF Pending
    <3>2. /\ Len(Pending) = Len(evq) + 1 /\ Pending[1] = evt /\ Pending \in Seq(UartEvents)
          /\ \A i \in DOMAIN evq : Pending[i + 1] = evq[i]
      BY <1>1, PendingIs
    <3>3. ASSUME NEW k \in DOMAIN patpos
          PROVE  w[k] \in Nat /\ w[k] - 1 \in DOMAIN evq /\ evq[w[k] - 1] = "pattern"
      <4>1. w[k] \in DOMAIN Pending /\ Pending[w[k]] = "pattern" /\ w[k] \in Nat
        BY <2>1 DEF Noted
      <4>2. w[k] # 1 BY <2>3, <3>2, <4>1
      <4>3. w[k] - 1 \in DOMAIN evq /\ (w[k] - 1) + 1 = w[k] BY <1>2, <3>2, <4>1, <4>2
      <4> QED BY <3>2, <4>1, <4>3
    <3>4. PICK v \in [DOMAIN patpos -> Nat] : \A k \in DOMAIN patpos : v[k] = w[k] - 1
      <4> DEFINE u == [k \in DOMAIN patpos |-> w[k] - 1]
      <4>1. u \in [DOMAIN patpos -> Nat] /\ \A k \in DOMAIN patpos : u[k] = w[k] - 1
        BY <1>2, <3>3
      <4> HIDE DEF u
      <4> QED BY <4>1
    <3>5. Noted(v)'
      <4>1. \A j \in DOMAIN patpos, k \in DOMAIN patpos : j < k => v[j] < v[k]
        BY <2>1, <3>3, <3>4 DEF Noted
      <4>2. \A k \in DOMAIN patpos : v[k] = Len(evq) => patpos[k] = Len(ring) - 1
        BY <1>2, <2>1, <3>2, <3>3, <3>4 DEF Noted
      <4> QED BY <1>1, <3>1, <3>3, <3>4, <4>1, <4>2 DEF Noted
    <3> QED BY <1>1, <2>3, <3>4, <3>5 DEF AllCovered
  <2> QED BY <2>2, <2>3
<1> QED BY <1>1, <1>2, <1>3 DEF CoverInv

LEMMA CoverPop ==
  ASSUME RingInv, CoverInv, PopPattern
  PROVE  CoverInv'
<1>1. /\ uartPc = "pop" /\ uartPc' = "read" /\ ring' = ring /\ evq' = evq /\ evt' = evt
      /\ overrun' = overrun
  BY DEF PopPattern, uartHistVars
<1>2. evq \in Seq(UartEvents) /\ evt \in UartEvents BY DEF CoverInv
<1>3. Pending' = evq BY <1>1 DEF Pending
<1>4. /\ Len(Pending) = Len(evq) + 1 /\ Pending \in Seq(UartEvents)
      /\ \A i \in DOMAIN evq : Pending[i + 1] = evq[i]
  BY <1>1, PendingIs
<1>5. ASSUME PromptInterrupts, ~overrun PROVE AllCovered'
  <2>1. PICK w \in [DOMAIN patpos -> Nat] : Noted(w) BY <1>5 DEF CoverInv, AllCovered
  <2>2. CASE patpos = <<>>
    <3>1. want' = want /\ patpos' = patpos BY <2>2 DEF PopPattern
    <3>2. DOMAIN patpos' = {} BY <2>2, <3>1
    <3>3. Noted(w)' BY <3>2 DEF Noted
    <3>4. evq = <<>> => want = Len(ring) BY <1>1, <1>5 DEF CoverInv, AllCovered
    <3> QED BY <1>1, <2>1, <3>1, <3>3, <3>4 DEF AllCovered
  <2>3. CASE patpos # <<>>
    <3>1. want' = patpos[1] + 1 /\ patpos' = Tail(patpos)
      BY <2>3 DEF PopPattern, LineLength
    <3>2. patpos \in Seq(Nat) /\ ring \in Seq(UartBytes) BY DEF RingInv
    <3>3. /\ 1 \in DOMAIN patpos
          /\ \A k \in DOMAIN patpos' : /\ k \in Nat /\ k + 1 \in DOMAIN patpos /\ 1 < k + 1
                                       /\ patpos'[k] = patpos[k + 1]
      BY <2>3, <3>1, <3>2
    <3>4. w[1] \in 1 .. Len(evq) + 1 BY <1>4, <2>1, <3>3 DEF Noted
    <3>5. ASSUME NEW k \in DOMAIN patpos'
          PROVE  /\ w[k + 1] \in Nat /\ w[k + 1] - 1 \in DOMAIN evq
                 /\ evq[w[k + 1] - 1] = "pattern"
      <4> DEFINE i == w[k + 1]
      <4>1. i \in DOMAIN Pending /\ Pending[i] = "pattern" /\ w[1] < i
        BY <2>1, <3>3 DEF Noted
      <4> HIDE DEF i
      <4>2. i \in Nat /\ i - 1 \in DOMAIN evq /\ (i - 1) + 1 = i BY <1>2, <1>4, <3>4, <4>1
      <4>3. evq[i - 1] = "pattern" BY <1>4, <4>1, <4>2
      <4> QED BY <4>2, <4>3 DEF i
    <3>6. PICK v \in [DOMAIN patpos' -> Nat] : \A k \in DOMAIN patpos' : v[k] = w[k + 1] - 1
      <4> DEFINE u == [k \in DOMAIN patpos' |-> w[k + 1] - 1]
      <4>1. u \in [DOMAIN patpos' -> Nat] /\ \A k \in DOMAIN patpos' : u[k] = w[k + 1] - 1
        BY <1>2, <3>5
      <4> HIDE DEF u
      <4> QED BY <4>1
    <3>7. Noted(v)'
      <4>1. \A j \in DOMAIN patpos', k \in DOMAIN patpos' : j < k => v[j] < v[k]
        <5> SUFFICES ASSUME NEW j \in DOMAIN patpos', NEW k \in DOMAIN patpos', j < k
                     PROVE  v[j] < v[k]
          OBVIOUS
        <5>1. j + 1 < k + 1 BY <3>3
        <5>2. w[j + 1] < w[k + 1] BY <2>1, <3>3, <5>1 DEF Noted
        <5> QED BY <3>5, <3>6, <5>2
      <4>2. \A k \in DOMAIN patpos' : v[k] = Len(evq) => patpos'[k] = Len(ring') - 1
        <5> SUFFICES ASSUME NEW k \in DOMAIN patpos', v[k] = Len(evq)
                     PROVE  patpos'[k] = Len(ring') - 1
          OBVIOUS
        <5>1. w[k + 1] = Len(Pending) BY <1>2, <1>4, <3>5, <3>6
        <5> QED BY <1>1, <2>1, <3>3, <5>1 DEF Noted
      <4> QED BY <1>3, <3>5, <3>6, <4>1, <4>2 DEF Noted
    <3>8. evq = <<>> => want' = Len(ring')
      <4> SUFFICES ASSUME evq = <<>> PROVE want' = Len(ring') OBVIOUS
      <4>1. Len(evq) = 0 OBVIOUS
      <4>2. w[1] = Len(Pending) BY <1>4, <3>4, <4>1
      <4>3. patpos[1] = Len(ring) - 1 BY <2>1, <3>3, <4>2 DEF Noted
      <4>4. Len(ring) \in Nat BY <3>2
      <4> QED BY <1>1, <3>1, <4>3, <4>4
    <3> QED BY <1>1, <3>6, <3>7, <3>8 DEF AllCovered
  <2> QED BY <2>2, <2>3
<1> QED BY <1>1, <1>2, <1>5 DEF CoverInv

LEMMA CoverTake ==
  ASSUME RingInv, CoverInv, uartPc = "read", TakeBytes(want),
         evq' = evq, evt' = evt, overrun' = overrun, uartPc' \in {"publish", "select"}
  PROVE  CoverInv'
<1>1. ring \in Seq(UartBytes) /\ patpos \in Seq(Nat) /\ want \in Nat /\ want <= Len(ring)
  BY DEF RingInv
<1>2. ring' = SubSeq(ring, want + 1, Len(ring)) BY DEF TakeBytes
<1>3. Len(ring') = Len(ring) - want /\ (want = Len(ring) => ring' = <<>>) BY <1>1, <1>2
<1>4. PICK g \in 0 .. Len(patpos) :
         /\ PositionsLeft(want) = [k \in 1 .. Len(patpos) - g |-> patpos[g + k] - want]
         /\ \A k \in 1 .. Len(patpos) - g : g + k \in DOMAIN patpos /\ patpos[g + k] - want \in Nat
  BY <1>1, PositionsLeftAre
<1>5. patpos' = [k \in 1 .. Len(patpos) - g |-> patpos[g + k] - want] BY <1>4 DEF TakeBytes
<1>6. Pending' = Pending BY DEF Pending
<1>7. ASSUME PromptInterrupts, ~overrun PROVE AllCovered'
  <2>1. PICK w \in [DOMAIN patpos -> Nat] : Noted(w) BY <1>7 DEF CoverInv, AllCovered
  <2>2. \A k \in DOMAIN patpos' : g + k \in DOMAIN patpos /\ patpos'[k] = patpos[g + k] - want
    BY <1>4, <1>5
  <2>3. PICK v \in [DOMAIN patpos' -> Nat] : \A k \in DOMAIN patpos' : v[k] = w[g + k]
    <3> DEFINE u == [k \in DOMAIN patpos' |-> w[g + k]]
    <3>1. u \in [DOMAIN patpos' -> Nat] /\ \A k \in DOMAIN patpos' : u[k] = w[g + k] BY <2>1, <2>2
    <3> HIDE DEF u
    <3> QED BY <3>1
  <2>4. \A j \in DOMAIN patpos', k \in DOMAIN patpos' : j < k => g + j < g + k
    BY <1>1, <1>4, <1>5
  <2>5. Noted(v)'
    <3>1. \A k \in DOMAIN patpos' : v[k] = Len(Pending') => patpos'[k] = Len(ring') - 1
      <4> SUFFICES ASSUME NEW k \in DOMAIN patpos', v[k] = Len(Pending')
                   PROVE  patpos'[k] = Len(ring') - 1
        OBVIOUS
      <4>1. patpos[g + k] = Len(ring) - 1 BY <1>6, <2>1, <2>2, <2>3 DEF Noted
      <4>2. Len(ring) \in Nat BY <1>1
      <4> QED BY <1>1, <1>3, <2>2, <4>1, <4>2
    <3>2. \A k \in DOMAIN patpos' : v[k] \in DOMAIN Pending' /\ Pending'[v[k]] = "pattern"
      BY <1>6, <2>1, <2>2, <2>3 DEF Noted
    <3>3. \A j \in DOMAIN patpos', k \in DOMAIN patpos' : j < k => v[j] < v[k]
      BY <2>1, <2>2, <2>3, <2>4 DEF Noted
    <3> QED BY <3>1, <3>2, <3>3 DEF Noted
  <2>6. evq = <<>> => want = Len(ring) BY <1>7 DEF CoverInv, AllCovered
  <2> QED BY <1>3, <2>3, <2>5, <2>6 DEF AllCovered
<1> QED BY <1>7 DEF CoverInv

(* The worker is created last, and a start that found the port does not    *)
(* create another one.                                                     *)
OneWorker ==
  /\ uartBoot \notin {"off", "returned"} => port = TRUE
  /\ uartPc # "none" => uartBoot = "returned" /\ port = TRUE

LEMMA OneWorkerKeeps == OneWorker /\ [UartNext]_uartVars => OneWorker'
<1> SUFFICES ASSUME OneWorker, [UartNext]_uartVars
             PROVE  OneWorker'
  OBVIOUS
<1>1. CASE CreatePort
  <2>1. uartPc = "none" /\ uartPc' = uartPc
    BY <1>1 DEF CreatePort, OneWorker, uartWorkerVars
  <2> QED BY <1>1, <2>1 DEF CreatePort, StartFails, OneWorker
<1>2. CASE StartWorker
  <2>1. port = TRUE /\ port' = port /\ uartPc = "none" BY <1>2 DEF StartWorker, OneWorker
  <2>2. uartBoot' = "returned" BY <1>2 DEF StartWorker, StartFails
  <2> QED BY <2>1, <2>2 DEF OneWorker
<1>3. CASE EnablePattern \/ SubscribeTx \/ CreateSet \/ AddRxToSet \/ AddTxToSet
  <2>1. uartBoot \notin {"off", "returned"} /\ port' = port /\ uartPc' = uartPc
    BY <1>3 DEF EnablePattern, SubscribeTx, CreateSet, AddRxToSet, AddTxToSet, Call, uartWorkerVars
  <2> QED BY <2>1 DEF OneWorker
<1>4. CASE UartStartAgain
  BY <1>4 DEF UartStartAgain, uartWorkerVars, OneWorker
<1>5. ASSUME uartBoot' = uartBoot, port' = port, uartPc' = uartPc \/ uartPc # "none"
      PROVE  OneWorker'
  BY <1>5 DEF OneWorker
<1>6. CASE WorkerStep
  <2>1. uartBoot' = uartBoot /\ port' = port /\ uartPc # "none"
    BY <1>6 DEF WorkerStep, SelectRx, SelectTx, Measure, PopPattern, ReadNothing, ReadIntoSlot,
       ReadIntoTrash, PublishFrame, WriteOut, startVars
  <2> QED BY <1>5, <2>1
<1>7. ASSUME NEW c \in Chunks, RxInterrupt(c) PROVE OneWorker'
  BY <1>5, <1>7 DEF RxInterrupt, startVars, uartWorkerVars
<1>8. CASE RequestTx BY <1>5, <1>8 DEF RequestTx, startVars, uartWorkerVars
<1>9. CASE PostOther BY <1>5, <1>9 DEF PostOther, startVars, uartWorkerVars
<1>10. CASE UNCHANGED uartVars BY <1>5, <1>10 DEF uartVars, startVars, uartWorkerVars
<1> QED
  BY <1>1, <1>2, <1>3, <1>4, <1>6, <1>7, <1>8, <1>9, <1>10 DEF UartNext, StartStep

LEMMA CoverKeeps == RingInv /\ OneWorker /\ CoverInv /\ [UartNext]_uartVars => CoverInv'
<1> SUFFICES ASSUME RingInv, OneWorker, CoverInv, [UartNext]_uartVars
             PROVE  CoverInv'
  OBVIOUS
<1>1. CASE StartStep
  <2>1. /\ ring' = ring /\ evq' = evq /\ evt' = evt /\ want' = want /\ overrun' = overrun
        /\ patpos' = patpos \/ patpos' = <<>>
    BY <1>1 DEF StartStep, CreatePort, UartStartAgain, EnablePattern, SubscribeTx, CreateSet,
       AddRxToSet, AddTxToSet, StartWorker, driverVars, uartWorkerVars, uartHistVars
  <2>0. uartBoot = "task" => uartPc = "none" BY DEF OneWorker
  <2>2. uartPc' = uartPc \/ (uartPc = "none" /\ uartPc' = "select")
    BY <1>1, <2>0 DEF StartStep, CreatePort, UartStartAgain, EnablePattern, SubscribeTx, CreateSet,
       AddRxToSet, AddTxToSet, StartWorker, uartWorkerVars
  <2> QED BY <2>1, <2>2, CoverSame
<1>2. CASE SelectRx BY <1>2, CoverSelect
<1>3. CASE SelectTx BY <1>3, CoverSame DEF SelectTx, driverVars, uartHistVars
<1>4. CASE Measure BY <1>4, CoverMeasure
<1>5. CASE PopPattern BY <1>5, CoverPop
<1>6. CASE ReadNothing
  <2>1. /\ uartPc = "read" /\ uartPc' = "select" /\ want = 0 /\ ring' = ring /\ patpos' = patpos
        /\ evq' = evq /\ evt' = evt /\ overrun' = overrun
    BY <1>6 DEF ReadNothing, driverVars, uartHistVars
  <2>2. Pending' = Pending BY <2>1 DEF Pending
  <2>3. ASSUME PromptInterrupts, ~overrun PROVE AllCovered'
    <3>1. PICK w \in [DOMAIN patpos -> Nat] : Noted(w) BY <2>3 DEF CoverInv, AllCovered
    <3>2. Noted(w)' BY <2>1, <2>2, <3>1 DEF Noted
    <3>3. evq = <<>> => Len(ring) = 0 BY <2>1, <2>3 DEF CoverInv, AllCovered
    <3>4. evq = <<>> => ring = <<>> BY <3>3 DEF RingInv
    <3> QED BY <2>1, <3>1, <3>2, <3>4 DEF AllCovered
  <2> QED BY <2>1, <2>3 DEF CoverInv
<1>7. CASE ReadIntoSlot
  BY <1>7, CoverTake DEF ReadIntoSlot, uartHistVars
<1>8. CASE ReadIntoTrash
  BY <1>8, CoverTake DEF ReadIntoTrash, Trashed
<1>9. CASE PublishFrame BY <1>9, CoverSame DEF PublishFrame, driverVars, uartHistVars
<1>10. CASE WriteOut BY <1>10, CoverSame DEF WriteOut, driverVars
<1>11. ASSUME NEW c \in Chunks, RxInterrupt(c) PROVE CoverInv' BY <1>11, CoverInterrupt
<1>12. CASE RequestTx BY <1>12, CoverSame DEF RequestTx, driverVars, uartWorkerVars
<1>13. CASE PostOther BY <1>13, CoverSame DEF PostOther, driverVars, uartWorkerVars
<1>14. CASE UNCHANGED uartVars
  BY <1>14, CoverSame DEF uartVars, driverVars, uartWorkerVars, uartHistVars
<1> QED
  BY <1>1, <1>2, <1>3, <1>4, <1>5, <1>6, <1>7, <1>8, <1>9, <1>10, <1>11, <1>12, <1>13, <1>14
  DEF UartNext, WorkerStep

LEMMA CoverStarts == UartInit => CoverInv
<1> SUFFICES ASSUME UartInit PROVE CoverInv OBVIOUS
<1>1. /\ ring = <<>> /\ patpos = <<>> /\ evq = <<>> /\ evt = "data" /\ uartPc = "none"
  BY DEF UartInit
<1>2. evq \in Seq(UartEvents) /\ evt \in UartEvents /\ DOMAIN patpos = {}
  BY <1>1 DEF UartEvents
<1>3. [k \in {} |-> 0] \in [DOMAIN patpos -> Nat] BY <1>2
<1>4. Noted([k \in {} |-> 0]) BY <1>2 DEF Noted
<1> QED BY <1>1, <1>2, <1>3, <1>4 DEF CoverInv, AllCovered

(* As long as no event was lost and interrupts are prompt, bytes in the    *)
(* ring have an event in the queue or the worker at them, wherever the     *)
(* worker cuts the ring and whatever arrives while it does: the last event *)
(* that is left always takes everything with it.                           *)
THEOREM EveryByteIsFetched == UartSpec => []NoByteWaits
<1>1. RingInv /\ CoverInv => NoByteWaits
  BY DEF CoverInv, AllCovered, NoByteWaits
<1>2. UartInit => OneWorker BY DEF UartInit, OneWorker
<1> QED BY <1>1, <1>2, RingStarts, RingKeeps, OneWorkerKeeps, CoverStarts, CoverKeeps, PTL DEF UartSpec

-----------------------------------------------------------------------------
(* The requests to write stand in a line as well: the one in the worker's  *)
(* hand, then those in its queue, between frames and other events.         *)
TxLine  == {p \in 0 .. Len(txq) : IF p = 0 THEN uartPc = "write" ELSE txq[p].code = "tx"}
TxId(p) == IF p = 0 THEN hand ELSE txq[p].id

TxMessage == [code : {"tx", "other", "frame"}, id : Nat]

TxTypes == /\ txq \in Seq(TxMessage) /\ hand \in Nat
           /\ requested \in Seq(Nat) /\ written \in Seq(Nat)

TxInv ==
  /\ TxTypes
  /\ \A k \in 1 .. Len(requested) : requested[k] = k
  /\ \A k \in 1 .. Len(written) : written[k] = k
  /\ Len(written) <= Len(requested)
  /\ \A p \in TxLine : TxId(p) \in Len(written) + 1 .. Len(requested)
  /\ \A k \in Len(written) + 1 .. Len(requested) : \E p \in TxLine : TxId(p) = k
  /\ \A p \in TxLine, r \in TxLine : p < r => TxId(p) < TxId(r)

LEMMA TxMoves ==
  ASSUME TxInv, TxTypes', UNCHANGED <<requested, written>>, NEW d \in Nat,
         \A p \in TxLine' : p + d \in TxLine /\ TxId(p)' = TxId(p + d),
         \A p \in TxLine : p - d \in TxLine' /\ TxId(p - d)' = TxId(p)
  PROVE  TxInv'
<1>1. TxLine' \subseteq Nat
  <2>1. Len(txq') \in Nat BY LenProperties DEF TxTypes
  <2> QED BY <2>1 DEF TxLine
<1>2. \A p \in TxLine' : TxId(p)' \in Len(written) + 1 .. Len(requested) BY DEF TxInv
<1>3. ASSUME NEW k \in Len(written) + 1 .. Len(requested) PROVE \E p \in TxLine' : TxId(p)' = k
  <2>1. PICK p \in TxLine : TxId(p) = k BY DEF TxInv
  <2>2. p - d \in TxLine' /\ TxId(p - d)' = TxId(p) OBVIOUS
  <2> QED BY <2>1, <2>2
<1>4. ASSUME NEW p \in TxLine', NEW r \in TxLine', p < r PROVE TxId(p)' < TxId(r)'
  <2>1. p + d \in TxLine /\ TxId(p)' = TxId(p + d) /\ r + d \in TxLine /\ TxId(r)' = TxId(r + d)
    OBVIOUS
  <2>2. p + d < r + d BY <1>1, <1>4
  <2> QED BY <2>1, <2>2 DEF TxInv
<1> QED BY <1>2, <1>3, <1>4 DEF TxInv

(* A step that neither takes a request nor makes one.                      *)
LEMMA TxStays ==
  ASSUME TxInv, UNCHANGED <<requested, written, hand>>, uartPc = "write" <=> uartPc' = "write",
         \/ txq' = txq
         \/ \E m \in TxMessage : m.code # "tx" /\ txq' = Append(txq, m)
  PROVE  TxInv'
<1>1. txq \in Seq(TxMessage) /\ Len(txq) \in Nat BY LenProperties DEF TxInv, TxTypes
<1>2. CASE txq' = txq
  <2>1. TxTypes' BY <1>2 DEF TxInv, TxTypes
  <2>2. TxLine' = TxLine BY <1>2 DEF TxLine
  <2>3. \A p \in TxLine : TxId(p)' = TxId(p) BY <1>2 DEF TxId
  <2>4. \A p \in TxLine : p + 0 = p /\ p - 0 = p BY <1>1 DEF TxLine
  <2>5. \A p \in TxLine' : p + 0 \in TxLine /\ TxId(p)' = TxId(p + 0) BY <2>2, <2>3, <2>4
  <2>6. \A p \in TxLine : p - 0 \in TxLine' /\ TxId(p - 0)' = TxId(p) BY <2>2, <2>3, <2>4
  <2>7. 0 \in Nat OBVIOUS
  <2> QED BY <2>1, <2>5, <2>6, <2>7, TxMoves
<1>3. ASSUME NEW m \in TxMessage, m.code # "tx", txq' = Append(txq, m) PROVE TxInv'
  <2> DEFINE l == Len(txq)
  <2>1. /\ txq' \in Seq(TxMessage) /\ Len(txq') = l + 1 /\ txq'[l + 1] = m
        /\ \A p \in 1 .. l : txq'[p] = txq[p]
    BY <1>1, <1>3, AppendProperties
  <2>2. TxTypes' BY <2>1 DEF TxInv, TxTypes
  <2>3. \A p \in 0 .. l + 1 : p = 0 \/ p = l + 1 \/ p \in 1 .. l BY <1>1
  <2>4. \A p \in 0 .. l : p \in 0 .. l + 1 /\ (p = 0 \/ p \in 1 .. l) BY <1>1
  <2>5. l + 1 # 0 BY <1>1
  <2> HIDE DEF l
  <2>6. \A p \in TxLine' : p \in TxLine
    <3>1. SUFFICES ASSUME NEW p \in TxLine' PROVE p \in TxLine OBVIOUS
    <3>2. p \in 0 .. l + 1 /\ (IF p = 0 THEN uartPc' = "write" ELSE txq'[p].code = "tx")
      BY <2>1 DEF TxLine
    <3>3. p \in 0 .. l /\ (p # 0 => p \in 1 .. l)
      <4>1. p = l + 1 => p # 0 /\ txq'[p].code # "tx" BY <1>3, <2>1, <2>5
      <4>2. p # l + 1 BY <3>2, <4>1
      <4> QED BY <1>1, <2>3, <3>2, <4>2 DEF l
    <3> QED BY <2>1, <3>2, <3>3 DEF TxLine, l
  <2>7. \A p \in TxLine : p \in TxLine' BY <2>1, <2>4 DEF TxLine, l
  <2>8. \A p \in TxLine : TxId(p)' = TxId(p) BY <2>1, <2>4 DEF TxId, TxLine, l
  <2>9. \A p \in TxLine : p + 0 = p /\ p - 0 = p BY <1>1 DEF TxLine
  <2>10. \A p \in TxLine' : p + 0 \in TxLine /\ TxId(p)' = TxId(p + 0) BY <2>6, <2>8, <2>9
  <2>11. \A p \in TxLine : p - 0 \in TxLine' /\ TxId(p - 0)' = TxId(p) BY <2>7, <2>8, <2>9
  <2>12. 0 \in Nat OBVIOUS
  <2> QED BY <2>2, <2>10, <2>11, <2>12, TxMoves
<1> QED BY <1>2, <1>3

LEMMA RequestQueues ==
  ASSUME TxInv, OneWorker, RequestTx
  PROVE  TxInv'
<1> DEFINE l == Len(txq)
           r == Len(requested)
           m == [code |-> "tx", id |-> r + 1]
<1>1. /\ txq \in Seq(TxMessage) /\ l \in Nat /\ requested \in Seq(Nat) /\ r \in Nat
      /\ written \in Seq(Nat) /\ Len(written) \in Nat /\ Len(written) <= r
  BY LenProperties DEF TxInv, TxTypes
<1>2. /\ txq' = Append(txq, m) /\ requested' = Append(requested, r + 1)
      /\ UNCHANGED <<written, hand, uartPc>>
  BY DEF RequestTx, Deliver, uartWorkerVars
<1>3. m \in TxMessage /\ m.code = "tx" /\ m.id = r + 1 BY <1>1 DEF TxMessage
<1> HIDE DEF m
<1>4. /\ txq' \in Seq(TxMessage) /\ Len(txq') = l + 1 /\ txq'[l + 1] = m
      /\ \A p \in 1 .. l : txq'[p] = txq[p]
  BY <1>1, <1>2, <1>3, AppendProperties
<1>5. /\ requested' \in Seq(Nat) /\ Len(requested') = r + 1 /\ requested'[r + 1] = r + 1
      /\ \A k \in 1 .. r : requested'[k] = requested[k]
  <2>1. r + 1 \in Nat BY <1>1
  <2> QED BY <1>1, <1>2, <2>1, AppendProperties
<1>6. TxTypes' BY <1>2, <1>4, <1>5 DEF TxInv, TxTypes
<1>7. /\ \A p \in 0 .. l + 1 : p = l + 1 \/ p \in 0 .. l
      /\ \A p \in 0 .. l : p \in 0 .. l + 1 /\ p < l + 1 /\ (p = 0 \/ p \in 1 .. l)
      /\ l + 1 # 0 /\ l + 1 \in 0 .. l + 1
  BY <1>1
<1>8. /\ \A p \in TxLine' : p = l + 1 \/ p \in TxLine
      /\ l + 1 \in TxLine' /\ \A p \in TxLine : p \in TxLine' /\ p < l + 1
  <2> HIDE DEF l
  <2>1. \A p \in 0 .. l : p \in TxLine <=> p \in TxLine' BY <1>2, <1>4, <1>7 DEF TxLine, l
  <2>2. l + 1 \in TxLine' BY <1>3, <1>4, <1>7 DEF TxLine
  <2>3. TxLine \subseteq 0 .. l /\ TxLine' \subseteq 0 .. l + 1 BY <1>4 DEF TxLine, l
  <2> QED BY <1>7, <2>1, <2>2, <2>3
<1>9. /\ \A p \in TxLine' : p = l + 1 => TxId(p)' = r + 1
      /\ \A p \in TxLine : TxId(p)' = TxId(p)
  <2>1. \A p \in TxLine : p = 0 \/ p \in 1 .. l BY <1>7 DEF TxLine
  <2> HIDE DEF l, r
  <2>2. \A p \in TxLine' : p = l + 1 => TxId(p)' = r + 1 BY <1>3, <1>4, <1>7 DEF TxId
  <2>3. \A p \in TxLine : TxId(p)' = TxId(p) BY <1>2, <1>4, <2>1 DEF TxId
  <2> QED BY <2>2, <2>3
<1>10. /\ \A k \in 1 .. r : requested[k] = k
       /\ \A p \in TxLine : TxId(p) \in Len(written) + 1 .. r
       /\ \A k \in Len(written) + 1 .. r : \E p \in TxLine : TxId(p) = k
       /\ \A p \in TxLine, o \in TxLine : p < o => TxId(p) < TxId(o)
  BY DEF TxInv
<1>11. /\ \A k \in 1 .. r + 1 : k = r + 1 \/ k \in 1 .. r
       /\ \A k \in Len(written) + 1 .. r + 1 : k = r + 1 \/ k \in Len(written) + 1 .. r
       /\ \A k \in Len(written) + 1 .. r : k \in Len(written) + 1 .. r + 1 /\ k < r + 1
       /\ r + 1 \in Len(written) + 1 .. r + 1 /\ Len(written) <= r + 1
  BY <1>1
<1>12. \A p \in TxLine : p \in Nat BY <1>1 DEF TxLine
<1>13. l + 1 \in Nat BY <1>1
<1> HIDE DEF l, r
<1>14. \A k \in 1 .. r + 1 : requested'[k] = k BY <1>5, <1>10, <1>11
<1>15. \A p \in TxLine' : TxId(p)' \in Len(written) + 1 .. r + 1 BY <1>8, <1>9, <1>10, <1>11
<1>16. \A k \in Len(written) + 1 .. r + 1 : \E p \in TxLine' : TxId(p)' = k
  BY <1>8, <1>9, <1>10, <1>11
<1>17. ASSUME NEW p \in TxLine', NEW o \in TxLine', p < o PROVE TxId(p)' < TxId(o)'
  <2>1. p \in TxLine
    <3>1. SUFFICES ASSUME p = l + 1 PROVE FALSE BY <1>8
    <3>2. o = l + 1 \/ (o < l + 1 /\ o \in Nat) BY <1>8, <1>12
    <3> QED BY <1>13, <1>17, <3>1, <3>2
  <2> QED BY <1>8, <1>9, <1>10, <1>11, <1>17, <2>1
<1> QED BY <1>2, <1>5, <1>6, <1>11, <1>14, <1>15, <1>16, <1>17 DEF TxInv

LEMMA SelectTakes ==
  ASSUME TxInv, SelectTx
  PROVE  TxInv'
<1> DEFINE l == Len(txq)
<1>1. txq \in Seq(TxMessage) /\ l \in Nat BY LenProperties DEF TxInv, TxTypes
<1>2. uartPc = "select" /\ UNCHANGED <<requested, written>> BY DEF SelectTx, uartHistVars
<1>3. CASE txq = <<>>
  <2>1. UNCHANGED <<txq, uartPc, hand>> BY <1>3 DEF SelectTx
  <2> QED BY <1>2, <2>1, TxStays
<1>4. CASE txq # <<>>
  <2> DEFINE m == Head(txq)
  <2>1. /\ txq' = Tail(txq)
        /\ IF m.code = "tx" THEN uartPc' = "write" /\ hand' = m.id ELSE UNCHANGED <<uartPc, hand>>
    BY <1>4 DEF SelectTx, TakesTxReq
  <2>2. /\ l > 0 /\ m = txq[1] /\ m \in TxMessage
        /\ txq' \in Seq(TxMessage) /\ Len(txq') = l - 1
        /\ \A p \in 1 .. l - 1 : txq'[p] = txq[p + 1]
    BY <1>1, <1>4, <2>1, HeadTailProperties, EmptySeq, LenProperties
  <2>3. TxTypes'
    <3>1. m.id \in Nat BY <2>2 DEF TxMessage
    <3>2. hand' \in Nat BY <2>1, <3>1 DEF TxInv, TxTypes
    <3> QED BY <1>2, <2>2, <3>2 DEF TxInv, TxTypes
  <2>4. 0 \notin TxLine BY <1>2 DEF TxLine
  <2>5. uartPc' = "write" <=> m.code = "tx" BY <1>2, <2>1
  <2> HIDE DEF m
  <2>6. ASSUME NEW p \in 0 .. l - 1 PROVE p \in TxLine' <=> p + 1 \in TxLine
    <3>1. p + 1 \in 0 .. l /\ p + 1 # 0 /\ (p # 0 => p \in 1 .. l - 1) BY <1>1
    <3>2. p \in TxLine' <=> IF p = 0 THEN uartPc' = "write" ELSE txq'[p].code = "tx"
      BY <2>2 DEF TxLine
    <3>3. p + 1 \in TxLine <=> txq[p + 1].code = "tx" BY <3>1 DEF TxLine
    <3>4. CASE p = 0 BY <2>2, <2>5, <3>2, <3>3, <3>4
    <3>5. CASE p # 0 BY <2>2, <3>1, <3>2, <3>3, <3>5
    <3> QED BY <3>4, <3>5
  <2>7. ASSUME NEW p \in 0 .. l - 1, p \in TxLine' PROVE TxId(p)' = TxId(p + 1)
    <3>1. p + 1 # 0 /\ (p # 0 => p \in 1 .. l - 1) BY <1>1
    <3>2. CASE p = 0
      <4>1. m.code = "tx" BY <2>5, <2>7, <3>2 DEF TxLine
      <4>2. hand' = m.id BY <2>1, <4>1 DEF m
      <4> QED BY <2>2, <3>2, <4>2 DEF TxId
    <3>3. CASE p # 0 BY <2>2, <3>1, <3>3 DEF TxId
    <3> QED BY <3>2, <3>3
  <2>8. TxLine' \subseteq 0 .. l - 1 BY <2>2 DEF TxLine
  <2>9. \A p \in TxLine' : p + 1 \in TxLine /\ TxId(p)' = TxId(p + 1) BY <2>6, <2>7, <2>8
  <2>10. \A p \in TxLine : p - 1 \in TxLine' /\ TxId(p - 1)' = TxId(p)
    <3>1. ASSUME NEW p \in TxLine PROVE p - 1 \in TxLine' /\ TxId(p - 1)' = TxId(p)
      <4>1. p \in 0 .. l /\ p # 0 BY <2>4 DEF TxLine
      <4>2. p - 1 \in 0 .. l - 1 /\ (p - 1) + 1 = p BY <1>1, <4>1
      <4>3. p - 1 \in TxLine' BY <2>6, <4>2
      <4>4. TxId(p - 1)' = TxId((p - 1) + 1) BY <2>7, <4>2, <4>3
      <4> QED BY <4>2, <4>3, <4>4
    <3> QED BY <3>1
  <2>11. 1 \in Nat OBVIOUS
  <2> QED BY <1>2, <2>3, <2>9, <2>10, <2>11, TxMoves
<1> QED BY <1>3, <1>4

LEMMA WriteTakesNext ==
  ASSUME TxInv, WriteOut
  PROVE  TxInv'
<1> DEFINE w == Len(written)
           r == Len(requested)
<1>1. /\ uartPc = "write" /\ uartPc' = "select" /\ written' = Append(written, hand)
      /\ UNCHANGED <<txq, requested, hand>>
  BY DEF WriteOut
<1>2. /\ written \in Seq(Nat) /\ hand \in Nat /\ w \in Nat /\ r \in Nat /\ w <= r
      /\ Len(txq) \in Nat /\ TxTypes
      /\ \A k \in 1 .. w : written[k] = k
      /\ \A p \in TxLine : TxId(p) \in w + 1 .. r
      /\ \A k \in w + 1 .. r : \E p \in TxLine : TxId(p) = k
      /\ \A p \in TxLine, o \in TxLine : p < o => TxId(p) < TxId(o)
  BY LenProperties DEF TxInv, TxTypes
<1>3. 0 \in TxLine /\ TxId(0) = hand BY <1>1, <1>2 DEF TxLine, TxId
<1>4. \A p \in TxLine : p \in Nat BY <1>2 DEF TxLine
<1>5. hand \in w + 1 .. r BY <1>2, <1>3
<1>6. hand = w + 1
  <2>1. SUFFICES ASSUME hand > w + 1 PROVE FALSE BY <1>2, <1>5
  <2>2. w + 1 \in w + 1 .. r BY <1>2, <1>5
  <2>3. PICK p \in TxLine : TxId(p) = w + 1 BY <1>2, <2>2
  <2>4. p = 0 \/ 0 < p BY <1>4
  <2>5. 0 < p => hand < TxId(p) BY <1>2, <1>3
  <2> QED BY <1>2, <1>3, <2>1, <2>3, <2>4, <2>5
<1>7. /\ written' \in Seq(Nat) /\ Len(written') = w + 1 /\ written'[w + 1] = w + 1
      /\ \A k \in 1 .. w : written'[k] = written[k]
  BY <1>1, <1>2, <1>6, AppendProperties
<1>8. TxTypes' BY <1>1, <1>2, <1>7 DEF TxTypes
<1>9. \A k \in 1 .. w + 1 : k = w + 1 \/ k \in 1 .. w BY <1>2
<1>10. TxLine' = TxLine \ {0} /\ \A p \in TxLine' : p > 0
  <2>1. TxLine' = TxLine \ {0} BY <1>1 DEF TxLine
  <2> QED BY <1>4, <2>1
<1>11. \A p \in TxLine : TxId(p)' = TxId(p) BY <1>1 DEF TxId
<1>12. ASSUME NEW p \in TxLine' PROVE TxId(p)' \in w + 2 .. r
  <2>1. p \in TxLine /\ 0 < p BY <1>10
  <2>2. hand < TxId(p) /\ TxId(p) \in w + 1 .. r BY <1>2, <1>3, <2>1
  <2>3. TxId(p) \in w + 2 .. r BY <1>2, <1>6, <2>2
  <2> QED BY <1>11, <2>1, <2>3
<1>13. ASSUME NEW k \in w + 2 .. r PROVE \E p \in TxLine' : TxId(p)' = k
  <2>1. k \in w + 1 .. r /\ k # w + 1 BY <1>2
  <2>2. PICK p \in TxLine : TxId(p) = k BY <1>2, <2>1
  <2>3. p # 0 BY <1>3, <1>6, <2>1, <2>2
  <2> QED BY <1>10, <1>11, <2>2, <2>3
<1>14. \A p \in TxLine', o \in TxLine' : p < o => TxId(p)' < TxId(o)' BY <1>2, <1>10, <1>11
<1>15. w + 1 <= r /\ (w + 1) + 1 = w + 2 BY <1>2, <1>5
<1>16. \A k \in 1 .. w + 1 : written'[k] = k BY <1>2, <1>7, <1>9
<1>17. \A k \in 1 .. Len(requested) : requested[k] = k BY DEF TxInv
<1> HIDE DEF w, r
<1> QED BY <1>1, <1>7, <1>8, <1>12, <1>13, <1>14, <1>15, <1>16, <1>17 DEF TxInv, r

(* What the bus delivers besides requests.                                 *)
LEMMA DeliveredStays ==
  ASSUME NEW m, Deliver(m)
  PROVE  txq' = txq \/ txq' = Append(txq, m)
BY DEF Deliver

LEMMA TxKeeps == TxInv /\ OneWorker /\ [UartNext]_uartVars => TxInv'
<1> SUFFICES ASSUME TxInv, OneWorker, [UartNext]_uartVars
             PROVE  TxInv'
  OBVIOUS
<1>1. CASE StartStep
  <2>1. UNCHANGED <<txq, requested, written, hand>>
    BY <1>1 DEF StartStep, CreatePort, UartStartAgain, EnablePattern, SubscribeTx, CreateSet, AddRxToSet,
       AddTxToSet, StartWorker, uartWorkerVars, uartHistVars
  <2>2. uartPc = "write" <=> uartPc' = "write"
    <3>1. CASE StartWorker
      <4>1. uartPc = "none" BY <3>1 DEF StartWorker, OneWorker
      <4>2. uartPc' = "select" \/ uartPc' = uartPc BY <3>1 DEF StartWorker
      <4> QED BY <4>1, <4>2
    <3>2. CASE ~StartWorker
      <4>1. uartPc' = uartPc
        BY <1>1, <3>2 DEF StartStep, CreatePort, UartStartAgain, EnablePattern, SubscribeTx, CreateSet,
           AddRxToSet, AddTxToSet, uartWorkerVars
      <4> QED BY <4>1
    <3> QED BY <3>1, <3>2
  <2> QED BY <2>1, <2>2, TxStays
<1>2. CASE SelectRx \/ Measure \/ PopPattern \/ ReadNothing \/ ReadIntoSlot \/ ReadIntoTrash
  <2>1. /\ UNCHANGED <<txq, requested, written, hand>> /\ uartPc # "write" /\ uartPc' # "write"
    BY <1>2 DEF SelectRx, Measure, PopPattern, ReadNothing, ReadIntoSlot, ReadIntoTrash, uartHistVars
  <2> QED BY <2>1, TxStays
<1>3. CASE PublishFrame
  <2> DEFINE m == [code |-> "frame", id |-> 0]
  <2>1. /\ UNCHANGED <<requested, written, hand>> /\ uartPc # "write" /\ uartPc' # "write" /\ Deliver(m)
    BY <1>3 DEF PublishFrame, uartHistVars
  <2>2. m \in TxMessage /\ m.code # "tx" BY DEF TxMessage
  <2> HIDE DEF m
  <2>3. txq' = txq \/ txq' = Append(txq, m) BY <2>1, DeliveredStays
  <2> QED BY <2>1, <2>2, <2>3, TxStays
<1>4. CASE PostOther
  <2> DEFINE m == [code |-> "other", id |-> 0]
  <2>1. UNCHANGED <<requested, written, hand, uartPc>> /\ Deliver(m)
    BY <1>4 DEF PostOther, uartWorkerVars
  <2>2. m \in TxMessage /\ m.code # "tx" BY DEF TxMessage
  <2> HIDE DEF m
  <2>3. txq' = txq \/ txq' = Append(txq, m) BY <2>1, DeliveredStays
  <2> QED BY <2>1, <2>2, <2>3, TxStays
<1>5. ASSUME NEW c \in Chunks, RxInterrupt(c) PROVE TxInv'
  <2>1. UNCHANGED <<txq, requested, written, hand, uartPc>> BY <1>5 DEF RxInterrupt, uartWorkerVars
  <2> QED BY <2>1, TxStays
<1>6. CASE UNCHANGED uartVars
  <2>1. UNCHANGED <<txq, requested, written, hand, uartPc>>
    BY <1>6 DEF uartVars, uartWorkerVars, uartHistVars
  <2> QED BY <2>1, TxStays
<1>7. CASE RequestTx BY <1>7, RequestQueues
<1>8. CASE SelectTx BY <1>8, SelectTakes
<1>9. CASE WriteOut BY <1>9, WriteTakesNext
<1> QED
  BY <1>1, <1>2, <1>3, <1>4, <1>5, <1>6, <1>7, <1>8, <1>9 DEF UartNext, WorkerStep

LEMMA TxStarts == UartInit => TxInv
<1> SUFFICES ASSUME UartInit PROVE TxInv
  OBVIOUS
<1>1. txq = <<>> /\ hand = 0 /\ requested = <<>> /\ written = <<>> /\ uartPc = "none" BY DEF UartInit
<1>2. TxLine = {} BY <1>1 DEF TxLine
<1> QED BY <1>1, <1>2 DEF TxInv, TxTypes

(* A string that uart_send put into the queue is written once, and in its  *)
(* turn, whatever frames and other events lie between, wherever the start  *)
(* of the service stands and whatever the queue dropped.                   *)
THEOREM RequestsWrittenInOrder == UartSpec => []RequestsInOrder
<1>1. TxInv => RequestsInOrder
  <2> SUFFICES ASSUME TxInv PROVE IsPrefix(written, requested)
    BY DEF RequestsInOrder
  <2>1. written \in Seq(Nat) /\ requested \in Seq(Nat) /\ Len(written) <= Len(requested)
    BY DEF TxInv, TxTypes
  <2>2. Len(written) \in Nat /\ Len(requested) \in Nat BY <2>1, LenProperties
  <2> DEFINE w == Len(written)
  <2>3. \A k \in 1 .. w : k \in 1 .. Len(requested) BY <2>1, <2>2
  <2>4. \A k \in 1 .. w : written[k] = requested[k] BY <2>3 DEF TxInv
  <2>5. SubSeq(requested, 1, w) = SubSeq(written, 1, w)
    <3>1. SubSeq(requested, 1, w) = [k \in 1 .. w |-> requested[k]] BY <2>1, <2>2
    <3>2. SubSeq(written, 1, w) = [k \in 1 .. w |-> written[k]] BY <2>1, <2>2
    <3> QED BY <2>4, <3>1, <3>2
  <2> QED BY <2>1, <2>5 DEF IsPrefix
<1>2. UartInit => OneWorker BY DEF UartInit, OneWorker
<1> QED BY <1>1, <1>2, OneWorkerKeeps, TxStarts, TxKeeps, PTL DEF UartSpec

-----------------------------------------------------------------------------
(* The queue set.  Handles are counted by their places in it.              *)
Places(s, h) == {i \in DOMAIN s : s[i] = h}

LEMMA PlacesAreFinite ==
  ASSUME NEW S, NEW s \in Seq(S), NEW h
  PROVE  /\ Places(s, h) \subseteq 1 .. Len(s) /\ IsFiniteSet(Places(s, h))
         /\ Cardinality(Places(s, h)) \in Nat
<1>1. DOMAIN s = 1 .. Len(s) /\ Len(s) \in Nat BY LenProperties
<1>2. Places(s, h) \subseteq 1 .. Len(s) BY <1>1 DEF Places
<1>3. IsFiniteSet(1 .. Len(s)) BY <1>1, FS_Interval
<1>4. IsFiniteSet(Places(s, h)) BY <1>2, <1>3, FS_Subset
<1> QED BY <1>2, <1>4, FS_CardinalityType

LEMMA PlacesAppend ==
  ASSUME NEW S, NEW s \in Seq(S), NEW e \in S, NEW h
  PROVE  Cardinality(Places(Append(s, e), h))
           = Cardinality(Places(s, h)) + IF e = h THEN 1 ELSE 0
<1> DEFINE l == Len(s) + 1
           t == Append(s, e)
<1>1. DOMAIN s = 1 .. Len(s) /\ Len(s) \in Nat BY LenProperties
<1>2. /\ t \in Seq(S) /\ Len(t) = l /\ t[l] = e /\ \A i \in 1 .. Len(s) : t[i] = s[i]
  BY AppendProperties
<1>3. DOMAIN t = 1 .. l BY <1>2, LenProperties
<1>4. 1 .. l = (1 .. Len(s)) \cup {l} /\ l \notin 1 .. Len(s) BY <1>1
<1>5. IsFiniteSet(Places(s, h)) /\ l \notin Places(s, h) /\ Cardinality(Places(s, h)) \in Nat
  BY <1>4, PlacesAreFinite
<1> HIDE DEF l, t
<1>6. CASE e = h
  <2>1. Places(t, h) = Places(s, h) \cup {l} BY <1>1, <1>2, <1>3, <1>4, <1>6 DEF Places
  <2>2. Cardinality(Places(t, h)) = Cardinality(Places(s, h)) + 1 BY <1>5, <2>1, FS_AddElement
  <2> QED BY <1>6, <2>2 DEF t
<1>7. CASE e # h
  <2>1. Places(t, h) = Places(s, h) BY <1>1, <1>2, <1>3, <1>4, <1>7 DEF Places
  <2> QED BY <1>5, <1>7, <2>1 DEF t
<1> QED BY <1>6, <1>7

LEMMA PlacesTail ==
  ASSUME NEW S, NEW s \in Seq(S), s # <<>>, NEW h
  PROVE  Cardinality(Places(s, h))
           = Cardinality(Places(Tail(s), h)) + IF Head(s) = h THEN 1 ELSE 0
<1> DEFINE t == Tail(s)
           A == Places(s, h) \ {1}
           B == Places(t, h)
           f == [i \in B |-> i + 1]
<1>1. /\ Len(s) \in Nat /\ Len(s) > 0 /\ Head(s) = s[1]
      /\ t \in Seq(S) /\ Len(t) = Len(s) - 1 /\ \A i \in 1 .. Len(s) - 1 : t[i] = s[i + 1]
  BY HeadTailProperties, EmptySeq, LenProperties
<1>2. DOMAIN s = 1 .. Len(s) /\ DOMAIN t = 1 .. Len(s) - 1 BY <1>1, LenProperties
<1>3. IsFiniteSet(B) /\ Cardinality(B) \in Nat /\ IsFiniteSet(Places(s, h))
      /\ Cardinality(Places(s, h)) \in Nat
  BY <1>1, PlacesAreFinite
<1>4. ASSUME NEW i \in 1 .. Len(s) - 1 PROVE i \in B <=> i + 1 \in A
  <2>1. i + 1 \in 1 .. Len(s) /\ i + 1 # 1 BY <1>1
  <2> QED BY <1>1, <1>2, <2>1 DEF Places
<1>5. B \subseteq 1 .. Len(s) - 1 BY <1>2 DEF Places
<1>6. A \subseteq 2 .. Len(s)
  <2>1. \A i \in 1 .. Len(s) : i # 1 => i \in 2 .. Len(s) BY <1>1
  <2> QED BY <1>2, <2>1 DEF Places
<1> HIDE DEF A, B
<1>7. f \in Bijection(B, A)
  <2>1. \A i \in B : f[i] \in A BY <1>4, <1>5
  <2>2. \A i \in B, j \in B : f[i] = f[j] => i = j BY <1>1, <1>5
  <2>3. \A a \in A : a - 1 \in 1 .. Len(s) - 1 /\ (a - 1) + 1 = a BY <1>1, <1>6
  <2>4. \A a \in A : a - 1 \in B /\ f[a - 1] = a BY <1>4, <2>3
  <2>5. f \in [B -> A] BY <2>1
  <2>6. f \in Injection(B, A) BY <2>2, <2>5, Fun_IsInj
  <2>7. f \in Surjection(B, A)
    <3>1. \A a \in A : \E i \in B : f[i] = a BY <2>4
    <3> QED BY <2>5, <3>1, Fun_IsSurj
  <2> QED BY <2>6, <2>7 DEF Bijection
<1>8. Cardinality(A) = Cardinality(B) BY <1>3, <1>7, FS_Bijection DEF ExistsBijection
<1>9. Cardinality(A) = IF 1 \in Places(s, h) THEN Cardinality(Places(s, h)) - 1 ELSE Cardinality(Places(s, h))
  BY <1>3, FS_RemoveElement DEF A
<1>10. 1 \in Places(s, h) <=> Head(s) = h
  <2>1. 1 \in 1 .. Len(s) BY <1>1
  <2> QED BY <1>1, <1>2, <2>1 DEF Places
<1> QED BY <1>3, <1>8, <1>9, <1>10 DEF B

LEMMA PlacesFill ==
  ASSUME NEW s \in Seq({"rx", "tx"})
  PROVE  Len(s) = Cardinality(Places(s, "rx")) + Cardinality(Places(s, "tx"))
<1>1. DOMAIN s = 1 .. Len(s) /\ Len(s) \in Nat BY LenProperties
<1>2. \A i \in 1 .. Len(s) : s[i] \in {"rx", "tx"} BY <1>1, ElementOfSeq
<1>3. Places(s, "rx") \cup Places(s, "tx") = 1 .. Len(s) /\ Places(s, "rx") \cap Places(s, "tx") = {}
  BY <1>1, <1>2 DEF Places
<1>4. /\ IsFiniteSet(Places(s, "rx")) /\ IsFiniteSet(Places(s, "tx"))
      /\ Cardinality(Places(s, "rx")) \in Nat /\ Cardinality(Places(s, "tx")) \in Nat
  BY PlacesAreFinite
<1>5. Cardinality(1 .. Len(s)) = Cardinality(Places(s, "rx")) + Cardinality(Places(s, "tx"))
  <2> DEFINE A == Places(s, "rx")
             B == Places(s, "tx")
  <2> HIDE DEF A, B
  <2>1. A \cup B = 1 .. Len(s) /\ A \cap B = {} BY <1>3 DEF A, B
  <2>2. /\ IsFiniteSet(A) /\ IsFiniteSet(B) /\ Cardinality(A) \in Nat /\ Cardinality(B) \in Nat
    BY <1>4 DEF A, B
  <2>3. Cardinality(A \cup B) = Cardinality(A) + Cardinality(B) - Cardinality(A \cap B)
    BY <2>2, FS_Union
  <2>4. Cardinality(A \cap B) = 0 BY <2>1, FS_EmptySet
  <2>5. Cardinality(A \cup B) = Cardinality(A) + Cardinality(B) BY <2>2, <2>3, <2>4
  <2> QED BY <2>1, <2>5 DEF A, B
<1>6. Cardinality(1 .. Len(s)) = Len(s) BY <1>1, FS_Interval
<1> QED BY <1>5, <1>6

SetInv ==
  /\ set \in Seq({"rx", "tx"}) /\ members \subseteq {"rx", "tx"}
  /\ evq \in Seq({"data", "pattern"}) /\ txq \in Seq(TxMessage)
  /\ Len(evq) <= EvDepth /\ Len(txq) <= TxDepth
  /\ \A i \in DOMAIN set : set[i] \in members
  /\ HandlesMatchItems

LEMMA SetTypes ==
  ASSUME SetInv
  PROVE  /\ Len(set) \in Nat /\ Len(evq) \in Nat /\ Len(txq) \in Nat
         /\ \A h : Cardinality(Places(set, h)) \in Nat
         /\ \A h : h \notin members => Cardinality(Places(set, h)) = 0
<1>1. Len(set) \in Nat /\ Len(evq) \in Nat /\ Len(txq) \in Nat BY LenProperties DEF SetInv
<1>2. ASSUME NEW h PROVE Cardinality(Places(set, h)) \in Nat BY PlacesAreFinite DEF SetInv
<1>3. ASSUME NEW h, h \notin members PROVE Cardinality(Places(set, h)) = 0
  <2>1. Places(set, h) = {} BY <1>3 DEF SetInv, Places
  <2> QED BY <2>1, FS_EmptySet
<1> QED BY <1>1, <1>2, <1>3

(* The set has room for a handle of every item, so none is ever lost.      *)
LEMMA SetHasRoom ==
  ASSUME SetInv
  PROVE  Len(set) <= Len(evq) + Len(txq)
<1> DEFINE a == Cardinality(Places(set, "rx"))
           b == Cardinality(Places(set, "tx"))
<1>1. /\ Len(set) \in Nat /\ Len(evq) \in Nat /\ Len(txq) \in Nat /\ a \in Nat /\ b \in Nat
      /\ "rx" \notin members => a = 0
      /\ "tx" \notin members => b = 0
  BY SetTypes
<1>2. Len(set) = a + b BY PlacesFill DEF SetInv
<1>3. "rx" \in members => a = Len(evq) BY DEF SetInv, HandlesMatchItems, Waiting, Places
<1>4. "tx" \in members => b = Len(txq) BY DEF SetInv, HandlesMatchItems, Waiting, Places
<1> HIDE DEF a, b
<1>5. a <= Len(evq) BY <1>1, <1>3
<1>6. b <= Len(txq) BY <1>1, <1>4
<1> QED BY <1>1, <1>2, <1>5, <1>6

(* An item goes into queue h, and its handle into the set.                 *)
LEMMA HandleArrives ==
  ASSUME SetInv, NEW h \in {"rx", "tx"}, set' = Notified(h), members' = members,
         evq' \in Seq({"data", "pattern"}), txq' \in Seq(TxMessage),
         IF h = "rx" THEN Len(evq') = Len(evq) + 1 /\ txq' = txq
                     ELSE Len(txq') = Len(txq) + 1 /\ evq' = evq,
         Len(evq') <= EvDepth, Len(txq') <= TxDepth
  PROVE  SetInv'
<1>1. /\ Len(set) \in Nat /\ Len(evq) \in Nat /\ Len(txq) \in Nat
      /\ Len(set) <= Len(evq) + Len(txq) /\ EvDepth \in Nat /\ TxDepth \in Nat
      /\ Len(evq) <= EvDepth /\ Len(txq) <= TxDepth
  BY SetTypes, SetHasRoom, UartAssumption DEF SetInv
<1>2. Len(set) < SetLen
  <2>1. CASE h = "rx"
    <3>1. Len(evq) < EvDepth BY <1>1, <2>1
    <3> QED BY <1>1, <3>1 DEF SetLen
  <2>2. CASE h = "tx"
    <3>1. Len(txq) < TxDepth BY <1>1, <2>2
    <3> QED BY <1>1, <3>1 DEF SetLen
  <2> QED BY <2>1, <2>2
<1>3. set' = IF h \in members THEN Append(set, h) ELSE set BY <1>2 DEF Notified
<1>4. set' \in Seq({"rx", "tx"}) BY <1>3, AppendProperties DEF SetInv
<1>5. \A i \in DOMAIN set' : set'[i] \in members
  <2>1. CASE h \in members
    <3>1. /\ DOMAIN set' = 1 .. Len(set) + 1 /\ DOMAIN set = 1 .. Len(set)
          /\ set'[Len(set) + 1] = h /\ \A i \in 1 .. Len(set) : set'[i] = set[i]
      BY <1>3, <1>4, <2>1, AppendProperties, LenProperties DEF SetInv
    <3>2. \A i \in 1 .. Len(set) + 1 : i = Len(set) + 1 \/ i \in 1 .. Len(set) BY <1>1
    <3> QED BY <2>1, <3>1, <3>2 DEF SetInv
  <2>2. CASE h \notin members BY <1>3, <2>2 DEF SetInv
  <2> QED BY <2>1, <2>2
<1>6. HandlesMatchItems'
  <2> SUFFICES ASSUME NEW k \in members
               PROVE  Cardinality(Places(set', k)) = Len(IF k = "rx" THEN evq' ELSE txq')
    BY DEF HandlesMatchItems, Waiting, Places
  <2>1. Cardinality(Places(set, k)) = Len(IF k = "rx" THEN evq ELSE txq)
    BY DEF SetInv, HandlesMatchItems, Waiting, Places
  <2>2. k \in {"rx", "tx"} BY DEF SetInv
  <2>3. CASE h \in members
    <3>1. set' = Append(set, h) /\ set \in Seq({"rx", "tx"}) BY <1>3, <2>3 DEF SetInv
    <3>2. Cardinality(Places(Append(set, h), k)) = Cardinality(Places(set, k)) + IF h = k THEN 1 ELSE 0
      <4> DEFINE S == {"rx", "tx"}
      <4>1. set \in Seq(S) /\ h \in S BY <3>1
      <4> HIDE DEF S
      <4> QED BY <4>1, PlacesAppend
    <3>3. Cardinality(Places(set, k)) \in Nat BY SetTypes
    <3>4. CASE k = h
      <4>1. Cardinality(Places(set', k)) = Cardinality(Places(set, k)) + 1 BY <3>1, <3>2, <3>4
      <4>2. Len(IF k = "rx" THEN evq' ELSE txq') = Len(IF k = "rx" THEN evq ELSE txq) + 1
        BY <2>2, <3>4
      <4> QED BY <2>1, <4>1, <4>2
    <3>5. CASE k # h
      <4>1. Cardinality(Places(set', k)) = Cardinality(Places(set, k)) BY <3>1, <3>2, <3>3, <3>5
      <4>2. Len(IF k = "rx" THEN evq' ELSE txq') = Len(IF k = "rx" THEN evq ELSE txq)
        BY <2>2, <3>5
      <4> QED BY <2>1, <4>1, <4>2
    <3> QED BY <3>4, <3>5
  <2>4. CASE h \notin members
    <3>1. set' = set /\ k # h BY <1>3, <2>4
    <3> QED BY <2>1, <2>2, <3>1
  <2> QED BY <2>3, <2>4
<1> QED BY <1>4, <1>5, <1>6 DEF SetInv

(* The worker takes a handle, and there is an item to take with it.        *)
LEMMA HandleLeaves ==
  ASSUME SetInv, set # <<>>, set' = Tail(set), members' = members,
         IF Head(set) = "rx" THEN txq' = txq /\ evq' = (IF evq = <<>> THEN evq ELSE Tail(evq))
                             ELSE evq' = evq /\ txq' = (IF txq = <<>> THEN txq ELSE Tail(txq))
  PROVE  SetInv' /\ (IF Head(set) = "rx" THEN evq # <<>> ELSE txq # <<>>)
<1> DEFINE h == Head(set)
<1>1. /\ Len(set) \in Nat /\ Len(evq) \in Nat /\ Len(txq) \in Nat
      /\ Len(evq) <= EvDepth /\ Len(txq) <= TxDepth /\ EvDepth \in Nat /\ TxDepth \in Nat
      /\ \A k : Cardinality(Places(set, k)) \in Nat
  BY SetTypes, UartAssumption DEF SetInv
<1>2. /\ set' \in Seq({"rx", "tx"}) /\ Len(set) > 0 /\ h = set[1] /\ Len(set') = Len(set) - 1
      /\ DOMAIN set = 1 .. Len(set) /\ DOMAIN set' = 1 .. Len(set) - 1
      /\ \A i \in 1 .. Len(set) - 1 : set'[i] = set[i + 1]
  BY HeadTailProperties, EmptySeq, LenProperties DEF SetInv
<1>3. 1 \in DOMAIN set /\ h \in members /\ h \in {"rx", "tx"}
  <2>1. 1 \in 1 .. Len(set) BY <1>1, <1>2
  <2> QED BY <1>2, <2>1 DEF SetInv
<1>4. \A i \in DOMAIN set' : set'[i] \in members
  <2>1. \A i \in 1 .. Len(set) - 1 : i + 1 \in 1 .. Len(set) BY <1>1
  <2> QED BY <1>2, <2>1 DEF SetInv
<1>5. \A k \in members : Cardinality(Places(set, k)) = Len(IF k = "rx" THEN evq ELSE txq)
  BY DEF SetInv, HandlesMatchItems, Waiting, Places
<1>6. \A k : Cardinality(Places(set, k)) = Cardinality(Places(set', k)) + IF h = k THEN 1 ELSE 0
  BY PlacesTail DEF SetInv
<1>7. \A k : Cardinality(Places(set', k)) \in Nat BY <1>2, PlacesAreFinite
<1> HIDE DEF h
<1>8. Len(IF h = "rx" THEN evq ELSE txq) > 0
  <2>1. Cardinality(Places(set, h)) = Cardinality(Places(set', h)) + 1 BY <1>6
  <2> QED BY <1>1, <1>3, <1>5, <1>7, <2>1
<1>9. IF h = "rx" THEN evq # <<>> ELSE txq # <<>> BY <1>8
<1>10. /\ evq' \in Seq({"data", "pattern"}) /\ txq' \in Seq(TxMessage)
       /\ IF h = "rx" THEN Len(evq') = Len(evq) - 1 /\ txq' = txq
                      ELSE Len(txq') = Len(txq) - 1 /\ evq' = evq
  <2>1. CASE h = "rx"
    <3>1. evq # <<>> /\ evq' = Tail(evq) /\ txq' = txq BY <1>9, <2>1 DEF h
    <3> QED BY <2>1, <3>1, HeadTailProperties DEF SetInv
  <2>2. CASE h # "rx"
    <3>1. txq # <<>> /\ txq' = Tail(txq) /\ evq' = evq BY <1>9, <2>2 DEF h
    <3> QED BY <2>2, <3>1, HeadTailProperties DEF SetInv
  <2> QED BY <2>1, <2>2
<1>11. Len(evq') <= EvDepth /\ Len(txq') <= TxDepth BY <1>1, <1>10
<1>12. HandlesMatchItems'
  <2> SUFFICES ASSUME NEW k \in members
               PROVE  Cardinality(Places(set', k)) = Len(IF k = "rx" THEN evq' ELSE txq')
    BY DEF HandlesMatchItems, Waiting, Places
  <2>1. k \in {"rx", "tx"} BY DEF SetInv
  <2>2. CASE k = h
    <3>1. Cardinality(Places(set', k)) + 1 = Len(IF k = "rx" THEN evq ELSE txq) BY <1>5, <1>6, <2>2
    <3> QED BY <1>1, <1>7, <1>10, <2>2, <3>1
  <2>3. CASE k # h
    <3>1. Cardinality(Places(set', k)) + 0 = Len(IF k = "rx" THEN evq ELSE txq) BY <1>5, <1>6, <2>3
    <3> QED BY <1>3, <1>7, <1>10, <2>1, <2>3, <3>1
  <2> QED BY <2>2, <2>3
<1> QED BY <1>2, <1>4, <1>9, <1>10, <1>11, <1>12 DEF SetInv, h

LEMMA SetStays ==
  ASSUME SetInv, UNCHANGED <<set, members, evq, txq>>
  PROVE  SetInv'
BY DEF SetInv, HandlesMatchItems, Waiting

(* xQueueAddToSet: a queue that is empty has no handle in the set.         *)
LEMMA MemberJoins ==
  ASSUME SetInv, NEW h \in {"rx", "tx"}, UNCHANGED <<set, evq, txq>>,
         AddToSet(h, Waiting(h))
  PROVE  SetInv'
<1>1. members' = IF Waiting(h) = <<>> THEN members \cup {h} ELSE members BY DEF AddToSet
<1>2. ASSUME NEW k \in members' PROVE Cardinality(Places(set, k)) = Len(Waiting(k))
  <2>1. CASE k \in members BY <2>1 DEF SetInv, HandlesMatchItems, Places
  <2>2. CASE k \notin members
    <3>1. k = h /\ Waiting(k) = <<>> BY <1>1, <2>2
    <3>2. Cardinality(Places(set, k)) = 0 BY <2>2, SetTypes
    <3> QED BY <3>1, <3>2
  <2> QED BY <2>1, <2>2
<1>3. HandlesMatchItems' BY <1>2 DEF HandlesMatchItems, Waiting, Places
<1>4. members' \subseteq {"rx", "tx"} /\ \A i \in DOMAIN set : set[i] \in members'
  BY <1>1 DEF SetInv
<1> QED BY <1>3, <1>4 DEF SetInv

LEMMA DeliverKeeps ==
  ASSUME SetInv, NEW m \in TxMessage, Deliver(m), UNCHANGED <<members, evq>>
  PROVE  SetInv'
<1>1. CASE subscribed /\ Len(txq) < TxDepth
  <2>1. txq' = Append(txq, m) /\ set' = Notified("tx") BY <1>1 DEF Deliver
  <2>2. txq \in Seq(TxMessage) /\ evq \in Seq({"data", "pattern"}) /\ Len(evq) <= EvDepth BY DEF SetInv
  <2>3. txq' \in Seq(TxMessage) /\ Len(txq') = Len(txq) + 1 BY <2>1, <2>2, AppendProperties
  <2>4. Len(txq') <= TxDepth BY <1>1, <2>3, SetTypes, UartAssumption
  <2> QED BY <2>1, <2>2, <2>3, <2>4, HandleArrives
<1>2. CASE ~(subscribed /\ Len(txq) < TxDepth)
  <2>1. UNCHANGED <<txq, set>> BY <1>2 DEF Deliver
  <2> QED BY <2>1, SetStays
<1> QED BY <1>1, <1>2

LEMMA RequestDelivers ==
  ASSUME TxTypes, SetInv, RequestTx
  PROVE  SetInv'
<1> DEFINE m == [code |-> "tx", id |-> Len(requested) + 1]
<1>1. Len(requested) \in Nat BY LenProperties DEF TxTypes
<1>2. m \in TxMessage BY <1>1 DEF TxMessage
<1>3. Deliver(m) /\ UNCHANGED <<members, evq>> BY DEF RequestTx, startVars, driverVars
<1> QED BY <1>2, <1>3, DeliverKeeps

LEMMA SetKeeps == TxInv /\ SetInv /\ [UartNext]_uartVars => SetInv'
<1> SUFFICES ASSUME TxInv, SetInv, [UartNext]_uartVars
             PROVE  SetInv'
  OBVIOUS
<1>1. CASE StartStep
  <2>1. UNCHANGED <<set, evq, txq>>
    BY <1>1 DEF StartStep, CreatePort, UartStartAgain, EnablePattern, SubscribeTx, CreateSet, AddRxToSet,
       AddTxToSet, StartWorker, driverVars
  <2>2. CASE AddRxToSet
    <3>1. AddToSet("rx", Waiting("rx")) BY <2>2 DEF AddRxToSet, Waiting
    <3> QED BY <2>1, <3>1, MemberJoins
  <2>3. CASE AddTxToSet
    <3>1. AddToSet("tx", Waiting("tx")) BY <2>3 DEF AddTxToSet, Waiting
    <3> QED BY <2>1, <3>1, MemberJoins
  <2>4. CASE ~AddRxToSet /\ ~AddTxToSet
    <3>1. members' = members
      BY <1>1, <2>4 DEF StartStep, CreatePort, UartStartAgain, EnablePattern, SubscribeTx, CreateSet,
         StartWorker
    <3> QED BY <2>1, <3>1, SetStays
  <2> QED BY <2>2, <2>3, <2>4
<1>2. CASE Measure \/ PopPattern \/ ReadNothing \/ ReadIntoSlot \/ ReadIntoTrash \/ WriteOut
  <2>1. UNCHANGED <<set, members, evq, txq>>
    BY <1>2 DEF Measure, PopPattern, ReadNothing, ReadIntoSlot, ReadIntoTrash, WriteOut, startVars, driverVars
  <2> QED BY <2>1, SetStays
<1>3. CASE SelectRx
  <2>1. /\ set # <<>> /\ Head(set) = "rx" /\ set' = Tail(set) /\ UNCHANGED <<members, txq>>
        /\ evq' = IF evq = <<>> THEN evq ELSE Tail(evq)
    BY <1>3 DEF SelectRx, startVars
  <2> QED BY <2>1, HandleLeaves
<1>4. CASE SelectTx
  <2>1. /\ set # <<>> /\ Head(set) = "tx" /\ set' = Tail(set) /\ UNCHANGED <<members, evq>>
        /\ txq' = IF txq = <<>> THEN txq ELSE Tail(txq)
    BY <1>4 DEF SelectTx, startVars, driverVars
  <2> QED BY <2>1, HandleLeaves
<1>5. CASE PublishFrame
  <2>1. [code |-> "frame", id |-> 0] \in TxMessage BY DEF TxMessage
  <2>2. Deliver([code |-> "frame", id |-> 0]) /\ UNCHANGED <<members, evq>>
    BY <1>5 DEF PublishFrame, startVars, driverVars
  <2> QED BY <2>1, <2>2, DeliverKeeps
<1>6. CASE PostOther
  <2>1. [code |-> "other", id |-> 0] \in TxMessage BY DEF TxMessage
  <2>2. Deliver([code |-> "other", id |-> 0]) /\ UNCHANGED <<members, evq>>
    BY <1>6 DEF PostOther, startVars, driverVars
  <2> QED BY <2>1, <2>2, DeliverKeeps
<1>7. ASSUME NEW c \in Chunks, RxInterrupt(c) PROVE SetInv'
  <2>1. UNCHANGED <<members, txq>> BY <1>7 DEF RxInterrupt, startVars
  <2>2. CASE Len(evq) < EvDepth
    <3>1. PICK e \in {"data", "pattern"} : evq' = Append(evq, e) BY <1>7, <2>2 DEF RxInterrupt
    <3>2. set' = Notified("rx") BY <1>7, <2>2 DEF RxInterrupt
    <3>3. evq \in Seq({"data", "pattern"}) /\ txq \in Seq(TxMessage) /\ Len(txq) <= TxDepth
      BY DEF SetInv
    <3>4. evq' \in Seq({"data", "pattern"}) /\ Len(evq') = Len(evq) + 1
      BY <3>1, <3>3, AppendProperties
    <3>5. Len(evq') <= EvDepth BY <2>2, <3>4, SetTypes, UartAssumption
    <3> QED BY <2>1, <3>2, <3>3, <3>4, <3>5, HandleArrives
  <2>3. CASE ~(Len(evq) < EvDepth)
    <3>1. UNCHANGED <<evq, set>> BY <1>7, <2>3 DEF RxInterrupt
    <3> QED BY <2>1, <3>1, SetStays
  <2> QED BY <2>2, <2>3
<1>8. CASE UNCHANGED uartVars
  <2>1. UNCHANGED <<set, members, evq, txq>> BY <1>8 DEF uartVars, startVars, driverVars
  <2> QED BY <2>1, SetStays
<1>9. CASE RequestTx BY <1>9, RequestDelivers DEF TxInv
<1> QED BY <1>1, <1>2, <1>3, <1>4, <1>5, <1>6, <1>7, <1>8, <1>9 DEF UartNext, WorkerStep

LEMMA SetStarts == UartInit => SetInv
<1> SUFFICES ASSUME UartInit PROVE SetInv
  OBVIOUS
<1>1. set = <<>> /\ evq = <<>> /\ txq = <<>> /\ members = {} BY DEF UartInit
<1>2. EvDepth \in Nat /\ TxDepth \in Nat BY UartAssumption
<1> QED BY <1>1, <1>2 DEF SetInv, HandlesMatchItems

(* Every item of a queue that joined the set has its handle there, and     *)
(* every handle its item: the set of 2 * TxDepth + EvDepth never runs      *)
(* full, and the worker never finds a queue empty whose turn it is.        *)
THEOREM NoItemWithoutHandle == UartSpec => []HandlesMatchItems
<1>1. SetInv => HandlesMatchItems BY DEF SetInv
<1>2. UartInit => OneWorker BY DEF UartInit, OneWorker
<1> QED
  BY <1>1, <1>2, OneWorkerKeeps, TxStarts, TxKeeps, SetStarts, SetKeeps, PTL DEF UartSpec

-----------------------------------------------------------------------------
(* TempService.  While a start has installed the sensor and not yet taken  *)
(* the device, the service holds none.                                     *)
HoldInv ==
  /\ tempAt \in {"out", "install", "enable", "queue", "task", "timer", "periodic", "delete"}
  /\ tempStarts \in Nat
  /\ tempAt \in {"install", "enable"} => tempStarts > 0
  /\ IF tempAt = "enable" THEN s_dev = 0 /\ sensor = tempStarts ELSE sensor = s_dev

LEMMA HoldStarts == TempInit => HoldInv
BY DEF TempInit, HoldInv

LEMMA HoldKeeps == HoldInv /\ [TempNext]_tempVars => HoldInv'
<1> SUFFICES ASSUME HoldInv, [TempNext]_tempVars
             PROVE  HoldInv'
  OBVIOUS
<1> USE DEF HoldInv
<1>1. CASE TempStartAgain BY <1>1 DEF TempStartAgain, TempReturn, portVars
<1>2. CASE StartFirst BY <1>2 DEF StartFirst, portVars
<1>3. CASE Install BY <1>3 DEF Install, TempReturn, TempFails
<1>4. CASE Enable BY <1>4 DEF Enable, TempReturn, TempFails, Uninstall
<1>5. CASE TempCreateQueue BY <1>5 DEF TempCreateQueue, TempReturn, TempFails, portVars
<1>6. CASE TempCreateTask BY <1>6 DEF TempCreateTask, TempReturn, TempFails, portVars
<1>7. CASE CreateTimer BY <1>7 DEF CreateTimer, TempReturn, TempFails, portVars
<1>8. CASE StartPeriodic BY <1>8 DEF StartPeriodic, TempReturn, portVars
<1>9. CASE StopTimer BY <1>9 DEF StopTimer, portVars
<1>10. CASE StopDevice BY <1>10 DEF StopDevice, ReleaseDev
<1>11. CASE TimerFires \/ TempWorker \/ UNCHANGED tempVars
  BY <1>11 DEF TimerFires, TempWorker, TakeSignal, Read, tempVars, callVars, portVars
<1> QED
  BY <1>1, <1>2, <1>3, <1>4, <1>5, <1>6, <1>7, <1>8, <1>9, <1>10, <1>11 DEF TempNext, TempStart, TempStop

(* Whichever step of services_internal_temp_start fails, the sensor is     *)
(* installed for the device the service holds, or for none.                *)
THEOREM SensorNeverLeaks == TempSpec => []SensorIsHeld
<1>1. HoldInv => SensorIsHeld BY DEF HoldInv, SensorIsHeld
<1> QED BY <1>1, HoldStarts, HoldKeeps, PTL DEF TempSpec

-----------------------------------------------------------------------------
(* The composition of the runs lets one service move at a time, and each   *)
(* moves as its own specification says; so the theorems above are about    *)
(* the runs too.                                                           *)
THEOREM EachServiceAsSpecified == ServicesSpec => UartSpec /\ LedSpec /\ ReqSpec /\ TempSpec
<1>1. ServicesInit => UartInit /\ LedInit /\ ReqInit /\ TempInit BY DEF ServicesInit
<1>2. [ServicesNext]_serviceVars
        => [UartNext]_uartVars /\ [LedNext]_ledVars /\ [ReqNext]_reqVars /\ [TempNext]_tempVars
  BY DEF ServicesNext, serviceVars, UartAlone, LedAlone, I2cAlone, TempAlone
<1> QED BY <1>1, <1>2, PTL DEF ServicesSpec, UartSpec, LedSpec, ReqSpec, TempSpec
=============================================================================
