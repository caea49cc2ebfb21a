----------------------------- MODULE BoardProofs -----------------------------
(***************************************************************************)
(* The parts of the board for every value of their constants: the counters *)
(* in flash, the RAM log, the event schema, the recovery of the I2C bus,   *)
(* the GPIO inputs and the display.                                        *)
(***************************************************************************)
EXTENDS BoardParts, LcdDriver, NumberFacts, FiniteSetTheorems, SequenceTheorems,
        TLAPS

-----------------------------------------------------------------------------
(* BootCounters.  What one boot knows about the counter it works on: after *)
(* the read it holds what was committed, after the increment one more, and *)
(* what it stored is ahead of everything committed.  A read that failed    *)
(* starts the counter over, so it says nothing about what was committed.   *)
BootTypes ==
  /\ bootPc \in {"init", "erase", "init2", "open", "get", "count", "set", "commit", "run"}
  /\ key \in Keys /\ cnt \in Nat /\ stored \in BOOLEAN
  /\ flash \in [Keys -> Nat] /\ nvs \in [Keys -> Nat]
  /\ counted \in [Keys -> Nat] /\ settled \in [Keys -> Nat]

CounterInv ==
  /\ \A k \in Keys : /\ settled[k] <= flash[k] /\ flash[k] <= counted[k]
                     /\ settled[k] <= nvs[k] /\ nvs[k] <= counted[k]
  /\ bootPc = "count" => /\ cnt <= counted[key]
                         /\ key \notin misread => settled[key] <= cnt
  /\ bootPc = "set" => /\ cnt \in 1 .. counted[key]
                       /\ key \notin misread => settled[key] < cnt
  /\ stored => bootPc = "commit" /\ settled[key] < nvs[key]

BootInv == BootTypes /\ CounterInv

LEMMA BootStarts == BootInit => BootInv
<1> SUFFICES ASSUME BootInit PROVE BootInv OBVIOUS
<1>1. Zero \in [Keys -> Nat] /\ \A k \in Keys : Zero[k] = 0 BY DEF Zero
<1>2. BootTypes BY <1>1 DEF BootInit, BootTypes, Keys
<1>3. CounterInv BY <1>1 DEF BootInit, CounterInv
<1> QED BY <1>2, <1>3 DEF BootInv

(* A reset, at any point, keeps what is in the flash.                      *)
LEMMA RestartKeeps ==
  ASSUME BootInv, NEW r, Restart(r)
  PROVE  BootInv'
<1>1. /\ bootPc' = "init" /\ key' = "crash_cnt" /\ cnt' = 0 /\ nvs' = flash /\ flash' = flash
      /\ stored' = FALSE /\ counted' = counted /\ settled' = settled
  BY DEF Restart
<1> QED BY <1>1 DEF BootInv, BootTypes, CounterInv, Keys

LEMMA NextCounterKeeps ==
  ASSUME BootTypes', \A k \in Keys : /\ settled'[k] <= flash'[k] /\ flash'[k] <= counted'[k]
                                     /\ settled'[k] <= nvs'[k] /\ nvs'[k] <= counted'[k],
         NextCounter
  PROVE  CounterInv'
<1>1. bootPc' \in {"open", "run"} /\ stored' = FALSE BY DEF NextCounter
<1> QED BY <1>1 DEF CounterInv

LEMMA BootKeeps == BootInv /\ [BootNext]_bootVars => BootInv'
<1> SUFFICES ASSUME BootInv, [BootNext]_bootVars PROVE BootInv' OBVIOUS
<1> USE DEF BootInv
<1>1. CASE UNCHANGED bootVars
  BY <1>1 DEF bootVars, flashVars, countVars, BootTypes, CounterInv
<1>2. CASE Reset BY <1>2, RestartKeeps DEF Reset
<1>3. CASE Abort BY <1>3, RestartKeeps DEF Abort
<1>4. CASE (InitFlash \/ InitAgain) /\ ~Abort
  <2>1. /\ bootPc' \in {"open", "erase"} /\ bootPc # "commit"
        /\ key' = key /\ flash' = flash /\ nvs' = nvs /\ cnt' = cnt
        /\ stored' = stored /\ counted' = counted /\ settled' = settled
    BY <1>4 DEF InitFlash, InitAgain, Unusable, flashVars, countVars
  <2> QED BY <2>1 DEF BootTypes, CounterInv
<1>5. CASE EraseFlash /\ ~Abort
  <2>1. /\ bootPc = "erase" /\ bootPc' = "init2" /\ flash' = Zero /\ nvs' = Zero
        /\ counted' = Zero /\ settled' = Zero /\ key' = key /\ cnt' = cnt /\ stored' = stored
    BY <1>5 DEF EraseFlash
  <2> QED BY <2>1 DEF BootTypes, CounterInv, Zero
<1>6. CASE KvOpen
  <2>1. /\ bootPc = "open" /\ flash' = flash /\ nvs' = nvs
        /\ counted' = counted /\ settled' = settled
    BY <1>6 DEF KvOpen, flashVars
  <2>2. CASE NextCounter
    <3>1. BootTypes' BY <2>1, <2>2 DEF NextCounter, BootTypes, Keys
    <3>2. CounterInv' BY <2>1, <2>2, <3>1, NextCounterKeeps DEF CounterInv
    <3> QED BY <3>1, <3>2
  <2>3. CASE bootPc' = "get" /\ key' = key /\ cnt' = cnt /\ stored' = stored
    BY <2>1, <2>3 DEF BootTypes, CounterInv
  <2> QED BY <1>6, <2>2, <2>3 DEF KvOpen
<1>7. CASE KvGet
  <2>1. /\ bootPc = "get" /\ bootPc' = "count" /\ key' = key /\ flash' = flash /\ nvs' = nvs
        /\ stored' = stored /\ counted' = counted /\ settled' = settled
    BY <1>7 DEF KvGet, flashVars
  <2>2. \/ cnt' = nvs[key] /\ misread' = misread
        \/ cnt' = 0 /\ key \in misread'
    BY <1>7 DEF KvGet, Get
  <2>3. BootTypes' BY <2>1, <2>2 DEF BootTypes
  <2>4. CounterInv' BY <2>1, <2>2, <2>3 DEF BootTypes, CounterInv
  <2> QED BY <2>3, <2>4
<1>8. CASE CountOne
  <2>1. /\ bootPc = "count" /\ flash' = flash /\ nvs' = nvs /\ settled' = settled
        /\ misread' = misread
    BY <1>8 DEF CountOne, flashVars
  <2>2. CASE Counts
    <3>1. /\ cnt' = cnt + 1 /\ bootPc' = "set" /\ key' = key /\ stored' = stored
          /\ counted' = [counted EXCEPT ![key] = @ + 1]
      BY <1>8, <2>2 DEF CountOne, Counts
    <3>2. BootTypes' BY <2>1, <3>1 DEF BootTypes
    <3>3. /\ counted'[key] = counted[key] + 1
          /\ \A k \in Keys : k # key => counted'[k] = counted[k]
      BY <3>1 DEF BootTypes
    <3>4. \A k \in Keys : /\ settled[k] \in Nat /\ flash[k] \in Nat /\ nvs[k] \in Nat
                          /\ counted[k] \in Nat
      BY DEF BootTypes
    <3>5. CounterInv' BY <2>1, <3>1, <3>3, <3>4 DEF BootTypes, CounterInv
    <3> QED BY <3>2, <3>5
  <2>3. CASE ~Counts
    <3>1. NextCounter /\ counted' = counted BY <1>8, <2>3 DEF CountOne, Counts
    <3>2. BootTypes' BY <2>1, <3>1 DEF NextCounter, BootTypes, Keys
    <3>3. CounterInv' BY <2>1, <3>1, <3>2, NextCounterKeeps DEF CounterInv
    <3> QED BY <3>2, <3>3
  <2> QED BY <2>2, <2>3
<1>9. CASE KvSet
  <2>1. /\ bootPc = "set" /\ bootPc' = "commit" /\ key' = key /\ cnt' = cnt
        /\ misread' = misread /\ counted' = counted
    BY <1>9 DEF KvSet
  <2>2. CASE nvs' = nvs /\ flash' = flash /\ stored' = stored /\ settled' = settled
    BY <2>1, <2>2 DEF BootTypes, CounterInv
  <2>3. CASE /\ nvs' = [nvs EXCEPT ![key] = cnt] /\ flash' \in {flash, nvs'} /\ stored' = TRUE
             /\ settled' = IF key \in misread THEN [settled EXCEPT ![key] = 0] ELSE settled
    <3>1. BootTypes' BY <2>1, <2>3 DEF BootTypes
    <3>2. nvs'[key] = cnt /\ \A k \in Keys : k # key => nvs'[k] = nvs[k]
      BY <2>3 DEF BootTypes
    <3>3. settled'[key] < cnt /\ cnt \in 1 .. counted[key]
      BY <2>1, <2>3 DEF BootTypes, CounterInv
    <3>4. settled'[key] <= settled[key] /\ \A k \in Keys : k # key => settled'[k] = settled[k]
      <4>1. settled[key] \in Nat BY DEF BootTypes
      <4> QED BY <2>3, <4>1 DEF BootTypes
    <3>5. \A k \in Keys : /\ settled[k] \in Nat /\ flash[k] \in Nat /\ nvs[k] \in Nat
                          /\ counted[k] \in Nat /\ settled'[k] \in Nat
      BY <3>1 DEF BootTypes
    <3>6. \A k \in Keys : settled'[k] <= nvs'[k] /\ nvs'[k] <= counted'[k]
      <4> TAKE k \in Keys
      <4>1. CASE k = key BY <2>1, <3>1, <3>2, <3>3, <3>5, <4>1 DEF BootTypes
      <4>2. CASE k # key BY <2>1, <3>2, <3>4, <4>2 DEF CounterInv
      <4> QED BY <4>1, <4>2
    <3>7. \A k \in Keys : settled'[k] <= flash'[k] /\ flash'[k] <= counted'[k]
      <4>1. CASE flash' = nvs' BY <3>6, <4>1
      <4>2. CASE flash' = flash
        <5> TAKE k \in Keys
        <5>1. settled[k] <= flash[k] /\ flash[k] <= counted[k] BY DEF CounterInv
        <5>2. settled'[k] <= settled[k] BY <3>4, <3>5
        <5> QED BY <2>1, <3>5, <4>2, <5>1, <5>2
      <4> QED BY <2>3, <4>1, <4>2
    <3>8. settled'[key] < nvs'[key] BY <3>2, <3>3
    <3>9. CounterInv' BY <2>1, <3>6, <3>7, <3>8 DEF CounterInv
    <3> QED BY <3>1, <3>9
  <2> QED BY <1>9, <2>2, <2>3 DEF KvSet
<1>10. CASE KvCommit
  <2>1. /\ bootPc = "commit" /\ nvs' = nvs /\ counted' = counted /\ NextCounter
    BY <1>10 DEF KvCommit
  <2>2. CASE flash' = flash /\ settled' = settled
    <3>1. BootTypes' BY <2>1, <2>2 DEF NextCounter, BootTypes, Keys
    <3>2. CounterInv' BY <2>1, <2>2, <3>1, NextCounterKeeps DEF CounterInv
    <3> QED BY <3>1, <3>2
  <2>3. CASE /\ flash' \in {Committed, nvs}
             /\ settled' = IF stored THEN [settled EXCEPT ![key] = @ + 1] ELSE settled
    <3>0. flash' \in [Keys -> Nat] /\ settled' \in [Keys -> Nat]
      <4>1. Committed \in [Keys -> Nat] BY DEF Committed, BootTypes
      <4> QED BY <2>3, <4>1 DEF BootTypes
    <3>1. BootTypes' BY <2>1, <3>0 DEF NextCounter, BootTypes, Keys
    <3>2. /\ flash'[key] = nvs[key]
          /\ \A k \in Keys : k # key => flash'[k] \in {flash[k], nvs[k]}
      BY <2>3 DEF Committed, BootTypes
    <3>3. \A k \in Keys : /\ settled[k] \in Nat /\ nvs[k] \in Nat /\ settled'[k] \in Nat
      BY <3>1 DEF BootTypes
    <3>4. settled'[key] <= nvs[key] /\ \A k \in Keys : k # key => settled'[k] = settled[k]
      <4>1. CASE stored
        <5>1. settled[key] < nvs[key] /\ settled'[key] = settled[key] + 1
          BY <2>3, <4>1 DEF CounterInv, BootTypes
        <5>2. key \in Keys BY DEF BootTypes
        <5> QED BY <2>3, <3>3, <4>1, <5>1, <5>2 DEF BootTypes
      <4>2. CASE ~stored BY <2>3, <4>2 DEF CounterInv, BootTypes
      <4> QED BY <4>1, <4>2
    <3>5. \A k \in Keys : /\ settled'[k] <= flash'[k] /\ flash'[k] <= counted'[k]
                          /\ settled'[k] <= nvs'[k] /\ nvs'[k] <= counted'[k]
      BY <2>1, <3>2, <3>4 DEF CounterInv
    <3>6. CounterInv' BY <2>1, <3>1, <3>5, NextCounterKeeps
    <3> QED BY <3>1, <3>6
  <2> QED BY <1>10, <2>2, <2>3 DEF KvCommit
<1> QED
  BY <1>1, <1>2, <1>3, <1>4, <1>5, <1>6, <1>7, <1>8, <1>9, <1>10
  DEF BootNext, BootStep, InitFlash, InitAgain, EraseFlash

(* A counter in the flash shows every event that was committed and none    *)
(* that did not happen, for any number of resets at any point and any      *)
(* failures of the flash.                                                  *)
THEOREM CountersBracketed == BootSpec => []CountsBracketed
<1>1. BootInv => CountsBracketed BY DEF BootInv, CounterInv, CountsBracketed
<1> QED BY <1>1, BootStarts, BootKeeps, PTL DEF BootSpec

-----------------------------------------------------------------------------
(* LogRing.  The write index and the length follow from how much was       *)
(* logged, and each of the last RbCap bytes lies where its number says.    *)
(* What the console asked for is not more than there is, although lines    *)
(* are logged between its question and its copy.                           *)
Logged == LogTasks \cup {Newline}

RingInv ==
  /\ w = Len(hist) % RbCap
  /\ len = LesserOf(Len(hist), RbCap)
  /\ \A n \in 1 .. Len(hist) : n > Len(hist) - RbCap => rb[(n - 1) % RbCap] = hist[n]
  /\ overflow <=> Len(hist) > RbCap
  /\ cli.pc \in {"dump", "tail"} => cli.limit <= len
  /\ cli.pc \in {"dumped", "tailed"} => rbAt <= Len(hist) /\ cli.limit <= LesserOf(rbAt, RbCap)

LogInv == RbTypeOK /\ RingInv /\ ShownAsAsked

LEMMA RbFacts ==
  ASSUME RbTypeOK
  PROVE  /\ RbCap \in Nat /\ RbCap > 0 /\ Len(hist) \in Nat /\ hist \in Seq(Logged)
         /\ len \in Nat /\ w \in Nat /\ rbAt \in Nat /\ cli.limit \in Nat
         /\ cli.limit \in 0 .. RbCap
         /\ cli.pc \in {"prompt", "dump", "tail", "dumped", "tailed"}
<1>1. RbCap \in Nat /\ RbCap > 0 BY RbAssumption
<1>2. hist \in Seq(Logged) BY DEF RbTypeOK, Logged
<1>3. cli \in [pc : {"prompt", "dump", "tail", "dumped", "tailed"}, limit : 0 .. RbCap]
  BY DEF RbTypeOK
<1> QED BY <1>1, <1>2, <1>3 DEF RbTypeOK

(* Copying n of the last m bytes, from the oldest of them on.              *)
LEMMA CopyIs ==
  ASSUME RbTypeOK, RingInv, NEW m \in Nat, NEW n \in Nat, n <= m, m <= len
  PROVE  CopyFrom((w + RbCap - m) % RbCap, n)
           = SubSeq(hist, Len(hist) - m + 1, Len(hist) - m + n)
<1> DEFINE L == Len(hist)
           start == (w + RbCap - m) % RbCap
           b == L - m
<1>1. /\ RbCap \in Nat /\ RbCap > 0 /\ L \in Nat /\ hist \in Seq(Logged)
  BY RbFacts
<1>2. m <= L /\ m <= RbCap BY <1>1 DEF RingInv, LesserOf
<1>3. start = b % RbCap
  <2>1. w = L % RbCap BY DEF RingInv
  <2>2. start = ((L % RbCap) + (RbCap - m)) % RbCap
    <3>1. L % RbCap \in 0 .. RbCap - 1 BY <1>1, Division
    <3>2. w + RbCap - m = (L % RbCap) + (RbCap - m) BY <1>1, <2>1, <3>1
    <3> QED BY <3>2
  <2>3. ((L % RbCap) + (RbCap - m)) % RbCap = (L + (RbCap - m)) % RbCap
    <3> DEFINE d == RbCap - m
    <3>1. d \in Int /\ L \in Int BY <1>1
    <3> HIDE DEF d, L
    <3>2. ((L % RbCap) + d) % RbCap = (L + d) % RbCap BY <1>1, <3>1, RemainderOfSum
    <3> QED BY <3>2 DEF d
  <2>4. (b + RbCap * 1) % RbCap = b % RbCap
    <3> DEFINE one == 1
    <3>1. b \in Int /\ one \in Int BY <1>1
    <3> HIDE DEF b, one
    <3>2. (b + RbCap * one) % RbCap = b % RbCap BY <1>1, <3>1, AddMultiple
    <3> QED BY <3>2 DEF one
  <2>5. L + (RbCap - m) = b + RbCap * 1 BY <1>1
  <2> QED BY <2>2, <2>3, <2>4, <2>5
<1>4. ASSUME NEW k \in 1 .. n PROVE rb[(start + k - 1) % RbCap] = hist[b + k]
  <2>1. b \in Nat /\ b + k \in 1 .. L /\ b + k > L - RbCap BY <1>1, <1>2
  <2>2. rb[(b + k - 1) % RbCap] = hist[b + k] BY <2>1 DEF RingInv
  <2>3. (start + k - 1) % RbCap = (b + k - 1) % RbCap
    <3>1. ((b % RbCap) + (k - 1)) % RbCap = (b + (k - 1)) % RbCap
      <4> DEFINE j == k - 1
      <4>1. b \in Int /\ j \in Int BY <1>1
      <4> HIDE DEF b, j
      <4>2. ((b % RbCap) + j) % RbCap = (b + j) % RbCap BY <1>1, <4>1, RemainderOfSum
      <4> QED BY <4>2 DEF j
    <3>2. b % RbCap \in Int BY <1>1, <2>1, Division
    <3>3. start + k - 1 = (b % RbCap) + (k - 1) /\ b + k - 1 = b + (k - 1)
      <4> HIDE DEF b, start
      <4> QED BY <1>3, <2>1, <3>2
    <3> QED BY <3>1, <3>3
  <2> QED BY <2>2, <2>3
<1> DEFINE s == SubSeq(hist, L - m + 1, L - m + n)
           c == CopyFrom(start, n)
<1>5. /\ s \in Seq(Logged) /\ Len(s) = n /\ \A k \in 1 .. n : s[k] = hist[b + k]
  <2>1. /\ L - m + 1 \in 1 .. L + 1 /\ L - m + n \in L - m .. L
        /\ L - m + n <= L
    BY <1>1, <1>2
  <2>2. s \in Seq(Logged) BY <1>1, <2>1
  <2>3. Len(s) = n BY <1>1, <1>2, <2>1
  <2>4. \A k \in 1 .. n : s[k] = hist[L - m + 1 + k - 1] BY <1>1, <1>2, <2>1
  <2>5. \A k \in 1 .. n : L - m + 1 + k - 1 = b + k BY <1>1
  <2> QED BY <2>2, <2>3, <2>4, <2>5
<1>6. c = [k \in 1 .. n |-> hist[b + k]] BY <1>4 DEF CopyFrom
<1>7. s = [k \in 1 .. n |-> s[k]]
  <2> HIDE DEF s
  <2>1. DOMAIN s = 1 .. n BY <1>5
  <2> QED BY <1>5, <2>1
<1> QED BY <1>5, <1>6, <1>7

LEMMA RbStarts == RbInit => LogInv
<1> SUFFICES ASSUME RbInit PROVE LogInv OBVIOUS
<1>1. RbCap \in Nat /\ RbCap > 0 /\ MaxLine \in Nat BY RbAssumption
<1>2. RbTypeOK
  <2>1. rb \in [0 .. RbCap - 1 -> LogTasks \cup {Newline, Blank}] BY <1>1 DEF RbInit
  <2>2. 0 \in 0 .. RbCap - 1 /\ 0 \in 0 .. RbCap /\ 0 \in 0 .. MaxLine BY <1>1
  <2>3. left \in [LogTasks -> 0 .. MaxLine] BY <2>2 DEF RbInit
  <2>4. cli \in [pc : {"prompt", "dump", "tail", "dumped", "tailed"}, limit : 0 .. RbCap]
    BY <2>2 DEF RbInit
  <2>5. hist \in Seq(LogTasks \cup {Newline}) BY DEF RbInit
  <2> QED BY <2>1, <2>2, <2>3, <2>4, <2>5 DEF RbInit, RbTypeOK
<1>3. Len(hist) = 0 /\ hist = <<>> BY DEF RbInit
<1>4. 0 % RbCap = 0
  <2>1. (RbCap * 0 + 0) % RbCap = 0 BY <1>1, Remainder
  <2>2. RbCap * 0 + 0 = 0 BY <1>1
  <2> QED BY <2>1, <2>2
<1>5. RingInv BY <1>1, <1>3, <1>4 DEF RbInit, RingInv, LesserOf
<1>6. ShownAsAsked BY DEF RbInit, ShownAsAsked
<1> QED BY <1>2, <1>5, <1>6 DEF LogInv

(* One byte into the ring.                                                 *)
LEMMA WriteKeepsRing ==
  ASSUME RbTypeOK, RingInv, NEW b \in Logged, WriteByte(b)
  PROVE  /\ rb' \in [0 .. RbCap - 1 -> LogTasks \cup {Newline, Blank}]
         /\ w' \in 0 .. RbCap - 1 /\ len' \in 0 .. RbCap /\ overflow' \in BOOLEAN
         /\ hist' = Append(hist, b) /\ hist' \in Seq(Logged) /\ Len(hist') = Len(hist) + 1
         /\ w' = Len(hist') % RbCap
         /\ len' = LesserOf(Len(hist'), RbCap) /\ len <= len'
         /\ \A n \in 1 .. Len(hist') : n > Len(hist') - RbCap => rb'[(n - 1) % RbCap] = hist'[n]
         /\ overflow' <=> Len(hist') > RbCap
<1> DEFINE L == Len(hist)
<1>1. /\ RbCap \in Nat /\ RbCap > 0 /\ L \in Nat /\ hist \in Seq(Logged)
      /\ len \in 0 .. RbCap /\ w \in 0 .. RbCap - 1 /\ overflow \in BOOLEAN
      /\ rb \in [0 .. RbCap - 1 -> LogTasks \cup {Newline, Blank}]
  BY RbFacts DEF RbTypeOK
<1>2. /\ rb' = [rb EXCEPT ![w] = b] /\ w' = (w + 1) % RbCap /\ hist' = Append(hist, b)
      /\ len < RbCap => len' = len + 1 /\ overflow' = overflow
      /\ ~(len < RbCap) => overflow' = TRUE /\ len' = len
  BY DEF WriteByte, NextPos
<1>3. /\ hist' \in Seq(Logged) /\ Len(hist') = L + 1 /\ hist'[L + 1] = b
      /\ \A n \in 1 .. L : hist'[n] = hist[n]
  BY <1>1, <1>2
<1>4. rb' \in [0 .. RbCap - 1 -> LogTasks \cup {Newline, Blank}] BY <1>1, <1>2 DEF Logged
<1>5. w' = (L + 1) % RbCap
  <2>1. w = L % RbCap BY DEF RingInv
  <2>2. ((L % RbCap) + 1) % RbCap = (L + 1) % RbCap
    <3> DEFINE one == 1
    <3>1. L \in Int /\ one \in Int BY <1>1
    <3> HIDE DEF L, one
    <3>2. ((L % RbCap) + one) % RbCap = (L + one) % RbCap BY <1>1, <3>1, RemainderOfSum
    <3> QED BY <3>2 DEF one
  <2> QED BY <1>2, <2>1, <2>2
<1>6. w' \in 0 .. RbCap - 1
  <2> DEFINE x == L + 1
  <2>1. x \in Int /\ w' = x % RbCap BY <1>1, <1>5
  <2>2. RbCap \in Nat /\ RbCap > 0 BY <1>1
  <2>3. x \in Int BY <2>1
  <2> HIDE DEF x, L
  <2>4. x % RbCap \in 0 .. RbCap - 1 BY <2>2, <2>3, Division
  <2> QED BY <2>1, <2>4
<1>7. len' \in 0 .. RbCap /\ overflow' \in BOOLEAN /\ len <= len'
  <2> HIDE DEF L
  <2>1. CASE len < RbCap BY <1>1, <1>2, <2>1
  <2>2. CASE ~(len < RbCap) BY <1>1, <1>2, <2>2
  <2> QED BY <2>1, <2>2
<1>8. len' = LesserOf(L + 1, RbCap) /\ (overflow' <=> L + 1 > RbCap)
  <2>1. len = LesserOf(L, RbCap) /\ (overflow <=> L > RbCap) BY DEF RingInv
  <2> HIDE DEF L
  <2> QED BY <1>1, <1>2, <2>1 DEF LesserOf
<1>9. ASSUME NEW n \in 1 .. L + 1, n > L + 1 - RbCap
      PROVE  rb'[(n - 1) % RbCap] = hist'[n]
  <2>1. w = L % RbCap BY DEF RingInv
  <2>2. CASE n = L + 1
    <3>1. n - 1 = L BY <1>1, <2>2
    <3>2. rb'[w] = b BY <1>1, <1>2
    <3> QED BY <1>3, <2>1, <2>2, <3>1, <3>2
  <2>3. CASE n # L + 1
    <3>1. n \in 1 .. L /\ n > L - RbCap BY <1>1, <1>9, <2>3
    <3>2. rb[(n - 1) % RbCap] = hist[n] BY <3>1 DEF RingInv
    <3> DEFINE j == n - 1
    <3>3. j \in Int /\ L \in Int /\ -RbCap < L - j /\ L - j < RbCap /\ j # L
      BY <1>1, <1>9, <3>1
    <3> HIDE DEF j, L
    <3>4. L % RbCap # j % RbCap BY <1>1, <3>3, SameRemainder
    <3>5. j % RbCap \in 0 .. RbCap - 1 BY <1>1, <3>3, Division
    <3>6. rb'[j % RbCap] = rb[j % RbCap] BY <1>1, <1>2, <2>1, <3>4, <3>5
    <3>7. rb'[(n - 1) % RbCap] = rb[(n - 1) % RbCap] BY <3>6 DEF j
    <3>8. hist'[n] = hist[n] BY <1>3, <3>1 DEF L
    <3> QED BY <3>2, <3>7, <3>8
  <2> QED BY <2>2, <2>3
<1>10. Len(hist') = Len(hist) + 1 BY <1>3
<1>11. /\ w' = Len(hist') % RbCap /\ len' = LesserOf(Len(hist'), RbCap)
       /\ overflow' <=> Len(hist') > RbCap
  BY <1>3, <1>5, <1>8
<1>12. \A n \in 1 .. Len(hist') : n > Len(hist') - RbCap => rb'[(n - 1) % RbCap] = hist'[n]
  <2> HIDE DEF L
  <2> TAKE n \in 1 .. Len(hist')
  <2> HAVE n > Len(hist') - RbCap
  <2>1. Len(hist') = L + 1 BY <1>3
  <2>2. n \in 1 .. L + 1 /\ n > L + 1 - RbCap BY <1>1, <2>1
  <2> QED BY <1>9, <2>2
<1> QED BY <1>2, <1>3, <1>4, <1>6, <1>7, <1>10, <1>11, <1>12

(* What was shown stays what was asked, though the log goes on.            *)
LEMMA AppendKeepsShown ==
  ASSUME RbTypeOK, RingInv, ShownAsAsked, NEW b \in Logged, hist' = Append(hist, b),
         cli' = cli, shown' = shown, rbAt' = rbAt
  PROVE  ShownAsAsked'
<1> DEFINE kept == LesserOf(rbAt, RbCap)
<1>1. /\ hist \in Seq(Logged) /\ Len(hist) \in Nat /\ rbAt \in Nat /\ cli.limit \in Nat
      /\ RbCap \in Nat
  BY RbFacts
<1>2. kept \in Nat /\ kept <= rbAt BY <1>1 DEF LesserOf
<1>3. \A i \in Nat \ {0}, j \in Nat : j <= Len(hist) => SubSeq(hist', i, j) = SubSeq(hist, i, j)
  <2> TAKE i \in Nat \ {0}, j \in Nat
  <2> HAVE j <= Len(hist)
  <2>1. \A k \in i .. j : hist'[k] = hist[k] BY <1>1
  <2>2. SubSeq(hist', i, j) = [k \in 1 .. j - i + 1 |-> hist'[i + k - 1]] BY <1>1 DEF SubSeq
  <2>3. SubSeq(hist, i, j) = [k \in 1 .. j - i + 1 |-> hist[i + k - 1]] BY <1>1 DEF SubSeq
  <2>4. \A k \in 1 .. j - i + 1 : i + k - 1 \in i .. j OBVIOUS
  <2> QED BY <2>1, <2>2, <2>3, <2>4
<1>4. CASE cli.pc = "dumped"
  <2>1. cli.limit <= kept /\ rbAt <= Len(hist) BY <1>4 DEF RingInv
  <2>2. rbAt - kept + 1 \in Nat \ {0} /\ rbAt - kept + cli.limit \in Nat
        /\ rbAt - kept + cli.limit <= Len(hist)
    BY <1>1, <1>2, <2>1
  <2>3. shown = SubSeq(hist, rbAt - kept + 1, rbAt - kept + cli.limit)
    BY <1>4 DEF ShownAsAsked
  <2>4. shown' = SubSeq(hist', rbAt - kept + 1, rbAt - kept + cli.limit)
    <3> HIDE DEF kept
    <3> QED BY <1>3, <2>2, <2>3
  <2> QED BY <1>4, <2>4 DEF ShownAsAsked
<1>5. CASE cli.pc = "tailed"
  <2>1. cli.limit <= kept /\ rbAt <= Len(hist) BY <1>5 DEF RingInv
  <2>2. rbAt - cli.limit + 1 \in Nat \ {0} BY <1>1, <1>2, <2>1
  <2>3. shown' = SubSeq(hist', rbAt - cli.limit + 1, rbAt)
    BY <1>1, <1>3, <1>5, <2>1, <2>2 DEF ShownAsAsked
  <2> QED BY <1>5, <2>3 DEF ShownAsAsked
<1>6. CASE cli.pc \notin {"dumped", "tailed"} BY <1>6 DEF ShownAsAsked
<1> QED BY <1>4, <1>5, <1>6

LEMMA PushKeepsLog ==
  ASSUME LogInv, NEW t \in LogTasks, PushByte(t) \/ PushEnd(t)
  PROVE  LogInv'
<1> USE DEF LogInv
<1>1. PICK b \in Logged : WriteByte(b)
  <2>1. t \in Logged /\ Newline \in Logged BY DEF Logged
  <2> QED BY <2>1 DEF PushByte, PushEnd
<1>2. cli' = cli /\ shown' = shown /\ rbAt' = rbAt BY DEF PushByte, PushEnd, cliVars
<1>3. inside' \subseteq LogTasks /\ left' \in [LogTasks -> 0 .. MaxLine]
  <2>1. CASE PushByte(t)
    <3>1. left[t] \in 0 .. MaxLine /\ MaxLine \in Nat BY RbAssumption DEF RbTypeOK
    <3>2. left[t] > 0 /\ left' = [left EXCEPT ![t] = left[t] - 1] /\ inside' = inside
      BY <2>1 DEF PushByte
    <3>3. left[t] - 1 \in 0 .. MaxLine BY <3>1, <3>2
    <3> QED BY <3>2, <3>3 DEF RbTypeOK
  <2>2. CASE PushEnd(t) BY <2>2 DEF PushEnd, RbTypeOK
  <2> QED BY <2>1, <2>2
<1>4. /\ rb' \in [0 .. RbCap - 1 -> LogTasks \cup {Newline, Blank}]
      /\ w' \in 0 .. RbCap - 1 /\ len' \in 0 .. RbCap /\ overflow' \in BOOLEAN
      /\ hist' = Append(hist, b) /\ hist' \in Seq(Logged) /\ Len(hist') = Len(hist) + 1
      /\ w' = Len(hist') % RbCap
      /\ len' = LesserOf(Len(hist'), RbCap) /\ len <= len'
      /\ \A n \in 1 .. Len(hist') : n > Len(hist') - RbCap => rb'[(n - 1) % RbCap] = hist'[n]
      /\ overflow' <=> Len(hist') > RbCap
  BY <1>1, WriteKeepsRing
<1>5. RbTypeOK' BY <1>2, <1>3, <1>4 DEF RbTypeOK, Logged
<1>6. /\ cli.pc \in {"dump", "tail"} => cli.limit <= len'
      /\ cli.pc \in {"dumped", "tailed"} => rbAt <= Len(hist') /\ cli.limit <= LesserOf(rbAt, RbCap)
  <2>1. Len(hist) \in Nat /\ cli.limit \in Nat /\ len \in Nat /\ rbAt \in Nat BY RbFacts
  <2>2. len' \in Nat BY <1>4, RbAssumption
  <2> QED BY <1>4, <2>1, <2>2 DEF RingInv
<1>7. RingInv' BY <1>2, <1>4, <1>6 DEF RingInv
<1>8. ShownAsAsked' BY <1>1, <1>2, <1>4, AppendKeepsShown
<1> QED BY <1>5, <1>7, <1>8

LEMMA ShowKeepsLog ==
  ASSUME LogInv, CliDump \/ CliTail
  PROVE  LogInv'
<1> USE DEF LogInv
<1> DEFINE m == cli.limit
<1>1. /\ RbCap \in Nat /\ RbCap > 0 /\ Len(hist) \in Nat /\ hist \in Seq(Logged)
      /\ len \in Nat /\ m \in Nat /\ m \in 0 .. RbCap
  BY RbFacts
<1>2. /\ cli.pc \in {"dump", "tail"} /\ rbAt' = Len(hist)
      /\ cli' = [cli EXCEPT !.pc = IF cli.pc = "dump" THEN "dumped" ELSE "tailed"]
      /\ rb' = rb /\ w' = w /\ len' = len /\ overflow' = overflow /\ hist' = hist
      /\ inside' = inside /\ left' = left
  BY DEF CliDump, CliTail, Show, ringVars
<1>3. /\ cli'.limit = m /\ cli'.pc = IF cli.pc = "dump" THEN "dumped" ELSE "tailed"
      /\ cli' \in [pc : {"prompt", "dump", "tail", "dumped", "tailed"}, limit : 0 .. RbCap]
  <2>1. cli \in [pc : {"prompt", "dump", "tail", "dumped", "tailed"}, limit : 0 .. RbCap]
    BY DEF RbTypeOK
  <2> QED BY <1>2, <2>1
<1>4. RbTypeOK' BY <1>1, <1>2, <1>3 DEF RbTypeOK
<1>5. m <= len /\ len = LesserOf(Len(hist), RbCap) BY <1>2 DEF RingInv
<1>6. RingInv' BY <1>1, <1>2, <1>3, <1>5 DEF RingInv
<1>7. len <= Len(hist) BY <1>1, <1>5 DEF LesserOf
<1>8. CASE CliDump
  <2>1. cli.pc = "dump" /\ shown' = IF m = 0 THEN <<>> ELSE Snapshot(m)
    BY <1>8 DEF CliDump, Show
  <2>2. LesserOf(len, m) = m BY <1>1, <1>5 DEF LesserOf
  <2>3. Snapshot(m) = SubSeq(hist, Len(hist) - len + 1, Len(hist) - len + m)
    <3>1. CopyFrom((w + RbCap - len) % RbCap, m)
            = SubSeq(hist, Len(hist) - len + 1, Len(hist) - len + m)
      <4> DEFINE x == m
      <4>1. x \in Nat /\ x <= len /\ len <= len BY <1>1, <1>5
      <4> HIDE DEF x
      <4>2. CopyFrom((w + RbCap - len) % RbCap, x)
              = SubSeq(hist, Len(hist) - len + 1, Len(hist) - len + x)
        BY <1>1, <4>1, CopyIs
      <4> QED BY <4>2 DEF x
    <3> QED BY <2>2, <3>1 DEF Snapshot
  <2>4. m = 0 => SubSeq(hist, Len(hist) - len + 1, Len(hist) - len + m) = <<>>
    BY <1>1, <1>7
  <2>5. shown' = SubSeq(hist, Len(hist) - len + 1, Len(hist) - len + m)
    BY <2>1, <2>3, <2>4
  <2>6. cli'.pc = "dumped" BY <1>3, <2>1
  <2> QED BY <1>2, <1>3, <1>4, <1>5, <1>6, <2>5, <2>6 DEF ShownAsAsked
<1>9. CASE CliTail
  <2>1. cli.pc = "tail" /\ shown' = IF m = 0 THEN <<>> ELSE Latest(m)
    BY <1>9 DEF CliTail, Show
  <2>2. LesserOf(m, len) = m BY <1>1, <1>5 DEF LesserOf
  <2>3. Latest(m) = SubSeq(hist, Len(hist) - m + 1, Len(hist))
    <3>1. CopyFrom((w + RbCap - m) % RbCap, m)
            = SubSeq(hist, Len(hist) - m + 1, Len(hist) - m + m)
      <4> DEFINE x == m
      <4>1. x \in Nat /\ x <= x /\ x <= len BY <1>1, <1>5
      <4> HIDE DEF x
      <4>2. CopyFrom((w + RbCap - x) % RbCap, x)
              = SubSeq(hist, Len(hist) - x + 1, Len(hist) - x + x)
        BY <4>1, CopyIs
      <4> QED BY <4>2 DEF x
    <3>2. Len(hist) - m + m = Len(hist) BY <1>1
    <3> QED BY <2>2, <3>1, <3>2 DEF Latest
  <2>4. m = 0 => SubSeq(hist, Len(hist) - m + 1, Len(hist)) = <<>> BY <1>1
  <2>5. shown' = SubSeq(hist, Len(hist) - m + 1, Len(hist)) BY <2>1, <2>3, <2>4
  <2>6. cli'.pc = "tailed" BY <1>3, <2>1
  <2> QED BY <1>2, <1>3, <1>4, <1>6, <2>5, <2>6 DEF ShownAsAsked
<1> QED BY <1>8, <1>9

LEMMA RbKeeps == LogInv /\ [RbNext]_rbVars => LogInv'
<1> SUFFICES ASSUME LogInv, [RbNext]_rbVars PROVE LogInv' OBVIOUS
<1> USE DEF LogInv
<1>0. /\ RbCap \in Nat /\ RbCap > 0 /\ MaxLine \in Nat /\ Len(hist) \in Nat /\ len \in Nat
      /\ len \in 0 .. RbCap
  BY RbFacts, RbAssumption DEF RbTypeOK
<1>1. CASE UNCHANGED rbVars
  BY <1>1 DEF rbVars, ringVars, cliVars, RbTypeOK, RingInv, ShownAsAsked
<1>2. ASSUME NEW t \in LogTasks, PushByte(t) \/ PushEnd(t) PROVE LogInv'
  BY <1>2, PushKeepsLog
<1>3. ASSUME NEW t \in LogTasks, NEW n \in 0 .. MaxLine, PushBegin(t, n) PROVE LogInv'
  <2>1. /\ rb' = rb /\ w' = w /\ len' = len /\ overflow' = overflow /\ hist' = hist
        /\ cli' = cli /\ shown' = shown /\ rbAt' = rbAt
        /\ inside' = inside \cup {t} /\ left' = [left EXCEPT ![t] = n]
    BY <1>3 DEF PushBegin, ringVars, cliVars
  <2>2. RbTypeOK' BY <2>1 DEF RbTypeOK
  <2>3. RingInv' /\ ShownAsAsked' BY <2>1 DEF RingInv, ShownAsAsked
  <2> QED BY <2>2, <2>3
<1>4. ASSUME NEW cmd \in {"dump", "tail"}, NEW n \in 0 .. RbCap, CliStat(cmd, n) PROVE LogInv'
  <2>1. /\ rb' = rb /\ w' = w /\ len' = len /\ overflow' = overflow /\ hist' = hist
        /\ cli' = [pc |-> cmd, limit |-> LesserOf(n, len)] /\ shown' = shown /\ rbAt' = rbAt
        /\ inside' = inside /\ left' = left
    BY <1>4 DEF CliStat, ringVars, StatLimit
  <2>2. LesserOf(n, len) \in 0 .. RbCap /\ LesserOf(n, len) <= len BY <1>0 DEF LesserOf
  <2>3. RbTypeOK' BY <2>1, <2>2 DEF RbTypeOK
  <2>4. RingInv' BY <2>1, <2>2 DEF RingInv
  <2>5. ShownAsAsked' BY <2>1 DEF ShownAsAsked
  <2> QED BY <2>3, <2>4, <2>5
<1>5. CASE CliDump \/ CliTail BY <1>5, ShowKeepsLog
<1>6. CASE CliReturn
  <2>1. /\ rb' = rb /\ w' = w /\ len' = len /\ overflow' = overflow /\ hist' = hist
        /\ cli' = [pc |-> "prompt", limit |-> 0] /\ shown' = <<>> /\ rbAt' = 0
        /\ inside' = inside /\ left' = left
    BY <1>6 DEF CliReturn, ringVars
  <2>2. RbTypeOK' BY <1>0, <2>1 DEF RbTypeOK
  <2>3. RingInv' /\ ShownAsAsked' BY <2>1 DEF RingInv, ShownAsAsked
  <2> QED BY <2>2, <2>3
<1>7. CASE CliClear
  <2>1. /\ rb' = rb /\ w' = 0 /\ len' = 0 /\ overflow' = FALSE /\ hist' = <<>>
        /\ cli' = cli /\ cli.pc = "prompt" /\ shown' = shown /\ rbAt' = rbAt
        /\ inside' = inside /\ left' = left
    BY <1>7 DEF CliClear, cliVars
  <2>2. RbTypeOK'
    <3>1. 0 \in 0 .. RbCap - 1 /\ 0 \in 0 .. RbCap /\ FALSE \in BOOLEAN BY <1>0
    <3>2. <<>> \in Seq(LogTasks \cup {Newline}) OBVIOUS
    <3> QED BY <2>1, <3>1, <3>2 DEF RbTypeOK
  <2>3. 0 % RbCap = 0
    <3>1. (RbCap * 0 + 0) % RbCap = 0 BY <1>0, Remainder
    <3>2. RbCap * 0 + 0 = 0 BY <1>0
    <3> QED BY <3>1, <3>2
  <2>4. RingInv' BY <1>0, <2>1, <2>3 DEF RingInv, LesserOf
  <2>5. ShownAsAsked' BY <2>1 DEF ShownAsAsked
  <2> QED BY <2>2, <2>4, <2>5
<1> QED BY <1>1, <1>2, <1>3, <1>4, <1>5, <1>6, <1>7 DEF RbNext

(* Read from its oldest byte, the ring is the end of the log, for every    *)
(* size, however often it wrapped around or was cleared.                   *)
THEOREM RingHoldsLogEnd == RbSpec => []RingIsLogEnd
<1>1. LogInv => RingIsLogEnd
  <2> SUFFICES ASSUME LogInv PROVE RingIsLogEnd OBVIOUS
  <2> USE DEF LogInv
  <2>1. /\ RbCap \in Nat /\ len \in Nat /\ Len(hist) \in Nat /\ len = LesserOf(Len(hist), RbCap)
        /\ len \in 0 .. RbCap
    BY RbFacts DEF RingInv, RbTypeOK
  <2>2. LesserOf(len, RbCap) = len BY <2>1 DEF LesserOf
  <2>3. CopyFrom((w + RbCap - len) % RbCap, len)
          = SubSeq(hist, Len(hist) - len + 1, Len(hist) - len + len)
    <3> DEFINE x == len
    <3>1. x \in Nat /\ x <= x /\ x <= len BY <2>1
    <3> HIDE DEF x
    <3>2. CopyFrom((w + RbCap - x) % RbCap, x)
            = SubSeq(hist, Len(hist) - x + 1, Len(hist) - x + x)
      BY <3>1, CopyIs
    <3> QED BY <3>2 DEF x
  <2>4. Len(hist) - len + len = Len(hist) BY <2>1
  <2> QED BY <2>1, <2>2, <2>3, <2>4 DEF RingIsLogEnd, RingInv, Snapshot
<1> QED BY <1>1, RbStarts, RbKeeps, PTL DEF RbSpec

(* logrb dump and tail show what was asked, though lines are logged        *)
(* between the question for the size and the copy.                         *)
THEOREM LogrbShowsAsAsked == RbSpec => []ShownAsAsked
<1>1. LogInv => ShownAsAsked BY DEF LogInv
<1> QED BY <1>1, RbStarts, RbKeeps, PTL DEF RbSpec

-----------------------------------------------------------------------------
(* EvSchema.  A program that is up has a table that passed the self-test,  *)
(* and the table never changes.                                            *)
SchemaInv ==
  /\ table \in Tables \cup {Shipped}
  /\ up = "up" => SelfTest(table)

LEMMA SchemaKeeps == SchemaInv /\ [SchemaNext]_schemaVars => SchemaInv'
<1> SUFFICES ASSUME SchemaInv, [SchemaNext]_schemaVars PROVE SchemaInv' OBVIOUS
<1> USE DEF SchemaInv
<1>1. CASE Boot BY <1>1 DEF Boot
<1>2. ASSUME NEW n, NEW api, NEW zero, Post(n, api, zero) PROVE SchemaInv'
  <2>1. up = "up" /\ table' = table BY <1>2 DEF Post, Posting
  <2>2. up' \in {up, "abort"} BY <1>2 DEF Post, Call
  <2> QED BY <2>1, <2>2
<1>3. ASSUME NEW arg, NEW n, Evstat(arg, n) PROVE SchemaInv' BY <1>3 DEF Evstat
<1>4. CASE UNCHANGED schemaVars BY <1>4 DEF schemaVars
<1> QED BY <1>1, <1>2, <1>3, <1>4 DEF SchemaNext

(* In a table that passed the self-test every row is found under its key:  *)
(* no earlier row shadows it.                                              *)
LEMMA FindsOwnRow ==
  ASSUME NEW t \in Seq(RowType), KeysDiffer(t), NEW i \in DOMAIN t
  PROVE  Find(t, t[i].key) = i
<1> DEFINE same == {j \in DOMAIN t : t[j].key = t[i].key}
<1>1. DOMAIN t \subseteq Nat BY DEF RowType
<1>2. ASSUME NEW j \in same PROVE j = i
  <2>1. j \in Nat /\ i \in Nat BY <1>1
  <2>2. ~(j < i) /\ ~(i < j) BY DEF KeysDiffer
  <2> QED BY <2>1, <2>2
<1>3. same = {i} BY <1>2
<1>4. Min({i}) = i
  <2>1. {i} \subseteq Nat /\ {i} # {} BY <1>1
  <2>2. Min({i}) \in {i} BY <2>1, MinIs
  <2> QED BY <2>2
<1> QED BY <1>3, <1>4 DEF Find

(* Whatever table a program is built with: when it comes up, each event    *)
(* can be posted, a lease by ev_post_lease alone and any other by ev_post  *)
(* and ev_post_from_isr alone.                                             *)
THEOREM UpHasItsApis == SchemaSpec => []EveryEventHasItsApi
<1>1. SchemaInit => SchemaInv BY DEF SchemaInit, SchemaInv
<1>2. SchemaInv => EveryEventHasItsApi
  <2> SUFFICES ASSUME SchemaInv, up = "up", NEW i \in DOMAIN table
               PROVE  /\ Find(table, table[i].key) = i
                      /\ {api \in Apis : Accepts(api, table[i], TRUE)} = ApisFor(table[i])
    BY DEF EveryEventHasItsApi
  <2>1. table \in Seq(RowType) BY SchemaAssumption DEF SchemaInv
  <2>2. KeysDiffer(table) /\ Sound(table[i]) BY DEF SchemaInv, SelfTest
  <2>3. Find(table, table[i].key) = i BY <2>1, <2>2, FindsOwnRow
  <2>4. table[i].qos \in {"DROP_NEW", "REPLACE_LAST"}
    <3>1. table[i] \in RowType BY <2>1
    <3> QED BY <3>1 DEF RowType
  <2>5. Accepts("post_lease", table[i], TRUE) <=> table[i].kind = "LEASE"
    BY <2>2, <2>4 DEF Accepts, Sound
  <2>6. \A api \in {"post", "post_from_isr"} : Accepts(api, table[i], TRUE) <=> table[i].kind # "LEASE"
    BY DEF Accepts
  <2> QED BY <2>3, <2>5, <2>6 DEF Apis, ApisFor
<1> QED BY <1>1, <1>2, SchemaKeeps, PTL DEF SchemaSpec

-----------------------------------------------------------------------------
(* I2cBus.  A slave that was acknowledging pulls SDA until SCL falls, with *)
(* the configuration or with the first clock of the recovery; from then on *)
(* nothing but the STOP can change what it does, and the last write of the *)
(* sequence raises SDA while SCL is high.  Without a recovery SDA was seen *)
(* high, so the slave had let go before.                                   *)
Holding  == slave.mode = "ack" /\ mScl = 1
LetGo    == slave.mode = "silent" /\ mScl \in {0, 1} /\ mSda \in {0, 1}
OutOrIdle == /\ mSda = 1 /\ mScl \in {0, 1}
             /\ \/ slave.mode = "idle" /\ mScl = 1
                \/ slave.mode = "silent" /\ clocks = 0

AckConfig ==
  /\ busPc \in {"config", "look"} /\ clocks = 0 /\ mSda \in {0, 1}
  /\ Holding \/ (LetGo /\ mScl = 0)
  /\ busPc = "config" => \/ todo = <<"sda", "scl">> /\ Holding
                         \/ todo = <<"scl", "sda">> /\ Holding
                         \/ todo = <<"sda">>
                         \/ todo = <<"scl">> /\ Holding
AckClocks ==
  /\ clocks \in Nat /\ mSda \in {0, 1}
  /\ \/ busPc = "low" /\ (Holding \/ LetGo)
     \/ busPc = "high" /\ LetGo /\ mScl = 0
     \/ busPc = "sample" /\ LetGo /\ mScl = 1 /\ clocks > 0
AckStop ==
  /\ busPc = "stop" /\ LetGo /\ clocks \in Nat /\ clocks > 0
  /\ \/ todo = StopSequence /\ mScl = 1
     \/ todo = <<"sda0", "scl1", "sda1", "sda1", "scl1">> /\ mScl = 0
     \/ todo = <<"scl1", "sda1", "sda1", "scl1">> /\ mScl = 0 /\ mSda = 0
     \/ todo = <<"sda1", "sda1", "scl1">> /\ mScl = 1 /\ mSda = 0
AckReset == busPc = "stop" /\ OutOrIdle /\ (todo = ResetPins \/ todo = <<"scl1">>)
AckEnd   == busPc \in {"probe", "end"} /\ OutOrIdle

AckInv == slaveBegan = "ack" => AckConfig \/ AckClocks \/ AckStop \/ AckReset \/ AckEnd

(* What the two pin writes do to the mode of such a slave.                 *)
LEMMA AckWrites ==
  ASSUME slave.mode \in {"ack", "silent", "idle"}, NEW v \in {0, 1}
  PROVE  /\ WriteScl(v) => /\ mScl' = v /\ mSda' = mSda
                           /\ v = 0 /\ mScl = 1 => slave'.mode = IF slave.mode = "ack" THEN "silent"
                                                                 ELSE slave.mode
                           /\ (v = 1 \/ mScl = 0) /\ mScl \in {0, 1} => slave'.mode = slave.mode
         /\ WriteSda(v) => /\ mSda' = v /\ mScl' = mScl
                           /\ (slave.mode = "ack" \/ mScl = 0) => slave' = slave
                           /\ slave.mode = "silent" /\ mScl = 1 /\ mSda = 0 /\ v = 1
                                => slave'.mode = "idle"
<1>1. ASSUME WriteScl(v), v = 0, mScl = 1
      PROVE  slave'.mode = IF slave.mode = "ack" THEN "silent" ELSE slave.mode
  <2>1. slave' \in OnFall(slave) BY <1>1 DEF WriteScl
  <2>2. CASE slave.mode = "ack"
    <3>1. OnFall(slave) = {[mode |-> "silent", bits |-> <<>>]} BY <2>2 DEF OnFall
    <3> QED BY <2>1, <2>2, <3>1
  <2>3. CASE slave.mode # "ack"
    <3>1. OnFall(slave) = {slave} BY <2>3 DEF OnFall
    <3> QED BY <2>1, <2>3, <3>1
  <2> QED BY <2>2, <2>3
<1>2. ASSUME WriteScl(v), v = 1 \/ mScl = 0, mScl \in {0, 1}
      PROVE  slave'.mode = slave.mode
  <2>1. OnRise(slave) = slave BY DEF OnRise
  <2>2. CASE v = mScl BY <1>2, <2>2 DEF WriteScl
  <2>3. CASE v # mScl
    <3>1. v = 1 /\ mScl = 0 BY <1>2, <2>3
    <3>2. slave' \in {OnRise(slave)} BY <1>2, <3>1 DEF WriteScl
    <3> QED BY <2>1, <3>2
  <2> QED BY <2>2, <2>3
<1>3. WriteScl(v) => mScl' = v /\ mSda' = mSda BY DEF WriteScl
<1>4. WriteSda(v) => mSda' = v /\ mScl' = mScl BY DEF WriteSda
<1>5. WriteSda(v) /\ (slave.mode = "ack" \/ mScl = 0) => slave' = slave
  BY DEF WriteSda, Sda, Pulls, SdaLevel
<1>6. WriteSda(v) /\ slave.mode = "silent" /\ mScl = 1 /\ mSda = 0 /\ v = 1 => slave'.mode = "idle"
  BY DEF WriteSda, Sda, Pulls, SdaLevel
<1> QED BY <1>1, <1>2, <1>3, <1>4, <1>5, <1>6

LEMMA AckKeeps ==
  ASSUME AckInv, OutLatch \subseteq {0, 1}, [I2cBusNext]_busVars
  PROVE  AckInv'
<1> SUFFICES ASSUME slaveBegan = "ack" PROVE AckInv'
  <2>1. slaveBegan' = slaveBegan
    BY DEF I2cBusNext, busVars, ConfigurePins, LookAtSda, ClockLow, ClockHigh, SampleSda,
           StopStep, Probe, UseDefaults
  <2> QED BY <2>1 DEF AckInv
<1>0. AckConfig \/ AckClocks \/ AckStop \/ AckReset \/ AckEnd
  BY DEF AckInv
<1> USE DEF Holding, LetGo, OutOrIdle
<1>1. CASE ConfigurePins
  <2>1. PICK v \in OutLatch : IF Head(todo) = "sda" THEN WriteSda(v) ELSE WriteScl(v)
    BY <1>1 DEF ConfigurePins
  <2>2. /\ busPc = "config" /\ clocks' = clocks /\ todo' = Tail(todo)
        /\ busPc' = (IF Len(todo) = 1 THEN "look" ELSE "config")
    BY <1>1 DEF ConfigurePins
  <2>3. AckConfig BY <1>0, <2>2 DEF AckClocks, AckStop, AckReset, AckEnd
  <2>4. v \in {0, 1} /\ slave.mode \in {"ack", "silent", "idle"} BY <2>3 DEF AckConfig
  <2>5. ASSUME Head(todo) = "sda"
        PROVE  /\ Holding' \/ (LetGo /\ mScl = 0)'
               /\ Holding => Holding'
               /\ mSda' \in {0, 1}
    <3>1. WriteSda(v) BY <2>1, <2>5
    <3> QED BY <2>3, <2>4, <3>1, AckWrites DEF AckConfig
  <2>6. ASSUME Head(todo) # "sda", Holding
        PROVE  /\ Holding' \/ (LetGo /\ mScl = 0)'
               /\ mSda' \in {0, 1}
    <3>1. WriteScl(v) BY <2>1, <2>6
    <3>2. CASE v = 0 BY <2>3, <2>4, <2>6, <3>1, <3>2, AckWrites DEF AckConfig
    <3>3. CASE v = 1 BY <2>3, <2>4, <2>6, <3>1, <3>3, AckWrites DEF AckConfig
    <3> QED BY <2>4, <3>2, <3>3
  <2>7. CASE todo = <<"sda", "scl">>
    <3>1. Head(todo) = "sda" /\ Len(todo) = 2 /\ Tail(todo) = <<"scl">> BY <2>7
    <3> QED BY <2>2, <2>3, <2>5, <3>1 DEF AckConfig, AckInv
  <2>8. CASE todo = <<"scl", "sda">> /\ Holding
    <3>1. Head(todo) # "sda" /\ Len(todo) = 2 /\ Tail(todo) = <<"sda">> BY <2>8
    <3> QED BY <2>2, <2>3, <2>6, <2>8, <3>1 DEF AckConfig, AckInv
  <2>9. CASE todo = <<"sda">>
    <3>1. Head(todo) = "sda" /\ Len(todo) = 1 BY <2>9
    <3> QED BY <2>2, <2>3, <2>5, <3>1 DEF AckConfig, AckInv
  <2>10. CASE todo = <<"scl">> /\ Holding
    <3>1. Head(todo) # "sda" /\ Len(todo) = 1 BY <2>10
    <3> QED BY <2>2, <2>3, <2>6, <2>10, <3>1 DEF AckConfig, AckInv
  <2> QED BY <2>2, <2>3, <2>7, <2>8, <2>9, <2>10 DEF AckConfig
<1>2. CASE LookAtSda
  <2>1. /\ busPc = "look" /\ slave' = slave /\ mScl' = mScl /\ mSda' = mSda /\ clocks' = clocks
        /\ \/ SdaLevel = 1 /\ busPc' = "stop" /\ todo' = ResetPins
           \/ SdaLevel # 1 /\ busPc' = "low"
    BY <1>2 DEF LookAtSda, lineVars
  <2>2. AckConfig BY <1>0, <2>1 DEF AckClocks, AckStop, AckReset, AckEnd
  <2>3. SdaLevel = 1 => slave.mode # "ack" /\ mSda = 1 BY DEF SdaLevel, Sda, Pulls
  <2>4. SdaLevel = 1 => AckReset' BY <2>1, <2>2, <2>3 DEF AckConfig, AckReset
  <2>5. SdaLevel # 1 => AckClocks' BY <2>1, <2>2 DEF AckConfig, AckClocks
  <2> QED BY <2>4, <2>5 DEF AckInv
<1>3. CASE ClockLow
  <2>1. busPc = "low" /\ busPc' = "high" /\ WriteScl(0) /\ clocks' = clocks BY <1>3 DEF ClockLow
  <2>2. AckClocks BY <1>0, <2>1 DEF AckConfig, AckStop, AckReset, AckEnd
  <2>3. mScl' = 0 /\ mSda' = mSda /\ slave'.mode = "silent"
    BY <2>1, <2>2, AckWrites DEF AckClocks
  <2> QED BY <2>1, <2>2, <2>3 DEF AckClocks, AckInv
<1>4. CASE ClockHigh
  <2>1. busPc = "high" /\ busPc' = "sample" /\ WriteScl(1) /\ clocks' = clocks + 1
    BY <1>4 DEF ClockHigh
  <2>2. AckClocks BY <1>0, <2>1 DEF AckConfig, AckStop, AckReset, AckEnd
  <2>3. mScl' = 1 /\ mSda' = mSda /\ slave'.mode = "silent"
    BY <2>1, <2>2, AckWrites DEF AckClocks
  <2> QED BY <2>1, <2>2, <2>3 DEF AckClocks, AckInv
<1>5. CASE SampleSda
  <2>1. /\ busPc = "sample" /\ slave' = slave /\ mScl' = mScl /\ mSda' = mSda /\ clocks' = clocks
        /\ busPc' = "low" \/ (busPc' = "stop" /\ todo' = StopSequence)
    BY <1>5 DEF SampleSda, lineVars
  <2>2. AckClocks BY <1>0, <2>1 DEF AckConfig, AckStop, AckReset, AckEnd
  <2>3. busPc' = "low" => AckClocks' BY <2>1, <2>2 DEF AckClocks
  <2>4. busPc' # "low" => AckStop' BY <2>1, <2>2 DEF AckClocks, AckStop
  <2> QED BY <2>3, <2>4 DEF AckInv
<1>6. CASE StopStep
  <2>1. /\ busPc = "stop" /\ todo' = Tail(todo) /\ clocks' = clocks
        /\ busPc' = (IF Len(todo) = 1 THEN "probe" ELSE "stop")
    BY <1>6 DEF StopStep
  <2>2. AckStop \/ AckReset BY <1>0, <2>1 DEF AckConfig, AckClocks, AckEnd
  <2>3. CASE AckStop /\ todo = StopSequence /\ mScl = 1
    <3>1. Head(todo) = "scl0" /\ Len(todo) = 6
          /\ Tail(todo) = <<"sda0", "scl1", "sda1", "sda1", "scl1">>
      BY <2>3 DEF StopSequence
    <3>2. WriteScl(0) BY <1>6, <3>1 DEF StopStep
    <3>3. mScl' = 0 /\ mSda' = mSda /\ slave'.mode = "silent" BY <2>3, <3>2, AckWrites DEF AckStop
    <3> QED BY <2>1, <2>3, <3>1, <3>3 DEF AckStop, AckInv
  <2>4. CASE AckStop /\ todo = <<"sda0", "scl1", "sda1", "sda1", "scl1">> /\ mScl = 0
    <3>1. Head(todo) = "sda0" /\ Len(todo) = 5 /\ Tail(todo) = <<"scl1", "sda1", "sda1", "scl1">>
      BY <2>4
    <3>2. WriteSda(0) BY <1>6, <3>1 DEF StopStep
    <3>3. mScl' = 0 /\ mSda' = 0 /\ slave' = slave BY <2>4, <3>2, AckWrites DEF AckStop
    <3> QED BY <2>1, <2>4, <3>1, <3>3 DEF AckStop, AckInv
  <2>5. CASE AckStop /\ todo = <<"scl1", "sda1", "sda1", "scl1">> /\ mScl = 0 /\ mSda = 0
    <3>1. Head(todo) = "scl1" /\ Len(todo) = 4 /\ Tail(todo) = <<"sda1", "sda1", "scl1">> BY <2>5
    <3>2. WriteScl(1) BY <1>6, <3>1 DEF StopStep
    <3>3. mScl' = 1 /\ mSda' = 0 /\ slave'.mode = "silent" BY <2>5, <3>2, AckWrites DEF AckStop
    <3> QED BY <2>1, <2>5, <3>1, <3>3 DEF AckStop, AckInv
  <2>6. CASE AckStop /\ todo = <<"sda1", "sda1", "scl1">> /\ mScl = 1 /\ mSda = 0
    <3>1. Head(todo) = "sda1" /\ Len(todo) = 3 /\ Tail(todo) = ResetPins BY <2>6 DEF ResetPins
    <3>2. WriteSda(1) BY <1>6, <3>1 DEF StopStep
    <3>3. slave'.mode = "idle" /\ mScl' = 1 /\ mSda' = 1 BY <2>6, <3>2, AckWrites DEF AckStop
    <3>4. OutOrIdle' /\ busPc' = "stop" /\ todo' = ResetPins BY <2>1, <3>1, <3>3
    <3> QED BY <3>4 DEF AckReset, AckInv
  <2>7. CASE AckReset /\ todo = ResetPins
    <3>1. Head(todo) = "sda1" /\ Len(todo) = 2 /\ Tail(todo) = <<"scl1">> BY <2>7 DEF ResetPins
    <3>2. WriteSda(1) BY <1>6, <3>1 DEF StopStep
    <3>3. slave' = slave /\ mScl' = mScl /\ mSda' = 1
      BY <2>7, <3>2 DEF AckReset, WriteSda, SdaLevel
    <3> QED BY <2>1, <2>7, <3>1, <3>3 DEF AckReset, AckInv
  <2>8. CASE AckReset /\ todo = <<"scl1">>
    <3>1. Head(todo) = "scl1" /\ Len(todo) = 1 BY <2>8
    <3>2. WriteScl(1) BY <1>6, <3>1 DEF StopStep
    <3>3. slave'.mode = slave.mode /\ mScl' = 1 /\ mSda' = 1
      BY <2>8, <3>2, AckWrites DEF AckReset
    <3> QED BY <2>1, <2>8, <3>1, <3>3 DEF AckReset, AckEnd, AckInv
  <2> QED BY <2>2, <2>3, <2>4, <2>5, <2>6, <2>7, <2>8 DEF AckStop, AckReset
<1>7. ASSUME UNCHANGED <<clocks, todo, mSda, mScl, slave>>,
             busPc' = busPc \/ (busPc = "probe" /\ busPc' = "end")
      PROVE  AckInv'
  <2>1. AckEnd => AckEnd' BY <1>7 DEF AckEnd
  <2>2. busPc = "probe" => AckEnd BY <1>0 DEF AckConfig, AckClocks, AckStop, AckReset
  <2>3. CASE busPc' = busPc
    <3>1. (AckConfig => AckConfig') /\ (AckClocks => AckClocks')
      BY <1>7, <2>3 DEF AckConfig, AckClocks
    <3>2. (AckStop => AckStop') /\ (AckReset => AckReset')
      BY <1>7, <2>3 DEF AckStop, AckReset, StopSequence, ResetPins
    <3> QED BY <1>0, <2>1, <3>1, <3>2 DEF AckInv
  <2>4. CASE busPc = "probe"
    BY <2>1, <2>2, <2>4 DEF AckInv
  <2> QED BY <1>7, <2>3, <2>4
<1>8. CASE Probe BY <1>7, <1>8 DEF Probe, lineVars
<1>9. CASE UseDefaults BY <1>7, <1>9 DEF UseDefaults, lineVars
<1>10. CASE UNCHANGED busVars BY <1>7, <1>10 DEF busVars, lineVars
<1> QED BY <1>1, <1>2, <1>3, <1>4, <1>5, <1>6, <1>8, <1>9, <1>10 DEF I2cBusNext

(* A slave that held SDA as its acknowledgement when the master was reset  *)
(* has let it go when i2c_bus_create goes on, and saw a STOP whenever the  *)
(* recovery ran; for any levels in the latches of both pins, configured in *)
(* either order.                                                           *)
THEOREM RecoveryFreesAcker == I2cBusSpec => []AckerIsFreed
<1>1. I2cBusInit => AckInv
  <2> SUFFICES ASSUME I2cBusInit, slaveBegan = "ack" PROVE AckConfig BY DEF AckInv
  <2> QED BY DEF I2cBusInit, AckConfig, Holding
<1>2. AckInv => AckerIsFreed
  BY DEF AckInv, AckConfig, AckClocks, AckStop, AckReset, AckEnd, OutOrIdle, AckerIsFreed, Pulls
<1>3. AckInv /\ [I2cBusNext]_busVars => AckInv' BY I2cBusAssumption, AckKeeps
<1> QED BY <1>1, <1>2, <1>3, PTL DEF I2cBusSpec

-----------------------------------------------------------------------------
(* GpioService.  Types, and what a call under way has claimed.             *)
Calls(places) == [at : places, pin : Pins \cup {NoPin}, slot : Slots \cup {0}]

GpioTypes ==
  /\ now \in Nat /\ level \in [Pins -> {0, 1}] /\ edgeAt \in [Pins -> Nat]
  /\ s_inputs \in [Slots -> [pin : Pins \cup {NoPin}, last : Nat, registered : BOOLEAN]]
  /\ handler \in [Pins -> Slots \cup {0}]
  /\ listens \subseteq Pins /\ latched \subseteq listens /\ added \subseteq Pins
  /\ add \in Calls({"idle", "config", "intr", "enable"})
  /\ isr \in Calls({"idle", "check", "report"})
  /\ said \in [Slots -> {0, 1, 2}] /\ saidAt \in [Slots -> Nat]

(* A slot that was given with a handler holds a pin; a call under way has  *)
(* a registered slot with its pin, and from enable on the pin's handler.   *)
CallsHoldSlots ==
  /\ \A p \in Pins : handler[p] # 0 => s_inputs[handler[p]].pin \in Pins
  /\ IF Idle(isr) THEN isr = NoCall
     ELSE isr.slot \in Slots /\ isr.pin \in Pins /\ s_inputs[isr.slot].pin \in Pins
  /\ IF Idle(add) THEN add = NoCall
     ELSE /\ add.slot \in Slots /\ add.pin \in Pins
          /\ s_inputs[add.slot].registered /\ s_inputs[add.slot].pin = add.pin
          /\ add.at = "enable" => handler[add.pin] = add.slot

GpioInv == GpioTypes /\ CallsHoldSlots /\ AddedIsWatched

(* While services_gpio_init is not called again: a handler's slot is       *)
(* registered for its pin, also the one an interrupt under way was given;  *)
(* a slot being added was not reported yet, nor a handler replaced while   *)
(* its interrupt was under way; and the time a slot keeps is the time of   *)
(* its last report, or of the one under way.                               *)
HoldsSlot(s, p) == s_inputs[s].registered /\ s_inputs[s].pin = p

HandlersHoldSlots ==
  /\ \A p \in Pins : handler[p] # 0 => HoldsSlot(handler[p], p)
  /\ ~Idle(isr) => HoldsSlot(isr.slot, isr.pin)
  /\ add.at \in {"config", "intr"} => \A p \in Pins : handler[p] # add.slot

NewSlotsAreSilent ==
  /\ add.at \in {"config", "intr"} \/ (add.at = "enable" /\ add.pin \notin listens)
       => said[add.slot] = 2 /\ isr.slot # add.slot
  /\ ~Idle(isr) /\ handler[isr.pin] # isr.slot /\ handler[isr.pin] # 0 => said[handler[isr.pin]] = 2

TimesAgree ==
  /\ \A p \in Pins : edgeAt[p] <= now
  /\ \A s \in Slots : ~(isr.at = "report" /\ isr.slot = s) => saidAt[s] = s_inputs[s].last

LagInv == GpioInv /\ HandlersHoldSlots /\ NewSlotsAreSilent /\ TimesAgree /\ LagsOnlyAfterBounce

LEMMA LowestFree ==
  ASSUME FreeFor # {}
  PROVE  Lowest(FreeFor) \in Slots /\ ~s_inputs[Lowest(FreeFor)].registered
<1>1. FreeFor \subseteq Nat BY GpioAssumption DEF FreeFor, Slots
<1>2. \E s \in FreeFor : \A t \in FreeFor : s <= t BY <1>1, LeastNat
<1>3. Lowest(FreeFor) \in FreeFor BY <1>2 DEF Lowest
<1> QED BY <1>3 DEF FreeFor

(* What the steps of an add do.                                            *)
LEMMA GpioFacts ==
  ASSUME GpioTypes
  PROVE  /\ Debounce \in Nat /\ NoPin \notin Pins /\ 0 \notin Slots
         /\ NoCall \in Calls({"idle", "config", "intr", "enable"})
         /\ NoCall \in Calls({"idle", "check", "report"})
         /\ add.pin \in Pins \cup {NoPin} /\ add.slot \in Slots \cup {0}
         /\ isr.pin \in Pins \cup {NoPin} /\ isr.slot \in Slots \cup {0}
         /\ add.at \in {"idle", "config", "intr", "enable"}
         /\ isr.at \in {"idle", "check", "report"}
<1>1. add \in Calls({"idle", "config", "intr", "enable"}) /\ isr \in Calls({"idle", "check", "report"})
  BY DEF GpioTypes
<1> QED BY <1>1, GpioAssumption DEF Calls, NoCall, Slots

LEMMA AddFailsDoes ==
  ASSUME GpioTypes, CallsHoldSlots, ~Idle(add), AddFails
  PROVE  /\ add' = NoCall /\ added' = added \ {add.pin}
         /\ s_inputs' \in [Slots -> [pin : Pins \cup {NoPin}, last : Nat, registered : BOOLEAN]]
         /\ \A s \in Slots : /\ s_inputs'[s].pin = s_inputs[s].pin
                             /\ s_inputs'[s].last = s_inputs[s].last
                             /\ s # add.slot => s_inputs'[s] = s_inputs[s]
<1>1. s_inputs' = [s_inputs EXCEPT ![add.slot].registered = FALSE]
  BY DEF AddFails, GiveSlotBack
<1>2. s_inputs \in [Slots -> [pin : Pins \cup {NoPin}, last : Nat, registered : BOOLEAN]]
  BY DEF GpioTypes
<1> QED BY <1>1, <1>2 DEF AddFails

LEMMA CheckDoes ==
  ASSUME GpioTypes, CallsHoldSlots, CheckTime
  PROVE  /\ isr.at = "check" /\ isr.slot \in Slots /\ isr.pin \in Pins
         /\ s_inputs' \in [Slots -> [pin : Pins \cup {NoPin}, last : Nat, registered : BOOLEAN]]
         /\ \A s \in Slots : /\ s_inputs'[s].pin = s_inputs[s].pin
                             /\ s_inputs'[s].registered = s_inputs[s].registered
                             /\ s # isr.slot => s_inputs'[s] = s_inputs[s]
         /\ \/ /\ ~Elapsed(isr.slot) /\ isr' = NoCall /\ s_inputs' = s_inputs
            \/ /\ isr'.at = "report" /\ isr'.pin = isr.pin /\ isr'.slot = isr.slot
               /\ isr' \in Calls({"idle", "check", "report"})
<1>1. isr.at = "check" BY DEF CheckTime
<1>2. isr.slot \in Slots /\ isr.pin \in Pins BY <1>1 DEF CallsHoldSlots, Idle
<1>3. s_inputs \in [Slots -> [pin : Pins \cup {NoPin}, last : Nat, registered : BOOLEAN]]
      /\ now \in Nat /\ isr \in Calls({"idle", "check", "report"})
  BY DEF GpioTypes
<1>4. CASE Elapsed(isr.slot)
  <2>1. s_inputs' = [s_inputs EXCEPT ![isr.slot].last = now] /\ isr' = [isr EXCEPT !.at = "report"]
    BY <1>4 DEF CheckTime
  <2>2. isr' \in Calls({"idle", "check", "report"}) BY <1>3, <2>1 DEF Calls
  <2>3. isr'.at = "report" /\ isr'.pin = isr.pin /\ isr'.slot = isr.slot BY <1>3, <2>1 DEF Calls
  <2> QED BY <1>1, <1>2, <1>3, <2>1, <2>2, <2>3
<1>5. CASE ~Elapsed(isr.slot)
  <2>1. s_inputs' = s_inputs /\ isr' = NoCall BY <1>5 DEF CheckTime
  <2> QED BY <1>1, <1>2, <1>3, <1>5, <2>1
<1> QED BY <1>4, <1>5

LEMMA ClaimDoes ==
  ASSUME GpioTypes, NEW p \in Pins, ClaimSlot(p)
  PROVE  \E s \in Slots :
           /\ ~s_inputs[s].registered
           /\ s_inputs'[s] = [pin |-> p, last |-> 0, registered |-> TRUE]
           /\ \A t \in Slots : t # s => s_inputs'[t] = s_inputs[t]
           /\ s_inputs' \in [Slots -> [pin : Pins \cup {NoPin}, last : Nat, registered : BOOLEAN]]
           /\ add' = [at |-> "config", pin |-> p, slot |-> s]
           /\ said' = [said EXCEPT ![s] = 2] /\ saidAt' = [saidAt EXCEPT ![s] = 0]
<1> DEFINE s == Lowest(FreeFor)
<1>1. /\ s_inputs' = [s_inputs EXCEPT ![s] = Filled(p)]
      /\ add' = [at |-> "config", pin |-> p, slot |-> s]
      /\ said' = [said EXCEPT ![s] = 2] /\ saidAt' = [saidAt EXCEPT ![s] = 0]
  BY DEF ClaimSlot
<1>2. s \in Slots /\ ~s_inputs[s].registered BY LowestFree DEF ClaimSlot
<1>3. s_inputs \in [Slots -> [pin : Pins \cup {NoPin}, last : Nat, registered : BOOLEAN]]
  BY DEF GpioTypes
<1> HIDE DEF s
<1>4. Filled(p) \in [pin : Pins \cup {NoPin}, last : Nat, registered : BOOLEAN] BY DEF Filled
<1>5. s_inputs' \in [Slots -> [pin : Pins \cup {NoPin}, last : Nat, registered : BOOLEAN]]
  BY <1>1, <1>2, <1>3, <1>4
<1>6. s_inputs'[s] = [pin |-> p, last |-> 0, registered |-> TRUE] BY <1>1, <1>2, <1>3 DEF Filled
<1>7. \A t \in Slots : t # s => s_inputs'[t] = s_inputs[t] BY <1>1, <1>3
<1> QED BY <1>1, <1>2, <1>5, <1>6, <1>7

LEMMA GpioTypesKeep ==
  ASSUME GpioTypes, CallsHoldSlots, [GpioNext]_gpioVars
  PROVE  GpioTypes'
<1> USE DEF GpioTypes
<1>0. /\ Debounce \in Nat /\ NoCall \in Calls({"idle", "config", "intr", "enable"})
      /\ NoCall \in Calls({"idle", "check", "report"})
  BY GpioFacts
<1>1. CASE Tick BY <1>1 DEF Tick, addVars, sayVars
<1>2. ASSUME NEW p \in Pins, Edge(p) PROVE GpioTypes'
  <2>1. level' \in [Pins -> {0, 1}]
    <3>1. 1 - level[p] \in {0, 1} OBVIOUS
    <3>2. level' = [level EXCEPT ![p] = 1 - level[p]] BY <1>2 DEF Edge
    <3> QED BY <3>1, <3>2
  <2>2. edgeAt' \in [Pins -> Nat] /\ latched' \subseteq listens BY <1>2 DEF Edge
  <2> QED BY <1>2, <2>1, <2>2 DEF Edge, addVars, sayVars
<1>3. CASE InitSlots
  <2>1. s_inputs' = [s \in Slots |-> [s_inputs[s] EXCEPT !.registered = FALSE]] /\ added' = {}
    BY <1>3 DEF InitSlots
  <2>2. ASSUME NEW s \in Slots
        PROVE  [s_inputs[s] EXCEPT !.registered = FALSE]
                 \in [pin : Pins \cup {NoPin}, last : Nat, registered : BOOLEAN]
    <3> PICK i \in [pin : Pins \cup {NoPin}, last : Nat, registered : BOOLEAN] : i = s_inputs[s]
      BY Zenon
    <3>1. [i EXCEPT !.registered = FALSE] \in [pin : Pins \cup {NoPin}, last : Nat, registered : BOOLEAN]
      BY Zenon
    <3> QED BY <3>1
  <2>3. s_inputs' \in [Slots -> [pin : Pins \cup {NoPin}, last : Nat, registered : BOOLEAN]]
    BY <2>1, <2>2
  <2> QED BY <1>3, <2>1, <2>3 DEF InitSlots, pinVars, sayVars
<1>4. ASSUME NEW p \in Pins, ClaimSlot(p) PROVE GpioTypes'
  <2>1. PICK s \in Slots :
           /\ s_inputs' \in [Slots -> [pin : Pins \cup {NoPin}, last : Nat, registered : BOOLEAN]]
           /\ add' = [at |-> "config", pin |-> p, slot |-> s]
           /\ said' = [said EXCEPT ![s] = 2] /\ saidAt' = [saidAt EXCEPT ![s] = 0]
    BY <1>4, ClaimDoes
  <2>2. add' \in Calls({"idle", "config", "intr", "enable"}) BY <2>1 DEF Calls
  <2> QED BY <1>4, <2>1, <2>2 DEF ClaimSlot, pinVars
<1>5. ASSUME NEW p \in Pins, NoFreeSlot(p) PROVE GpioTypes'
  BY <1>5 DEF NoFreeSlot, pinVars, sayVars
<1>6. CASE ConfigPin
  <2>1. CASE AddFails /\ UNCHANGED <<listens, latched>>
    <3>1. ~Idle(add) BY <1>6 DEF ConfigPin, Idle
    <3> QED BY <1>0, <1>6, <2>1, <3>1, AddFailsDoes DEF ConfigPin, pinVars, sayVars
  <2>2. CASE /\ listens' = listens \ {add.pin} /\ latched' = latched \ {add.pin}
             /\ add' = [add EXCEPT !.at = "intr"]
             /\ UNCHANGED <<s_inputs, added, failures>>
    <3>1. /\ listens' = listens \ {add.pin} /\ latched' = latched \ {add.pin}
          /\ add' = [add EXCEPT !.at = "intr"] /\ s_inputs' = s_inputs /\ added' = added
      BY <2>2
    <3>2. add' \in Calls({"idle", "config", "intr", "enable"}) BY <3>1 DEF Calls
    <3> QED BY <1>6, <3>1, <3>2 DEF ConfigPin, pinVars, sayVars
  <2> QED BY <1>6, <2>1, <2>2 DEF ConfigPin
<1>7. CASE SetIntr
  <2>0. ~Idle(add) BY <1>7 DEF SetIntr, Idle
  <2>1. CASE AddFails /\ UNCHANGED <<handler, listens>>
    BY <1>0, <1>7, <2>0, <2>1, AddFailsDoes DEF SetIntr, pinVars, sayVars
  <2>2. CASE /\ AttachSlot
             /\ listens' \in {listens, listens \cup {add.pin}}
             /\ add' = [add EXCEPT !.at = "enable"]
             /\ UNCHANGED <<s_inputs, added, failures>>
    <3>1. /\ handler' = [handler EXCEPT ![add.pin] = add.slot]
          /\ listens' \in {listens, listens \cup {add.pin}}
          /\ add' = [add EXCEPT !.at = "enable"] /\ s_inputs' = s_inputs /\ added' = added
      BY <2>2 DEF AttachSlot
    <3>2. add' \in Calls({"idle", "config", "intr", "enable"}) BY <3>1 DEF Calls
    <3>3. add.slot \in Slots /\ add.pin \in Pins BY <2>0 DEF CallsHoldSlots
    <3> QED BY <1>7, <3>1, <3>2, <3>3 DEF SetIntr, pinVars, sayVars
  <2> QED BY <1>7, <2>1, <2>2 DEF SetIntr
<1>8. CASE EnableIntr
  <2>1. add.pin \in Pins BY <1>8 DEF EnableIntr, CallsHoldSlots, Idle
  <2> QED BY <1>0, <1>8, <2>1 DEF EnableIntr, pinVars, sayVars
<1>9. ASSUME NEW p \in Pins, TakeInterrupt(p) PROVE GpioTypes'
  <2>1. isr' \in Calls({"idle", "check", "report"})
    <3>1. [at |-> "check", pin |-> p, slot |-> handler[p]] \in Calls({"idle", "check", "report"})
      BY DEF Calls
    <3> QED BY <1>0, <1>9, <3>1 DEF TakeInterrupt
  <2> QED BY <1>9, <2>1 DEF TakeInterrupt, pinVars, addVars, sayVars
<1>10. CASE CheckTime
  <2>1. isr' \in Calls({"idle", "check", "report"}) BY <1>0, <1>10, CheckDoes
  <2>2. s_inputs' \in [Slots -> [pin : Pins \cup {NoPin}, last : Nat, registered : BOOLEAN]]
    BY <1>10, CheckDoes
  <2> QED BY <1>10, <2>1, <2>2 DEF CheckTime, pinVars, addVars, sayVars
<1>11. CASE Report
  <2>1. isr.slot \in Slots /\ s_inputs[isr.slot].pin \in Pins
    BY <1>11 DEF Report, CallsHoldSlots, Idle
  <2>2. /\ said' = [said EXCEPT ![isr.slot] = level[s_inputs[isr.slot].pin]]
        /\ saidAt' = [saidAt EXCEPT ![isr.slot] = s_inputs[isr.slot].last]
    BY <1>11 DEF Report
  <2>3. level[s_inputs[isr.slot].pin] \in {0, 1} /\ s_inputs[isr.slot].last \in Nat BY <2>1
  <2>4. said' \in [Slots -> {0, 1, 2}] /\ saidAt' \in [Slots -> Nat] BY <2>2, <2>3
  <2> QED BY <1>0, <1>11, <2>4 DEF Report, pinVars, addVars
<1>12. CASE UNCHANGED gpioVars BY <1>12 DEF gpioVars, pinVars, addVars, sayVars
<1> QED BY <1>1, <1>2, <1>3, <1>4, <1>5, <1>6, <1>7, <1>8, <1>9, <1>10, <1>11, <1>12 DEF GpioNext

(* The steps of an add, each as success or failure.                        *)
LEMMA ConfigDoes ==
  ASSUME GpioTypes, CallsHoldSlots, ConfigPin
  PROVE  /\ add.at = "config" /\ add.slot \in Slots /\ add.pin \in Pins
         /\ handler' = handler /\ isr' = isr /\ now' = now /\ edgeAt' = edgeAt /\ level' = level
         /\ said' = said /\ saidAt' = saidAt
         /\ \/ AddFails /\ listens' = listens /\ latched' = latched
            \/ /\ add'.at = "intr" /\ add'.pin = add.pin /\ add'.slot = add.slot
               /\ listens' = listens \ {add.pin} /\ latched' = latched \ {add.pin}
               /\ s_inputs' = s_inputs /\ added' = added
<1>1. add.at = "config" BY DEF ConfigPin
<1>2. add \in Calls({"idle", "config", "intr", "enable"}) BY DEF GpioTypes
<1>3. \/ AddFails /\ listens' = listens /\ latched' = latched
      \/ /\ add' = [add EXCEPT !.at = "intr"]
         /\ listens' = listens \ {add.pin} /\ latched' = latched \ {add.pin}
         /\ s_inputs' = s_inputs /\ added' = added
  BY DEF ConfigPin
<1>4. add' = [add EXCEPT !.at = "intr"]
        => add'.at = "intr" /\ add'.pin = add.pin /\ add'.slot = add.slot
  BY <1>2 DEF Calls
<1>5. add.slot \in Slots /\ add.pin \in Pins BY <1>1 DEF CallsHoldSlots, Idle
<1>6. /\ handler' = handler /\ isr' = isr /\ now' = now /\ edgeAt' = edgeAt /\ level' = level
      /\ said' = said /\ saidAt' = saidAt
  BY DEF ConfigPin, pinVars, sayVars
<1> QED BY <1>1, <1>3, <1>4, <1>5, <1>6

LEMMA SetIntrDoes ==
  ASSUME GpioTypes, CallsHoldSlots, SetIntr
  PROVE  /\ add.at = "intr" /\ add.slot \in Slots /\ add.pin \in Pins
         /\ latched' = latched /\ isr' = isr /\ now' = now /\ edgeAt' = edgeAt /\ level' = level
         /\ said' = said /\ saidAt' = saidAt
         /\ \/ AddFails /\ listens' = listens /\ handler' = handler
            \/ /\ add'.at = "enable" /\ add'.pin = add.pin /\ add'.slot = add.slot
               /\ handler'[add.pin] = add.slot
               /\ \A p \in Pins : p # add.pin => handler'[p] = handler[p]
               /\ listens' \in {listens, listens \cup {add.pin}}
               /\ s_inputs' = s_inputs /\ added' = added
<1>1. add.at = "intr" BY DEF SetIntr
<1>2. add \in Calls({"idle", "config", "intr", "enable"}) /\ handler \in [Pins -> Slots \cup {0}]
  BY DEF GpioTypes
<1>3. add.slot \in Slots /\ add.pin \in Pins BY <1>1 DEF CallsHoldSlots, Idle
<1>4. \/ AddFails /\ listens' = listens /\ handler' = handler
      \/ /\ add' = [add EXCEPT !.at = "enable"]
         /\ handler' = [handler EXCEPT ![add.pin] = add.slot]
         /\ listens' \in {listens, listens \cup {add.pin}}
         /\ s_inputs' = s_inputs /\ added' = added
  BY DEF SetIntr, AttachSlot
<1>5. add' = [add EXCEPT !.at = "enable"]
        => add'.at = "enable" /\ add'.pin = add.pin /\ add'.slot = add.slot
  BY <1>2 DEF Calls
<1>6. handler' = [handler EXCEPT ![add.pin] = add.slot]
        => /\ handler'[add.pin] = add.slot
           /\ \A p \in Pins : p # add.pin => handler'[p] = handler[p]
  BY <1>2, <1>3
<1>7. /\ latched' = latched /\ isr' = isr /\ now' = now /\ edgeAt' = edgeAt /\ level' = level
      /\ said' = said /\ saidAt' = saidAt
  BY DEF SetIntr, pinVars, sayVars
<1> QED BY <1>1, <1>3, <1>4, <1>5, <1>6, <1>7

LEMMA CallsHoldSlotsKeep ==
  ASSUME GpioTypes, GpioTypes', CallsHoldSlots, [GpioNext]_gpioVars
  PROVE  CallsHoldSlots'
<1> USE DEF CallsHoldSlots
<1>0. /\ handler \in [Pins -> Slots \cup {0}] /\ 0 \notin Slots /\ Idle(NoCall)
  BY GpioFacts DEF GpioTypes, Idle, NoCall
<1>1. CASE Tick BY <1>1 DEF Tick, addVars, Idle
<1>2. ASSUME NEW p \in Pins, Edge(p) PROVE CallsHoldSlots' BY <1>2 DEF Edge, addVars, Idle
<1>3. CASE InitSlots
  <2>1. /\ s_inputs' = [s \in Slots |-> [s_inputs[s] EXCEPT !.registered = FALSE]]
        /\ Idle(add) /\ add' = add /\ isr' = isr /\ handler' = handler
    BY <1>3 DEF InitSlots
  <2>2. \A s \in Slots : s_inputs'[s].pin = s_inputs[s].pin BY <2>1 DEF GpioTypes
  <2> QED BY <1>0, <2>1, <2>2 DEF Idle
<1>4. ASSUME NEW p \in Pins, ClaimSlot(p) PROVE CallsHoldSlots'
  <2>1. PICK s \in Slots :
           /\ s_inputs'[s] = [pin |-> p, last |-> 0, registered |-> TRUE]
           /\ \A t \in Slots : t # s => s_inputs'[t] = s_inputs[t]
           /\ add' = [at |-> "config", pin |-> p, slot |-> s]
    BY <1>4, ClaimDoes
  <2>2. handler' = handler /\ isr' = isr BY <1>4 DEF ClaimSlot
  <2>3. \A t \in Slots : s_inputs[t].pin \in Pins => s_inputs'[t].pin \in Pins BY <2>1
  <2>4. add'.slot = s /\ add'.pin = p /\ add'.at = "config" BY <2>1
  <2>5. s_inputs'[s].registered /\ s_inputs'[s].pin = p BY <2>1
  <2> QED BY <1>0, <2>2, <2>3, <2>4, <2>5 DEF Idle
<1>5. ASSUME NEW p \in Pins, NoFreeSlot(p) PROVE CallsHoldSlots' BY <1>5 DEF NoFreeSlot, Idle
<1>6. CASE ConfigPin
  <2>1. handler' = handler /\ isr' = isr /\ ~Idle(add) BY <1>6, ConfigDoes DEF Idle
  <2>2. CASE AddFails
    <3>1. add' = NoCall /\ \A s \in Slots : s_inputs'[s].pin = s_inputs[s].pin
      BY <2>1, <2>2, AddFailsDoes
    <3> QED BY <1>0, <2>1, <3>1 DEF Idle
  <2>3. CASE ~AddFails
    <3>1. /\ add'.at = "intr" /\ add'.pin = add.pin /\ add'.slot = add.slot /\ s_inputs' = s_inputs
      BY <1>6, <2>3, ConfigDoes
    <3> QED BY <1>0, <2>1, <3>1 DEF Idle
  <2> QED BY <2>2, <2>3
<1>7. CASE SetIntr
  <2>1. isr' = isr /\ ~Idle(add) BY <1>7, SetIntrDoes DEF Idle
  <2>2. CASE AddFails /\ handler' = handler
    <3>1. add' = NoCall /\ \A s \in Slots : s_inputs'[s].pin = s_inputs[s].pin
      BY <2>1, <2>2, AddFailsDoes
    <3> QED BY <1>0, <2>1, <2>2, <3>1 DEF Idle
  <2>3. CASE ~(AddFails /\ handler' = handler)
    <3>1. /\ add'.at = "enable" /\ add'.pin = add.pin /\ add'.slot = add.slot
          /\ s_inputs' = s_inputs /\ handler'[add.pin] = add.slot
          /\ \A p \in Pins : p # add.pin => handler'[p] = handler[p]
      BY <1>7, <2>3, SetIntrDoes
    <3> QED BY <1>0, <2>1, <3>1 DEF Idle
  <2> QED BY <2>2, <2>3
<1>8. CASE EnableIntr BY <1>0, <1>8 DEF EnableIntr, Idle
<1>9. ASSUME NEW p \in Pins, TakeInterrupt(p) PROVE CallsHoldSlots'
  <2>1. s_inputs' = s_inputs /\ handler' = handler /\ add' = add
        /\ isr' = (IF handler[p] = 0 THEN NoCall ELSE [at |-> "check", pin |-> p, slot |-> handler[p]])
    BY <1>9 DEF TakeInterrupt, addVars
  <2>2. handler[p] # 0 => isr'.at = "check" /\ isr'.pin = p /\ isr'.slot = handler[p]
    BY <2>1
  <2> QED BY <1>0, <2>1, <2>2 DEF Idle
<1>10. CASE CheckTime
  <2>1. /\ isr.at = "check" /\ isr.slot \in Slots /\ isr.pin \in Pins
        /\ \A s \in Slots : /\ s_inputs'[s].pin = s_inputs[s].pin
                            /\ s_inputs'[s].registered = s_inputs[s].registered
        /\ isr' = NoCall \/ (isr'.at = "report" /\ isr'.pin = isr.pin /\ isr'.slot = isr.slot)
    BY <1>10, CheckDoes
  <2>2. handler' = handler /\ add' = add BY <1>10 DEF CheckTime, addVars
  <2> QED BY <1>0, <2>1, <2>2 DEF Idle
<1>11. CASE Report BY <1>0, <1>11 DEF Report, addVars, Idle
<1>12. CASE UNCHANGED gpioVars BY <1>12 DEF gpioVars, addVars, Idle
<1> QED BY <1>1, <1>2, <1>3, <1>4, <1>5, <1>6, <1>7, <1>8, <1>9, <1>10, <1>11, <1>12 DEF GpioNext

LEMMA AddedKeep ==
  ASSUME GpioTypes, CallsHoldSlots, AddedIsWatched, [GpioNext]_gpioVars
  PROVE  AddedIsWatched'
<1> USE DEF AddedIsWatched
<1>0. /\ handler \in [Pins -> Slots \cup {0}] /\ added \subseteq Pins /\ NoPin \notin Pins
      /\ NoCall.pin = NoPin
  BY GpioFacts DEF GpioTypes, NoCall
<1>1. CASE Tick BY <1>1 DEF Tick, addVars
<1>2. ASSUME NEW p \in Pins, Edge(p) PROVE AddedIsWatched' BY <1>2 DEF Edge, addVars
<1>3. CASE InitSlots BY <1>3 DEF InitSlots
<1>4. ASSUME NEW p \in Pins, ClaimSlot(p) PROVE AddedIsWatched'
  <2>1. PICK s \in Slots :
           /\ ~s_inputs[s].registered
           /\ s_inputs'[s] = [pin |-> p, last |-> 0, registered |-> TRUE]
           /\ \A t \in Slots : t # s => s_inputs'[t] = s_inputs[t]
           /\ s_inputs' \in [Slots -> [pin : Pins \cup {NoPin}, last : Nat, registered : BOOLEAN]]
           /\ add' = [at |-> "config", pin |-> p, slot |-> s]
           /\ said' = [said EXCEPT ![s] = 2] /\ saidAt' = [saidAt EXCEPT ![s] = 0]
    BY <1>4, ClaimDoes
  <2>2. handler' = handler /\ listens' = listens /\ added' = added /\ add = NoCall
    BY <1>4 DEF ClaimSlot, CallsHoldSlots
  <2>3. ASSUME NEW q \in added PROVE /\ q \in listens /\ handler[q] # 0
                                     /\ s_inputs'[handler[q]] = s_inputs[handler[q]]
                                     /\ s_inputs[handler[q]].registered
                                     /\ s_inputs[handler[q]].pin = q
    <3>1. q \in listens /\ handler[q] # 0 /\ s_inputs[handler[q]].registered
          /\ s_inputs[handler[q]].pin = q
      BY <1>0, <2>2
    <3> QED BY <1>0, <2>1, <3>1
  <2> QED BY <2>2, <2>3
<1>5. ASSUME NEW p \in Pins, NoFreeSlot(p) PROVE AddedIsWatched' BY <1>5 DEF NoFreeSlot
<1>6. ASSUME ~Idle(add), AddFails, listens' = listens, handler' = handler
      PROVE  AddedIsWatched'
  <2>1. /\ add' = NoCall /\ added' = added \ {add.pin}
        /\ \A s \in Slots : s # add.slot => s_inputs'[s] = s_inputs[s]
    BY <1>6, AddFailsDoes
  <2>2. s_inputs[add.slot].pin = add.pin BY <1>6 DEF CallsHoldSlots
  <2> QED BY <1>0, <1>6, <2>1, <2>2
<1>7. CASE ConfigPin
  <2>1. handler' = handler /\ ~Idle(add) /\ add.pin \in Pins BY <1>7, ConfigDoes DEF Idle
  <2>2. CASE AddFails /\ listens' = listens BY <1>6, <2>1, <2>2
  <2>3. CASE ~(AddFails /\ listens' = listens)
    BY <1>7, <2>1, <2>3, ConfigDoes
  <2> QED BY <2>2, <2>3
<1>8. CASE SetIntr
  <2>1. ~Idle(add) /\ add.pin \in Pins BY <1>8, SetIntrDoes DEF Idle
  <2>2. CASE AddFails /\ listens' = listens /\ handler' = handler BY <1>6, <2>1, <2>2
  <2>3. CASE ~(AddFails /\ listens' = listens /\ handler' = handler)
    <3>1. /\ add'.pin = add.pin /\ s_inputs' = s_inputs /\ added' = added
          /\ \A p \in Pins : p # add.pin => handler'[p] = handler[p]
          /\ listens \subseteq listens'
      BY <1>8, <2>3, SetIntrDoes
    <3> QED BY <1>0, <3>1
  <2> QED BY <2>2, <2>3
<1>9. CASE EnableIntr
  <2>1. /\ listens' = listens \cup {add.pin} /\ added' = added \cup {add.pin}
        /\ handler' = handler /\ s_inputs' = s_inputs
    BY <1>9 DEF EnableIntr
  <2>2. /\ add.slot \in Slots /\ s_inputs[add.slot].registered /\ s_inputs[add.slot].pin = add.pin
        /\ handler[add.pin] = add.slot /\ add.slot # 0
    BY <1>9, GpioFacts DEF EnableIntr, CallsHoldSlots, Idle
  <2> QED BY <1>0, <2>1, <2>2
<1>10. ASSUME NEW p \in Pins, TakeInterrupt(p) PROVE AddedIsWatched'
  BY <1>10 DEF TakeInterrupt, addVars
<1>11. CASE CheckTime
  <2>1. \A s \in Slots : /\ s_inputs'[s].pin = s_inputs[s].pin
                         /\ s_inputs'[s].registered = s_inputs[s].registered
    BY <1>11, CheckDoes
  <2>2. handler' = handler /\ listens' = listens /\ added' = added /\ add' = add
    BY <1>11 DEF CheckTime, addVars
  <2> QED BY <1>0, <2>1, <2>2
<1>12. CASE Report BY <1>12 DEF Report, addVars
<1>13. CASE UNCHANGED gpioVars BY <1>13 DEF gpioVars, addVars
<1> QED BY <1>1, <1>2, <1>3, <1>4, <1>5, <1>7, <1>8, <1>9, <1>10, <1>11, <1>12, <1>13 DEF GpioNext

LEMMA GpioStarts == GpioInit => GpioInv
<1> SUFFICES ASSUME GpioInit PROVE GpioInv OBVIOUS
<1>1. /\ NoCall \in Calls({"idle", "config", "intr", "enable"})
      /\ NoCall \in Calls({"idle", "check", "report"}) /\ Idle(NoCall) /\ Debounce \in Nat
  BY GpioAssumption DEF Calls, NoCall, Idle
<1>2. GpioTypes BY <1>1 DEF GpioInit, GpioTypes
<1>3. CallsHoldSlots BY <1>1 DEF GpioInit, CallsHoldSlots
<1>4. AddedIsWatched BY DEF GpioInit, AddedIsWatched
<1> QED BY <1>2, <1>3, <1>4 DEF GpioInv

LEMMA GpioKeeps == GpioInv /\ [GpioNext]_gpioVars => GpioInv'
BY GpioTypesKeep, CallsHoldSlotsKeep, AddedKeep DEF GpioInv

(* An input whose last add returned true keeps its interrupt and a slot of *)
(* its own, for any number of pins and slots, whatever adds came after it, *)
(* failed or were given no slot.                                           *)
THEOREM AddedStaysWatched == GpioSpec => []AddedIsWatched
<1>1. GpioInv => AddedIsWatched BY DEF GpioInv
<1> QED BY <1>1, GpioStarts, GpioKeeps, PTL DEF GpioSpec

(* A slot in use is not being added, and the slots of two pins differ.     *)
LEMMA HandlersKeep ==
  ASSUME GpioInv, HandlersHoldSlots, NewSlotsAreSilent, ~MayInitAgain, [GpioNext]_gpioVars
  PROVE  HandlersHoldSlots'
<1> USE DEF GpioInv
<1>0. /\ handler \in [Pins -> Slots \cup {0}] /\ 0 \notin Slots /\ Idle(NoCall)
      /\ NoCall.at = "idle" /\ GpioTypes /\ CallsHoldSlots
      /\ ~Idle(isr) => isr.slot \in Slots /\ isr.pin \in Pins
      /\ isr.at \in {"idle", "check", "report"}
      /\ add.at \in {"idle", "config", "intr", "enable"}
  BY GpioFacts DEF GpioTypes, Idle, NoCall, CallsHoldSlots
<1>1. ASSUME handler' = handler, isr' = isr, add' = add, s_inputs' = s_inputs
      PROVE  HandlersHoldSlots'
  BY <1>1 DEF HandlersHoldSlots, HoldsSlot, Idle
<1>2. CASE Tick BY <1>1, <1>2 DEF Tick, addVars
<1>3. ASSUME NEW p \in Pins, Edge(p) PROVE HandlersHoldSlots' BY <1>1, <1>3 DEF Edge, addVars
<1>4. ASSUME NEW p \in Pins, ClaimSlot(p) PROVE HandlersHoldSlots'
  <2>1. PICK s \in Slots :
           /\ ~s_inputs[s].registered
           /\ s_inputs'[s] = [pin |-> p, last |-> 0, registered |-> TRUE]
           /\ \A t \in Slots : t # s => s_inputs'[t] = s_inputs[t]
           /\ s_inputs' \in [Slots -> [pin : Pins \cup {NoPin}, last : Nat, registered : BOOLEAN]]
           /\ add' = [at |-> "config", pin |-> p, slot |-> s]
           /\ said' = [said EXCEPT ![s] = 2] /\ saidAt' = [saidAt EXCEPT ![s] = 0]
    BY <1>0, <1>4, ClaimDoes
  <2>2. handler' = handler /\ isr' = isr BY <1>4 DEF ClaimSlot
  <2>3. \A q \in Pins : handler[q] # 0 => handler[q] \in Slots /\ handler[q] # s
    BY <1>0, <2>1 DEF HandlersHoldSlots, HoldsSlot
  <2>4. ~Idle(isr) => isr.slot # s BY <2>1 DEF HandlersHoldSlots, HoldsSlot
  <2>5. \A q \in Pins : handler'[q] # 0 => HoldsSlot(handler[q], q)'
    BY <2>1, <2>2, <2>3 DEF HandlersHoldSlots, HoldsSlot
  <2>6. ~Idle(isr) => HoldsSlot(isr.slot, isr.pin)'
    BY <1>0, <2>1, <2>2, <2>4 DEF HandlersHoldSlots, HoldsSlot
  <2>7. add'.slot = s BY <2>1
  <2>8. \A q \in Pins : handler[q] # s BY <1>0, <2>3
  <2> QED BY <2>2, <2>5, <2>6, <2>7, <2>8 DEF HandlersHoldSlots, HoldsSlot, Idle
<1>5. ASSUME NEW p \in Pins, NoFreeSlot(p) PROVE HandlersHoldSlots'
  BY <1>1, <1>5 DEF NoFreeSlot
<1>6. ASSUME add.at \in {"config", "intr"}, AddFails, handler' = handler, isr' = isr
      PROVE  HandlersHoldSlots'
  <2>1. add' = NoCall /\ \A s \in Slots : s # add.slot => s_inputs'[s] = s_inputs[s]
    BY <1>0, <1>6, AddFailsDoes DEF Idle
  <2>2. \A q \in Pins : handler[q] # add.slot BY <1>6 DEF HandlersHoldSlots
  <2>3. isr.slot # add.slot BY <1>6 DEF NewSlotsAreSilent
  <2>4. \A q \in Pins : handler'[q] # 0 => HoldsSlot(handler[q], q)'
    BY <1>0, <1>6, <2>1, <2>2 DEF HandlersHoldSlots, HoldsSlot
  <2>5. ~Idle(isr) => HoldsSlot(isr.slot, isr.pin)'
    BY <1>0, <1>6, <2>1, <2>3 DEF HandlersHoldSlots, HoldsSlot
  <2> QED BY <1>0, <1>6, <2>1, <2>4, <2>5 DEF HandlersHoldSlots, HoldsSlot, Idle
<1>7. CASE ConfigPin
  <2>1. handler' = handler /\ isr' = isr /\ add.at = "config" BY <1>0, <1>7, ConfigDoes
  <2>2. CASE AddFails BY <1>6, <2>1, <2>2
  <2>3. CASE ~AddFails
    <3>1. add'.at = "intr" /\ add'.slot = add.slot /\ s_inputs' = s_inputs
      BY <1>0, <1>7, <2>3, ConfigDoes
    <3> QED BY <2>1, <3>1 DEF HandlersHoldSlots, HoldsSlot, Idle
  <2> QED BY <2>2, <2>3
<1>8. CASE SetIntr
  <2>1. isr' = isr /\ add.at = "intr" /\ add.pin \in Pins BY <1>0, <1>8, SetIntrDoes
  <2>2. CASE AddFails /\ handler' = handler BY <1>6, <2>1, <2>2
  <2>3. CASE ~(AddFails /\ handler' = handler)
    <3>1. /\ add'.at = "enable" /\ s_inputs' = s_inputs /\ handler'[add.pin] = add.slot
          /\ \A p \in Pins : p # add.pin => handler'[p] = handler[p]
      BY <1>0, <1>8, <2>3, SetIntrDoes
    <3>2. HoldsSlot(add.slot, add.pin) BY <2>1 DEF CallsHoldSlots, HoldsSlot, Idle
    <3> QED BY <2>1, <3>1, <3>2 DEF HandlersHoldSlots, HoldsSlot, Idle
  <2> QED BY <2>2, <2>3
<1>9. CASE EnableIntr BY <1>0, <1>9 DEF EnableIntr, HandlersHoldSlots, HoldsSlot, Idle
<1>10. ASSUME NEW p \in Pins, TakeInterrupt(p) PROVE HandlersHoldSlots'
  <2>1. s_inputs' = s_inputs /\ handler' = handler /\ add' = add
        /\ isr' = (IF handler[p] = 0 THEN NoCall ELSE [at |-> "check", pin |-> p, slot |-> handler[p]])
    BY <1>10 DEF TakeInterrupt, addVars
  <2>2. handler[p] # 0 => isr'.pin = p /\ isr'.slot = handler[p] BY <2>1
  <2> QED BY <1>0, <2>1, <2>2 DEF HandlersHoldSlots, HoldsSlot, Idle
<1>11. CASE CheckTime
  <2>1. /\ isr.at = "check"
        /\ \A s \in Slots : /\ s_inputs'[s].pin = s_inputs[s].pin
                            /\ s_inputs'[s].registered = s_inputs[s].registered
        /\ isr' = NoCall \/ (isr'.at = "report" /\ isr'.pin = isr.pin /\ isr'.slot = isr.slot)
    BY <1>0, <1>11, CheckDoes
  <2>2. handler' = handler /\ add' = add BY <1>11 DEF CheckTime, addVars
  <2>3. \A q \in Pins : handler'[q] # 0 => HoldsSlot(handler[q], q)'
    BY <1>0, <2>1, <2>2 DEF HandlersHoldSlots, HoldsSlot
  <2>5. ~Idle(isr)' => s_inputs'[isr'.slot].registered /\ s_inputs'[isr'.slot].pin = isr'.pin
    BY <1>0, <2>1 DEF HandlersHoldSlots, HoldsSlot, Idle
  <2> QED BY <2>2, <2>3, <2>5 DEF HandlersHoldSlots, HoldsSlot
<1>12. CASE Report BY <1>0, <1>12 DEF Report, addVars, HandlersHoldSlots, HoldsSlot, Idle
<1>13. CASE UNCHANGED gpioVars BY <1>1, <1>13 DEF gpioVars, addVars
<1>14. CASE InitSlots BY <1>14 DEF InitSlots
<1> QED BY <1>2, <1>3, <1>4, <1>5, <1>7, <1>8, <1>9, <1>10, <1>11, <1>12, <1>13, <1>14 DEF GpioNext

LEMMA SilentKeep ==
  ASSUME GpioInv, HandlersHoldSlots, NewSlotsAreSilent, ~MayInitAgain, [GpioNext]_gpioVars
  PROVE  NewSlotsAreSilent'
<1> USE DEF GpioInv
<1>0. /\ handler \in [Pins -> Slots \cup {0}] /\ 0 \notin Slots /\ Idle(NoCall)
      /\ NoCall.at = "idle" /\ NoCall.slot = 0 /\ GpioTypes /\ CallsHoldSlots
      /\ ~Idle(isr) => isr.slot \in Slots /\ isr.pin \in Pins
      /\ Idle(isr) => isr = NoCall
      /\ ~Idle(add) => add.slot \in Slots /\ add.pin \in Pins
      /\ isr.at \in {"idle", "check", "report"}
      /\ add.at \in {"idle", "config", "intr", "enable"}
      /\ said \in [Slots -> {0, 1, 2}] /\ latched \subseteq listens /\ listens \subseteq Pins
  BY GpioFacts DEF GpioTypes, Idle, NoCall, CallsHoldSlots
<1>1. ASSUME handler' = handler, isr' = isr, said' = said,
             (add' = add /\ listens \subseteq listens') \/ add' = NoCall
      PROVE  NewSlotsAreSilent'
  BY <1>0, <1>1 DEF NewSlotsAreSilent, Idle
<1>2. CASE Tick BY <1>1, <1>2 DEF Tick, addVars, sayVars
<1>3. ASSUME NEW p \in Pins, Edge(p) PROVE NewSlotsAreSilent'
  BY <1>1, <1>3 DEF Edge, addVars, sayVars
<1>4. ASSUME NEW p \in Pins, ClaimSlot(p) PROVE NewSlotsAreSilent'
  <2>1. PICK s \in Slots :
           /\ ~s_inputs[s].registered
           /\ s_inputs'[s] = [pin |-> p, last |-> 0, registered |-> TRUE]
           /\ \A t \in Slots : t # s => s_inputs'[t] = s_inputs[t]
           /\ s_inputs' \in [Slots -> [pin : Pins \cup {NoPin}, last : Nat, registered : BOOLEAN]]
           /\ add' = [at |-> "config", pin |-> p, slot |-> s]
           /\ said' = [said EXCEPT ![s] = 2] /\ saidAt' = [saidAt EXCEPT ![s] = 0]
    BY <1>0, <1>4, ClaimDoes
  <2>2. handler' = handler /\ isr' = isr BY <1>4 DEF ClaimSlot
  <2>3. isr.slot # s BY <1>0, <2>1 DEF HandlersHoldSlots, HoldsSlot, Idle
  <2>4. add'.slot = s /\ said'[s] = 2 BY <1>0, <2>1
  <2>5. ~Idle(isr) /\ handler[isr.pin] # 0 => said'[handler[isr.pin]] = said[handler[isr.pin]]
    BY <1>0, <2>1 DEF HandlersHoldSlots, HoldsSlot
  <2> QED BY <1>0, <2>2, <2>3, <2>4, <2>5 DEF NewSlotsAreSilent, Idle
<1>5. ASSUME NEW p \in Pins, NoFreeSlot(p) PROVE NewSlotsAreSilent'
  BY <1>1, <1>5 DEF NoFreeSlot, sayVars
<1>6. CASE ConfigPin
  <2>1. handler' = handler /\ isr' = isr /\ said' = said /\ add.at = "config"
    BY <1>0, <1>6, ConfigDoes
  <2>2. CASE AddFails
    <3>1. add' = NoCall BY <2>2 DEF AddFails
    <3> QED BY <1>1, <2>1, <3>1
  <2>3. CASE ~AddFails
    <3>1. add'.at = "intr" /\ add'.slot = add.slot BY <1>0, <1>6, <2>3, ConfigDoes
    <3> QED BY <2>1, <3>1 DEF NewSlotsAreSilent, Idle
  <2> QED BY <2>2, <2>3
<1>7. CASE SetIntr
  <2>1. isr' = isr /\ said' = said /\ add.at = "intr" /\ add.pin \in Pins
    BY <1>0, <1>7, SetIntrDoes
  <2>2. CASE AddFails /\ handler' = handler
    <3>1. add' = NoCall BY <2>2 DEF AddFails
    <3> QED BY <1>1, <2>1, <2>2, <3>1
  <2>3. CASE ~(AddFails /\ handler' = handler)
    <3>1. /\ add'.at = "enable" /\ add'.slot = add.slot /\ handler'[add.pin] = add.slot
          /\ \A p \in Pins : p # add.pin => handler'[p] = handler[p]
      BY <1>0, <1>7, <2>3, SetIntrDoes
    <3>2. said[add.slot] = 2 /\ isr.slot # add.slot BY <2>1 DEF NewSlotsAreSilent
    <3> QED BY <1>0, <2>1, <3>1, <3>2 DEF NewSlotsAreSilent, Idle
  <2> QED BY <2>2, <2>3
<1>8. CASE EnableIntr BY <1>1, <1>8 DEF EnableIntr, sayVars
<1>9. ASSUME NEW p \in Pins, TakeInterrupt(p) PROVE NewSlotsAreSilent'
  <2>1. /\ handler' = handler /\ add' = add /\ said' = said /\ listens' = listens /\ p \in latched
        /\ isr' = (IF handler[p] = 0 THEN NoCall ELSE [at |-> "check", pin |-> p, slot |-> handler[p]])
    BY <1>9 DEF TakeInterrupt, addVars, sayVars
  <2>2. CASE handler[p] = 0
    BY <1>0, <2>1, <2>2 DEF NewSlotsAreSilent, Idle
  <2>3. CASE handler[p] # 0
    <3>1. isr'.pin = p /\ isr'.slot = handler[p] BY <2>1, <2>3
    <3>2. s_inputs[handler[p]].pin = p BY <2>3 DEF HandlersHoldSlots, HoldsSlot
    <3>3. ASSUME add.at = "enable", add.pin \notin listens PROVE handler[p] # add.slot
      <4>1. s_inputs[add.slot].pin = add.pin BY <3>3 DEF CallsHoldSlots, Idle
      <4> QED BY <1>0, <2>1, <3>2, <3>3, <4>1
    <3>4. add.at \in {"config", "intr"} => handler[p] # add.slot BY DEF HandlersHoldSlots
    <3> QED BY <2>1, <3>1, <3>3, <3>4 DEF NewSlotsAreSilent
  <2> QED BY <2>2, <2>3
<1>10. CASE CheckTime
  <2>1. /\ isr.at = "check"
        /\ isr' = NoCall \/ (isr'.at = "report" /\ isr'.pin = isr.pin /\ isr'.slot = isr.slot)
    BY <1>0, <1>10, CheckDoes
  <2>2. handler' = handler /\ add' = add /\ said' = said /\ listens' = listens
    BY <1>10 DEF CheckTime, addVars, sayVars
  <2> QED BY <1>0, <2>1, <2>2 DEF NewSlotsAreSilent, Idle
<1>11. CASE Report
  <2>1. /\ isr' = NoCall /\ handler' = handler /\ add' = add /\ listens' = listens
        /\ said' = [said EXCEPT ![isr.slot] = level[s_inputs[isr.slot].pin]]
    BY <1>11 DEF Report, addVars
  <2>2. \A s \in Slots : s # isr.slot => said'[s] = said[s] BY <1>0, <2>1
  <2> QED BY <1>0, <2>1, <2>2 DEF NewSlotsAreSilent, Idle
<1>12. CASE UNCHANGED gpioVars BY <1>1, <1>12 DEF gpioVars, addVars, sayVars
<1>13. CASE InitSlots BY <1>13 DEF InitSlots
<1> QED BY <1>2, <1>3, <1>4, <1>5, <1>6, <1>7, <1>8, <1>9, <1>10, <1>11, <1>12, <1>13 DEF GpioNext

LEMMA TimesKeep ==
  ASSUME GpioInv, TimesAgree, HandlersHoldSlots, ~MayInitAgain, [GpioNext]_gpioVars
  PROVE  TimesAgree'
<1> USE DEF GpioInv
<1>0. /\ NoCall.at = "idle" /\ GpioTypes /\ CallsHoldSlots
      /\ now \in Nat /\ edgeAt \in [Pins -> Nat] /\ saidAt \in [Slots -> Nat]
      /\ s_inputs \in [Slots -> [pin : Pins \cup {NoPin}, last : Nat, registered : BOOLEAN]]
  BY DEF GpioTypes, NoCall
<1>1. ASSUME edgeAt' = edgeAt, now' = now, saidAt' = saidAt, isr' = isr,
             \A s \in Slots : s_inputs'[s].last = s_inputs[s].last
      PROVE  TimesAgree'
  BY <1>1 DEF TimesAgree
<1>2. CASE Tick
  <2>1. now' = now + 1 /\ edgeAt' = edgeAt /\ saidAt' = saidAt /\ isr' = isr /\ s_inputs' = s_inputs
    BY <1>2 DEF Tick, sayVars
  <2> QED BY <1>0, <2>1 DEF TimesAgree
<1>3. ASSUME NEW p \in Pins, Edge(p) PROVE TimesAgree'
  <2>1. /\ now' = now /\ edgeAt' = [edgeAt EXCEPT ![p] = now] /\ saidAt' = saidAt /\ isr' = isr
        /\ s_inputs' = s_inputs
    BY <1>3 DEF Edge, sayVars
  <2> QED BY <1>0, <2>1 DEF TimesAgree
<1>4. ASSUME NEW p \in Pins, ClaimSlot(p) PROVE TimesAgree'
  <2>1. PICK s \in Slots :
           /\ ~s_inputs[s].registered
           /\ s_inputs'[s] = [pin |-> p, last |-> 0, registered |-> TRUE]
           /\ \A t \in Slots : t # s => s_inputs'[t] = s_inputs[t]
           /\ s_inputs' \in [Slots -> [pin : Pins \cup {NoPin}, last : Nat, registered : BOOLEAN]]
           /\ add' = [at |-> "config", pin |-> p, slot |-> s]
           /\ said' = [said EXCEPT ![s] = 2] /\ saidAt' = [saidAt EXCEPT ![s] = 0]
    BY <1>0, <1>4, ClaimDoes
  <2>2. now' = now /\ edgeAt' = edgeAt /\ isr' = isr BY <1>4 DEF ClaimSlot, pinVars
  <2>3. saidAt'[s] = 0 /\ s_inputs'[s].last = 0 BY <1>0, <2>1
  <2>4. \A t \in Slots : t # s => saidAt'[t] = saidAt[t] /\ s_inputs'[t].last = s_inputs[t].last
    BY <1>0, <2>1
  <2> QED BY <2>2, <2>3, <2>4 DEF TimesAgree
<1>5. ASSUME NEW p \in Pins, NoFreeSlot(p) PROVE TimesAgree'
  BY <1>1, <1>5 DEF NoFreeSlot, pinVars, sayVars
<1>6. CASE ConfigPin
  <2>1. /\ isr' = isr /\ now' = now /\ edgeAt' = edgeAt /\ saidAt' = saidAt /\ ~Idle(add)
        /\ AddFails \/ s_inputs' = s_inputs
    BY <1>0, <1>6, ConfigDoes DEF Idle
  <2>2. \A s \in Slots : s_inputs'[s].last = s_inputs[s].last BY <1>0, <2>1, AddFailsDoes
  <2> QED BY <1>1, <2>1, <2>2
<1>7. CASE SetIntr
  <2>1. /\ isr' = isr /\ now' = now /\ edgeAt' = edgeAt /\ saidAt' = saidAt /\ ~Idle(add)
        /\ AddFails \/ s_inputs' = s_inputs
    BY <1>0, <1>7, SetIntrDoes DEF Idle
  <2>2. \A s \in Slots : s_inputs'[s].last = s_inputs[s].last BY <1>0, <2>1, AddFailsDoes
  <2> QED BY <1>1, <2>1, <2>2
<1>8. CASE EnableIntr BY <1>1, <1>8 DEF EnableIntr, pinVars, sayVars
<1>9. ASSUME NEW p \in Pins, TakeInterrupt(p) PROVE TimesAgree'
  <2>1. /\ now' = now /\ edgeAt' = edgeAt /\ saidAt' = saidAt /\ s_inputs' = s_inputs
        /\ isr.at = "idle" /\ isr' \in {NoCall, [at |-> "check", pin |-> p, slot |-> handler[p]]}
    BY <1>9 DEF TakeInterrupt, pinVars, sayVars, Idle
  <2> QED BY <1>0, <2>1 DEF TimesAgree
<1>10. CASE CheckTime
  <2>1. /\ isr.at = "check" /\ now' = now /\ edgeAt' = edgeAt /\ saidAt' = saidAt
        /\ \A s \in Slots : s # isr.slot => s_inputs'[s] = s_inputs[s]
        /\ \/ s_inputs' = s_inputs
           \/ isr'.at = "report" /\ isr'.slot = isr.slot
    BY <1>0, <1>10, CheckDoes DEF CheckTime, pinVars, sayVars
  <2> QED BY <2>1 DEF TimesAgree
<1>11. CASE Report
  <2>1. /\ isr.at = "report" /\ isr' = NoCall /\ s_inputs' = s_inputs /\ now' = now
        /\ edgeAt' = edgeAt /\ saidAt' = [saidAt EXCEPT ![isr.slot] = s_inputs[isr.slot].last]
    BY <1>11 DEF Report, pinVars
  <2> QED BY <1>0, <2>1 DEF TimesAgree
<1>12. CASE UNCHANGED gpioVars BY <1>1, <1>12 DEF gpioVars, pinVars, sayVars
<1>13. CASE InitSlots BY <1>13 DEF InitSlots
<1> QED BY <1>2, <1>3, <1>4, <1>5, <1>6, <1>7, <1>8, <1>9, <1>10, <1>11, <1>12, <1>13 DEF GpioNext

LEMMA LagKeep ==
  ASSUME LagInv, ~MayInitAgain, [GpioNext]_gpioVars
  PROVE  LagsOnlyAfterBounce'
<1> USE DEF LagInv, GpioInv
<1> DEFINE After(p) == edgeAt[p] < saidAt[handler[p]] + Debounce
<1>0. /\ NoCall.at = "idle" /\ NoCall.pin = NoPin /\ NoPin \notin Pins /\ GpioTypes /\ CallsHoldSlots
      /\ now \in Nat /\ edgeAt \in [Pins -> Nat] /\ saidAt \in [Slots -> Nat]
      /\ level \in [Pins -> {0, 1}] /\ said \in [Slots -> {0, 1, 2}]
      /\ handler \in [Pins -> Slots \cup {0}] /\ Debounce \in Nat
      /\ s_inputs \in [Slots -> [pin : Pins \cup {NoPin}, last : Nat, registered : BOOLEAN]]
      /\ isr.at \in {"idle", "check", "report"}
  BY GpioFacts DEF GpioTypes, NoCall
<1>1. SUFFICES ASSUME NEW p \in Pins, Lags(p)'
               PROVE  After(p)'
  BY DEF LagsOnlyAfterBounce
<1>2. ASSUME handler'[p] = handler[p], level'[p] = level[p], edgeAt'[p] = edgeAt[p],
             handler[p] # 0 => said'[handler[p]] = said[handler[p]],
             handler[p] # 0 => saidAt'[handler[p]] = saidAt[handler[p]],
             p \in listens' \ latched' => p \in listens \ latched,
             isr'.pin # p => isr.pin # p
      PROVE  After(p)'
  <2>1. Lags(p) BY <1>1, <1>2 DEF Lags
  <2>2. After(p) BY <2>1 DEF LagsOnlyAfterBounce
  <2>3. handler[p] # 0 BY <2>1 DEF Lags
  <2> QED BY <1>2, <2>2, <2>3
<1>3. CASE Tick
  BY <1>2, <1>3 DEF Tick, sayVars
<1>4. ASSUME NEW q \in Pins, Edge(q) PROVE After(p)'
  <2>1. /\ level' = [level EXCEPT ![q] = 1 - @] /\ edgeAt' = [edgeAt EXCEPT ![q] = now]
        /\ latched' = IF q \in listens THEN latched \cup {q} ELSE latched
        /\ listens' = listens /\ handler' = handler /\ isr' = isr /\ said' = said /\ saidAt' = saidAt
    BY <1>4 DEF Edge, sayVars
  <2>2. q # p BY <1>1, <2>1 DEF Lags
  <2>3. level'[p] = level[p] /\ edgeAt'[p] = edgeAt[p] BY <1>0, <2>1, <2>2
  <2> QED BY <1>2, <2>1, <2>3
<1>5. ASSUME NEW q \in Pins, ClaimSlot(q) PROVE After(p)'
  <2>1. PICK s \in Slots :
           /\ ~s_inputs[s].registered
           /\ s_inputs'[s] = [pin |-> q, last |-> 0, registered |-> TRUE]
           /\ \A t \in Slots : t # s => s_inputs'[t] = s_inputs[t]
           /\ s_inputs' \in [Slots -> [pin : Pins \cup {NoPin}, last : Nat, registered : BOOLEAN]]
           /\ add' = [at |-> "config", pin |-> q, slot |-> s]
           /\ said' = [said EXCEPT ![s] = 2] /\ saidAt' = [saidAt EXCEPT ![s] = 0]
    BY <1>0, <1>5, ClaimDoes
  <2>2. handler[p] # 0 => handler[p] # s BY <2>1 DEF HandlersHoldSlots, HoldsSlot
  <2>3. handler[p] # 0 => /\ said'[handler[p]] = said[handler[p]]
                          /\ saidAt'[handler[p]] = saidAt[handler[p]]
    BY <1>0, <2>1, <2>2
  <2>4. /\ handler' = handler /\ level' = level /\ edgeAt' = edgeAt /\ listens' = listens
        /\ latched' = latched /\ isr' = isr
    BY <1>5 DEF ClaimSlot, pinVars
  <2> QED BY <1>2, <2>3, <2>4
<1>6. ASSUME NEW q \in Pins, NoFreeSlot(q) PROVE After(p)'
  BY <1>2, <1>6 DEF NoFreeSlot, pinVars, sayVars
<1>7. CASE ConfigPin
  <2>1. /\ handler' = handler /\ isr' = isr /\ edgeAt' = edgeAt /\ level' = level
        /\ said' = said /\ saidAt' = saidAt
        /\ \/ listens' = listens /\ latched' = latched
           \/ listens' = listens \ {add.pin} /\ latched' = latched \ {add.pin}
    BY <1>0, <1>7, ConfigDoes
  <2> QED BY <1>2, <2>1
<1>8. CASE SetIntr
  <2>1. /\ add.at = "intr" /\ latched' = latched /\ isr' = isr /\ edgeAt' = edgeAt /\ level' = level
        /\ said' = said /\ saidAt' = saidAt
        /\ \/ listens' = listens /\ handler' = handler
           \/ /\ handler'[add.pin] = add.slot
              /\ \A q \in Pins : q # add.pin => handler'[q] = handler[q]
              /\ listens' \in {listens, listens \cup {add.pin}}
    BY <1>0, <1>8, SetIntrDoes
  <2>2. said[add.slot] = 2 BY <2>1 DEF NewSlotsAreSilent
  <2>3. (listens' = listens /\ handler' = handler) \/ p # add.pin
    BY <1>1, <2>1, <2>2 DEF Lags
  <2>4. handler'[p] = handler[p] /\ (p \in listens' => p \in listens) BY <2>1, <2>3
  <2> QED BY <1>2, <2>1, <2>4
<1>9. CASE EnableIntr
  <2>1. /\ listens' = listens \cup {add.pin} /\ handler' = handler /\ isr' = isr /\ level' = level
        /\ edgeAt' = edgeAt /\ said' = said /\ saidAt' = saidAt /\ latched' = latched
        /\ add.at = "enable"
    BY <1>9 DEF EnableIntr, pinVars, sayVars
  <2>2. handler[add.pin] = add.slot BY <2>1 DEF CallsHoldSlots, Idle
  <2>3. p \in listens
    <3>1. CASE add.pin \in listens BY <1>1, <2>1, <3>1 DEF Lags
    <3>2. CASE add.pin \notin listens
      <4>1. said[add.slot] = 2 BY <2>1, <3>2 DEF NewSlotsAreSilent
      <4> QED BY <1>1, <2>1, <2>2, <4>1 DEF Lags
    <3> QED BY <3>1, <3>2
  <2> QED BY <1>2, <2>1, <2>3
<1>10. ASSUME NEW q \in Pins, TakeInterrupt(q) PROVE After(p)'
  <2>1. /\ handler' = handler /\ listens' = listens /\ latched' = latched \ {q}
        /\ isr' = (IF handler[q] = 0 THEN NoCall ELSE [at |-> "check", pin |-> q, slot |-> handler[q]])
        /\ level' = level /\ edgeAt' = edgeAt /\ said' = said /\ saidAt' = saidAt /\ Idle(isr)
    BY <1>10 DEF TakeInterrupt, pinVars, sayVars
  <2>2. isr.pin # p BY <1>0, <2>1 DEF CallsHoldSlots
  <2>3. q # p
    <3>1. handler[p] # 0 /\ isr'.pin # p BY <1>1, <2>1 DEF Lags
    <3>2. handler[q] # 0 => isr'.pin = q BY <2>1
    <3> QED BY <3>1, <3>2
  <2> QED BY <1>2, <2>1, <2>2, <2>3
<1>11. CASE CheckTime
  <2>1. /\ isr.at = "check" /\ isr.slot \in Slots /\ isr.pin \in Pins
        /\ \/ ~Elapsed(isr.slot) /\ isr' = NoCall
           \/ isr'.pin = isr.pin
    BY <1>0, <1>11, CheckDoes
  <2>2. /\ handler' = handler /\ listens' = listens /\ latched' = latched
        /\ level' = level /\ edgeAt' = edgeAt /\ said' = said /\ saidAt' = saidAt
    BY <1>11 DEF CheckTime, pinVars, sayVars
  <2>3. CASE isr.pin # p BY <1>2, <2>2, <2>3
  <2>4. CASE isr.pin = p
    <3>1. ~Elapsed(isr.slot) BY <1>1, <2>1, <2>4 DEF Lags
    <3>2. handler[p] = isr.slot
      BY <1>1, <2>1, <2>2, <2>4 DEF Lags, NewSlotsAreSilent, Idle
    <3>3. saidAt[isr.slot] = s_inputs[isr.slot].last BY <2>1 DEF TimesAgree
    <3>4. edgeAt[p] <= now BY DEF TimesAgree
    <3>5. s_inputs[isr.slot].last \in Nat /\ edgeAt[p] \in Nat BY <1>0, <2>1
    <3>6. ~(now - s_inputs[isr.slot].last >= Debounce) BY <3>1 DEF Elapsed
    <3>7. edgeAt[p] < s_inputs[isr.slot].last + Debounce BY <1>0, <3>4, <3>5, <3>6
    <3> QED BY <2>2, <3>2, <3>3, <3>7
  <2> QED BY <2>3, <2>4
<1>12. CASE Report
  <2>1. /\ isr.at = "report" /\ isr' = NoCall /\ handler' = handler /\ listens' = listens
        /\ latched' = latched /\ level' = level /\ edgeAt' = edgeAt
        /\ said' = [said EXCEPT ![isr.slot] = level[s_inputs[isr.slot].pin]]
        /\ saidAt' = [saidAt EXCEPT ![isr.slot] = s_inputs[isr.slot].last]
    BY <1>12 DEF Report, pinVars
  <2>2. isr.slot \in Slots /\ s_inputs[isr.slot].pin = isr.pin
    BY <2>1 DEF CallsHoldSlots, HandlersHoldSlots, HoldsSlot, Idle
  <2>3. handler[p] # 0 BY <1>1, <2>1 DEF Lags
  <2>4. CASE handler[p] = isr.slot
    <3>1. isr.pin = p BY <2>2, <2>3, <2>4 DEF HandlersHoldSlots, HoldsSlot
    <3>2. said'[handler[p]] = level'[p] BY <1>0, <2>1, <2>2, <2>4, <3>1
    <3> QED BY <1>1, <2>1, <3>2 DEF Lags
  <2>5. CASE handler[p] # isr.slot
    <3>1. said'[handler[p]] = said[handler[p]] /\ saidAt'[handler[p]] = saidAt[handler[p]]
      BY <1>0, <2>1, <2>3, <2>5
    <3>2. isr.pin # p
      <4>1. said[handler[p]] # 2 BY <1>1, <2>1, <3>1 DEF Lags
      <4> QED BY <2>1, <2>3, <2>5, <4>1 DEF NewSlotsAreSilent, Idle
    <3> QED BY <1>2, <2>1, <3>1, <3>2
  <2> QED BY <2>4, <2>5
<1>13. CASE InitSlots BY <1>13 DEF InitSlots
<1>14. CASE UNCHANGED gpioVars BY <1>2, <1>14 DEF gpioVars, pinVars, sayVars
<1> QED
  BY <1>3, <1>4, <1>5, <1>6, <1>7, <1>8, <1>9, <1>10, <1>11, <1>12, <1>13, <1>14 DEF GpioNext

(* While the service is initialised once: a pin whose interrupts were all  *)
(* served is reported as it is, unless it changed within the debounce time *)
(* of its last report; however edges, time, adds and the interrupt handler *)
(* interleave, and for any number of pins and slots.                       *)
THEOREM LagNeedsBounce ==
  ASSUME ~MayInitAgain
  PROVE  GpioSpec => []LagsOnlyAfterBounce
<1>1. GpioInit => LagInv
  <2> SUFFICES ASSUME GpioInit PROVE LagInv OBVIOUS
  <2>1. GpioInv BY GpioStarts
  <2>2. /\ handler = [p \in Pins |-> 0] /\ add = NoCall /\ isr = NoCall /\ Debounce \in Nat
        /\ NoCall.at = "idle" /\ Idle(NoCall)
    BY GpioAssumption DEF GpioInit, NoCall, Idle
  <2>3. HandlersHoldSlots /\ NewSlotsAreSilent
    BY <2>2 DEF HandlersHoldSlots, NewSlotsAreSilent, Idle
  <2>4. TimesAgree BY <2>2 DEF GpioInit, TimesAgree
  <2>5. LagsOnlyAfterBounce BY <2>2 DEF LagsOnlyAfterBounce, Lags
  <2> QED BY <2>1, <2>3, <2>4, <2>5 DEF LagInv
<1>2. LagInv /\ [GpioNext]_gpioVars => LagInv'
  BY GpioKeeps, HandlersKeep, SilentKeep, TimesKeep, LagKeep DEF LagInv
<1>3. LagInv => LagsOnlyAfterBounce BY DEF LagInv
<1> QED BY <1>1, <1>2, <1>3, PTL DEF GpioSpec

(* While the service is initialised once, every report names the pin whose *)
(* interrupt it answers.                                                   *)
THEOREM ReportsNameTheirPin ==
  ASSUME ~MayInitAgain
  PROVE  GpioSpec => []NamesTheRightPin
<1> DEFINE NamedInv == GpioInv /\ HandlersHoldSlots /\ NewSlotsAreSilent /\ NamesTheRightPin
<1>1. GpioInit => NamedInv
  <2> SUFFICES ASSUME GpioInit PROVE NamedInv OBVIOUS
  <2>1. GpioInv BY GpioStarts
  <2>2. handler = [p \in Pins |-> 0] /\ add = NoCall /\ isr = NoCall BY DEF GpioInit
  <2>3. HandlersHoldSlots /\ NewSlotsAreSilent
    BY <2>2 DEF HandlersHoldSlots, NewSlotsAreSilent, Idle, NoCall
  <2> QED BY <2>1, <2>3 DEF GpioInit, NamesTheRightPin
<1>2. NamedInv /\ [GpioNext]_gpioVars => NamedInv'
  <2> SUFFICES ASSUME NamedInv, [GpioNext]_gpioVars PROVE NamedInv' OBVIOUS
  <2>1. GpioInv' /\ HandlersHoldSlots' /\ NewSlotsAreSilent'
    BY GpioKeeps, HandlersKeep, SilentKeep
  <2>2. CASE Report
    <3>1. s_inputs[isr.slot].pin = isr.pin
      BY <2>2 DEF Report, HandlersHoldSlots, HoldsSlot, Idle
    <3>2. wrongPin' = (wrongPin \/ s_inputs[isr.slot].pin # isr.pin) BY <2>2 DEF Report
    <3> QED BY <2>1, <3>1, <3>2 DEF NamesTheRightPin
  <2>3. CASE ~Report
    <3>1. wrongPin' = wrongPin
      BY <2>3 DEF GpioNext, gpioVars, sayVars, Tick, Edge, InitSlots, ClaimSlot, NoFreeSlot,
                  ConfigPin, SetIntr, EnableIntr, TakeInterrupt, CheckTime
    <3> QED BY <2>1, <3>1 DEF NamesTheRightPin
  <2> QED BY <2>2, <2>3
<1>3. NamedInv => NamesTheRightPin OBVIOUS
<1> QED BY <1>1, <1>2, <1>3, PTL DEF GpioSpec

-----------------------------------------------------------------------------
(* The display.  Requests are carried out in the order of their submits:   *)
(* the flow is the one under way and those that wait.  While the panel is  *)
(* initialised the flow holds no text; afterwards the last command of the  *)
(* initialisation is done or is ahead of every text.  Commands are in      *)
(* their order, so the one done last says how many are done.               *)
ReqKinds == {"init", "rgb", "addr", "data"}
TextReq  == {"addr", "data"}
LcdReqs  == [kind : ReqKinds, n : Nat]
Panels   == [init : Nat, row : Nat, pos : Nat, text : [RowIds -> [ChunkIds -> Nat]]]
Flow     == (IF busy = NoReq THEN <<>> ELSE <<busy>>) \o reqs

Orderly(f, m, banned, done) ==
  /\ \A k \in 1 .. Len(f) : /\ f[k].kind \notin banned
                            /\ f[k].kind = "init" => f[k].n < m
  /\ \A k \in 1 .. Len(f) : \A j \in 1 .. k - 1 :
       f[j].kind = "init" /\ f[k].kind = "init" => f[j].n < f[k].n
  /\ \/ done = m /\ \A k \in 1 .. Len(f) : f[k].kind # "init"
     \/ \E k \in 1 .. Len(f) : /\ f[k].kind = "init" /\ f[k].n = m - 1
                               /\ \A j \in 1 .. k - 1 : f[j].kind \notin TextReq

Early == st \in {"rgb_init", "lcd_init"}
Given  == IF Early THEN idx ELSE InitSteps
Banned == IF Early THEN TextReq ELSE {}
FlowInv == Orderly(Flow, Given, Banned, panel.init)

Ticks   == {"done", "error", "tick", "ready"}
Outside == {"free", "drawn", "greeting", "ask"}
Labels  == Outside \cup {"step", "rgb_sent", "init_sent", "pos_sent", "data_sent", "row_sent",
                         "flushed", "begin"}

LcdTypes ==
  /\ st \in {"idle", "rgb_init", "lcd_init", "ready", "pos", "data"}
  /\ row \in Nat /\ idx \in 0 .. InitSteps /\ draws \in Nat
  /\ began \in BOOLEAN /\ delay \in BOOLEAN
  /\ fb \in [RowIds -> Nat]
  /\ at \in [Tasks -> Labels]
  /\ panel \in Panels
  /\ reqs \in Seq(LcdReqs) /\ busy \in LcdReqs \cup {NoReq}

(* Until the driver's task has received EV_SYS_START nothing happens.      *)
Asleep ==
  /\ evq = IF began THEN <<"start">> ELSE <<>>
  /\ st = "idle" /\ idx = 0 /\ reqs = <<>> /\ busy = NoReq /\ panel.init = 0
  /\ ~delay /\ \A t \in Tasks : at[t] = "free"

(* Then, until the panel is initialised, the application's task keeps out  *)
(* of the state machine.                                                   *)
Awake ==
  /\ began /\ evq \in Seq(Ticks)
  /\ Early => /\ at["app"] \in Outside
              /\ at["drv"] \in {"free", "step", "rgb_sent", "init_sent"}
  /\ at["drv"] = "rgb_sent" => st = "rgb_init"
  /\ at["app"] # "rgb_sent"
  /\ st = "rgb_init" => idx = 0

LcdInv == LcdTypes /\ (Asleep \/ (Awake /\ FlowInv))

(* The flow grows by requests that are no commands of the initialisation.  *)
LEMMA FlowGrows ==
  ASSUME NEW f \in Seq(LcdReqs), NEW g \in Seq(LcdReqs), NEW m \in Nat,
         NEW banned, NEW done \in Nat, Orderly(f, m, banned, done),
         \A k \in 1 .. Len(g) : g[k].kind # "init" /\ g[k].kind \notin banned
  PROVE  Orderly(f \o g, m, banned, done)
<1> DEFINE h == f \o g
<1>1. Len(f) \in Nat /\ Len(g) \in Nat BY LenProperties
<1>2. /\ h \in Seq(LcdReqs) /\ Len(h) = Len(f) + Len(g)
      /\ \A i \in 1 .. Len(f) + Len(g) : h[i] = IF i <= Len(f) THEN f[i] ELSE g[i - Len(f)]
  BY ConcatProperties
<1> HIDE DEF h
<1>3. ASSUME NEW k \in 1 .. Len(h)
      PROVE  \/ k \in 1 .. Len(f) /\ h[k] = f[k]
             \/ k > Len(f) /\ h[k].kind # "init" /\ h[k].kind \notin banned
  <2>1. CASE k <= Len(f) BY <2>1, <1>1, <1>2
  <2>2. CASE ~(k <= Len(f))
    <3>1. k - Len(f) \in 1 .. Len(g) BY <2>2, <1>1, <1>2
    <3>2. h[k] = g[k - Len(f)] BY <2>2, <1>2
    <3> QED BY <2>2, <3>1, <3>2, <1>1
  <2> QED BY <2>1, <2>2
<1>4. \A k \in 1 .. Len(f) : k \in 1 .. Len(h) /\ h[k] = f[k] BY <1>1, <1>2
<1>5. \A k \in 1 .. Len(h) : /\ h[k].kind \notin banned
                             /\ h[k].kind = "init" => h[k].n < m
  BY <1>3 DEF Orderly
<1>6. ASSUME NEW k \in 1 .. Len(h), NEW j \in 1 .. k - 1, h[j].kind = "init", h[k].kind = "init"
      PROVE  h[j].n < h[k].n
  <2>1. j \in 1 .. Len(h) BY <1>1, <1>2
  <2>2. k \in 1 .. Len(f) /\ h[k] = f[k] BY <1>3, <1>6
  <2>3. j \in 1 .. Len(f) /\ h[j] = f[j] BY <1>3, <1>6, <2>1
  <2> QED BY <2>2, <2>3, <1>6 DEF Orderly
<1>7. CASE done = m /\ \A k \in 1 .. Len(f) : f[k].kind # "init"
  <2>1. \A k \in 1 .. Len(h) : h[k].kind # "init" BY <1>3, <1>7
  <2> QED BY <2>1, <1>5, <1>6, <1>7 DEF Orderly, h
<1>8. CASE \E k \in 1 .. Len(f) : /\ f[k].kind = "init" /\ f[k].n = m - 1
                                  /\ \A j \in 1 .. k - 1 : f[j].kind \notin TextReq
  <2>1. PICK k \in 1 .. Len(f) : /\ f[k].kind = "init" /\ f[k].n = m - 1
                                 /\ \A j \in 1 .. k - 1 : f[j].kind \notin TextReq
    BY <1>8
  <2>2. \A j \in 1 .. k - 1 : j \in 1 .. Len(f) BY <1>1
  <2>3. /\ k \in 1 .. Len(h) /\ h[k].kind = "init" /\ h[k].n = m - 1
        /\ \A j \in 1 .. k - 1 : h[j].kind \notin TextReq
    BY <2>1, <2>2, <1>4
  <2> QED BY <2>3, <1>5, <1>6 DEF Orderly, h
<1> QED BY <1>7, <1>8 DEF Orderly

(* ... and, while it holds no text, by the next command.                   *)
LEMMA FlowGetsCommand ==
  ASSUME NEW f \in Seq(LcdReqs), NEW m \in Nat, NEW done \in Nat, Orderly(f, m, TextReq, done)
  PROVE  Orderly(Append(f, Req("init", m)), m + 1, TextReq, done)
<1> DEFINE r == Req("init", m)
           h == Append(f, r)
           l == Len(f)
<1>1. r \in LcdReqs /\ r.kind = "init" /\ r.n = m BY DEF Req, LcdReqs, ReqKinds
<1> HIDE DEF r
<1>2. l \in Nat BY LenProperties
<1>3. /\ Len(h) = l + 1 /\ h[l + 1] = r /\ \A k \in 1 .. l : h[k] = f[k]
  BY <1>1, AppendProperties
<1> HIDE DEF h, l
<1>4. \A k \in 1 .. l : /\ f[k].kind \notin TextReq
                        /\ f[k].kind = "init" => f[k].n < m
  BY DEF Orderly, l
<1>5. \A k \in 1 .. l : f[k] \in LcdReqs /\ f[k].n \in Nat
  <2>1. \A k \in 1 .. l : f[k] \in LcdReqs BY ElementOfSeq DEF l
  <2> QED BY <2>1 DEF LcdReqs
<1>6. \A k \in 1 .. Len(h) : k \in 1 .. l \/ k = l + 1 BY <1>2, <1>3
<1>7. ASSUME NEW k \in 1 .. Len(h)
      PROVE  h[k].kind \notin TextReq /\ (h[k].kind = "init" => h[k].n < m + 1)
  <2>1. CASE k \in 1 .. l
    <3>1. h[k] = f[k] BY <2>1, <1>3
    <3> QED BY <3>1, <2>1, <1>4, <1>5
  <2>2. CASE k = l + 1 BY <2>2, <1>1, <1>3 DEF TextReq
  <2> QED BY <2>1, <2>2, <1>6
<1>8. ASSUME NEW k \in 1 .. Len(h), NEW j \in 1 .. k - 1, h[j].kind = "init", h[k].kind = "init"
      PROVE  h[j].n < h[k].n
  <2>1. j \in 1 .. l /\ h[j] = f[j] BY <1>2, <1>3
  <2>2. CASE k \in 1 .. l
    <3>1. h[k] = f[k] BY <2>2, <1>3
    <3> QED BY <2>1, <2>2, <3>1, <1>8 DEF Orderly, l
  <2>3. CASE k = l + 1 BY <2>1, <2>3, <1>1, <1>3, <1>4, <1>8
  <2> QED BY <2>2, <2>3, <1>6
<1>9. /\ l + 1 \in 1 .. Len(h) /\ h[l + 1].kind = "init" /\ h[l + 1].n = (m + 1) - 1
      /\ \A j \in 1 .. (l + 1) - 1 : h[j].kind \notin TextReq
  <2>1. (m + 1) - 1 = m /\ l + 1 \in 1 .. Len(h) /\ \A j \in 1 .. (l + 1) - 1 : j \in 1 .. Len(h)
    BY <1>2, <1>3
  <2> QED BY <2>1, <1>1, <1>3, <1>7
<1> QED BY <1>7, <1>8, <1>9 DEF Orderly, h, r

(* ... and loses its first request, which the panel has carried out.       *)
LEMMA FlowGoesOn ==
  ASSUME NEW f \in Seq(LcdReqs), f # <<>>, NEW m \in Nat, NEW banned, NEW done \in Nat,
         Orderly(f, m, banned, done)
  PROVE  Orderly(Tail(f), m, banned, IF f[1].kind = "init" THEN f[1].n + 1 ELSE done)
<1> DEFINE h == Tail(f)
           l == Len(f)
           d == IF f[1].kind = "init" THEN f[1].n + 1 ELSE done
<1>1. l \in Nat \ {0} BY EmptySeq, LenProperties
<1>2. Len(h) = l - 1 /\ \A k \in 1 .. l - 1 : h[k] = f[k + 1] BY HeadTailProperties
<1>3. \A k \in 1 .. l : f[k].n \in Nat
  <2>1. \A k \in 1 .. l : f[k] \in LcdReqs BY ElementOfSeq
  <2> QED BY <2>1 DEF LcdReqs
<1> HIDE DEF h
<1>4. ASSUME NEW k \in 1 .. Len(h) PROVE k + 1 \in 1 .. l /\ h[k] = f[k + 1] BY <1>1, <1>2
<1>5. /\ \A k \in 1 .. l : /\ f[k].kind \notin banned
                           /\ f[k].kind = "init" => f[k].n < m
      /\ \A k \in 1 .. l : \A j \in 1 .. k - 1 :
           f[j].kind = "init" /\ f[k].kind = "init" => f[j].n < f[k].n
  BY DEF Orderly
<1>6. \A k \in 1 .. Len(h) : /\ h[k].kind \notin banned
                             /\ h[k].kind = "init" => h[k].n < m
  BY <1>4, <1>5
<1>7. ASSUME NEW k \in 1 .. Len(h), NEW j \in 1 .. k - 1, h[j].kind = "init", h[k].kind = "init"
      PROVE  h[j].n < h[k].n
  <2>1. j \in 1 .. Len(h) /\ j + 1 \in 1 .. (k + 1) - 1 BY <1>1, <1>2
  <2>2. h[j] = f[j + 1] /\ h[k] = f[k + 1] /\ k + 1 \in 1 .. l BY <2>1, <1>4
  <2> QED BY <2>1, <2>2, <1>5, <1>7
<1>8. CASE done = m /\ \A k \in 1 .. l : f[k].kind # "init"
  <2>1. 1 \in 1 .. l BY <1>1
  <2>2. d = m /\ \A k \in 1 .. Len(h) : h[k].kind # "init" BY <2>1, <1>4, <1>8
  <2> QED BY <2>2, <1>6, <1>7 DEF Orderly, h
<1>9. CASE \E k \in 1 .. l : /\ f[k].kind = "init" /\ f[k].n = m - 1
                             /\ \A j \in 1 .. k - 1 : f[j].kind \notin TextReq
  <2>1. PICK k \in 1 .. l : /\ f[k].kind = "init" /\ f[k].n = m - 1
                            /\ \A j \in 1 .. k - 1 : f[j].kind \notin TextReq
    BY <1>9
  <2>2. CASE k = 1
    <3>1. d = m BY <2>1, <2>2
    <3>2. ASSUME NEW i \in 1 .. Len(h), h[i].kind = "init" PROVE FALSE
      <4>1. i + 1 \in 1 .. l /\ h[i] = f[i + 1] /\ 1 \in 1 .. (i + 1) - 1 BY <1>4
      <4>2. f[1].n < f[i + 1].n /\ f[i + 1].n < m /\ f[i + 1].n \in Nat
        BY <4>1, <3>2, <2>1, <2>2, <1>3, <1>5
      <4> QED BY <4>2, <2>1, <2>2
    <3> QED BY <3>1, <3>2, <1>6, <1>7 DEF Orderly, h
  <2>3. CASE k # 1
    <3>1. k - 1 \in 1 .. Len(h) /\ (k - 1) + 1 = k BY <2>3, <1>1, <1>2
    <3>2. h[k - 1] = f[k] BY <3>1, <1>4
    <3>3. ASSUME NEW j \in 1 .. (k - 1) - 1 PROVE h[j].kind \notin TextReq
      <4>1. j \in 1 .. Len(h) /\ j + 1 \in 1 .. k - 1 BY <3>1, <1>1, <1>2
      <4> QED BY <4>1, <2>1, <1>4
    <3>4. /\ h[k - 1].kind = "init" /\ h[k - 1].n = m - 1
          /\ \A j \in 1 .. (k - 1) - 1 : h[j].kind \notin TextReq
      BY <3>2, <3>3, <2>1
    <3> QED BY <3>1, <3>4, <1>6, <1>7 DEF Orderly, h
  <2> QED BY <2>2, <2>3
<1> QED BY <1>8, <1>9 DEF Orderly

(* At the head of the flow, text finds the panel initialised.              *)
LEMMA TextFindsPanelReady ==
  ASSUME NEW f \in Seq(LcdReqs), f # <<>>, NEW m, NEW banned, NEW done,
         Orderly(f, m, banned, done), f[1].kind \in TextReq
  PROVE  f[1].kind \notin banned /\ done = m
<1>1. 1 \in 1 .. Len(f) BY EmptySeq, LenProperties
<1>2. f[1].kind \notin banned BY <1>1 DEF Orderly
<1>3. ASSUME NEW k \in 1 .. Len(f), f[k].kind = "init",
             \A j \in 1 .. k - 1 : f[j].kind \notin TextReq
      PROVE  FALSE
  <2>1. k # 1 BY <1>3 DEF TextReq
  <2>2. 1 \in 1 .. k - 1 BY <2>1, <1>1
  <2> QED BY <2>2, <1>3
<1> QED BY <1>2, <1>3 DEF Orderly

(* How a step moves the flow.                                              *)
LEMMA FlowThen ==
  Orderly(Flow', Given', Banned', panel'.init) => FlowInv'
BY DEF Orderly, FlowInv

LEMMA FlowTypes ==
  ASSUME LcdTypes
  PROVE  /\ Flow \in Seq(LcdReqs) /\ Given \in Nat /\ panel.init \in Nat
         /\ busy # NoReq => Flow = <<busy>> \o reqs /\ <<busy>> \in Seq(LcdReqs)
         /\ busy = NoReq => Flow = reqs
<1>1. reqs \in Seq(LcdReqs) /\ (busy # NoReq => busy \in LcdReqs) BY DEF LcdTypes
<1>2. CASE busy # NoReq
  <2>1. <<busy>> \in Seq(LcdReqs) BY <1>1, <1>2
  <2>2. <<busy>> \o reqs \in Seq(LcdReqs) BY <1>1, <2>1, ConcatProperties
  <2> QED BY <2>1, <2>2, <1>2, LcdAssumption DEF Flow, LcdTypes, Panels, Given
<1>3. CASE busy = NoReq
  <2>1. <<>> \o reqs = reqs BY <1>1, ConcatEmptySeq
  <2> QED BY <2>1, <1>1, <1>3, LcdAssumption DEF Flow, LcdTypes, Panels, Given
<1> QED BY <1>2, <1>3

LEMMA FlowKept ==
  ASSUME FlowInv, UNCHANGED <<reqs, busy>>, panel'.init = panel.init,
         Given' = Given, Banned' = Banned
  PROVE  FlowInv'
<1>1. Flow' = Flow BY DEF Flow
<1>2. Orderly(Flow', Given', Banned', panel'.init) BY <1>1, Zenon DEF FlowInv
<1> QED BY <1>2, FlowThen

LEMMA MoreFlow ==
  ASSUME LcdTypes, NEW g \in Seq(LcdReqs), reqs' = reqs \o g, UNCHANGED busy
  PROVE  Flow' = Flow \o g /\ reqs' \in Seq(LcdReqs)
<1> DEFINE a == IF busy = NoReq THEN <<>> ELSE <<busy>>
<1>1. reqs \in Seq(LcdReqs) BY DEF LcdTypes
<1>2. a \in Seq(LcdReqs) BY DEF LcdTypes
<1>3. Flow = a \o reqs /\ Flow' = a \o (reqs \o g) BY DEF Flow
<1> HIDE DEF a
<1>4. (a \o reqs) \o g = a \o (reqs \o g) BY <1>1, <1>2, ConcatAssociative
<1>5. reqs \o g \in Seq(LcdReqs) BY <1>1, ConcatProperties
<1> QED BY <1>3, <1>4, <1>5

LEMMA OthersSubmitted ==
  ASSUME LcdTypes, FlowInv, NEW g \in Seq(LcdReqs), reqs' = reqs \o g, UNCHANGED <<busy, panel>>,
         Given' = Given, Banned' = Banned,
         \A k \in 1 .. Len(g) : g[k].kind # "init" /\ g[k].kind \notin Banned
  PROVE  FlowInv'
<1>1. Orderly(Flow, Given, Banned, panel.init) BY DEF FlowInv
<1>2. Flow \in Seq(LcdReqs) /\ Given \in Nat /\ panel.init \in Nat BY FlowTypes
<1>3. Orderly(Flow \o g, Given, Banned, panel.init) BY <1>1, <1>2, FlowGrows
<1>4. Flow' = Flow \o g BY MoreFlow
<1>5. Orderly(Flow', Given', Banned', panel'.init) BY <1>3, <1>4, Zenon
<1> QED BY <1>5, FlowThen

LEMMA RgbSubmitted ==
  ASSUME LcdTypes, SubmitThoseThatFit(RgbReqs)
  PROVE  \E g \in Seq(LcdReqs) : /\ reqs' = reqs \o g /\ UNCHANGED busy
                                 /\ \A k \in 1 .. Len(g) : g[k].kind = "rgb"
<1> DEFINE m == IF Len(RgbReqs) <= I2cDepth - Len(reqs) THEN Len(RgbReqs) ELSE I2cDepth - Len(reqs)
           g == SubSeq(RgbReqs, 1, m)
<1>1. reqs' = reqs \o g /\ UNCHANGED busy BY DEF SubmitThoseThatFit
<1>2. /\ RgbReqs \in [1 .. RgbWrites -> LcdReqs] /\ RgbWrites \in Nat
      /\ \A k \in 1 .. RgbWrites : RgbReqs[k] \in LcdReqs /\ RgbReqs[k].kind = "rgb"
  BY LcdAssumption DEF RgbReqs, Req, LcdReqs, ReqKinds
<1>3. RgbReqs \in Seq(LcdReqs) /\ Len(RgbReqs) = RgbWrites
  <2>1. RgbReqs \in Seq(LcdReqs) BY <1>2, SeqDef
  <2> QED BY <2>1, <1>2, LenProperties
<1>4. m \in Int /\ m <= RgbWrites
  <2>1. Len(reqs) \in Nat BY LenProperties DEF LcdTypes
  <2>2. I2cDepth \in Int BY I2cAssumption
  <2> QED BY <2>1, <2>2, <1>2, <1>3
<1> HIDE DEF m
<1>5. /\ g \in Seq(LcdReqs) /\ Len(g) = IF 1 <= m THEN m - 1 + 1 ELSE 0
      /\ \A i \in 1 .. m - 1 + 1 : g[i] = RgbReqs[1 + i - 1]
  <2>1. \A i \in 1 .. m : RgbReqs[i] \in LcdReqs BY <1>2, <1>4
  <2> QED BY <2>1, <1>4, SubSeqProperties
<1> HIDE DEF g
<1>6. ASSUME NEW k \in 1 .. Len(g) PROVE g[k].kind = "rgb"
  <2>1. k \in 1 .. m /\ k \in 1 .. m - 1 + 1 /\ 1 + k - 1 = k /\ k \in 1 .. RgbWrites
    BY <1>4, <1>5, <1>2
  <2> QED BY <2>1, <1>2, <1>5
<1> QED BY <1>1, <1>5, <1>6

LEMMA RgbKeepsFlow ==
  ASSUME LcdTypes, FlowInv, SubmitThoseThatFit(RgbReqs), UNCHANGED panel,
         Given' = Given, Banned' = Banned
  PROVE  FlowInv' /\ reqs' \in Seq(LcdReqs) /\ busy' = busy
<1>1. PICK g \in Seq(LcdReqs) : /\ reqs' = reqs \o g /\ UNCHANGED busy
                                /\ \A k \in 1 .. Len(g) : g[k].kind = "rgb"
  BY RgbSubmitted
<1>2. \A k \in 1 .. Len(g) : g[k].kind # "init" /\ g[k].kind \notin Banned
  BY <1>1 DEF Banned, TextReq
<1>3. FlowInv' BY <1>1, <1>2, OthersSubmitted
<1> QED BY <1>1, <1>3, MoreFlow

(* A text is submitted only when the initialisation is over.               *)
LEMMA TextKeepsFlow ==
  ASSUME LcdTypes, FlowInv, NEW r \in LcdReqs, r.kind \in TextReq, ~Early, Submit(r),
         UNCHANGED panel, Given' = Given, Banned' = Banned
  PROVE  FlowInv' /\ reqs' \in Seq(LcdReqs) /\ busy' = busy
<1>1. reqs' = Append(reqs, r) /\ UNCHANGED busy /\ reqs \in Seq(LcdReqs) BY DEF Submit, LcdTypes
<1>2. reqs' = reqs \o <<r>> BY <1>1, AppendIsConcat
<1>3. <<r>> \in Seq(LcdReqs) /\ Len(<<r>>) = 1 /\ <<r>>[1] = r OBVIOUS
<1> DEFINE g == <<r>>
<1> HIDE DEF g
<1>4. g \in Seq(LcdReqs) /\ reqs' = reqs \o g BY <1>2, <1>3 DEF g
<1>5. \A k \in 1 .. Len(g) : g[k].kind # "init" /\ g[k].kind \notin Banned
  BY <1>3 DEF g, Banned, TextReq
<1>6. FlowInv' BY <1>1, <1>4, <1>5, OthersSubmitted
<1> QED BY <1>1, <1>4, <1>6, MoreFlow

-----------------------------------------------------------------------------
(* Where the tasks are.                                                    *)
LEMMA AwakeAgain ==
  ASSUME LcdTypes, Awake, UNCHANGED <<began, st, idx>>, evq' \in Seq(Ticks),
         NEW t \in Tasks, NEW l \in Labels \ {"rgb_sent"}, at' = [at EXCEPT ![t] = l],
         Early => l \in IF t = "app" THEN Outside ELSE {"free", "step", "init_sent"}
  PROVE  Awake' /\ Given' = Given /\ Banned' = Banned /\ at' \in [Tasks -> Labels]
BY DEF LcdTypes, Awake, Early, Given, Banned, Tasks, Outside, Labels

LEMMA LateAgain ==
  ASSUME LcdTypes, Awake, ~Early, UNCHANGED began, evq' \in Seq(Ticks),
         st' \in {"idle", "ready", "pos", "data"},
         NEW t \in Tasks, NEW l \in Labels \ {"rgb_sent"}, at' = [at EXCEPT ![t] = l]
  PROVE  Awake' /\ Given' = Given /\ Banned' = Banned /\ at' \in [Tasks -> Labels]
BY DEF LcdTypes, Awake, Early, Given, Banned, Tasks, Outside, Labels

LEMMA EventAdded ==
  ASSUME Awake, NEW e \in Ticks, evq' = WithEvent(evq, e)
  PROVE  evq' \in Seq(Ticks)
<1>1. evq \in Seq(Ticks) BY DEF Awake
<1>2. Append(evq, e) \in Seq(Ticks) BY <1>1, AppendProperties
<1> QED BY <1>1, <1>2 DEF WithEvent

(* A task is beyond the first label of a step only after the               *)
(* initialisation, but for the driver's in two of them.                    *)
LEMMA InStep ==
  ASSUME LcdTypes, Awake, NEW t \in Tasks
  PROVE  /\ t = "app" /\ at[t] \notin Outside => ~Early
         /\ at[t] \in {"pos_sent", "data_sent", "row_sent", "flushed", "begin"} => ~Early
         /\ at[t] = "rgb_sent" => t = "drv" /\ st = "rgb_init" /\ idx = 0
BY DEF LcdTypes, Awake, Early, Tasks, Outside

-----------------------------------------------------------------------------
(* The actions, once EV_SYS_START was handled.                             *)
LcdRun == LcdTypes /\ Awake /\ FlowInv

LEMMA QuietMove ==
  ASSUME LcdRun, UNCHANGED <<began, st, idx, row, reqs, busy, panel>>, evq' \in Seq(Ticks),
         NEW t \in Tasks, NEW l \in Labels \ {"rgb_sent"}, at' = [at EXCEPT ![t] = l],
         Early => l \in IF t = "app" THEN Outside ELSE {"free", "step", "init_sent"},
         delay' \in BOOLEAN, draws' \in Nat, fb' \in [RowIds -> Nat]
  PROVE  LcdRun'
<1>1. Awake' /\ Given' = Given /\ Banned' = Banned /\ at' \in [Tasks -> Labels]
  BY AwakeAgain DEF LcdRun
<1>2. FlowInv' BY <1>1, FlowKept DEF LcdRun
<1>3. LcdTypes' BY <1>1 DEF LcdRun, LcdTypes
<1> QED BY <1>1, <1>2, <1>3 DEF LcdRun

LEMMA WelcomeKeeps ==
  ASSUME LcdRun, AppWelcome
  PROVE  LcdRun'
<1>1. /\ UNCHANGED <<began, st, idx, row, reqs, busy, panel, delay, evq>>
      /\ delay' \in BOOLEAN /\ evq' \in Seq(Ticks) /\ at["app"] = "free"
  BY DEF AppWelcome, AppFree, fsmVars, i2cVars, hwVars, LcdRun, LcdTypes, Awake
<1>2. CASE greeted
  <2>1. UNCHANGED <<fb, draws, at>> BY <1>2 DEF AppWelcome
  <2>2. at' = [at EXCEPT !["app"] = "free"] /\ draws' \in Nat /\ fb' \in [RowIds -> Nat]
    BY <2>1, <1>1 DEF LcdRun, LcdTypes, Tasks
  <2> QED BY <1>1, <2>2, QuietMove DEF Tasks, Labels, Outside
<1>3. CASE ~greeted
  <2>1. /\ at' = [at EXCEPT !["app"] = "greeting"]
        /\ draws' = draws + 1 /\ fb' = [r \in RowIds |-> draws + 1]
    BY <1>3 DEF AppWelcome, Goto
  <2>2. draws' \in Nat /\ fb' \in [RowIds -> Nat] BY <2>1 DEF LcdRun, LcdTypes
  <2> QED BY <1>1, <2>1, <2>2, QuietMove DEF Tasks, Labels, Outside
<1> QED BY <1>2, <1>3

LEMMA DrawKeeps ==
  ASSUME LcdRun, NEW r \in RowIds, Draw(r)
  PROVE  LcdRun'
<1>1. /\ UNCHANGED <<began, st, idx, row, reqs, busy, panel, delay, evq>>
      /\ delay' \in BOOLEAN /\ evq' \in Seq(Ticks)
      /\ at' = [at EXCEPT !["app"] = "drawn"]
      /\ draws' = draws + 1 /\ fb' = [fb EXCEPT ![r] = draws + 1]
  BY DEF Draw, Goto, fsmVars, i2cVars, hwVars, LcdRun, LcdTypes, Awake
<1>2. draws' \in Nat /\ fb' \in [RowIds -> Nat] BY <1>1 DEF LcdRun, LcdTypes
<1> QED BY <1>1, <1>2, QuietMove DEF Tasks, Labels, Outside

LEMMA SetDirtyKeeps ==
  ASSUME LcdRun, SetDirty
  PROVE  LcdRun'
<1>1. /\ UNCHANGED <<began, st, idx, row, panel, delay, evq, fb, draws>>
      /\ evq' \in Seq(Ticks) /\ at' = [at EXCEPT !["app"] = "ask"]
  BY DEF SetDirty, Goto, hwVars, appVars, LcdRun, Awake
<1>2. Awake' /\ Given' = Given /\ Banned' = Banned /\ at' \in [Tasks -> Labels]
  BY <1>1, AwakeAgain DEF LcdRun, Tasks, Labels, Outside
<1>3. FlowInv' /\ reqs' \in Seq(LcdReqs) /\ busy' = busy
  <2>1. CASE at["app"] = "greeting"
    <3>1. SubmitThoseThatFit(RgbReqs) BY <2>1 DEF SetDirty
    <3> QED BY <3>1, <1>1, <1>2, RgbKeepsFlow DEF LcdRun
  <2>2. CASE at["app"] # "greeting"
    <3>1. UNCHANGED <<reqs, busy>> BY <2>2 DEF SetDirty, i2cVars
    <3> QED BY <3>1, <1>1, <1>2, FlowKept DEF LcdRun, LcdTypes
  <2> QED BY <2>1, <2>2
<1>4. LcdTypes' BY <1>1, <1>2, <1>3 DEF LcdRun, LcdTypes
<1> QED BY <1>2, <1>3, <1>4 DEF LcdRun

(* request_flush starts a flush in ST_IDLE and ST_READY only.              *)
LEMMA AskFlushKeeps ==
  ASSUME LcdRun, AskFlush
  PROVE  LcdRun'
<1> DEFINE l == IF MayFlush THEN "begin" ELSE "free"
<1>1. /\ UNCHANGED <<began, st, idx, row, reqs, busy, panel, delay, evq, fb, draws>>
      /\ evq' \in Seq(Ticks) /\ delay' \in BOOLEAN /\ draws' \in Nat /\ fb' \in [RowIds -> Nat]
      /\ at' = [at EXCEPT !["app"] = l]
  BY DEF AskFlush, Goto, fsmVars, i2cVars, hwVars, appVars, LcdRun, LcdTypes, Awake
<1>2. Early => l = "free" BY DEF Early, MayFlush
<1>3. l \in Labels \ {"rgb_sent"} BY DEF Labels, Outside
<1> HIDE DEF l
<1> QED BY <1>1, <1>2, <1>3, QuietMove DEF Tasks, Outside

(* A step that the state machine takes after the initialisation.           *)
LEMMA LateMove ==
  ASSUME LcdRun, ~Early, UNCHANGED <<began, idx, reqs, busy, panel, fb, draws>>,
         evq' \in Seq(Ticks), st' \in {"idle", "ready", "pos", "data"}, row' \in Nat,
         NEW t \in Tasks, NEW l \in Labels \ {"rgb_sent"}, at' = [at EXCEPT ![t] = l],
         delay' \in BOOLEAN
  PROVE  LcdRun'
<1>1. Awake' /\ Given' = Given /\ Banned' = Banned /\ at' \in [Tasks -> Labels]
  BY LateAgain DEF LcdRun
<1>2. FlowInv' BY <1>1, FlowKept DEF LcdRun
<1>3. LcdTypes' BY <1>1 DEF LcdRun, LcdTypes
<1> QED BY <1>1, <1>2, <1>3 DEF LcdRun

LEMMA BeginFlushKeeps ==
  ASSUME LcdRun, BeginFlush
  PROVE  LcdRun'
<1>1. /\ UNCHANGED <<began, idx, reqs, busy, panel, delay, evq, fb, draws>>
      /\ evq' \in Seq(Ticks) /\ delay' \in BOOLEAN /\ row' = 0 /\ st' = "pos"
      /\ at' = [at EXCEPT !["app"] = "step"] /\ at["app"] = "begin"
  BY DEF BeginFlush, Goto, i2cVars, hwVars, LcdRun, LcdTypes, Awake
<1>2. ~Early BY <1>1, InStep DEF LcdRun, Tasks
<1> QED BY <1>1, <1>2, LateMove DEF Tasks, Labels

(* step(), by state.                                                       *)
LEMMA QuietSteps ==
  ASSUME LcdRun, NEW t \in Tasks, StepNothing(t) \/ InitSent(t)
  PROVE  LcdRun'
<1>1. /\ UNCHANGED <<began, st, idx, row, reqs, busy, panel, evq, fb, draws>>
      /\ evq' \in Seq(Ticks) /\ draws' \in Nat /\ fb' \in [RowIds -> Nat]
      /\ at' = [at EXCEPT ![t] = "free"] /\ delay' \in BOOLEAN
  BY DEF StepNothing, InitSent, Return, Goto, fsmVars, i2cVars, hwVars, appVars, LcdRun, LcdTypes,
         Awake
<1> QED BY <1>1, QuietMove DEF Labels, Outside

LEMMA RgbInitKeeps ==
  ASSUME LcdRun, NEW t \in Tasks, StepRgbInit(t)
  PROVE  LcdRun'
<1> DEFINE l == IF Len(reqs) + RgbWrites <= I2cDepth THEN "rgb_sent" ELSE "free"
<1>1. /\ UNCHANGED <<began, st, idx, row, panel, delay, evq, fb, draws>>
      /\ SubmitThoseThatFit(RgbReqs) /\ st = "rgb_init" /\ at[t] = "step"
      /\ at' = [at EXCEPT ![t] = l]
  BY DEF StepRgbInit, Goto, fsmVars, hwVars, appVars
<1>2. t = "drv" /\ Early BY <1>1, InStep DEF LcdRun, Early, Outside, Tasks
<1>3. l \in {"rgb_sent", "free"} OBVIOUS
<1> HIDE DEF l
<1>4. Awake' /\ at' \in [Tasks -> Labels]
  BY <1>1, <1>2, <1>3 DEF LcdRun, LcdTypes, Awake, Early, Labels, Outside, Tasks
<1>5. Given' = Given /\ Banned' = Banned BY <1>1 DEF Given, Banned, Early
<1>6. FlowInv' /\ reqs' \in Seq(LcdReqs) /\ busy' = busy BY <1>1, <1>5, RgbKeepsFlow DEF LcdRun
<1>7. LcdTypes' BY <1>1, <1>4, <1>6 DEF LcdRun, LcdTypes
<1> QED BY <1>4, <1>6, <1>7 DEF LcdRun

LEMMA RgbSentKeeps ==
  ASSUME LcdRun, NEW t \in Tasks, RgbSent(t)
  PROVE  LcdRun'
<1>1. /\ UNCHANGED <<began, idx, row, reqs, busy, panel, evq, fb, draws>>
      /\ st' = "lcd_init" /\ delay' = TRUE /\ at[t] = "rgb_sent"
      /\ at' = [at EXCEPT ![t] = "free"]
  BY DEF RgbSent, Return, Goto, i2cVars, hwVars, appVars
<1>2. t = "drv" /\ st = "rgb_init" /\ idx = 0 BY <1>1, InStep DEF LcdRun
<1>3. Awake' /\ at' \in [Tasks -> Labels]
  BY <1>1, <1>2 DEF LcdRun, LcdTypes, Awake, Early, Labels, Outside, Tasks
<1>4. Given' = Given /\ Banned' = Banned BY <1>1, <1>2 DEF Given, Banned, Early
<1>5. FlowInv' BY <1>1, <1>4, FlowKept DEF LcdRun
<1>6. LcdTypes' BY <1>1, <1>3 DEF LcdRun, LcdTypes
<1> QED BY <1>3, <1>5, <1>6 DEF LcdRun

(* The command that is submitted is the next one in line.                  *)
LEMMA InitCmdKeeps ==
  ASSUME LcdRun, NEW t \in Tasks, StepInitCmd(t)
  PROVE  LcdRun'
<1>1. /\ UNCHANGED <<began, st, row, panel, delay, evq, fb, draws>>
      /\ st = "lcd_init" /\ idx < InitSteps /\ at[t] = "step"
  BY DEF StepInitCmd, hwVars, appVars
<1>2. t = "drv" /\ Early BY <1>1, InStep DEF LcdRun, Early, Outside, Tasks
<1>3. CASE CanSubmit
  <2> DEFINE r == Req("init", idx)
  <2>1. Submit(r) /\ idx' = idx + 1 /\ at' = [at EXCEPT ![t] = "init_sent"]
    BY <1>3 DEF StepInitCmd, Goto
  <2>2. idx \in Nat /\ InitSteps \in Nat BY LcdAssumption DEF LcdRun, LcdTypes
  <2>3. idx' \in 0 .. InitSteps BY <1>1, <2>1, <2>2
  <2>4. r \in LcdReqs BY <2>2 DEF Req, LcdReqs, ReqKinds
  <2> HIDE DEF r
  <2>5. Awake' /\ at' \in [Tasks -> Labels]
    BY <1>1, <1>2, <2>1 DEF LcdRun, LcdTypes, Awake, Early, Labels, Outside, Tasks
  <2>6. Given = idx /\ Given' = idx + 1 /\ Banned = TextReq /\ Banned' = TextReq
    BY <1>1, <2>1 DEF Given, Banned, Early
  <2>7. /\ reqs' = reqs \o <<r>> /\ UNCHANGED busy /\ reqs' \in Seq(LcdReqs)
        /\ <<r>> \in Seq(LcdReqs)
    <3>1. reqs \in Seq(LcdReqs) BY DEF LcdRun, LcdTypes
    <3> QED BY <3>1, <2>1, <2>4, AppendIsConcat, AppendProperties DEF Submit
  <2>8. FlowInv'
    <3>1. Flow \in Seq(LcdReqs) /\ panel.init \in Nat BY FlowTypes DEF LcdRun
    <3>2. Orderly(Flow, idx, TextReq, panel.init) BY <2>6 DEF LcdRun, FlowInv
    <3>3. Orderly(Append(Flow, r), idx + 1, TextReq, panel.init)
      BY <3>1, <3>2, <2>2, FlowGetsCommand DEF r
    <3>4. Flow' = Flow \o <<r>> BY <2>7, MoreFlow DEF LcdRun
    <3>5. Append(Flow, r) = Flow \o <<r>> BY <3>1, <2>4, AppendIsConcat
    <3>6. Orderly(Flow', Given', Banned', panel'.init) BY <3>3, <3>4, <3>5, <2>6, <1>1, Zenon
    <3> QED BY <3>6, FlowThen
  <2>9. LcdTypes' BY <1>1, <2>3, <2>5, <2>7 DEF LcdRun, LcdTypes
  <2> QED BY <2>5, <2>8, <2>9 DEF LcdRun
<1>4. CASE ~CanSubmit
  <2>1. /\ UNCHANGED <<idx, reqs, busy>> /\ at' = [at EXCEPT ![t] = "free"]
        /\ evq' \in Seq(Ticks) /\ draws' \in Nat /\ fb' \in [RowIds -> Nat] /\ delay' \in BOOLEAN
    BY <1>1, <1>4 DEF StepInitCmd, Return, Goto, i2cVars, LcdRun, LcdTypes, Awake
  <2> QED BY <1>1, <2>1, QuietMove DEF Labels, Outside
<1> QED BY <1>3, <1>4

(* All commands were given: from here on text may follow them.             *)
LEMMA NothingBanned ==
  ASSUME NEW f, NEW m, NEW banned, NEW done, Orderly(f, m, banned, done)
  PROVE  Orderly(f, m, {}, done)
BY DEF Orderly

LEMMA InitDoneKeeps ==
  ASSUME LcdRun, NEW t \in Tasks, StepInitDone(t)
  PROVE  LcdRun'
<1>1. /\ UNCHANGED <<began, row, reqs, busy, panel, delay, fb, draws>>
      /\ st = "lcd_init" /\ idx = InitSteps /\ at[t] = "step" /\ idx' = 0 /\ st' = "ready"
      /\ evq' = WithEvent(evq, "ready") /\ at' = [at EXCEPT ![t] = "free"]
  BY DEF StepInitDone, Return, Goto, i2cVars, hwVars, appVars
<1>2. evq' \in Seq(Ticks) BY <1>1, EventAdded DEF LcdRun, Ticks
<1>3. Awake' /\ at' \in [Tasks -> Labels]
  BY <1>1, <1>2 DEF LcdRun, LcdTypes, Awake, Early, Labels, Outside, Tasks
<1>4. Given = InitSteps /\ Given' = InitSteps /\ Banned' = {}
  BY <1>1 DEF Given, Banned, Early
<1>5. Flow' = Flow BY <1>1 DEF Flow
<1>6. Orderly(Flow, InitSteps, {}, panel.init) BY <1>4, NothingBanned DEF LcdRun, FlowInv
<1>7. Orderly(Flow', Given', Banned', panel'.init) BY <1>1, <1>4, <1>5, <1>6, Zenon
<1>8. 0 \in 0 .. InitSteps BY LcdAssumption
<1>9. LcdTypes' BY <1>1, <1>3, <1>8 DEF LcdRun, LcdTypes
<1> QED BY <1>3, <1>7, <1>9, FlowThen DEF LcdRun

LEMMA TextMove ==
  ASSUME LcdRun, ~Early, NEW r \in LcdReqs, r.kind \in TextReq, Submit(r),
         UNCHANGED <<began, st, idx, row, panel, evq, fb, draws, delay>>,
         NEW t \in Tasks, NEW l \in Labels \ {"rgb_sent"}, at' = [at EXCEPT ![t] = l]
  PROVE  LcdRun'
<1>1. Awake' /\ Given' = Given /\ Banned' = Banned /\ at' \in [Tasks -> Labels]
  <2>1. evq' \in Seq(Ticks) BY DEF LcdRun, Awake
  <2> QED BY <2>1, AwakeAgain DEF LcdRun
<1>2. FlowInv' /\ reqs' \in Seq(LcdReqs) /\ busy' = busy BY <1>1, TextKeepsFlow DEF LcdRun
<1>3. LcdTypes' BY <1>1, <1>2 DEF LcdRun, LcdTypes
<1> QED BY <1>1, <1>2, <1>3 DEF LcdRun

LEMMA PosKeeps ==
  ASSUME LcdRun, NEW t \in Tasks, StepPos(t)
  PROVE  LcdRun'
<1>1. /\ UNCHANGED <<began, st, idx, row, panel, delay, evq, fb, draws>>
      /\ st = "pos" /\ ~Early
  BY DEF StepPos, hwVars, appVars, Early
<1>2. CASE CanSubmit
  <2> DEFINE r == Req("addr", RowAddr(row))
  <2>1. Submit(r) /\ at' = [at EXCEPT ![t] = "pos_sent"] BY <1>2 DEF StepPos, Goto
  <2>2. r \in LcdReqs /\ r.kind \in TextReq BY DEF Req, RowAddr, LcdReqs, ReqKinds, TextReq
  <2> HIDE DEF r
  <2> QED BY <1>1, <2>1, <2>2, TextMove DEF Labels
<1>3. CASE ~CanSubmit
  <2>1. /\ UNCHANGED <<reqs, busy>> /\ at' = [at EXCEPT ![t] = "free"]
        /\ evq' \in Seq(Ticks) /\ draws' \in Nat /\ fb' \in [RowIds -> Nat] /\ delay' \in BOOLEAN
    BY <1>1, <1>3 DEF StepPos, Return, Goto, i2cVars, LcdRun, LcdTypes, Awake
  <2> QED BY <1>1, <2>1, QuietMove DEF Labels, Outside
<1> QED BY <1>2, <1>3

LEMMA LateSteps ==
  ASSUME LcdRun, NEW t \in Tasks, PosSent(t) \/ DataSent(t) \/ Flushed(t)
  PROVE  LcdRun'
<1>1. PICK l \in {"free", "flushed"} :
        /\ UNCHANGED <<began, idx, reqs, busy, panel, fb, draws>>
        /\ at[t] \in {"pos_sent", "data_sent", "row_sent", "flushed"}
        /\ st' \in {st, "data", "idle", "pos"} /\ row' \in {row, row + 1}
        /\ delay' \in {delay, delay \/ Pause}
        /\ evq' \in {evq, WithEvent(evq, "tick")}
        /\ at' = [at EXCEPT ![t] = l]
  <2>1. CASE PosSent(t) \/ Flushed(t)
    BY <2>1 DEF PosSent, Flushed, Return, Goto, i2cVars, hwVars, appVars
  <2>2. CASE DataSent(t)
    BY <2>2 DEF DataSent, Return, Goto, i2cVars, hwVars, appVars
  <2> QED BY <2>1, <2>2
<1>2. ~Early BY <1>1, InStep DEF LcdRun
<1>3. evq' \in Seq(Ticks) BY <1>1, EventAdded DEF LcdRun, Ticks, Awake
<1>4. /\ st' \in {"idle", "ready", "pos", "data"} /\ row' \in Nat /\ delay' \in BOOLEAN
      /\ l \in Labels \ {"rgb_sent"}
  BY <1>1, <1>2, LcdAssumption DEF LcdRun, LcdTypes, Early, Labels, Outside
<1> QED BY <1>1, <1>2, <1>3, <1>4, LateMove

LEMMA DataKeeps ==
  ASSUME LcdRun, NEW t \in Tasks, StepData(t)
  PROVE  LcdRun'
<1>1. /\ UNCHANGED <<began, idx, row, panel, delay, evq, fb, draws>>
      /\ st = "data" /\ ~Early /\ st' \in {"idle", "data"}
  BY DEF StepData, hwVars, appVars, Early
<1>2. evq' \in Seq(Ticks) /\ row' \in Nat /\ delay' \in BOOLEAN
  BY <1>1 DEF LcdRun, LcdTypes, Awake
<1>3. CASE row < Rows /\ sent # Chunks /\ CanSubmit
  <2> DEFINE r == Req("data", ChunkAt(row, sent))
  <2>1. row \in Nat /\ Rows \in Nat /\ ~(row >= Rows) BY <1>3, LcdAssumption DEF LcdRun, LcdTypes
  <2>2. Submit(r) /\ at' = [at EXCEPT ![t] = "data_sent"] /\ UNCHANGED st
    BY <1>3, <2>1 DEF StepData, Goto
  <2>3. r \in LcdReqs /\ r.kind \in TextReq
    <3>1. fb[row] \in Nat BY <2>1, <1>3 DEF LcdRun, LcdTypes, RowIds
    <3>2. ChunkAt(row, sent) \in Nat BY <3>1, LcdAssumption DEF ChunkAt, Junk
    <3> QED BY <3>2 DEF Req, LcdReqs, ReqKinds, TextReq
  <2> HIDE DEF r
  <2> QED BY <1>1, <2>2, <2>3, TextMove DEF Labels
<1>4. CASE ~(row < Rows /\ sent # Chunks /\ CanSubmit)
  <2>1. row \in Nat /\ Rows \in Nat BY LcdAssumption DEF LcdRun, LcdTypes
  <2>2. /\ UNCHANGED <<reqs, busy>>
        /\ \E l \in {"free", "row_sent"} : at' = [at EXCEPT ![t] = l]
    BY <1>4, <2>1 DEF StepData, Return, Goto, i2cVars
  <2> QED BY <1>1, <1>2, <2>2, LateMove DEF Labels, Outside
<1> QED BY <1>3, <1>4

LEMMA StepKeeps ==
  ASSUME LcdRun, NEW t \in Tasks, Step(t)
  PROVE  LcdRun'
BY QuietSteps, RgbInitKeeps, RgbSentKeeps, InitCmdKeeps, InitDoneKeeps, PosKeeps, LateSteps,
   DataKeeps DEF Step

(* The driver's task, the worker and the timer.                            *)
LEMMA ReceiveKeeps ==
  ASSUME LcdRun, DrvReceive
  PROVE  LcdRun'
<1>1. evq \in Seq(Ticks) /\ evq # <<>> BY DEF DrvReceive, LcdRun, Awake
<1>2. Head(evq) \in Ticks /\ Tail(evq) \in Seq(Ticks) BY <1>1, HeadTailProperties
<1>3. /\ UNCHANGED <<began, st, idx, row, panel, delay, fb, draws>>
      /\ evq' \in Seq(Ticks) /\ at["drv"] = "free"
      /\ delay' \in BOOLEAN /\ draws' \in Nat /\ fb' \in [RowIds -> Nat]
  BY <1>2 DEF DrvReceive, Ticks, hwVars, appVars, LcdRun, LcdTypes
<1>4. CASE Head(evq) = "ready"
  <2>1. SubmitThoseThatFit(RgbReqs) /\ UNCHANGED at BY <1>4 DEF DrvReceive, StepsOn
  <2>2. Awake' /\ Given' = Given /\ Banned' = Banned
    BY <2>1, <1>3 DEF LcdRun, Awake, Early, Given, Banned
  <2>3. FlowInv' /\ reqs' \in Seq(LcdReqs) /\ busy' = busy
    BY <2>1, <2>2, <1>3, RgbKeepsFlow DEF LcdRun
  <2>4. LcdTypes' BY <2>1, <2>3, <1>3 DEF LcdRun, LcdTypes
  <2> QED BY <2>2, <2>3, <2>4 DEF LcdRun
<1>5. CASE Head(evq) # "ready"
  <2>1. UNCHANGED <<reqs, busy>> /\ at' = [at EXCEPT !["drv"] = "step"]
    BY <1>2, <1>5 DEF DrvReceive, StepsOn, Goto, Ticks, i2cVars
  <2> QED BY <1>3, <2>1, QuietMove DEF Tasks, Labels
<1> QED BY <1>4, <1>5

LEMMA StandStill ==
  ASSUME LcdRun, UNCHANGED <<began, st, idx, row, at, fb, draws>>, evq' \in Seq(Ticks),
         delay' \in BOOLEAN
  PROVE  /\ Awake' /\ Given' = Given /\ Banned' = Banned
         /\ FlowInv' /\ UNCHANGED <<reqs, busy, panel>> => LcdRun'
         /\ /\ FlowInv' /\ reqs' \in Seq(LcdReqs) /\ busy' \in LcdReqs \cup {NoReq}
            /\ panel' \in Panels
            => LcdRun'
BY DEF LcdRun, LcdTypes, Awake, Early, Given, Banned

LEMMA DelayKeeps ==
  ASSUME LcdRun, DelayOver
  PROVE  LcdRun'
<1>1. /\ UNCHANGED <<began, st, idx, row, reqs, busy, panel, at, fb, draws>>
      /\ evq' \in Seq(Ticks) /\ delay' \in BOOLEAN
  BY EventAdded DEF DelayOver, Ticks, fsmVars, i2cVars, hwVars, appVars, LcdRun
<1>2. FlowInv' BY <1>1, StandStill, FlowKept DEF LcdRun
<1> QED BY <1>1, <1>2, StandStill

LEMMA TakeKeeps ==
  ASSUME LcdRun, I2cTake
  PROVE  LcdRun'
<1>1. /\ UNCHANGED <<began, st, idx, row, panel, delay, evq, at, fb, draws>>
      /\ busy = NoReq /\ reqs # <<>> /\ busy' = Head(reqs) /\ reqs' = Tail(reqs)
  BY DEF I2cTake, WorkerTake, fsmVars, hwVars, appVars
<1>2. evq' \in Seq(Ticks) /\ delay' \in BOOLEAN BY <1>1 DEF LcdRun, LcdTypes, Awake
<1>3. reqs \in Seq(LcdReqs) BY DEF LcdRun, LcdTypes
<1>4. Head(reqs) \in LcdReqs /\ Tail(reqs) \in Seq(LcdReqs) /\ reqs = <<Head(reqs)>> \o Tail(reqs)
  BY <1>1, <1>3, HeadTailProperties
<1>5. Head(reqs) # NoReq BY <1>4, LcdAssumption DEF LcdReqs, ReqKinds
<1>6. Flow' = Flow
  <2>1. Flow = reqs BY <1>1, FlowTypes DEF LcdRun
  <2>2. Flow' = <<Head(reqs)>> \o Tail(reqs) BY <1>1, <1>5 DEF Flow
  <2> QED BY <2>1, <2>2, <1>4
<1>7. Given' = Given /\ Banned' = Banned BY <1>1, <1>2, StandStill
<1>8. Orderly(Flow', Given', Banned', panel'.init) BY <1>1, <1>6, <1>7, Zenon DEF LcdRun, FlowInv
<1>9. FlowInv' BY <1>8, FlowThen
<1> QED BY <1>1, <1>2, <1>4, <1>9, StandStill DEF LcdRun, LcdTypes

(* A command that failed counts as done: the driver goes on as after any   *)
(* other.                                                                  *)
LEMMA DoneKeeps ==
  ASSUME LcdRun, I2cDone \/ I2cError
  PROVE  LcdRun'
<1> DEFINE d == IF busy.kind = "init" THEN busy.n + 1 ELSE panel.init
<1>1. /\ UNCHANGED <<began, st, idx, row, delay, at, fb, draws>>
      /\ busy # NoReq /\ busy' = NoReq /\ reqs' = reqs
  BY DEF I2cDone, I2cError, WorkerDone, fsmVars, appVars
<1>2. evq' \in Seq(Ticks) /\ delay' \in BOOLEAN
  <2>1. evq' = WithEvent(evq, "done") \/ evq' = WithEvent(evq, "error") BY DEF I2cDone, I2cError
  <2> QED BY <2>1, <1>1, EventAdded DEF LcdRun, LcdTypes, Ticks
<1>3. busy \in LcdReqs /\ panel \in Panels BY <1>1 DEF LcdRun, LcdTypes
<1>4. panel' \in Panels /\ panel'.init = d
  <2>1. busy.n \in Nat /\ panel.init \in Nat BY <1>3 DEF LcdReqs, Panels
  <2>2. CASE I2cError
    <3>1. panel' = IF busy.kind = "init" THEN [panel EXCEPT !.init = busy.n + 1] ELSE panel
      BY <2>2 DEF I2cError
    <3> QED BY <3>1, <2>1, <1>3 DEF Panels
  <2>3. CASE I2cDone
    <3>1. panel' = PanelAfter(busy) BY <2>3 DEF I2cDone
    <3>2. CASE busy.kind = "init" BY <3>1, <3>2, <2>1, <1>3 DEF PanelAfter, Panels
    <3>3. CASE busy.kind = "addr" BY <3>1, <3>3, <2>1, <1>3 DEF PanelAfter, Panels
    <3>4. CASE busy.kind = "data"
      <4>1. panel' = [panel EXCEPT !.pos = @ + 1,
                        !.text = IF panel.pos < Chunks
                                 THEN [@ EXCEPT ![panel.row][panel.pos] = busy.n] ELSE @]
        BY <3>1, <3>4 DEF PanelAfter
      <4> DEFINE x == IF panel.pos < Chunks
                      THEN [panel.text EXCEPT ![panel.row][panel.pos] = busy.n] ELSE panel.text
      <4>2. x \in [RowIds -> [ChunkIds -> Nat]] BY <2>1, <1>3 DEF Panels
      <4>3. panel' = [panel EXCEPT !.pos = panel.pos + 1, !.text = x] BY <4>1, <1>3 DEF Panels
      <4> HIDE DEF x
      <4>4. panel.pos + 1 \in Nat BY <1>3 DEF Panels
      <4>5. panel' \in Panels /\ panel'.init = panel.init BY <4>2, <4>3, <4>4, <1>3 DEF Panels
      <4> QED BY <4>5, <3>4
    <3>5. CASE busy.kind = "rgb" BY <3>1, <3>5, <1>3 DEF PanelAfter, Panels
    <3> QED BY <3>2, <3>3, <3>4, <3>5, <1>3 DEF LcdReqs, ReqKinds
  <2> QED BY <2>2, <2>3
<1>5. reqs \in Seq(LcdReqs) BY DEF LcdRun, LcdTypes
<1>6. Flow \in Seq(LcdReqs) /\ Flow # <<>> /\ Flow[1] = busy /\ Flow' = Tail(Flow)
  <2>1. Flow = <<busy>> \o reqs /\ Flow \in Seq(LcdReqs) BY <1>1, FlowTypes DEF LcdRun
  <2>2. Flow' = reqs
    <3>1. <<>> \o reqs = reqs BY <1>5, ConcatEmptySeq
    <3> QED BY <3>1, <1>1 DEF Flow
  <2>3. <<busy>> \o reqs # <<>> /\ (<<busy>> \o reqs)[1] = busy /\ Tail(<<busy>> \o reqs) = reqs
    BY <1>3, <1>5
  <2> QED BY <2>1, <2>2, <2>3
<1>7. Given' = Given /\ Banned' = Banned BY <1>1, <1>2, StandStill
<1>8. Orderly(Tail(Flow), Given, Banned, d)
  <2>1. Orderly(Flow, Given, Banned, panel.init) BY DEF LcdRun, FlowInv
  <2>2. Given \in Nat /\ panel.init \in Nat BY FlowTypes DEF LcdRun
  <2> QED BY <2>1, <2>2, <1>6, FlowGoesOn
<1>9. Orderly(Flow', Given', Banned', panel'.init) BY <1>4, <1>6, <1>7, <1>8, Zenon
<1>10. FlowInv' BY <1>9, FlowThen
<1> QED BY <1>1, <1>2, <1>4, <1>5, <1>10, StandStill

LEMMA AwakeGoesOn ==
  ASSUME LcdRun, [LcdNext]_vars
  PROVE  LcdRun'
<1>1. ~AppStart BY DEF AppStart, LcdRun, Awake
<1>2. CASE UNCHANGED vars
  <2>1. /\ UNCHANGED <<began, st, idx, row, reqs, busy, panel, delay, evq, at, fb, draws>>
        /\ evq' \in Seq(Ticks) /\ delay' \in BOOLEAN
    BY <1>2 DEF vars, fsmVars, i2cVars, hwVars, appVars, LcdRun, LcdTypes, Awake
  <2>2. FlowInv' BY <2>1, StandStill, FlowKept DEF LcdRun
  <2> QED BY <2>1, <2>2, StandStill
<1>3. CASE AppStep
  BY <1>3, SetDirtyKeeps, AskFlushKeeps, BeginFlushKeeps, StepKeeps DEF AppStep, Tasks
<1>4. CASE DrvStep BY <1>4, ReceiveKeeps, StepKeeps DEF DrvStep, Tasks
<1>5. CASE I2cStep BY <1>5, TakeKeeps, DoneKeeps DEF I2cStep
<1> QED
  BY <1>1, <1>2, <1>3, <1>4, <1>5, WelcomeKeeps, DrawKeeps, DelayKeeps DEF LcdNext, Resting

(* Before EV_SYS_START nothing moves: the application waits for the bus,   *)
(* and on one core for the driver's task to have handled what is there.    *)
LEMMA AsleepOrWakes ==
  ASSUME Schedule = "one_core", LcdTypes, Asleep, [LcdNext]_vars
  PROVE  (LcdTypes /\ Asleep)' \/ LcdRun'
<1>1. CASE AppStart
  <2>1. /\ UNCHANGED <<st, idx, row, reqs, busy, panel, delay, at, fb, draws>>
        /\ began' = TRUE /\ ~began /\ evq' = WithEvent(evq, "start")
    BY <1>1 DEF AppStart, fsmVars, i2cVars, hwVars
  <2>2. evq' = <<"start">> BY <2>1, LcdAssumption DEF Asleep, WithEvent
  <2> QED BY <2>1, <2>2 DEF LcdTypes, Asleep
<1>2. CASE DrvReceive
  <2>1. evq = <<"start">> /\ began BY <1>2 DEF DrvReceive, Asleep
  <2>2. Head(evq) = "start" /\ Tail(evq) = <<>> BY <2>1
  <2>3. /\ UNCHANGED <<began, idx, row, reqs, busy, panel, delay, fb, draws>>
        /\ evq' = <<>> /\ st' = "rgb_init" /\ at' = [at EXCEPT !["drv"] = "step"]
    BY <1>2, <2>2 DEF DrvReceive, StepsOn, Goto, i2cVars, hwVars, appVars
  <2>4. LcdTypes' BY <2>3 DEF LcdTypes, Labels, Tasks
  <2>5. Awake'
    <3>1. evq' \in Seq(Ticks) BY <2>3
    <3> QED BY <3>1, <2>1, <2>3 DEF Asleep, Awake, LcdTypes, Early, Outside, Tasks
  <2>6. FlowInv'
    <3>1. Flow' = <<>> \o <<>> BY <2>3 DEF Flow, Asleep
    <3>2. Len(Flow') = 0 /\ Given' = 0 /\ panel'.init = 0
      BY <3>1, <2>3 DEF Given, Early, Asleep
    <3>3. Orderly(Flow', Given', Banned', panel'.init) BY <3>2 DEF Orderly
    <3> QED BY <3>3, FlowThen
  <2> QED BY <2>4, <2>5, <2>6 DEF LcdRun
<1>3. CASE UNCHANGED vars
  BY <1>3 DEF vars, fsmVars, i2cVars, hwVars, appVars, LcdTypes, Asleep
<1>4. ~(AppTurn /\ began) BY DEF AppTurn, Asleep
<1>5. \A t \in Tasks : at[t] = "free" BY DEF Asleep
<1>6. \A t \in Tasks : ~Step(t)
  BY <1>5 DEF Step, StepNothing, StepRgbInit, RgbSent, StepInitCmd, InitSent, StepInitDone, StepPos,
     PosSent, StepData, DataSent, Flushed
<1>7. ~AppStep BY <1>5, <1>6 DEF AppStep, SetDirty, AskFlush, BeginFlush, Tasks
<1>8. ~I2cStep /\ ~DelayOver
  BY DEF I2cStep, I2cTake, I2cDone, I2cError, WorkerTake, WorkerDone, DelayOver, Asleep
<1>9. ~AppWelcome /\ \A r \in RowIds : ~Draw(r) BY <1>4 DEF AppWelcome, Draw, AppFree
<1> QED
  BY <1>1, <1>2, <1>3, <1>6, <1>7, <1>8, <1>9 DEF LcdNext, DrvStep, Resting, Tasks

LEMMA LcdStarts ==
  ASSUME LcdInit
  PROVE  LcdTypes /\ Asleep
<1>1. panel \in Panels
  <2>1. [r \in RowIds |-> [c \in ChunkIds |-> 0]] \in [RowIds -> [ChunkIds -> Nat]] OBVIOUS
  <2> QED BY <2>1 DEF LcdInit, Panels
<1>2. at \in [Tasks -> Labels] /\ \A t \in Tasks : at[t] = "free"
  BY DEF LcdInit, Tasks, Labels, Outside
<1>3. Asleep BY <1>2 DEF LcdInit, I2cInit, Asleep
<1>4. /\ st = "idle" /\ row = 0 /\ idx = 0 /\ draws = 0 /\ began = FALSE /\ delay = FALSE
      /\ reqs = <<>> /\ busy = NoReq /\ fb \in [RowIds -> Nat]
  BY DEF LcdInit, I2cInit
<1>5. 0 \in 0 .. InitSteps BY LcdAssumption
<1>6. reqs \in Seq(LcdReqs) BY <1>4, EmptySeq
<1>7. LcdTypes BY <1>1, <1>2, <1>4, <1>5, <1>6, Zenon DEF LcdTypes
<1> QED BY <1>3, <1>7

LEMMA RunShowsText ==
  ASSUME LcdRun
  PROVE  TextAfterInit
<1>1. SUFFICES ASSUME busy # NoReq, busy.kind \in TextReq PROVE panel.init = InitSteps
  BY DEF TextAfterInit, TextReq
<1>2. Flow = <<busy>> \o reqs /\ Flow \in Seq(LcdReqs) BY <1>1, FlowTypes DEF LcdRun
<1>3. Flow # <<>> /\ Flow[1] = busy
  BY <1>1, <1>2 DEF LcdRun, LcdTypes
<1>4. Orderly(Flow, Given, Banned, panel.init) BY DEF LcdRun, FlowInv
<1>5. busy.kind \notin Banned /\ panel.init = Given BY <1>1, <1>2, <1>3, <1>4, TextFindsPanelReady
<1>6. ~Early BY <1>1, <1>5 DEF Banned
<1> QED BY <1>5, <1>6 DEF Given

(* Text goes to the display only after its whole initialisation, whatever  *)
(* the application draws and asks for meanwhile and whatever fails, on a   *)
(* chip with one core.                                                     *)
THEOREM TextComesAfterInit ==
  ASSUME Schedule = "one_core"
  PROVE  LcdSpec => []TextAfterInit
<1>1. LcdInit => LcdInv BY LcdStarts DEF LcdInv
<1>2. LcdInv /\ [LcdNext]_vars => LcdInv'
  <2>1. ASSUME LcdInv, [LcdNext]_vars PROVE LcdInv'
    <3>1. CASE LcdTypes /\ Asleep BY <2>1, <3>1, AsleepOrWakes DEF LcdInv, LcdRun
    <3>2. CASE LcdRun BY <2>1, <3>2, AwakeGoesOn DEF LcdInv, LcdRun
    <3> QED BY <2>1, <3>1, <3>2 DEF LcdInv, LcdRun
  <2> QED BY <2>1
<1>3. LcdInv => TextAfterInit
  <2>1. LcdTypes /\ Asleep => TextAfterInit BY DEF Asleep, TextAfterInit
  <2> QED BY <2>1, RunShowsText DEF LcdInv, LcdRun
<1> QED BY <1>1, <1>2, <1>3, PTL DEF LcdSpec

-----------------------------------------------------------------------------
(* The composition of the runs lets one part move at a time, as its own    *)
(* specification says; so the theorems above are about the runs too.       *)
THEOREM EachPartAsSpecified ==
  PartsSpec => /\ GpioSpec /\ I2cBusSpec /\ OwSpec
               /\ BootSpec /\ RbSpec /\ SchemaSpec
<1>1. PartsInit => /\ GpioInit /\ I2cBusInit /\ OwInit
                   /\ BootInit /\ RbInit /\ SchemaInit
  BY DEF PartsInit
<1>2. [PartsNext]_partVars
        => /\ [GpioNext]_gpioVars /\ [I2cBusNext]_busVars /\ [OwNext]_owVars
           /\ [BootNext]_bootVars /\ [RbNext]_rbVars /\ [SchemaNext]_schemaVars
  BY DEF PartsNext, partVars, GpioAlone, BusAlone, WireAlone, FlashAlone, LogAlone, SchemaAlone
<1> QED
  BY <1>1, <1>2, PTL DEF PartsSpec, GpioSpec, I2cBusSpec, OwSpec, BootSpec, RbSpec, SchemaSpec
=============================================================================
