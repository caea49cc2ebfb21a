----------------------------- MODULE TimerProofs -----------------------------
(***************************************************************************)
(* The deadline table for every number of slots, callers and token widths, *)
(* whatever the bounds: the alarm always stands for the earliest deadline, *)
(* a token names the timer it was returned for, and the table implements   *)
(* the set of deadlines of DeadlineSet (its safety part).                  *)
(***************************************************************************)
EXTENDS TimerService, NumberFacts, FiniteSetTheorems, FunctionTheorems, SequenceTheorems, TLAPS

-----------------------------------------------------------------------------
(* The table and arm_earliest_locked_.                                     *)

LEMMA TimersFinite == IsFiniteSet(Timers)
<1>1. NumTimers \in Nat BY TimerAssumption
<1>2. NumTimers - 1 \in Int BY <1>1
<1> QED BY <1>2, FS_Interval DEF Timers

LEMMA EarliestIs ==
  ASSUME NEW tab \in [Timers -> SlotType], ActiveIn(tab) # {}
  PROVE  /\ EarliestDue(tab) \in Nat
         /\ \E i \in Timers : tab[i].active /\ tab[i].due = EarliestDue(tab)
         /\ \A i \in Timers : tab[i].active => EarliestDue(tab) <= tab[i].due
<1> DEFINE S == {tab[i].due : i \in ActiveIn(tab)}
<1>1. S \subseteq Nat BY DEF ActiveIn, SlotType
<1>2. S # {} OBVIOUS
<1>3. EarliestDue(tab) = Min(S) BY DEF EarliestDue
<1>4. Min(S) \in S /\ \A y \in S : Min(S) <= y
  <2> HIDE DEF S
  <2> QED BY <1>1, <1>2, MinIs
<1> QED BY <1>1, <1>3, <1>4 DEF ActiveIn

LEMMA ArmEarliestDoes ==
  ASSUME NEW tab \in [Timers -> SlotType], NEW was \in BOOLEAN, NEW now \in Nat,
         clock \in Nat, refused \in BOOLEAN, dueAt \in Nat, alarm \in Nat \cup {Off},
         ArmEarliest(tab, was, now)
  PROVE  /\ armed' \in BOOLEAN /\ refused' \in BOOLEAN
         /\ dueAt' \in Nat /\ alarm' \in Nat \cup {Off}
         /\ ActiveIn(tab) # {} /\ ~refused' => armed'
         /\ armed' => ActiveIn(tab) # {} /\ dueAt' = EarliestDue(tab)
         /\ (was => alarm # Off) => (armed' => alarm' # Off)
<1>1. CASE ActiveIn(tab) = {}
  <2>1. /\ armed' = FALSE /\ dueAt' = 0 /\ refused' = FALSE
        /\ alarm' = IF was THEN Off ELSE alarm
    BY <1>1 DEF ArmEarliest
  <2> QED BY <1>1, <2>1
<1>2. CASE ActiveIn(tab) # {} /\ AlreadyArmed(tab, was)
  BY <1>2 DEF ArmEarliest, AlreadyArmed
<1>3. CASE ActiveIn(tab) # {} /\ ~AlreadyArmed(tab, was)
  <2> DEFINE e == EarliestDue(tab)
  <2>1. e \in Nat BY <1>3, EarliestIs
  <2>2. AlarmFor(e, now) \in Nat
    <3>1. Horizon \in Nat BY TimerAssumption
    <3> HIDE DEF e
    <3> QED BY <2>1, <3>1 DEF AlarmFor, SmallerOf
  <2>3. PICK ok \in {TRUE} \cup {~StartFails} :
          /\ armed' = ok /\ refused' = ~ok
          /\ dueAt' = IF ok THEN e ELSE 0
          /\ alarm' = IF ok THEN AlarmFor(e, now) ELSE Off
    BY <1>3 DEF ArmEarliest
  <2>4. ok \in BOOLEAN OBVIOUS
  <2>5. CASE ok BY <1>3, <2>1, <2>2, <2>3, <2>5 DEF Off
  <2>6. CASE ~ok BY <1>3, <2>3, <2>6 DEF Off
  <2> QED BY <2>4, <2>5, <2>6
<1> QED BY <1>1, <1>2, <1>3

(* The slots after an arm, a cancel and a callback.                        *)
LEMMA NextTokenIs ==
  ASSUME NEW g \in 0 .. TokenMod - 1
  PROVE  NextToken(g) \in 1 .. TokenMod - 1
         /\ NextToken(g) = IF g = TokenMod - 1 THEN 1 ELSE g + 1
<1>1. TokenMod \in Nat /\ TokenMod >= 2 BY TimerAssumption
<1>2. CASE g = TokenMod - 1
  <2>1. (g + 1) % TokenMod = 0 BY <1>1, <1>2, Z3
  <2> QED BY <1>1, <1>2, <2>1 DEF NextToken
<1>3. CASE g # TokenMod - 1
  <2>1. (g + 1) % TokenMod = g + 1 BY <1>1, <1>3, Z3
  <2> QED BY <1>1, <1>3, <2>1 DEF NextToken
<1> QED BY <1>2, <1>3

LEMMA NextDueIs ==
  ASSUME NEW due \in Nat, NEW period \in Nat \ {0}, NEW now \in Nat, due <= now
  PROVE  /\ PeriodicNextDue(due, period, now) \in Nat
         /\ PeriodicNextDue(due, period, now) = due + ((now - due) \div period + 1) * period
<1>1. CASE due + period > now
  <2>1. (now - due) \div period = 0 BY <1>1, Z3
  <2> QED BY <1>1, <2>1 DEF PeriodicNextDue
<1>2. CASE due + period <= now
  <2> DEFINE x == now - (due + period)
             q == x \div period
  <2>1. x \in Nat BY <1>2
  <2>2. now - due = x + period OBVIOUS
  <2>3. q \in Nat /\ x = period * q + (x % period) /\ x % period \in 0 .. period - 1
    BY <2>1, Z3
  <2>4. (x + period) \div period = q + 1
    <3> HIDE DEF q, x
    <3>1. PICK r \in 0 .. period - 1 : x = period * q + r BY <2>3
    <3>2. x + period = period * (q + 1) + r BY <2>3, <3>1, Z3
    <3> QED BY <2>1, <2>3, <3>2, Z3
  <2>5. PeriodicNextDue(due, period, now) = due + period + (q + 1) * period
    BY <1>2 DEF PeriodicNextDue
  <2>6. (q + 1) * period \in Nat /\ (q + 1) * period + period = (q + 1 + 1) * period
    <3> HIDE DEF q
    <3> QED BY <2>3, Z3
  <2> QED BY <2>2, <2>4, <2>5, <2>6
<1> QED BY <1>1, <1>2

-----------------------------------------------------------------------------
(* A stopped service keeps nothing, and nobody is inside of it: what Stop  *)
(* waits for and Start relies on.                                          *)
StoppedIsBare ==
  ~started => /\ ~armed /\ alarm = Off /\ \A i \in Timers : slots[i] = Empty
              /\ \A c \in Callers : call[c] = NoCall
              /\ cb.pc # "entered"

TableInv == TimerTypeOK /\ StoppedIsBare /\ EarliestGuarded

LEMMA TypesGrow ==
  ASSUME clock \in Nat, clock' \in Nat, clock <= clock', tokens \subseteq tokens'
  PROVE  CallType \subseteq CallType' /\ CbType \subseteq CbType'
<1>1. 0 .. clock \subseteq 0 .. clock' OBVIOUS
<1>2. CallType \subseteq CallType' BY <1>1 DEF CallType
<1>3. CbType \subseteq CbType' BY <1>1 DEF CbType
<1> QED BY <1>2, <1>3

LEMMA EmptyTable ==
  /\ Empty \in SlotType
  /\ \A tab : tab = [i \in Timers |-> Empty] => tab \in [Timers -> SlotType] /\ ActiveIn(tab) = {}
<1>1. TokenMod - 1 \in Nat /\ MaxArms \in Nat /\ 0 \in 0 .. TokenMod - 1 /\ 0 \in 0 .. MaxArms
  BY TimerAssumption
<1>2. Empty \in SlotType BY <1>1 DEF Empty, SlotType
<1>3. Empty.active = FALSE BY DEF Empty
<1> QED BY <1>2, <1>3 DEF ActiveIn

LEMMA TableInit == Init => TableInv
<1> SUFFICES ASSUME Init PROVE TableInv OBVIOUS
<1> USE DEF Init
<1>1. Horizon \in Nat /\ MaxArms \in Nat /\ MaxStops \in Nat BY TimerAssumption
<1>2. slots \in [Timers -> SlotType] /\ ActiveIn(slots) = {} BY EmptyTable
<1>3. cb \in CbType BY DEF CbType
<1>4. call \in [Callers -> CallType] BY DEF CallType
<1>5. tokens \subseteq TokenType OBVIOUS
<1>6. ended \in [Ids -> {"no", "cancelled", "stopped"}] OBVIOUS
<1>7. fired \in [Ids -> Seq(Nat)] OBVIOUS
<1>11. /\ armed \in BOOLEAN /\ started \in BOOLEAN /\ refused \in BOOLEAN
       /\ dueAt \in Nat /\ alarm \in Nat \cup {Off}
  OBVIOUS
<1>12. /\ clock \in 0 .. Horizon /\ nextId \in 1 .. MaxArms + 1 /\ stops \in 0 .. MaxStops
  BY <1>1
<1>8. TimerTypeOK BY <1>11, <1>12, <1>2, <1>3, <1>4, <1>5, <1>6, <1>7 DEF TimerTypeOK
<1>9. StoppedIsBare BY DEF StoppedIsBare, CbIdle
<1>10. EarliestGuarded BY <1>2 DEF EarliestGuarded
<1> QED BY <1>8, <1>9, <1>10 DEF TableInv

(* What a call that is being made holds.                                   *)
LEMMA CallIs ==
  ASSUME TimerTypeOK, NEW c \in Callers
  PROVE  /\ call[c].op \in {"once", "periodic"} =>
              /\ call[c].now \in 0 .. clock /\ call[c].d \in Nat \ {0}
              /\ call[c].op = "periodic" => call[c].d \in Periods
         /\ call[c].op = "cancel" => call[c].now \in 0 .. clock /\ call[c].tok \in tokens
<1>1. Periods \subseteq Nat BY TimerAssumption
<1>2. call[c] \in CallType BY DEF TimerTypeOK
<1>3. CASE call[c] = NoCall BY <1>3 DEF NoCall
<1>4. CASE call[c] \in [op : {"once"}, now : 0 .. clock, d : Nat \ {0}] BY <1>4
<1>5. CASE call[c] \in [op : {"periodic"}, now : 0 .. clock, d : Periods \ {0}] BY <1>1, <1>5
<1>6. CASE call[c] \in [op : {"cancel"}, now : 0 .. clock, tok : tokens] BY <1>6
<1> QED BY <1>2, <1>3, <1>4, <1>5, <1>6 DEF CallType

LEMMA CbIs ==
  ASSUME TimerTypeOK
  PROVE  /\ cb.pc \in {"idle", "expired", "entered", "post"}
         /\ cb.pc = "entered" => cb.now \in 0 .. clock
         /\ cb.pc = "post" => cb.fires \in Seq(SlotType) /\ cb = [pc |-> "post", fires |-> cb.fires]
         /\ cb.pc = "idle" <=> cb = CbIdle
<1>1. cb \in CbType BY DEF TimerTypeOK
<1>2. CASE cb = CbIdle BY <1>2 DEF CbIdle
<1>3. CASE cb \in [pc : {"expired"}] BY <1>3 DEF CbIdle
<1>4. CASE cb \in [pc : {"entered"}, now : 0 .. clock] BY <1>4 DEF CbIdle
<1>5. CASE cb \in [pc : {"post"}, fires : Seq(SlotType)] BY <1>5 DEF CbIdle
<1> QED BY <1>1, <1>2, <1>3, <1>4, <1>5 DEF CbType

(* The slot an arm takes.                                                  *)
LEMMA FreeTimerIs ==
  ASSUME FreeTimers # {}
  PROVE  Min(FreeTimers) \in Timers /\ ~slots[Min(FreeTimers)].active
<1>1. FreeTimers \subseteq Nat BY TimerAssumption DEF FreeTimers, Timers
<1>2. Min(FreeTimers) \in FreeTimers BY <1>1, MinIs
<1> QED BY <1>2 DEF FreeTimers

(* The table after a callback that read the clock at now.                  *)
LEMMA ExpireIs ==
  ASSUME NEW s \in SlotType, NEW now \in Nat, s.due <= now
  PROVE  /\ Expire(s, now) \in SlotType
         /\ Expire(s, now).gen = s.gen /\ Expire(s, now).id = s.id
         /\ Expire(s, now).period = s.period
         /\ s.period = 0 => Expire(s, now).active = FALSE /\ Expire(s, now).due = s.due
         /\ s.period # 0 => /\ Expire(s, now).active = s.active
                            /\ Expire(s, now).due = s.due + ((now - s.due) \div s.period + 1) * s.period
<1>1. Periods \subseteq Nat BY TimerAssumption
<1>2. s.due \in Nat /\ s.period \in Nat /\ s.period \in Periods \cup {0}
  <2>1. s.due \in Nat /\ s.period \in Periods \cup {0} BY DEF SlotType
  <2>2. Periods \cup {0} \subseteq Nat BY <1>1
  <2> QED BY <2>1, <2>2, Zenon
<1>3. CASE s.period = 0
  <2>1. Expire(s, now) = [s EXCEPT !.active = FALSE] BY <1>3 DEF Expire
  <2> QED BY <1>3, <2>1 DEF SlotType
<1>4. CASE s.period # 0
  <2> DEFINE n == PeriodicNextDue(s.due, s.period, now)
  <2>1. n \in Nat /\ n = s.due + ((now - s.due) \div s.period + 1) * s.period
    BY <1>2, <1>4, NextDueIs
  <2>2. Expire(s, now) = [s EXCEPT !.due = n] BY <1>4 DEF Expire
  <2> HIDE DEF n
  <2>3. /\ Expire(s, now) \in SlotType
        /\ Expire(s, now).gen = s.gen /\ Expire(s, now).id = s.id
        /\ Expire(s, now).period = s.period /\ Expire(s, now).active = s.active
        /\ Expire(s, now).due = n
    BY <2>1, <2>2 DEF SlotType
  <2> QED BY <1>4, <2>1, <2>3
<1> QED BY <1>3, <1>4

-----------------------------------------------------------------------------
(* Each step keeps TableInv.  The steps that change the table first.       *)

LEMMA StartStopKeepTable ==
  ASSUME TableInv, Start \/ Stop
  PROVE  TableInv'
<1> USE DEF TableInv
<1>1. /\ slots' = [i \in Timers |-> Empty] /\ armed' = FALSE /\ dueAt' = 0
      /\ alarm' = Off /\ refused' = FALSE /\ started' \in BOOLEAN
      /\ clock' = clock /\ cb' = cb /\ call' = call
      /\ nextId' = nextId /\ tokens' = tokens /\ fired' = fired
  BY DEF Start, Stop, histVars
<1>2. slots' \in [Timers -> SlotType] /\ ActiveIn(slots') = {} BY <1>1, EmptyTable
<1>3. stops' \in 0 .. MaxStops /\ stops <= stops'
  <2>1. stops \in 0 .. MaxStops /\ MaxStops \in Nat BY TimerAssumption DEF TimerTypeOK
  <2>2. CASE Start BY <2>1, <2>2 DEF Start, histVars
  <2>3. CASE Stop
    <3>1. stops < MaxStops /\ stops' = stops + 1 BY <2>3 DEF Stop
    <3> QED BY <2>1, <3>1
  <2> QED BY <2>2, <2>3
<1>4. tokens' \subseteq TokenType'
  <2>1. stops \in Nat /\ stops' \in Nat BY <1>3 DEF TimerTypeOK
  <2>2. 0 .. stops \subseteq 0 .. stops' BY <1>3, <2>1
  <2>3. TokenType \subseteq TokenType' BY <2>2 DEF TokenType
  <2> QED BY <1>1, <2>3 DEF TimerTypeOK
<1>5. ended' \in [Ids -> {"no", "cancelled", "stopped"}]
  <2>1. CASE Start BY <2>1 DEF Start, histVars, TimerTypeOK
  <2>2. CASE Stop BY <2>2 DEF Stop, Stopped, TimerTypeOK
  <2> QED BY <2>1, <2>2
<1>6. cb' \in CbType' /\ call' \in [Callers -> CallType']
  BY <1>1 DEF TimerTypeOK, CbType, CallType
<1>7. TimerTypeOK'
  BY <1>1, <1>2, <1>3, <1>4, <1>5, <1>6 DEF TimerTypeOK
<1>8. StoppedIsBare'
  <2>1. CASE Start BY <2>1 DEF Start, StoppedIsBare
  <2>2. CASE Stop BY <1>1, <2>2 DEF Stop, StoppedIsBare
  <2> QED BY <2>1, <2>2
<1>9. EarliestGuarded' BY <1>1, <1>2 DEF EarliestGuarded
<1> QED BY <1>7, <1>8, <1>9

(* What every step that arms the alarm again shares.                       *)
LEMMA RearmKeepsTable ==
  ASSUME TableInv, NEW was \in BOOLEAN, NEW now \in Nat,
         slots' \in [Timers -> SlotType],
         cb'.pc \notin {"expired", "entered"} => (was => alarm # Off),
         ArmEarliest(slots', was, now), started, started' = started, clock' = clock,
         cb' \in CbType', call' \in [Callers -> CallType'],
         nextId' \in 1 .. MaxArms + 1, stops' = stops, tokens' \subseteq TokenType',
         ended' \in [Ids -> {"no", "cancelled", "stopped"}], fired' = fired
  PROVE  TableInv'
<1> USE DEF TableInv
<1>1. /\ clock \in Nat /\ refused \in BOOLEAN /\ dueAt \in Nat /\ alarm \in Nat \cup {Off}
  BY DEF TimerTypeOK
<1>2. /\ armed' \in BOOLEAN /\ refused' \in BOOLEAN
      /\ dueAt' \in Nat /\ alarm' \in Nat \cup {Off}
      /\ ActiveIn(slots') # {} /\ ~refused' => armed'
      /\ armed' => ActiveIn(slots') # {} /\ dueAt' = EarliestDue(slots')
      /\ (was => alarm # Off) => (armed' => alarm' # Off)
  BY <1>1, ArmEarliestDoes
<1>3. TimerTypeOK' BY <1>2 DEF TimerTypeOK
<1>4. StoppedIsBare' BY DEF StoppedIsBare
<1>5. EarliestGuarded'
  <2>1. EarliestDue(slots)' = EarliestDue(slots') /\ ActiveIn(slots)' = ActiveIn(slots')
    BY DEF EarliestDue, ActiveIn
  <2> QED BY <1>2, <2>1 DEF EarliestGuarded
<1> QED BY <1>3, <1>4, <1>5

(* The steps that leave the table and its alarm alone.                     *)
LEMMA QuietKeepsTable ==
  ASSUME TableInv, UNCHANGED tableVars, started' = started,
         clock' \in 0 .. Horizon, clock <= clock',
         cb' \in CbType', call' \in [Callers -> CallType'],
         nextId' = nextId, stops' = stops, tokens' = tokens, ended' = ended,
         fired' \in [Ids -> Seq(Nat)],
         ~started => call' = call,
         cb.pc \in {"expired", "entered"} => cb'.pc \in {"expired", "entered"} \/ ~started,
         cb'.pc = "entered" => started \/ cb.pc = "entered"
  PROVE  TableInv'
<1> USE DEF TableInv
<1>1. /\ slots' = slots /\ armed' = armed /\ dueAt' = dueAt /\ alarm' = alarm
      /\ refused' = refused
  BY DEF tableVars
<1>2. TokenType' = TokenType BY DEF TokenType
<1>3. TimerTypeOK' BY <1>1, <1>2 DEF TimerTypeOK
<1>4. StoppedIsBare' BY <1>1 DEF StoppedIsBare
<1>5. EarliestGuarded'
  <2>1. EarliestDue(slots)' = EarliestDue(slots) /\ ActiveIn(slots)' = ActiveIn(slots)
    BY <1>1 DEF EarliestDue, ActiveIn
  <2>2. CASE ~started
    <3>1. ~armed /\ ActiveIn(slots) = {} BY <2>2 DEF StoppedIsBare, ActiveIn, Empty
    <3> QED BY <1>1, <2>1, <3>1 DEF EarliestGuarded
  <2>3. CASE started BY <1>1, <2>1, <2>3 DEF EarliestGuarded
  <2> QED BY <2>2, <2>3
<1> QED BY <1>3, <1>4, <1>5

LEMMA ArmKeepsTable ==
  ASSUME TableInv, NEW c \in Callers, Arm(c)
  PROVE  TableInv'
<1> USE DEF TableInv
<1> DEFINE i == Min(FreeTimers)
           g == NextToken(slots[i].gen)
           now == call[c].now
           due == now + call[c].d
           p == IF call[c].op = "once" THEN 0 ELSE call[c].d
           new == [active |-> TRUE, gen |-> g, due |-> due, id |-> nextId, period |-> p]
           tok == [idx |-> i, gen |-> g, id |-> nextId, era |-> stops, due |-> due, period |-> p]
<1>1. i \in Timers BY FreeTimerIs DEF Arm
<1>2. g \in 1 .. TokenMod - 1
  <2>1. slots[i].gen \in 0 .. TokenMod - 1 BY <1>1 DEF TimerTypeOK, SlotType
  <2> QED BY <2>1, NextTokenIs
<1>3. now \in 0 .. clock /\ call[c].d \in Nat \ {0} /\ p \in Periods \cup {0}
  BY CallIs DEF Arm
<1>4. clock \in Nat /\ nextId \in 1 .. MaxArms /\ MaxArms \in Nat
  BY TimerAssumption DEF TimerTypeOK, Arm
<1>5. due \in Nat /\ now \in Nat BY <1>3, <1>4
<1>6. slots' = [slots EXCEPT ![i] = new]
  <2>1. slots' = [slots EXCEPT ![i] = [active |-> TRUE, gen |-> g, due |-> due, id |-> nextId,
                                       period |-> p]]
    BY DEF Arm
  <2> QED BY <2>1
<1>7. tokens' = tokens \cup {tok}
  <2>1. [slots EXCEPT ![i] = new][i].period = p BY <1>1 DEF TimerTypeOK
  <2>2. tokens' = tokens \cup {[idx |-> i, gen |-> g, id |-> nextId, era |-> stops, due |-> due,
                                period |-> [slots EXCEPT ![i] = new][i].period]}
    BY DEF Arm
  <2> QED BY <2>1, <2>2
<1>8. ArmEarliest(slots', armed, now) BY DEF Arm
<1>9. /\ nextId' = nextId + 1 /\ call' = [call EXCEPT ![c] = NoCall]
      /\ started' = started /\ clock' = clock /\ cb' = cb /\ stops' = stops
      /\ ended' = ended /\ fired' = fired /\ call[c].op \in {"once", "periodic"}
  BY DEF Arm
<1>10. new \in SlotType
  <2>1. g \in 0 .. TokenMod - 1 BY <1>2, TimerAssumption
  <2>2. nextId \in 0 .. MaxArms BY <1>4
  <2> HIDE DEF g, due, p
  <2> QED BY <1>3, <1>5, <2>1, <2>2 DEF SlotType
<1>11. tok \in TokenType
  <2>1. nextId \in Ids BY <1>4 DEF Ids
  <2>2. stops \in 0 .. stops BY DEF TimerTypeOK
  <2> HIDE DEF g, due, p, i
  <2> QED BY <1>1, <1>2, <1>3, <1>5, <2>1, <2>2 DEF TokenType
<1> HIDE DEF new, tok, i, g, due, p, now
<1>12. slots' \in [Timers -> SlotType] BY <1>1, <1>6, <1>10 DEF TimerTypeOK
<1>13. tokens' \subseteq TokenType'
  <2>1. TokenType' = TokenType BY <1>9 DEF TokenType
  <2> QED BY <1>7, <1>11, <2>1 DEF TimerTypeOK
<1>14. cb' \in CbType' /\ call' \in [Callers -> CallType']
  <2>1. CallType \subseteq CallType' /\ CbType \subseteq CbType'
    BY <1>4, <1>7, <1>9, TypesGrow
  <2>2. NoCall \in CallType' BY DEF CallType
  <2> QED BY <1>9, <2>1, <2>2 DEF TimerTypeOK
<1>15. nextId' \in 1 .. MaxArms + 1 BY <1>4, <1>9
<1>16. ended' \in [Ids -> {"no", "cancelled", "stopped"}] BY <1>9 DEF TimerTypeOK
<1>17. started
  <2>1. call[c] # NoCall BY <1>9 DEF NoCall
  <2> QED BY <2>1 DEF StoppedIsBare, TimerTypeOK
<1>18. armed \in BOOLEAN /\ (cb'.pc \notin {"expired", "entered"} => (armed => alarm # Off))
  BY <1>9 DEF EarliestGuarded, TimerTypeOK
<1> QED
  BY <1>5, <1>8, <1>9, <1>12, <1>13, <1>14, <1>15, <1>16, <1>17, <1>18, RearmKeepsTable

LEMMA CancelKeepsTable ==
  ASSUME TableInv, NEW c \in Callers, CancelHit(c)
  PROVE  TableInv'
<1> USE DEF TableInv
<1> DEFINE i == call[c].tok.idx
<1>1. call[c].now \in 0 .. clock /\ call[c].tok \in tokens BY CallIs DEF CancelHit
<1>2. i \in Timers /\ clock \in Nat /\ call[c].now \in Nat
  BY <1>1 DEF TimerTypeOK, TokenType
<1>3. slots' = [slots EXCEPT ![i].active = FALSE] /\ ArmEarliest(slots', armed, call[c].now)
  BY DEF CancelHit
<1>4. slots' \in [Timers -> SlotType]
  <2>1. slots[i] \in SlotType BY <1>2 DEF TimerTypeOK
  <2>2. [slots[i] EXCEPT !.active = FALSE] \in SlotType BY <2>1 DEF SlotType
  <2>3. slots' = [slots EXCEPT ![i] = [slots[i] EXCEPT !.active = FALSE]] BY <1>3
  <2> QED BY <1>2, <2>2, <2>3 DEF TimerTypeOK
<1>5. /\ call' = [call EXCEPT ![c] = NoCall] /\ started' = started /\ clock' = clock
      /\ cb' = cb /\ nextId' = nextId /\ tokens' = tokens /\ stops' = stops /\ fired' = fired
      /\ ended' = [ended EXCEPT ![slots[i].id] = "cancelled"] /\ call[c].op = "cancel"
  BY DEF CancelHit
<1>6. ended' \in [Ids -> {"no", "cancelled", "stopped"}] BY <1>5 DEF TimerTypeOK
<1>7. tokens' \subseteq TokenType' BY <1>5 DEF TimerTypeOK, TokenType
<1>8. cb' \in CbType' /\ call' \in [Callers -> CallType']
  <2>1. CallType \subseteq CallType' /\ CbType \subseteq CbType' BY <1>2, <1>5, TypesGrow
  <2>2. NoCall \in CallType' BY DEF CallType
  <2> QED BY <1>5, <2>1, <2>2 DEF TimerTypeOK
<1>9. started
  <2>1. call[c] # NoCall BY <1>5 DEF NoCall
  <2> QED BY <2>1 DEF StoppedIsBare, TimerTypeOK
<1>10. armed \in BOOLEAN /\ (cb'.pc \notin {"expired", "entered"} => (armed => alarm # Off))
  BY <1>5 DEF EarliestGuarded, TimerTypeOK
<1>11. nextId' \in 1 .. MaxArms + 1 BY <1>5 DEF TimerTypeOK
<1> HIDE DEF i
<1> QED BY <1>2, <1>3, <1>4, <1>5, <1>6, <1>7, <1>8, <1>9, <1>10, <1>11, RearmKeepsTable

(* What the callback does under the mutex, taken apart.                    *)
DueAt(now)    == {i \in Timers : IsDue(i, now)}
TableAt(now)  == [i \in Timers |-> IF i \in DueAt(now) THEN Expire(slots[i], now) ELSE slots[i]]

LEMMA CbLockedIs ==
  ASSUME TimerTypeOK, CbLocked
  PROVE  /\ cb.pc = "entered" /\ cb.now \in 0 .. clock /\ cb.now \in Nat
         /\ slots' = TableAt(cb.now) /\ slots' \in [Timers -> SlotType]
         /\ ArmEarliest(slots', FALSE, cb.now)
         /\ \E n \in Nat : \E list \in [1 .. n -> DueAt(cb.now)] :
              /\ \A k, l \in 1 .. n : k < l => list[k] < list[l]
              /\ \A i \in DueAt(cb.now) : \E k \in 1 .. n : list[k] = i
              /\ cb' = [pc |-> "post", fires |-> [k \in 1 .. n |-> slots[list[k]]]]
              /\ [k \in 1 .. n |-> slots[list[k]]] \in Seq(SlotType)
<1> DEFINE now == cb.now
           D == DueAt(now)
<1>1. cb.pc = "entered" BY DEF CbLocked
<1>2. now \in 0 .. clock /\ now \in Nat /\ clock \in Nat BY <1>1, CbIs DEF TimerTypeOK
<1>3. D = {i \in Timers : IsDue(i, now)} /\ D \subseteq Timers BY DEF DueAt
<1>4. PICK list \in [1 .. Cardinality(D) -> D] :
        /\ \A k, l \in DOMAIN list : k < l => list[k] < list[l]
        /\ slots' = [i \in Timers |-> IF i \in D THEN Expire(slots[i], now) ELSE slots[i]]
        /\ ArmEarliest(slots', FALSE, now)
        /\ cb' = [pc |-> "post", fires |-> [k \in DOMAIN list |-> slots[list[k]]]]
  <2> DEFINE tab == [i \in Timers |-> IF i \in D THEN Expire(slots[i], now) ELSE slots[i]]
  <2>1. \E list \in [1 .. Cardinality(D) -> D] :
          /\ \A k, l \in DOMAIN list : k < l => list[k] < list[l]
          /\ slots' = tab
          /\ ArmEarliest(tab, FALSE, now)
          /\ cb' = [pc |-> "post", fires |-> [k \in DOMAIN list |-> slots[list[k]]]]
    BY Zenon DEF CbLocked, DueAt
  <2>2. slots' = tab /\ ArmEarliest(tab, FALSE, now) BY <2>1
  <2> HIDE DEF tab, D, now
  <2>3. ArmEarliest(slots', FALSE, now) BY <2>2
  <2> QED BY <2>1, <2>3 DEF tab
<1>5. IsFiniteSet(D) /\ Cardinality(D) \in Nat
  BY <1>3, TimersFinite, FS_Subset, FS_CardinalityType
<1>6. slots' = TableAt(now) BY <1>4 DEF TableAt
<1>7. slots' \in [Timers -> SlotType]
  <2>1. ASSUME NEW i \in Timers PROVE slots'[i] \in SlotType
    <3>1. slots[i] \in SlotType BY DEF TimerTypeOK
    <3>2. CASE i \in D
      <4>1. slots[i].due <= now BY <1>3, <3>2 DEF IsDue
      <4>2. Expire(slots[i], now) \in SlotType BY <1>2, <3>1, <4>1, ExpireIs
      <4> QED BY <1>4, <3>2, <4>2
    <3>3. CASE i \notin D BY <1>4, <3>1, <3>3
    <3> QED BY <3>2, <3>3
  <2> QED BY <1>4, <2>1
<1> DEFINE n == Cardinality(D)
<1>8. \A k, l \in 1 .. n : k < l => list[k] < list[l] BY <1>4
<1>9. \A i \in D : \E k \in 1 .. n : list[k] = i
  <2>1. IsFiniteSet(1 .. n) /\ Cardinality(1 .. n) = n
    <3>1. n \in Nat BY <1>5
    <3> HIDE DEF n
    <3>2. IsFiniteSet(1 .. n) /\ Cardinality(1 .. n) = IF 1 > n THEN 0 ELSE n - 1 + 1
      BY <3>1, FS_Interval
    <3> QED BY <3>1, <3>2
  <2>2. \A k, l \in 1 .. n : list[k] = list[l] => k = l
    <3> SUFFICES ASSUME NEW k \in 1 .. n, NEW l \in 1 .. n, list[k] = list[l], k # l
                 PROVE  FALSE
      OBVIOUS
    <3>1. list[k] \in D /\ list[l] \in D BY <1>4
    <3>2. list[k] \in Nat /\ list[l] \in Nat BY <1>3, <3>1, TimerAssumption DEF Timers
    <3>3. n \in Nat BY <1>5
    <3>4. k < l \/ l < k BY <3>3
    <3> HIDE DEF n, D
    <3> QED BY <1>8, <3>2, <3>4
  <2>3. list \in Injection(1 .. n, D)
    <3> HIDE DEF n, D
    <3> QED BY <1>4, <2>2, Fun_IsInj DEF n
  <2>4. list \in Surjection(1 .. n, D) BY <1>5, <2>1, <2>3, FS_Injection
  <2>5. \A i \in D : \E k \in 1 .. n : list[k] = i
    <3> DEFINE I == 1 .. n
    <3>1. list \in Surjection(I, D) BY <2>4
    <3> HIDE DEF n, D, I
    <3>2. \A i \in D : \E k \in I : list[k] = i BY <3>1, Fun_SurjectionProperties
    <3> QED BY <3>2 DEF I
  <2> QED BY <2>5
<1>10. [k \in 1 .. n |-> slots[list[k]]] \in Seq(SlotType)
  <2>1. n \in Nat BY <1>5
  <2>2. list \in [1 .. n -> D] BY <1>4
  <2>3. \A k \in 1 .. n : slots[list[k]] \in SlotType BY <1>3, <2>2 DEF TimerTypeOK
  <2> HIDE DEF n, D
  <2> QED BY <2>1, <2>3, SeqDef
<1>11. n \in Nat /\ list \in [1 .. n -> D] /\ DOMAIN list = 1 .. n BY <1>4, <1>5
<1>12. cb' = [pc |-> "post", fires |-> [k \in 1 .. n |-> slots[list[k]]]] BY <1>4, <1>11
<1> HIDE DEF n, D, now
<1>13. \E nn \in Nat : \E ll \in [1 .. nn -> D] :
              /\ \A k, l \in 1 .. nn : k < l => ll[k] < ll[l]
              /\ \A i \in D : \E k \in 1 .. nn : ll[k] = i
              /\ cb' = [pc |-> "post", fires |-> [k \in 1 .. nn |-> slots[ll[k]]]]
              /\ [k \in 1 .. nn |-> slots[ll[k]]] \in Seq(SlotType)
  BY <1>8, <1>9, <1>10, <1>11, <1>12
<1> QED BY <1>1, <1>2, <1>4, <1>6, <1>7, <1>13 DEF D, now

LEMMA CbLockedKeepsTable ==
  ASSUME TableInv, CbLocked
  PROVE  TableInv'
<1> USE DEF TableInv
<1>1. /\ cb.pc = "entered" /\ cb.now \in Nat /\ slots' \in [Timers -> SlotType]
      /\ ArmEarliest(slots', FALSE, cb.now)
  BY CbLockedIs
<1>2. PICK f \in Seq(SlotType) : cb' = [pc |-> "post", fires |-> f] BY CbLockedIs
<1>3. /\ started' = started /\ clock' = clock /\ call' = call /\ nextId' = nextId
      /\ tokens' = tokens /\ stops' = stops /\ ended' = ended /\ fired' = fired
  BY DEF CbLocked, histVars
<1>4. started BY <1>1 DEF StoppedIsBare
<1>5. cb' \in CbType' BY <1>2 DEF CbType
<1>6. /\ call' \in [Callers -> CallType'] /\ tokens' \subseteq TokenType'
      /\ nextId' \in 1 .. MaxArms + 1 /\ ended' \in [Ids -> {"no", "cancelled", "stopped"}]
  BY <1>3 DEF TimerTypeOK, CallType, TokenType
<1> QED BY <1>1, <1>3, <1>4, <1>5, <1>6, RearmKeepsTable

LEMMA CallsKeepTable ==
  ASSUME TableInv, NEW c \in Callers, CallArm(c) \/ CallCancel(c) \/ ArmRefused(c) \/ CancelMiss(c)
  PROVE  TableInv'
<1> USE DEF TableInv
<1>1. /\ UNCHANGED tableVars /\ started' = started /\ clock' = clock /\ cb' = cb
      /\ nextId' = nextId /\ stops' = stops /\ tokens' = tokens /\ ended' = ended
      /\ fired' = fired
  BY DEF CallArm, CallCancel, ArmRefused, CancelMiss, histVars
<1>2. clock \in 0 .. Horizon /\ clock \in Nat /\ Horizon \in Nat
  BY TimerAssumption DEF TimerTypeOK
<1>3. CallType \subseteq CallType' /\ CbType \subseteq CbType' BY <1>1, <1>2, TypesGrow
<1>4. started /\ \E x \in CallType : call' = [call EXCEPT ![c] = x]
  <2>1. CASE CallArm(c)
    <3>1. PICK op \in {"once", "periodic"}, d \in Delays \cup Periods :
            /\ op = "once" => d \in Delays
            /\ op = "periodic" => d \in Periods /\ d # 0
            /\ call' = [call EXCEPT ![c] =
                          [op |-> op, now |-> clock, d |-> IF d = 0 THEN 1 ELSE d]]
      BY <2>1 DEF CallArm
    <3> DEFINE e == IF d = 0 THEN 1 ELSE d
               x == [op |-> op, now |-> clock, d |-> e]
    <3>2. d \in Nat BY <3>1, TimerAssumption
    <3>3. e \in Nat \ {0} /\ (op = "periodic" => e \in Periods \ {0}) BY <3>1, <3>2
    <3>4. clock \in 0 .. clock BY <1>2
    <3>5. x \in CallType
      <4> HIDE DEF e
      <4> QED BY <3>3, <3>4 DEF CallType
    <3>6. call' = [call EXCEPT ![c] = x] BY <3>1
    <3> QED BY <2>1, <3>5, <3>6 DEF CallArm
  <2>2. CASE CallCancel(c)
    <3>1. PICK t \in tokens : call' = [call EXCEPT ![c] = [op |-> "cancel", now |-> clock, tok |-> t]]
      BY <2>2 DEF CallCancel
    <3>2. clock \in 0 .. clock BY <1>2
    <3>3. [op |-> "cancel", now |-> clock, tok |-> t] \in CallType BY <3>1, <3>2 DEF CallType
    <3> QED BY <2>2, <3>1, <3>3 DEF CallCancel
  <2>3. CASE ArmRefused(c) \/ CancelMiss(c)
    <3>1. call[c].op \in {"once", "periodic", "cancel"} /\ call' = [call EXCEPT ![c] = NoCall]
      BY <2>3 DEF ArmRefused, CancelMiss
    <3>2. started BY <3>1 DEF StoppedIsBare, NoCall
    <3>3. NoCall \in CallType BY DEF CallType
    <3> QED BY <3>1, <3>2, <3>3
  <2> QED BY <2>1, <2>2, <2>3
<1>5. cb' \in CbType' /\ call' \in [Callers -> CallType'] BY <1>1, <1>3, <1>4 DEF TimerTypeOK
<1>6. fired' \in [Ids -> Seq(Nat)] BY <1>1 DEF TimerTypeOK
<1> QED BY <1>1, <1>2, <1>4, <1>5, <1>6, QuietKeepsTable

LEMMA CallbackKeepsTable ==
  ASSUME TableInv, CbStep \/ Tick
  PROVE  TableInv'
<1> USE DEF TableInv
<1>0. clock \in 0 .. Horizon /\ clock \in Nat /\ Horizon \in Nat
  BY TimerAssumption DEF TimerTypeOK
<1>1. CASE CbExpire
  <2>1. /\ alarm' = Off /\ cb' = [pc |-> "expired"]
        /\ slots' = slots /\ armed' = armed /\ dueAt' = dueAt /\ refused' = refused
        /\ started' = started /\ clock' = clock /\ call' = call
        /\ nextId' = nextId /\ tokens' = tokens /\ stops' = stops /\ ended' = ended
        /\ fired' = fired
    BY <1>1 DEF CbExpire, histVars
  <2>2. cb' \in CbType' BY <2>1 DEF CbType
  <2>3. /\ call' \in [Callers -> CallType'] /\ tokens' \subseteq TokenType'
    BY <2>1 DEF TimerTypeOK, CallType, TokenType
  <2>4. TimerTypeOK' BY <2>1, <2>2, <2>3 DEF TimerTypeOK
  <2>5. StoppedIsBare' BY <2>1 DEF StoppedIsBare
  <2>6. EarliestGuarded' BY <2>1 DEF EarliestGuarded
  <2> QED BY <2>4, <2>5, <2>6
<1>2. CASE CbLocked BY <1>2, CbLockedKeepsTable
<1>3. CASE CbEnter \/ CbPost \/ CbReturn \/ Tick
  <2>1. /\ UNCHANGED tableVars /\ started' = started /\ call' = call
        /\ nextId' = nextId /\ stops' = stops /\ tokens' = tokens /\ ended' = ended
    BY <1>3 DEF CbEnter, CbPost, CbReturn, Tick, histVars
  <2>2. clock' \in 0 .. Horizon /\ clock <= clock' BY <1>0, <1>3 DEF CbEnter, CbPost, CbReturn, Tick
  <2>3. CallType \subseteq CallType' /\ CbType \subseteq CbType'
    BY <1>0, <2>1, <2>2, TypesGrow
  <2>4. call' \in [Callers -> CallType'] BY <2>1, <2>3 DEF TimerTypeOK
  <2>5. /\ cb' \in CbType'
        /\ cb.pc \in {"expired", "entered"} => cb'.pc \in {"expired", "entered"} \/ ~started
        /\ cb'.pc = "entered" => started \/ cb.pc = "entered"
        /\ fired' \in [Ids -> Seq(Nat)]
    <3>1. CASE CbEnter
      <4>1. cb' \in CbType
        <5>1. CASE started
          <6>1. cb' = [pc |-> "entered", now |-> clock] BY <3>1, <5>1 DEF CbEnter
          <6>2. clock \in 0 .. clock BY <1>0
          <6> QED BY <6>1, <6>2 DEF CbType
        <5>2. CASE ~started BY <3>1, <5>2 DEF CbEnter, CbType
        <5> QED BY <5>1, <5>2
      <4>2. cb' \in CbType' BY <2>3, <4>1
      <4>3. fired' = fired BY <3>1 DEF CbEnter, histVars
      <4>4. started => cb'.pc = "entered" BY <3>1 DEF CbEnter
      <4>5. ~started => cb'.pc = "idle" BY <3>1 DEF CbEnter, CbIdle
      <4>6. started \in BOOLEAN BY DEF TimerTypeOK
      <4> QED BY <4>2, <4>3, <4>4, <4>5, <4>6 DEF TimerTypeOK
    <3>2. CASE CbPost
      <4>1. /\ cb.pc = "post" /\ cb.fires # <<>> /\ cb.fires \in Seq(SlotType)
            /\ cb = [pc |-> "post", fires |-> cb.fires]
        BY <3>2, CbIs DEF CbPost
      <4>2. cb' = [cb EXCEPT !.fires = Tail(@)] BY <3>2 DEF CbPost
      <4>3. cb' = [pc |-> "post", fires |-> Tail(cb.fires)] BY <4>1, <4>2
      <4>4. Tail(cb.fires) \in Seq(SlotType) /\ Head(cb.fires) \in SlotType BY <4>1
      <4>5. cb' \in CbType' BY <4>3, <4>4 DEF CbType
      <4>6. fired' \in [Ids -> Seq(Nat)]
        <5>1. fired' = [fired EXCEPT ![Head(cb.fires).id] = Append(@, Head(cb.fires).due)]
          BY <3>2 DEF CbPost
        <5>2. Head(cb.fires).due \in Nat BY <4>4 DEF SlotType
        <5>3. \A n \in Ids : Append(fired[n], Head(cb.fires).due) \in Seq(Nat)
          BY <5>2 DEF TimerTypeOK
        <5> QED BY <5>1, <5>3 DEF TimerTypeOK
      <4> QED BY <4>1, <4>3, <4>5, <4>6
    <3>3. CASE CbReturn
      <4>1. cb.pc = "post" /\ cb' = CbIdle /\ fired' = fired BY <3>3 DEF CbReturn, histVars
      <4> QED BY <4>1 DEF CbType, CbIdle, TimerTypeOK
    <3>4. CASE Tick
      <4>1. cb' = cb /\ fired' = fired BY <3>4 DEF Tick, histVars
      <4> QED BY <2>3, <4>1 DEF TimerTypeOK
    <3> QED BY <1>3, <3>1, <3>2, <3>3, <3>4
  <2>6. ~started => call' = call BY <2>1
  <2> QED BY <2>1, <2>2, <2>4, <2>5, <2>6, QuietKeepsTable
<1> QED BY <1>1, <1>2, <1>3 DEF CbStep

LEMMA TableNext == TableInv /\ [Next]_vars => TableInv'
<1> SUFFICES ASSUME TableInv, [Next]_vars PROVE TableInv' OBVIOUS
<1>1. CASE Start \/ Stop BY <1>1, StartStopKeepTable
<1>2. CASE Tick \/ CbStep BY <1>2, CallbackKeepsTable
<1>3. ASSUME NEW c \in Callers, CallArm(c) \/ CallCancel(c) \/ CallStep(c) PROVE TableInv'
  BY <1>3, ArmKeepsTable, CancelKeepsTable, CallsKeepTable DEF CallStep
<1>4. CASE Over \/ UNCHANGED vars
  <2>1. UNCHANGED vars BY <1>4 DEF Over
  <2>2. TimerTypeOK' BY <2>1 DEF vars, TableInv, TimerTypeOK, CallType, CbType, TokenType
  <2>3. StoppedIsBare' BY <2>1 DEF vars, TableInv, StoppedIsBare
  <2>4. EarliestGuarded'
    BY <2>1 DEF vars, TableInv, EarliestGuarded, EarliestDue, ActiveIn
  <2> QED BY <2>2, <2>3, <2>4 DEF TableInv
<1> QED BY <1>1, <1>2, <1>3, <1>4 DEF Next

LEMMA TableAlways == Spec => []TableInv
BY TableInit, TableNext, PTL DEF Spec

(* Types, for every number of slots and callers.                           *)
THEOREM TimerTypes == Spec => []TimerTypeOK
<1>1. TableInv => TimerTypeOK BY DEF TableInv
<1> QED BY <1>1, TableAlways, PTL

(* Outside of its callback the hardware alarm stands for the earliest      *)
(* deadline, however arms, cancels, callbacks, stops and refused starts of *)
(* esp_timer interleave: no deadline is slept through.                     *)
THEOREM AlarmGuardsEarliest == Spec => []EarliestGuarded
<1>1. TableInv => EarliestGuarded BY DEF TableInv
<1> QED BY <1>1, TableAlways, PTL

-----------------------------------------------------------------------------
(* Tokens.  The generation of a slot counts its uses since the service was *)
(* started, modulo TokenMod - 1; no token of a start that is over is of    *)
(* the present one.                                                        *)
TokenCounts(t) ==
  /\ slots[t.idx].gen >= 1
  /\ slots[t.idx].gen - 1 = (t.gen - 1 + LaterUses(t)) % (TokenMod - 1)
  /\ LaterUses(t) = 0 => slots[t.idx].id = t.id

TokensInv ==
  /\ IsFiniteSet(tokens)
  /\ \A t \in tokens : t.id < nextId
  /\ ~started => \A t \in tokens : t.era # stops
  /\ \A t \in tokens : t.era = stops => TokenCounts(t)

(* A counter that comes round to where it was made full turns.             *)
LEMMA FullTurns ==
  ASSUME NEW m \in Nat \ {0}, NEW a \in 0 .. m - 1, NEW n \in Nat, a = (a + n) % m
  PROVE  n % m = 0
<1>1. PICK q \in Int : a + n = m * q + a
  <2>1. (a + n) \div m \in Int /\ a + n = m * ((a + n) \div m) + ((a + n) % m)
    BY Division
  <2> QED BY <2>1
<1>2. n = m * q + 0
  <2>1. m * q \in Int BY <1>1, Z3
  <2> QED BY <1>1, <2>1
<1> QED BY <1>1, <1>2, Remainder

UsesAfter(t, S) == {u \in S : u.idx = t.idx /\ u.era = t.era /\ u.id > t.id}

LEMMA UsesFinite ==
  ASSUME NEW S, IsFiniteSet(S), NEW t
  PROVE  IsFiniteSet(UsesAfter(t, S)) /\ Cardinality(UsesAfter(t, S)) \in Nat
<1>1. UsesAfter(t, S) \in SUBSET S BY DEF UsesAfter
<1> QED BY <1>1, FS_Subset, FS_CardinalityType

LEMMA TokensQuiet ==
  ASSUME TimerTypeOK, TokensInv, tokens' = tokens, nextId' = nextId, stops' = stops,
         started' = started,
         \A i \in Timers : slots'[i].gen = slots[i].gen /\ slots'[i].id = slots[i].id
  PROVE  TokensInv'
<1>1. ASSUME NEW t \in tokens, t.era = stops, TokenCounts(t) PROVE TokenCounts(t)'
  <2>1. t.idx \in Timers BY DEF TimerTypeOK, TokenType
  <2>2. LaterUses(t)' = LaterUses(t) BY DEF LaterUses
  <2>3. slots'[t.idx].gen = slots[t.idx].gen /\ slots'[t.idx].id = slots[t.idx].id BY <2>1
  <2> QED BY <1>1, <2>2, <2>3 DEF TokenCounts
<1> QED BY <1>1 DEF TokensInv

LEMMA ArmKeepsTokens ==
  ASSUME TimerTypeOK, TokensInv, StoppedIsBare, NEW c \in Callers, Arm(c)
  PROVE  TokensInv'
<1> DEFINE i == Min(FreeTimers)
           g == NextToken(slots[i].gen)
<1>1. PICK new, tok :
        /\ slots' = [slots EXCEPT ![i] = new] /\ new.gen = g /\ new.id = nextId
        /\ tokens' = tokens \cup {tok} /\ tok.idx = i /\ tok.gen = g /\ tok.id = nextId
        /\ tok.era = stops
  <2> DEFINE n == [active |-> TRUE, gen |-> g, due |-> call[c].now + call[c].d, id |-> nextId,
                   period |-> IF call[c].op = "once" THEN 0 ELSE call[c].d]
             t == [idx |-> i, gen |-> g, id |-> nextId, era |-> stops,
                   due |-> call[c].now + call[c].d, period |-> [slots EXCEPT ![i] = n][i].period]
  <2>1. slots' = [slots EXCEPT ![i] = n] /\ tokens' = tokens \cup {t} BY Zenon DEF Arm
  <2>2. n.gen = g /\ n.id = nextId OBVIOUS
  <2>3. t.idx = i /\ t.gen = g /\ t.id = nextId /\ t.era = stops OBVIOUS
  <2> HIDE DEF n, t, i, g
  <2> QED BY <2>1, <2>2, <2>3
<1>2. nextId' = nextId + 1 /\ stops' = stops /\ started' = started /\ call[c].op # "none"
  BY DEF Arm
<1>3. started
  <2>1. call[c] # NoCall BY <1>2 DEF NoCall
  <2> QED BY <2>1 DEF StoppedIsBare, TimerTypeOK
<1>4. i \in Timers BY FreeTimerIs DEF Arm
<1>5. /\ slots[i].gen \in 0 .. TokenMod - 1 /\ TokenMod - 1 \in Nat \ {0}
      /\ nextId \in Nat
  BY <1>4, TimerAssumption DEF TimerTypeOK, SlotType
<1>6. g \in 1 .. TokenMod - 1 /\ g = IF slots[i].gen = TokenMod - 1 THEN 1 ELSE slots[i].gen + 1
  BY <1>5, NextTokenIs
<1>7. slots'[i].gen = g /\ slots'[i].id = nextId
      /\ \A j \in Timers : j # i => slots'[j] = slots[j]
  BY <1>1, <1>4 DEF TimerTypeOK
<1> HIDE DEF g, i
<1>8. IsFiniteSet(tokens) /\ IsFiniteSet(tokens') BY <1>1, FS_AddElement DEF TokensInv
<1>9. \A t \in tokens' : t.id < nextId'
  <2>1. \A t \in tokens : t.id < nextId /\ t.id \in Nat
    BY TimerAssumption DEF TokensInv, TimerTypeOK, TokenType, Ids
  <2> QED BY <1>1, <1>2, <1>5, <2>1
<1>10. ASSUME NEW t \in tokens', t.era = stops PROVE TokenCounts(t)'
  <2> DEFINE L == UsesAfter(t, tokens)
             M == UsesAfter(t, tokens')
             m == TokenMod - 1
  <2>1. LaterUses(t) = Cardinality(L) /\ LaterUses(t)' = Cardinality(M)
    BY DEF LaterUses, UsesAfter
  <2>2. IsFiniteSet(L) /\ Cardinality(L) \in Nat /\ Cardinality(M) \in Nat BY <1>8, UsesFinite
  <2>3. CASE t \in tokens /\ t.idx = i
    <3>1. TokenCounts(t) /\ t.id < nextId /\ t.gen \in 1 .. TokenMod - 1
      BY <1>10, <2>3 DEF TokensInv, TimerTypeOK, TokenType
    <3>2. t.id \in Nat BY <2>3, TimerAssumption DEF TimerTypeOK, TokenType, Ids
    <3>3. M = L \cup {tok} BY <1>1, <1>5, <1>10, <2>3, <3>1, <3>2 DEF UsesAfter
    <3>4. tok \notin L
      <4>1. tok \notin tokens BY <1>1, <1>5 DEF TokensInv
      <4> QED BY <4>1 DEF UsesAfter
    <3> HIDE DEF L, M
    <3>5. Cardinality(M) = Cardinality(L) + 1 BY <2>2, <3>3, <3>4, FS_AddElement
    <3>6. slots[i].gen >= 1 /\ slots[i].gen - 1 = (t.gen - 1 + Cardinality(L)) % m
      BY <2>1, <2>3, <3>1 DEF TokenCounts
    <3> DEFINE x == t.gen - 1 + Cardinality(L)
    <3>7. x \in Nat /\ x + 1 = t.gen - 1 + Cardinality(M) BY <1>5, <2>2, <3>1, <3>5
    <3>8. (x + 1) % m = IF x % m = m - 1 THEN 0 ELSE (x % m) + 1
      <4>1. m \in Nat \ {0} BY <1>5
      <4> HIDE DEF x, m
      <4> QED BY <3>7, <4>1, AddOne
    <3>9. x % m = slots[i].gen - 1 BY <3>6
    <3> DEFINE y == (x + 1) % m
    <3>12. y = (t.gen - 1 + Cardinality(M)) % m BY <3>7
    <3>10. g - 1 = y /\ g >= 1
      <4>1. CASE slots[i].gen = TokenMod - 1 BY <1>5, <1>6, <3>8, <3>9, <4>1
      <4>2. CASE slots[i].gen # TokenMod - 1
        <5>1. g = slots[i].gen + 1 BY <1>6, <4>2
        <5>2. slots[i].gen - 1 # m - 1 BY <1>5, <4>2
        <5>3. y = slots[i].gen - 1 + 1 BY <3>8, <3>9, <5>2
        <5> QED BY <1>5, <5>1, <5>3
      <4> QED BY <4>1, <4>2
    <3>11. Cardinality(M) # 0 BY <2>2, <3>5
    <3> HIDE DEF x, y, m
    <3> QED BY <1>7, <2>1, <2>3, <3>10, <3>11, <3>12 DEF TokenCounts, m
  <2>4. CASE t \in tokens /\ t.idx # i
    <3>1. M = L BY <1>1, <2>4 DEF UsesAfter
    <3>2. slots'[t.idx] = slots[t.idx] BY <1>7, <2>4 DEF TimerTypeOK, TokenType
    <3>3. TokenCounts(t) BY <1>10, <2>4 DEF TokensInv
    <3> HIDE DEF L, M
    <3> QED BY <2>1, <3>1, <3>2, <3>3 DEF TokenCounts
  <2>5. CASE t = tok
    <3>1. M = {}
      <4>1. \A u \in tokens' : ~(u.id > nextId)
        <5>1. \A u \in tokens : u.id < nextId /\ u.id \in Nat
          BY TimerAssumption DEF TokensInv, TimerTypeOK, TokenType, Ids
        <5> QED BY <1>1, <1>5, <5>1
      <4> QED BY <1>1, <2>5, <4>1 DEF UsesAfter
    <3>2. Cardinality(M) = 0 BY <3>1, FS_EmptySet
    <3>3. g - 1 = (g - 1 + 0) % m
      <4>1. g - 1 \in 0 .. m - 1 /\ m \in Nat /\ m > 0 BY <1>5, <1>6
      <4> HIDE DEF m
      <4>2. (m * 0 + (g - 1)) % m = g - 1 BY <4>1, Remainder
      <4>3. m * 0 + (g - 1) = g - 1 + 0 BY <4>1, Z3
      <4> QED BY <4>2, <4>3
    <3> HIDE DEF M
    <3> QED BY <1>1, <1>5, <1>6, <1>7, <2>1, <2>5, <3>2, <3>3 DEF TokenCounts
  <2> QED BY <1>1, <2>3, <2>4, <2>5
<1> QED BY <1>2, <1>3, <1>8, <1>9, <1>10 DEF TokensInv

LEMMA TokensInit == Init => TokensInv
<1> SUFFICES ASSUME Init PROVE TokensInv OBVIOUS
<1>1. tokens = {} BY DEF Init
<1> QED BY <1>1, FS_EmptySet DEF TokensInv

LEMMA TokensNext == TableInv /\ TokensInv /\ [Next]_vars => TokensInv'
<1> SUFFICES ASSUME TableInv, TokensInv, [Next]_vars PROVE TokensInv' OBVIOUS
<1> USE DEF TableInv
<1>1. CASE Start
  <2>1. /\ tokens' = tokens /\ nextId' = nextId /\ stops' = stops /\ ~started
    BY <1>1 DEF Start, histVars
  <2> QED BY <2>1 DEF TokensInv
<1>2. CASE Stop
  <2>1. /\ tokens' = tokens /\ nextId' = nextId /\ stops' = stops + 1
    BY <1>2 DEF Stop
  <2>2. ASSUME NEW t \in tokens PROVE t.era # stops + 1
    <3>1. t.era \in 0 .. stops /\ stops \in Nat BY DEF TimerTypeOK, TokenType
    <3> QED BY <3>1
  <2> QED BY <2>1, <2>2 DEF TokensInv
<1>3. ASSUME NEW c \in Callers, CallArm(c) \/ CallCancel(c) \/ ArmRefused(c) \/ CancelMiss(c)
      PROVE  TokensInv'
  <2>1. /\ UNCHANGED tableVars /\ started' = started
        /\ nextId' = nextId /\ stops' = stops /\ tokens' = tokens
    BY <1>3 DEF CallArm, CallCancel, ArmRefused, CancelMiss, histVars
  <2> QED BY <2>1, TokensQuiet DEF tableVars
<1>4. ASSUME NEW c \in Callers, Arm(c) PROVE TokensInv' BY <1>4, ArmKeepsTokens
<1>5. ASSUME NEW c \in Callers, CancelHit(c) PROVE TokensInv'
  <2> DEFINE i == call[c].tok.idx
  <2>1. /\ slots' = [slots EXCEPT ![i].active = FALSE] /\ started' = started
        /\ nextId' = nextId /\ stops' = stops /\ tokens' = tokens
    BY <1>5 DEF CancelHit
  <2>2. \A j \in Timers : slots'[j].gen = slots[j].gen /\ slots'[j].id = slots[j].id
    <3> SUFFICES ASSUME NEW j \in Timers
                 PROVE  slots'[j].gen = slots[j].gen /\ slots'[j].id = slots[j].id
      OBVIOUS
    <3>1. slots[j] \in SlotType BY DEF TimerTypeOK
    <3> HIDE DEF i
    <3>2. slots'[j] = IF j = i THEN [slots[i] EXCEPT !.active = FALSE] ELSE slots[j]
      BY <2>1 DEF TimerTypeOK
    <3> QED BY <3>1, <3>2 DEF SlotType
  <2> QED BY <2>1, <2>2, TokensQuiet
<1>6. CASE CbLocked
  <2>1. started' = started /\ nextId' = nextId /\ stops' = stops /\ tokens' = tokens
    BY <1>6 DEF CbLocked, histVars
  <2>2. slots' = TableAt(cb.now) /\ cb.now \in Nat BY <1>6, CbLockedIs
  <2>3. \A j \in Timers : slots'[j].gen = slots[j].gen /\ slots'[j].id = slots[j].id
    <3> SUFFICES ASSUME NEW j \in Timers
                 PROVE  slots'[j].gen = slots[j].gen /\ slots'[j].id = slots[j].id
      OBVIOUS
    <3>1. slots[j] \in SlotType BY DEF TimerTypeOK
    <3>2. CASE j \in DueAt(cb.now)
      <4>1. slots[j].due <= cb.now BY <3>2 DEF DueAt, IsDue
      <4>2. slots'[j] = Expire(slots[j], cb.now) BY <2>2, <3>2 DEF TableAt
      <4> DEFINE s == slots[j]
                 now == cb.now
      <4>3. s \in SlotType /\ now \in Nat /\ s.due <= now BY <2>2, <3>1, <4>1
      <4>4. slots'[j] = Expire(s, now) BY <4>2
      <4> HIDE DEF s, now
      <4>5. Expire(s, now).gen = s.gen /\ Expire(s, now).id = s.id BY <4>3, ExpireIs
      <4> QED BY <4>4, <4>5 DEF s
    <3>3. CASE j \notin DueAt(cb.now) BY <2>2, <3>3 DEF TableAt
    <3> QED BY <3>2, <3>3
  <2> QED BY <2>1, <2>3, TokensQuiet
<1>7. CASE Tick \/ CbExpire \/ CbEnter \/ CbPost \/ CbReturn \/ Over \/ UNCHANGED vars
  <2>1. /\ slots' = slots /\ started' = started
        /\ nextId' = nextId /\ stops' = stops /\ tokens' = tokens
    BY <1>7 DEF Tick, CbExpire, CbEnter, CbPost, CbReturn, Over, vars, histVars, tableVars
  <2> QED BY <2>1, TokensQuiet
<1> QED BY <1>1, <1>2, <1>3, <1>4, <1>5, <1>6, <1>7 DEF Next, CallStep, CbStep

LEMMA CountsNameOne ==
  ASSUME TimerTypeOK, TokensInv, NEW t \in tokens, t.era = stops, Matches(t)
  PROVE  \/ slots[t.idx].id = t.id
         \/ LaterUses(t) > 0 /\ LaterUses(t) % (TokenMod - 1) = 0
<1> DEFINE a == t.gen - 1
           n == LaterUses(t)
           m == TokenMod - 1
<1>1. m \in Nat \ {0} BY TimerAssumption
<1>2. a \in 0 .. m - 1
  <2>1. t.gen \in 1 .. TokenMod - 1 BY DEF TimerTypeOK, TokenType
  <2> QED BY <1>1, <2>1
<1>3. n \in Nat
  <2>1. n = Cardinality(UsesAfter(t, tokens)) BY DEF LaterUses, UsesAfter
  <2> QED BY <2>1, UsesFinite DEF TokensInv
<1>4. a = (a + n) % m /\ (n = 0 => slots[t.idx].id = t.id)
  <2>1. TokenCounts(t) BY DEF TokensInv
  <2>2. slots[t.idx].gen = t.gen BY DEF Matches
  <2> QED BY <2>1, <2>2 DEF TokenCounts
<1> HIDE DEF a, n, m
<1>5. n % m = 0 BY <1>1, <1>2, <1>3, <1>4, FullTurns
<1> QED BY <1>3, <1>4, <1>5 DEF n, m

(* A token still names the timer it was returned for, unless its slot was  *)
(* used again a multiple of TokenMod - 1 times: whatever the width of the  *)
(* generation, and whatever the calls and callbacks in between.            *)
THEOREM TokensNameOneTimer == Spec => []TokenNamesOneTimer
<1>1. Init => TokensInv BY TokensInit
<1>2. TableInv /\ TokensInv => TokenNamesOneTimer
  BY CountsNameOne DEF TokenNamesOneTimer, TableInv
<1> QED BY <1>1, <1>2, TokensNext, TableAlways, PTL DEF Spec

-----------------------------------------------------------------------------
(* The refinement of DeadlineSet.  What it needs beyond the table: no two  *)
(* timers have the same name, and a name that was not given yet has not    *)
(* been posted for.                                                        *)
TimersNamed ==
  /\ \A i \in Timers : slots[i].active => slots[i].id \in Ids /\ slots[i].id < nextId
  /\ \A i, j \in Timers : /\ slots[i].active /\ slots[j].active
                          /\ slots[i].id = slots[j].id
                          => i = j
  /\ \A n \in Ids : n >= nextId => fired[n] = <<>>
  /\ cb.pc = "post" =>
       /\ \A k \in 1 .. Len(cb.fires) : cb.fires[k].id \in Ids /\ cb.fires[k].id < nextId
       /\ \A k, l \in 1 .. Len(cb.fires) : cb.fires[k].id = cb.fires[l].id => k = l

NamedInv == TableInv /\ TimersNamed

Rec(s)       == [id |-> s.id, due |-> s.due, period |-> s.period]
Due(s)       == [id |-> s.id, due |-> s.due]
TableOf(tab) == {Rec(tab[i]) : i \in ActiveIn(tab)}
FiresOf(f)   == {Due(f[k]) : k \in 1 .. Len(f)}
Posted       == [n \in Ids |-> ToSet(fired[n])]

LEMMA TableIs == Table = TableOf(slots) /\ Table' = TableOf(slots')
BY DEF Table, TableOf, Rec, ActiveIn

LEMMA CollectedIs ==
  /\ cb.pc # "post" => Collected = {}
  /\ cb'.pc # "post" => Collected' = {}
  /\ cb.pc = "post" /\ cb.fires \in Seq(SlotType) => Collected = FiresOf(cb.fires)
  /\ cb'.pc = "post" /\ cb'.fires \in Seq(SlotType) => Collected' = FiresOf(cb'.fires)
<1>1. \A f \in Seq(SlotType) : ToSet(f) = {f[k] : k \in 1 .. Len(f)} BY DEF ToSet
<1>2. \A f \in Seq(SlotType) : {[id |-> x.id, due |-> x.due] : x \in ToSet(f)} = FiresOf(f)
  BY <1>1 DEF FiresOf, Due
<1> QED BY <1>2 DEF Collected

LEMMA NamedInit == Init => NamedInv
<1> SUFFICES ASSUME Init PROVE NamedInv OBVIOUS
<1>1. TimersNamed
  <2>1. \A i \in Timers : ~slots[i].active BY DEF Init, Empty
  <2>2. cb.pc # "post" BY DEF Init, CbIdle
  <2>3. \A n \in Ids : fired[n] = <<>> BY DEF Init
  <2> QED BY <2>1, <2>2, <2>3 DEF TimersNamed
<1> QED BY <1>1, TableInit DEF NamedInv

LEMMA ArmAdds ==
  ASSUME NamedInv, NEW c \in Callers, Arm(c)
  PROVE  /\ TimersNamed'
         /\ \E n \in Ids, due \in 1 .. Horizon, period \in Periods \cup {0} : DS!Add(n, due, period)
<1> USE DEF NamedInv, TableInv
<1> DEFINE i == Min(FreeTimers)
           due == call[c].now + call[c].d
           p == IF call[c].op = "once" THEN 0 ELSE call[c].d
<1>1. PICK new : /\ slots' = [slots EXCEPT ![i] = new]
                 /\ new.active = TRUE /\ new.id = nextId /\ new.due = due /\ new.period = p
  <2> DEFINE g == NextToken(slots[i].gen)
             n == [active |-> TRUE, gen |-> g, due |-> due, id |-> nextId, period |-> p]
  <2>1. slots' = [slots EXCEPT ![i] = n] BY Zenon DEF Arm
  <2>2. n.active = TRUE /\ n.id = nextId /\ n.due = due /\ n.period = p OBVIOUS
  <2> HIDE DEF n, i, due, p, g
  <2> QED BY <2>1, <2>2
<1>2. i \in Timers /\ ~slots[i].active BY FreeTimerIs DEF Arm
<1>3. /\ nextId' = nextId + 1 /\ cb' = cb /\ fired' = fired /\ clock' = clock
      /\ nextId <= MaxArms /\ due <= Horizon /\ call[c].op \in {"once", "periodic"}
  BY DEF Arm
<1>4. nextId \in Ids /\ nextId \in Nat BY <1>3, TimerAssumption DEF TimerTypeOK, Ids
<1>5. due \in 1 .. Horizon /\ p \in Periods \cup {0}
  <2>1. call[c].now \in 0 .. clock /\ call[c].d \in Nat \ {0} /\ p \in Periods \cup {0}
    BY <1>3, CallIs
  <2>2. clock \in Nat /\ Horizon \in Nat BY TimerAssumption DEF TimerTypeOK
  <2> QED BY <1>3, <2>1, <2>2
<1> HIDE DEF i, due, p
<1>6. slots'[i] = new /\ \A j \in Timers : j # i => slots'[j] = slots[j]
  BY <1>1, <1>2 DEF TimerTypeOK
<1>7. \A j \in Timers : slots[j].active => slots[j].id \in Ids /\ slots[j].id < nextId
  BY DEF TimersNamed
<1>8. \A j \in Timers : slots[j].active => slots[j].id # nextId
  BY <1>4, <1>7 DEF Ids
<1>9. TimersNamed'
  <2>1. \A j \in Timers : slots'[j].active => slots'[j].id \in Ids /\ slots'[j].id < nextId'
    BY <1>1, <1>3, <1>4, <1>6, <1>7 DEF Ids
  <2>2. \A j, k \in Timers : /\ slots'[j].active /\ slots'[k].active
                             /\ slots'[j].id = slots'[k].id
                             => j = k
    <3> SUFFICES ASSUME NEW j \in Timers, NEW k \in Timers, slots'[j].active, slots'[k].active,
                        slots'[j].id = slots'[k].id
                 PROVE  j = k
      OBVIOUS
    <3>1. CASE j = i /\ k # i BY <1>1, <1>6, <1>8, <3>1
    <3>2. CASE j # i /\ k = i BY <1>1, <1>6, <1>8, <3>2
    <3>3. CASE j # i /\ k # i BY <1>6, <3>3 DEF TimersNamed
    <3> QED BY <3>1, <3>2, <3>3
  <2>3. \A n \in Ids : n >= nextId' => fired'[n] = <<>>
    BY <1>3, <1>4 DEF TimersNamed, Ids
  <2>4. cb'.pc = "post" =>
          /\ \A k \in 1 .. Len(cb'.fires) : cb'.fires[k].id \in Ids /\ cb'.fires[k].id < nextId'
          /\ \A k, l \in 1 .. Len(cb'.fires) : cb'.fires[k].id = cb'.fires[l].id => k = l
    BY <1>3, <1>4 DEF TimersNamed, Ids
  <2> QED BY <2>1, <2>2, <2>3, <2>4 DEF TimersNamed
<1>10. Table' = Table \cup {[id |-> nextId, due |-> due, period |-> p]}
  <2> DEFINE r == [id |-> nextId, due |-> due, period |-> p]
  <2>1. Rec(slots'[i]) = r BY <1>1, <1>6 DEF Rec
  <2>2. ActiveIn(slots') = ActiveIn(slots) \cup {i} BY <1>1, <1>2, <1>6 DEF ActiveIn
  <2>3. \A j \in ActiveIn(slots) : Rec(slots'[j]) = Rec(slots[j]) BY <1>2, <1>6 DEF ActiveIn
  <2> HIDE DEF r
  <2>4. TableOf(slots') = TableOf(slots) \cup {r} BY <2>1, <2>2, <2>3 DEF TableOf
  <2> QED BY <2>4, TableIs DEF r
<1>11. Collected' = Collected /\ Posted' = Posted BY <1>3 DEF Collected, Posted
<1>12. Posted[nextId] = {}
  <2>1. fired[nextId] = <<>> BY <1>4 DEF TimersNamed
  <2>2. ToSet(<<>>) = {} BY DEF ToSet
  <2> QED BY <1>4, <2>1, <2>2 DEF Posted
<1>13. \A t \in Table \cup Collected : t.id # nextId
  <2>1. \A t \in Table : t.id # nextId BY <1>8 DEF Table, ActiveIn
  <2>2. \A t \in Collected : t.id # nextId
    <3>1. CASE cb.pc = "post"
      <4>1. cb.fires \in Seq(SlotType) BY <3>1, CbIs
      <4>2. \A k \in 1 .. Len(cb.fires) : cb.fires[k].id \in Ids /\ cb.fires[k].id < nextId
        BY <3>1 DEF TimersNamed
      <4>3. \A k \in 1 .. Len(cb.fires) : cb.fires[k].id # nextId BY <1>4, <4>2 DEF Ids
      <4> QED BY <3>1, <4>1, <4>3, CollectedIs DEF FiresOf, Due
    <3>2. CASE cb.pc # "post" BY <3>2, CollectedIs
    <3> QED BY <3>1, <3>2
  <2> QED BY <2>1, <2>2
<1>14. DS!Add(nextId, due, p)
  BY <1>3, <1>10, <1>11, <1>12, <1>13 DEF DS!Add, Posted
<1> QED BY <1>4, <1>5, <1>9, <1>14

(* Names after a step that gives none and lets timers go.                  *)
LEMMA NamesKept ==
  ASSUME TimersNamed, nextId' = nextId, fired' = fired,
         \A i \in Timers : slots'[i].active => slots[i].active /\ slots'[i].id = slots[i].id,
         cb'.pc = "post" => cb' = cb
  PROVE  TimersNamed'
<1>1. \A i \in Timers : slots'[i].active => slots'[i].id \in Ids /\ slots'[i].id < nextId'
  BY DEF TimersNamed
<1>2. \A i, j \in Timers : slots'[i].active /\ slots'[j].active /\ slots'[i].id = slots'[j].id
                             => i = j
  BY DEF TimersNamed
<1>3. \A n \in Ids : n >= nextId' => fired'[n] = <<>> BY DEF TimersNamed
<1>4. cb'.pc = "post" =>
        /\ \A k \in 1 .. Len(cb'.fires) : cb'.fires[k].id \in Ids /\ cb'.fires[k].id < nextId'
        /\ \A k, l \in 1 .. Len(cb'.fires) : cb'.fires[k].id = cb'.fires[l].id => k = l
  BY DEF TimersNamed
<1> QED BY <1>1, <1>2, <1>3, <1>4 DEF TimersNamed

LEMMA CancelRemoves ==
  ASSUME NamedInv, NEW c \in Callers, CancelHit(c)
  PROVE  TimersNamed' /\ \E t \in Table : DS!Remove(t)
<1> USE DEF NamedInv, TableInv
<1> DEFINE i == call[c].tok.idx
<1>1. call[c].tok \in tokens BY CallIs DEF CancelHit
<1>2. i \in Timers /\ slots[i].active BY <1>1 DEF TimerTypeOK, TokenType, CancelHit, Matches
<1>3. slots' = [slots EXCEPT ![i].active = FALSE] BY DEF CancelHit
<1> HIDE DEF i
<1>4. ~slots'[i].active /\ \A j \in Timers : j # i => slots'[j] = slots[j]
  <2>1. slots[i] \in SlotType BY <1>2 DEF TimerTypeOK
  <2>2. slots'[i] = [slots[i] EXCEPT !.active = FALSE] BY <1>2, <1>3 DEF TimerTypeOK
  <2>3. slots'[i].active = FALSE BY <2>1, <2>2 DEF SlotType
  <2>4. \A j \in Timers : j # i => slots'[j] = slots[j] BY <1>3 DEF TimerTypeOK
  <2> QED BY <2>3, <2>4
<1>5. nextId' = nextId /\ fired' = fired /\ cb' = cb /\ clock' = clock BY DEF CancelHit
<1>6. TimersNamed' BY <1>2, <1>4, <1>5, NamesKept
<1> DEFINE t == Rec(slots[i])
<1>7. t \in Table BY <1>2, TableIs DEF TableOf, ActiveIn
<1>8. Table' = Table \ {t}
  <2>1. ActiveIn(slots') = ActiveIn(slots) \ {i} BY <1>2, <1>4 DEF ActiveIn
  <2>2. \A j \in ActiveIn(slots') : Rec(slots'[j]) = Rec(slots[j]) BY <1>4 DEF ActiveIn
  <2>3. \A j \in ActiveIn(slots) : j # i => Rec(slots[j]) # t
    <3>1. \A j \in ActiveIn(slots) : j # i => slots[j].id # slots[i].id
      BY <1>2 DEF TimersNamed, ActiveIn
    <3>2. \A s : Rec(s).id = s.id BY DEF Rec
    <3> QED BY <3>1, <3>2
  <2>4. TableOf(slots') = {Rec(slots[j]) : j \in ActiveIn(slots) \ {i}}
    BY <2>1, <2>2 DEF TableOf
  <2> HIDE DEF t
  <2>5. \A x : x \in TableOf(slots') <=> x \in TableOf(slots) /\ x # t
    BY <2>3, <2>4 DEF TableOf, t
  <2> QED BY <2>5, TableIs
<1>9. Collected' = Collected /\ Posted' = Posted BY <1>5 DEF Collected, Posted
<1>10. DS!Remove(t) BY <1>5, <1>8, <1>9 DEF DS!Remove, Posted
<1> QED BY <1>6, <1>7, <1>10

(* What has passed, in the words of DeadlineSet.                           *)
LEMMA LockedCollects ==
  ASSUME NamedInv, CbLocked
  PROVE  TimersNamed' /\ (DS!CollectSome \/ UNCHANGED <<clock, Table, Collected, Posted>>)
<1> USE DEF NamedInv, TableInv
<1> DEFINE now == cb.now
           D == DueAt(now)
           passed == {t \in Table : t.due <= now}
<1>1. /\ cb.pc = "entered" /\ now \in 0 .. clock /\ now \in Nat
      /\ slots' = TableAt(now)
  BY CbLockedIs
<1>0. PICK n \in Nat : \E list \in [1 .. n -> D] :
        /\ \A k, l \in 1 .. n : k < l => list[k] < list[l]
        /\ \A i \in D : \E k \in 1 .. n : list[k] = i
        /\ cb' = [pc |-> "post", fires |-> [k \in 1 .. n |-> slots[list[k]]]]
        /\ [k \in 1 .. n |-> slots[list[k]]] \in Seq(SlotType)
  BY CbLockedIs
<1>2. PICK list \in [1 .. n -> D] :
        /\ \A k, l \in 1 .. n : k < l => list[k] < list[l]
        /\ \A i \in D : \E k \in 1 .. n : list[k] = i
        /\ cb' = [pc |-> "post", fires |-> [k \in 1 .. n |-> slots[list[k]]]]
        /\ [k \in 1 .. n |-> slots[list[k]]] \in Seq(SlotType)
  BY <1>0
<1>3. /\ clock' = clock /\ nextId' = nextId /\ fired' = fired
  BY DEF CbLocked, histVars
<1>4. D \subseteq Timers /\ \A i \in Timers : i \in D <=> slots[i].active /\ slots[i].due <= now
  BY DEF DueAt, IsDue
<1>5. \A i \in Timers : i \in D =>
        /\ slots'[i].id = slots[i].id /\ slots'[i].period = slots[i].period
        /\ slots'[i].active = (slots[i].period # 0)
        /\ slots[i].period # 0 =>
             slots'[i].due = slots[i].due + ((now - slots[i].due) \div slots[i].period + 1)
                                            * slots[i].period
  <2> SUFFICES ASSUME NEW i \in Timers, i \in D
               PROVE  /\ slots'[i].id = slots[i].id /\ slots'[i].period = slots[i].period
                      /\ slots'[i].active = (slots[i].period # 0)
                      /\ slots[i].period # 0 =>
                           slots'[i].due = slots[i].due
                             + ((now - slots[i].due) \div slots[i].period + 1) * slots[i].period
    OBVIOUS
  <2> DEFINE s == slots[i]
  <2>1. s \in SlotType /\ s.due <= now /\ s.active = TRUE /\ s.period \in Periods \cup {0}
    BY <1>4 DEF TimerTypeOK, SlotType
  <2>2. slots'[i] = Expire(s, now) BY <1>1 DEF TableAt
  <2> HIDE DEF s, now
  <2>3. /\ Expire(s, now).id = s.id /\ Expire(s, now).period = s.period
        /\ s.period = 0 => Expire(s, now).active = FALSE
        /\ s.period # 0 => /\ Expire(s, now).active = s.active
                           /\ Expire(s, now).due = s.due + ((now - s.due) \div s.period + 1)
                                                            * s.period
    BY <1>1, <2>1, ExpireIs
  <2>4. Expire(s, now).active = (s.period # 0) BY <2>1, <2>3
  <2> QED BY <2>2, <2>3, <2>4 DEF s
<1>6. \A i \in Timers : i \notin D => slots'[i] = slots[i] BY <1>1 DEF TableAt
<1> HIDE DEF D, now
<1>7. \A i \in Timers : slots'[i].active => slots[i].active /\ slots'[i].id = slots[i].id
  BY <1>4, <1>5, <1>6
<1>8. \A k \in 1 .. n : list[k] \in D /\ list[k] \in Timers /\ slots[list[k]].active
  BY <1>2, <1>4
<1> DEFINE f == [k \in 1 .. n |-> slots[list[k]]]
<1>9. cb'.pc = "post" /\ cb'.fires = f /\ f \in Seq(SlotType) /\ Len(f) = n
  BY <1>2
<1>10. TimersNamed'
  <2>1. \A i \in Timers : slots'[i].active => slots'[i].id \in Ids /\ slots'[i].id < nextId'
    BY <1>3, <1>7 DEF TimersNamed
  <2>2. \A i, j \in Timers : slots'[i].active /\ slots'[j].active /\ slots'[i].id = slots'[j].id
                               => i = j
    BY <1>7 DEF TimersNamed
  <2>3. \A m \in Ids : m >= nextId' => fired'[m] = <<>> BY <1>3 DEF TimersNamed
  <2>4. \A k \in 1 .. n : f[k].id \in Ids /\ f[k].id < nextId'
    BY <1>3, <1>8 DEF TimersNamed
  <2>5. \A k, l \in 1 .. n : f[k].id = f[l].id => k = l
    <3> SUFFICES ASSUME NEW k \in 1 .. n, NEW l \in 1 .. n, f[k].id = f[l].id, k # l
                 PROVE  FALSE
      OBVIOUS
    <3>1. list[k] = list[l] BY <1>8 DEF TimersNamed
    <3>2. list[k] \in Nat /\ list[l] \in Nat BY <1>8, TimerAssumption DEF Timers
    <3>3. k < l \/ l < k OBVIOUS
    <3> QED BY <1>2, <3>1, <3>2, <3>3
  <2> HIDE DEF f
  <2> QED BY <1>9, <2>1, <2>2, <2>3, <2>4, <2>5 DEF TimersNamed
<1>11. Collected = {} BY <1>1, CollectedIs
<1>12. passed = {Rec(slots[i]) : i \in D}
  <2>1. \A s : Rec(s).due = s.due BY DEF Rec
  <2>2. Table = {Rec(slots[i]) : i \in ActiveIn(slots)} BY TableIs DEF TableOf
  <2> QED BY <1>4, <2>1, <2>2 DEF ActiveIn
<1>13. Collected' = {[id |-> t.id, due |-> t.due] : t \in passed}
  <2>1. Collected' = {Due(f[k]) : k \in 1 .. n} BY <1>9, CollectedIs DEF FiresOf
  <2>2. {Due(f[k]) : k \in 1 .. n} = {Due(slots[i]) : i \in D}
    <3>1. \A k \in 1 .. n : f[k] = slots[list[k]] OBVIOUS
    <3> HIDE DEF f
    <3> QED BY <1>2, <1>8, <3>1
  <2>3. \A s : Due(s) = [id |-> Rec(s).id, due |-> Rec(s).due] BY DEF Due, Rec
  <2> HIDE DEF passed
  <2> QED BY <1>12, <2>1, <2>2, <2>3
<1>14. Table' = (Table \ passed) \cup {DS!GoesOn(t, now) : t \in {u \in passed : u.period # 0}}
  <2> DEFINE P == {i \in D : slots[i].period # 0}
             A == ActiveIn(slots) \ D
  <2>1. ActiveIn(slots') = A \cup P BY <1>4, <1>5, <1>6 DEF ActiveIn
  <2>2. \A i \in A : Rec(slots'[i]) = Rec(slots[i]) BY <1>6 DEF ActiveIn
  <2>3. \A i \in P : Rec(slots'[i]) = DS!GoesOn(Rec(slots[i]), now)
    BY <1>4, <1>5 DEF DS!GoesOn, Rec
  <2>4. {u \in passed : u.period # 0} = {Rec(slots[i]) : i \in P}
    <3>1. \A s : Rec(s).period = s.period BY DEF Rec
    <3> HIDE DEF passed
    <3> QED BY <1>12, <3>1
  <2>5. Table \ passed = {Rec(slots[i]) : i \in A}
    <3>1. Table = {Rec(slots[i]) : i \in ActiveIn(slots)} BY TableIs DEF TableOf
    <3>2. \A i, j \in ActiveIn(slots) : Rec(slots[i]) = Rec(slots[j]) => i = j
      <4>1. \A s : Rec(s).id = s.id BY DEF Rec
      <4>2. ActiveIn(slots) = {i \in Timers : slots[i].active} BY DEF ActiveIn
      <4>3. \A i, j \in Timers : /\ slots[i].active /\ slots[j].active
                                 /\ slots[i].id = slots[j].id
                                 => i = j
        BY DEF TimersNamed
      <4> QED BY <4>1, <4>2, <4>3
    <3>3. D \subseteq ActiveIn(slots) BY <1>4 DEF ActiveIn
    <3> HIDE DEF passed
    <3> QED BY <1>12, <3>1, <3>2, <3>3
  <2> HIDE DEF P, A, passed
  <2>6. TableOf(slots') = {Rec(slots[i]) : i \in A} \cup {DS!GoesOn(Rec(slots[i]), now) : i \in P}
    BY <2>1, <2>2, <2>3 DEF TableOf
  <2> QED BY <2>4, <2>5, <2>6, TableIs
<1>15. Posted' = Posted BY <1>3 DEF Posted
<1>16. CASE passed = {}
  <2> HIDE DEF passed
  <2>1. Table' = Table BY <1>14, <1>16
  <2>2. Collected' = {} BY <1>13, <1>16
  <2> QED BY <1>3, <1>10, <1>11, <1>15, <2>1, <2>2
<1>17. CASE passed # {}
  <2>1. DS!Collect(now) BY <1>3, <1>11, <1>13, <1>14, <1>15, <1>17 DEF DS!Collect, Posted
  <2>2. DS!CollectSome BY <1>1, <2>1 DEF DS!CollectSome
  <2> QED BY <1>10, <2>2
<1> QED BY <1>16, <1>17

LEMMA PostPosts ==
  ASSUME NamedInv, CbPost
  PROVE  TimersNamed' /\ DS!PostSome
<1> USE DEF NamedInv, TableInv
<1> DEFINE s == cb.fires
           f == Head(s)
           d == Due(f)
<1>1. /\ cb.pc = "post" /\ s \in Seq(SlotType) /\ s # <<>>
      /\ cb = [pc |-> "post", fires |-> s]
  BY CbIs DEF CbPost
<1>2. /\ fired' = [fired EXCEPT ![f.id] = Append(@, f.due)]
      /\ cb' = [pc |-> "post", fires |-> Tail(s)]
      /\ slots' = slots /\ clock' = clock /\ nextId' = nextId
  <2>1. cb' = [cb EXCEPT !.fires = Tail(@)] BY DEF CbPost
  <2> QED BY <1>1, <2>1 DEF CbPost, tableVars
<1>3. /\ Tail(s) \in Seq(SlotType) /\ Len(s) \in Nat \ {0} /\ Len(Tail(s)) = Len(s) - 1
      /\ f = s[1] /\ f \in SlotType /\ \A k \in 1 .. Len(s) - 1 : Tail(s)[k] = s[k + 1]
  BY <1>1
<1>4. /\ \A k \in 1 .. Len(s) : s[k].id \in Ids /\ s[k].id < nextId
      /\ \A k, l \in 1 .. Len(s) : s[k].id = s[l].id => k = l
  BY <1>1 DEF TimersNamed
<1>5. f.id \in Ids /\ f.id < nextId BY <1>3, <1>4
<1>6. \A n \in Ids : fired[n] \in Seq(Nat) BY DEF TimerTypeOK
<1>7. f.due \in Nat BY <1>3 DEF SlotType
<1> HIDE DEF s, f
<1>8. TimersNamed'
  <2>1. \A i \in Timers : slots'[i].active => slots'[i].id \in Ids /\ slots'[i].id < nextId'
    BY <1>2 DEF TimersNamed
  <2>2. \A i, j \in Timers : slots'[i].active /\ slots'[j].active /\ slots'[i].id = slots'[j].id
                               => i = j
    BY <1>2 DEF TimersNamed
  <2>3. \A n \in Ids : n >= nextId' => fired'[n] = <<>>
    <3> SUFFICES ASSUME NEW n \in Ids, n >= nextId PROVE fired'[n] = <<>> BY <1>2
    <3>1. n # f.id BY <1>5 DEF Ids, TimerTypeOK
    <3>2. fired'[n] = fired[n] BY <1>2, <3>1 DEF TimerTypeOK
    <3> QED BY <3>2 DEF TimersNamed
  <2>4. cb'.fires = Tail(s) BY <1>2
  <2>5. \A k \in 1 .. Len(Tail(s)) : Tail(s)[k].id \in Ids /\ Tail(s)[k].id < nextId'
    <3> SUFFICES ASSUME NEW k \in 1 .. Len(s) - 1
                 PROVE  Tail(s)[k].id \in Ids /\ Tail(s)[k].id < nextId
      BY <1>2, <1>3
    <3>1. k + 1 \in 1 .. Len(s) /\ Tail(s)[k] = s[k + 1] BY <1>3
    <3> QED BY <1>4, <3>1
  <2>6. \A k, l \in 1 .. Len(Tail(s)) : Tail(s)[k].id = Tail(s)[l].id => k = l
    <3> SUFFICES ASSUME NEW k \in 1 .. Len(s) - 1, NEW l \in 1 .. Len(s) - 1,
                        Tail(s)[k].id = Tail(s)[l].id
                 PROVE  k = l
      BY <1>3
    <3>1. /\ k + 1 \in 1 .. Len(s) /\ Tail(s)[k] = s[k + 1]
          /\ l + 1 \in 1 .. Len(s) /\ Tail(s)[l] = s[l + 1]
      BY <1>3
    <3>2. k + 1 = l + 1 BY <1>4, <3>1
    <3> QED BY <3>2
  <2> QED BY <2>1, <2>2, <2>3, <2>4, <2>5, <2>6 DEF TimersNamed
<1>9. Table' = Table BY <1>2 DEF Table, ActiveIn
<1>10. d \in Collected /\ Collected' = Collected \ {d}
  <2>1. Collected = {Due(s[k]) : k \in 1 .. Len(s)} BY <1>1, CollectedIs DEF FiresOf, s
  <2>2. Collected' = {Due(Tail(s)[k]) : k \in 1 .. Len(s) - 1}
    <3>1. cb'.pc = "post" /\ cb'.fires = Tail(s) BY <1>2
    <3> QED BY <1>3, <3>1, CollectedIs DEF FiresOf
  <2>3. \A x : Due(x).id = x.id BY DEF Due
  <2>4. d = Due(s[1]) BY <1>3
  <2>5. 1 \in 1 .. Len(s) BY <1>3
  <2>6. \A k \in 1 .. Len(s) : k # 1 => Due(s[k]) # d BY <1>4, <2>3, <2>4, <2>5
  <2>7. \A x \in Collected' : x \in Collected /\ x # d
    <3> SUFFICES ASSUME NEW k \in 1 .. Len(s) - 1
                 PROVE  Due(Tail(s)[k]) \in Collected /\ Due(Tail(s)[k]) # d
      BY <2>2
    <3>1. k + 1 \in 1 .. Len(s) /\ k + 1 # 1 /\ Tail(s)[k] = s[k + 1] BY <1>3
    <3> QED BY <2>1, <2>6, <3>1
  <2>8. \A x \in Collected : x # d => x \in Collected'
    <3> SUFFICES ASSUME NEW k \in 1 .. Len(s), Due(s[k]) # d
                 PROVE  Due(s[k]) \in Collected'
      BY <2>1
    <3>1. k # 1 BY <2>4
    <3>2. k - 1 \in 1 .. Len(s) - 1 /\ k - 1 + 1 = k BY <1>3, <3>1
    <3>3. Tail(s)[k - 1] = s[k] BY <1>3, <3>2
    <3> QED BY <2>2, <3>2, <3>3
  <2>9. d \in Collected BY <2>1, <2>4, <2>5
  <2> QED BY <2>7, <2>8, <2>9
<1>11. Posted' = [Posted EXCEPT ![d.id] = @ \cup {d.due}]
  <2>1. d.id = f.id /\ d.due = f.due BY DEF Due
  <2>2. \A q \in Seq(Nat), x \in Nat : ToSet(Append(q, x)) = ToSet(q) \cup {x}
    <3> SUFFICES ASSUME NEW q \in Seq(Nat), NEW x \in Nat
                 PROVE  ToSet(Append(q, x)) = ToSet(q) \cup {x}
      OBVIOUS
    <3>1. ToSet(q) = {q[k] : k \in 1 .. Len(q)} BY DEF ToSet
    <3>2. ToSet(Append(q, x)) = {Append(q, x)[k] : k \in 1 .. Len(q) + 1} BY DEF ToSet
    <3>3. /\ \A k \in 1 .. Len(q) : Append(q, x)[k] = q[k]
          /\ Append(q, x)[Len(q) + 1] = x /\ Len(q) \in Nat
      OBVIOUS
    <3>4. 1 .. Len(q) + 1 = (1 .. Len(q)) \cup {Len(q) + 1} BY <3>3
    <3> QED BY <3>1, <3>2, <3>3, <3>4
  <2>3. \A n \in Ids : fired'[n] = IF n = f.id THEN Append(fired[n], f.due) ELSE fired[n]
    BY <1>2 DEF TimerTypeOK
  <2>4. \A n \in Ids : ToSet(fired'[n]) = IF n = f.id THEN ToSet(fired[n]) \cup {f.due}
                                          ELSE ToSet(fired[n])
    BY <1>6, <1>7, <2>2, <2>3
  <2>5. Posted' = [n \in Ids |-> IF n = f.id THEN ToSet(fired[n]) \cup {f.due}
                                 ELSE ToSet(fired[n])]
    BY <2>4 DEF Posted
  <2> QED BY <1>5, <2>1, <2>5 DEF Posted
<1>12. DS!Post(d) BY <1>2, <1>9, <1>10, <1>11 DEF DS!Post, Posted
<1> QED BY <1>8, <1>10, <1>12 DEF DS!PostSome

(* Every step of the service is a step of DeadlineSet, or none.            *)
LEMMA NamedNext ==
  NamedInv /\ [Next]_vars => /\ NamedInv'
                             /\ DS!DeadlineNext \/ UNCHANGED <<clock, Table, Collected, Posted>>
<1> SUFFICES ASSUME NamedInv, [Next]_vars
             PROVE  /\ TimersNamed'
                    /\ DS!DeadlineNext \/ UNCHANGED <<clock, Table, Collected, Posted>>
  BY TableNext DEF NamedInv
<1> USE DEF NamedInv, TableInv
<1>1. ASSUME slots' = slots, clock' = clock, nextId' = nextId, fired' = fired,
             cb' = cb \/ (cb'.pc # "post" /\ (cb.pc = "post" => cb.fires = <<>>))
      PROVE  TimersNamed' /\ UNCHANGED <<clock, Table, Collected, Posted>>
  <2>1. TimersNamed' BY <1>1, NamesKept
  <2>2. Collected' = Collected
    <3>1. CASE cb' = cb BY <3>1 DEF Collected
    <3>2. CASE cb'.pc # "post" /\ (cb.pc = "post" => cb.fires = <<>>)
      <4>1. Collected' = {} BY <3>2, CollectedIs
      <4>2. Collected = {}
        <5>1. ToSet(<<>>) = {} BY DEF ToSet
        <5> QED BY <3>2, <5>1 DEF Collected
      <4> QED BY <4>1, <4>2
    <3> QED BY <1>1, <3>1, <3>2
  <2> QED BY <1>1, <2>1, <2>2 DEF Table, ActiveIn, Posted
<1>2. CASE Start
  <2>1. /\ nextId' = nextId /\ fired' = fired /\ clock' = clock /\ cb' = cb
        /\ slots' = [i \in Timers |-> Empty]
    BY <1>2 DEF Start, histVars
  <2>2. slots' = slots
    <3>1. \A i \in Timers : slots[i] = Empty BY <1>2 DEF Start, StoppedIsBare
    <3> QED BY <2>1, <3>1 DEF TimerTypeOK
  <2> QED BY <1>1, <2>1, <2>2
<1>3. CASE Stop
  <2>1. /\ nextId' = nextId /\ fired' = fired /\ clock' = clock /\ cb' = cb
        /\ slots' = [i \in Timers |-> Empty]
    BY <1>3 DEF Stop
  <2>2. \A i \in Timers : ~slots'[i].active BY <2>1 DEF Empty
  <2>3. TimersNamed' BY <2>1, <2>2, NamesKept
  <2>4. Table' = {} BY <2>2 DEF Table, ActiveIn
  <2>5. DS!Clear BY <2>1, <2>4 DEF DS!Clear, Collected
  <2> QED BY <2>3, <2>5 DEF DS!DeadlineNext
<1>4. CASE Tick
  <2>1. /\ clock' = clock + 1 /\ slots' = slots /\ nextId' = nextId /\ fired' = fired /\ cb' = cb
    BY <1>4 DEF Tick, tableVars, histVars
  <2>2. TimersNamed' BY <2>1, NamesKept
  <2>3. DS!Pass BY <2>1 DEF DS!Pass, Table, ActiveIn, Collected
  <2> QED BY <2>2, <2>3 DEF DS!DeadlineNext
<1>5. CASE CbExpire \/ CbEnter \/ CbReturn
  <2>1. slots' = slots /\ clock' = clock /\ nextId' = nextId /\ fired' = fired
    BY <1>5 DEF CbExpire, CbEnter, CbReturn, tableVars, histVars
  <2>2. cb'.pc # "post" /\ (cb.pc = "post" => cb.fires = <<>>)
    BY <1>5 DEF CbExpire, CbEnter, CbReturn, CbIdle
  <2> QED BY <1>1, <2>1, <2>2
<1>6. CASE CbLocked BY <1>6, LockedCollects DEF DS!DeadlineNext
<1>7. CASE CbPost BY <1>7, PostPosts DEF DS!DeadlineNext
<1>8. ASSUME NEW c \in Callers, Arm(c)
      PROVE  TimersNamed' /\ DS!DeadlineNext
  BY <1>8, ArmAdds DEF DS!DeadlineNext
<1>9. ASSUME NEW c \in Callers, CancelHit(c)
      PROVE  TimersNamed' /\ DS!DeadlineNext
  BY <1>9, CancelRemoves DEF DS!DeadlineNext
<1>10. ASSUME NEW c \in Callers, CallArm(c) \/ CallCancel(c) \/ ArmRefused(c) \/ CancelMiss(c)
       PROVE  TimersNamed' /\ UNCHANGED <<clock, Table, Collected, Posted>>
  <2>1. slots' = slots /\ clock' = clock /\ nextId' = nextId /\ fired' = fired /\ cb' = cb
    BY <1>10 DEF CallArm, CallCancel, ArmRefused, CancelMiss, tableVars, histVars
  <2> QED BY <1>1, <2>1
<1>11. CASE Over \/ UNCHANGED vars
  <2>1. slots' = slots /\ clock' = clock /\ nextId' = nextId /\ fired' = fired /\ cb' = cb
    BY <1>11 DEF Over, vars
  <2> QED BY <1>1, <2>1
<1> QED
  BY <1>2, <1>3, <1>4, <1>5, <1>6, <1>7, <1>8, <1>9, <1>10, <1>11 DEF Next, CallStep, CbStep

(* The safety part of KeepsDeadlines: no order of arms, cancels, stale     *)
(* clock readings, refused starts, stops and callbacks posts a deadline    *)
(* early, twice, after its cancel, or in a batch that leaves one out.      *)
THEOREM TimerRefinesDeadlines == Spec => DS!DeadlineSpec
<1>1. Init => DS!DeadlineInit
  <2> SUFFICES ASSUME Init PROVE DS!DeadlineInit OBVIOUS
  <2>1. Table = {} BY DEF Init, Table, ActiveIn, Empty
  <2>2. Collected = {} BY DEF Init, Collected, CbIdle
  <2>3. ToSet(<<>>) = {} BY DEF ToSet
  <2>4. [n \in Ids |-> ToSet(fired[n])] = [n \in Ids |-> {}] BY <2>3 DEF Init
  <2>5. clock = 0 BY DEF Init
  <2> QED BY <2>1, <2>2, <2>4, <2>5 DEF DS!DeadlineInit
<1>2. NamedInv /\ [Next]_vars => [DS!DeadlineNext]_(DS!deadlineVars)
  BY NamedNext DEF DS!deadlineVars, Posted
<1>3. NamedInv /\ [Next]_vars => NamedInv' BY NamedNext
<1> QED BY <1>1, <1>2, <1>3, NamedInit, PTL DEF Spec, DS!DeadlineSpec
=============================================================================
