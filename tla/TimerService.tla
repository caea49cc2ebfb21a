----------------------------- MODULE TimerService -----------------------------
(***************************************************************************)
(* services__timer: a table of deadlines served by one hardware one-shot   *)
(* alarm (esp_timer), which is always armed for the earliest of them.      *)
(*                                                                         *)
(* Three kinds of actors share the table under the mutex s_mu: tasks that  *)
(* arm and cancel, the esp_timer task that runs timer_cb_, and the task    *)
(* that starts and stops the service.  Every call reads the clock BEFORE   *)
(* it takes the mutex, so a call is two steps with a time of its own, and  *)
(* timer_cb_ posts the collected events after it released the mutex, one   *)
(* step each.  What runs under the mutex is one step.                      *)
(*                                                                         *)
(* id is a history value: the number of the arm_* call that filled a slot. *)
(* Time stops at Horizon.  An alarm for a deadline within the horizon that *)
(* was set late is put at the horizon, so that it still comes.             *)
(***************************************************************************)
EXTENDS Integers, Sequences, FiniteSets, FiniteSetsExt, SequencesExt

CONSTANTS
  NumTimers,   (* CONFIG_SERVICES_TIMER_MAX_SLOTS                          *)
  TokenMod,    (* the width of a slot's gen: 2^16                          *)
  Callers,     (* the tasks that arm and cancel                            *)
  Delays,      (* the delays they ask for                                  *)
  Periods,     (* the periods they ask for                                 *)
  StartFails,  (* whether esp_timer_start_once may fail                    *)
  MaxStops,    (* bound: how often some task stops the service             *)
  Horizon,     (* bound: the clock stops here                              *)
  MaxArms      (* bound: number of successful arm calls                    *)

ASSUME TimerAssumption ==
  /\ NumTimers \in Nat \ {0}
  /\ TokenMod \in Nat \ {0, 1}
  /\ Delays \subseteq Nat /\ Periods \subseteq Nat
  /\ StartFails \in BOOLEAN /\ MaxStops \in Nat
  /\ Horizon \in Nat /\ MaxArms \in Nat

VARIABLES
  slots,      (* s_slots: slot -> [active, gen, due, period, id]           *)
  armed,      (* s_armed                                                   *)
  dueAt,      (* s_due_us                                                  *)
  started,    (* s_started; s_mu and s_timer exist exactly then            *)
  alarm,      (* esp_timer: when the one-shot expires, or Off              *)
  clock,      (* clock_now_us()                                            *)
  cb,         (* where timer_cb_ is                                        *)
  call,       (* caller -> the call it is making                           *)
  nextId,     (* history: the id of the next arm call                      *)
  tokens,     (* history: every token returned, with its id                *)
  stops,      (* how often the service was stopped                         *)
  refused,    (* history: the last esp_timer_start_once failed             *)
  ended,      (* history: id -> "no", "cancelled" or "stopped"             *)
  fired       (* history: id -> the deadlines its event was posted for     *)

tableVars == <<slots, armed, dueAt, alarm, refused>>
histVars  == <<nextId, tokens, stops, ended, fired>>
vars == <<slots, armed, dueAt, started, alarm, clock, cb, call,
          nextId, tokens, stops, refused, ended, fired>>

Timers == 0 .. NumTimers - 1
Ids    == 1 .. MaxArms
Off    == -1
Empty  == [active |-> FALSE, gen |-> 0, due |-> 0, period |-> 0, id |-> 0]
NoCall == [op |-> "none"]
CbIdle == [pc |-> "idle"]

SmallerOf(a, b) == IF a <= b THEN a ELSE b

-----------------------------------------------------------------------------
(* periodic_next_due_: the first multiple of the period after now.         *)
PeriodicNextDue(prev, period, now) ==
  LET next == prev + period
  IN IF next <= now THEN next + ((now - next) \div period + 1) * period ELSE next

(* find_earliest_due_locked_ *)
ActiveIn(tab)    == {i \in Timers : tab[i].active}
EarliestDue(tab) == Min({tab[i].due : i \in ActiveIn(tab)})

(* esp_timer_start_once(delay), made by a call that read the clock at now: *)
(* the delay counts from the present time, not from now.                   *)
AlarmFor(due, now) ==
  LET delay == IF due > now THEN due - now ELSE 1
  IN IF due <= Horizon THEN SmallerOf(clock + delay, Horizon) ELSE clock + delay

(* arm_earliest_locked_(now) on the table tab, with s_armed = was: nothing *)
(* when the alarm already stands for the earliest deadline.                *)
AlreadyArmedAny(tab, was) == was
AlreadyArmed(tab, was)    == was /\ EarliestDue(tab) = dueAt

ArmEarliest(tab, was, now) ==
  IF ActiveIn(tab) = {}
  THEN /\ armed' = FALSE
       /\ dueAt' = 0
       /\ alarm' = IF was THEN Off ELSE alarm
       /\ refused' = FALSE
  ELSE IF AlreadyArmed(tab, was)
  THEN armed' = was /\ UNCHANGED <<dueAt, alarm, refused>>
  ELSE \E ok \in {TRUE} \cup {~StartFails} :
         /\ armed' = ok
         /\ refused' = ~ok
         /\ dueAt' = IF ok THEN EarliestDue(tab) ELSE 0
         /\ alarm' = IF ok THEN AlarmFor(EarliestDue(tab), now) ELSE Off

-----------------------------------------------------------------------------
Init ==
  /\ slots = [i \in Timers |-> Empty]
  /\ armed = FALSE /\ dueAt = 0
  /\ started = FALSE
  /\ alarm = Off
  /\ clock = 0
  /\ cb = CbIdle
  /\ call = [c \in Callers |-> NoCall]
  /\ nextId = 1
  /\ tokens = {}
  /\ refused = FALSE /\ stops = 0
  /\ ended = [n \in Ids |-> "no"]
  /\ fired = [n \in Ids |-> <<>>]

(* services_timer_start: the table is cleared, generations included.       *)
Start ==
  /\ ~started
  /\ started' = TRUE
  /\ slots' = [i \in Timers |-> Empty]
  /\ armed' = FALSE /\ dueAt' = 0 /\ alarm' = Off /\ refused' = FALSE
  /\ UNCHANGED <<clock, cb, call, histVars>>

(* The timers a stop discards.                                             *)
Stopped == [n \in Ids |-> IF \E i \in Timers : slots[i].active /\ slots[i].id = n
                         THEN "stopped" ELSE ended[n]]

(* services_timer_stop, by the owner of the service when no other task is  *)
(* in a call.  The esp_timer task cannot be held off: see CbLocked.        *)
Stop ==
  /\ started /\ stops < MaxStops
  /\ \A c \in Callers : call[c] = NoCall
  /\ cb.pc # "entered"
  /\ started' = FALSE
  /\ slots' = [i \in Timers |-> Empty]
  /\ armed' = FALSE /\ dueAt' = 0 /\ alarm' = Off /\ refused' = FALSE
  /\ ended' = Stopped /\ stops' = stops + 1
  /\ UNCHANGED <<clock, cb, call, nextId, tokens, fired>>

-----------------------------------------------------------------------------
(* Before the mutex: the checks and clock_now_us().                        *)
CallArm(c) ==
  /\ started
  /\ call[c] = NoCall
  /\ \E op \in {"once", "periodic"}, d \in Delays \cup Periods :
       /\ op = "once" => d \in Delays
       /\ op = "periodic" => d \in Periods /\ d # 0
       /\ call' = [call EXCEPT ![c] =
            [op |-> op, now |-> clock, d |-> IF d = 0 THEN 1 ELSE d]]
  /\ UNCHANGED <<tableVars, started, clock, cb, histVars>>

CallCancel(c) ==
  /\ started
  /\ call[c] = NoCall
  /\ \E t \in tokens : call' = [call EXCEPT ![c] = [op |-> "cancel", now |-> clock, tok |-> t]]
  /\ UNCHANGED <<tableVars, started, clock, cb, histVars>>

(* The first free slot, and a generation that is never 0.                  *)
FreeTimers == {i \in Timers : ~slots[i].active}
NextTokenFrozen(g) == IF g = 0 THEN 1 ELSE g
NextToken(g) == IF (g + 1) % TokenMod = 0 THEN 1 ELSE (g + 1) % TokenMod

(* services_timer_arm_once_us and services_timer_arm_periodic_us, under    *)
(* the mutex.                                                              *)
Arm(c) ==
  /\ call[c].op \in {"once", "periodic"}
  /\ FreeTimers # {}
  /\ nextId <= MaxArms
  /\ LET i   == Min(FreeTimers)
         g   == NextToken(slots[i].gen)
         due == call[c].now + call[c].d
         tab == [slots EXCEPT ![i] =
                   [active |-> TRUE, gen |-> g, due |-> due, id |-> nextId,
                    period |-> IF call[c].op = "once" THEN 0 ELSE call[c].d]]
     IN /\ due <= Horizon
        /\ slots' = tab
        /\ ArmEarliest(tab, armed, call[c].now)
        /\ tokens' = tokens \cup {[idx |-> i, gen |-> g, id |-> nextId, era |-> stops,
                                   due |-> due, period |-> tab[i].period]}
  /\ nextId' = nextId + 1
  /\ call' = [call EXCEPT ![c] = NoCall]
  /\ UNCHANGED <<started, clock, cb, stops, ended, fired>>

(* No free slot: token 0.  (Also how a call ends that would pass a bound.) *)
ArmRefused(c) ==
  /\ call[c].op \in {"once", "periodic"}
  /\ FreeTimers = {} \/ nextId > MaxArms \/ call[c].now + call[c].d > Horizon
  /\ call' = [call EXCEPT ![c] = NoCall]
  /\ UNCHANGED <<tableVars, started, clock, cb, histVars>>

(* services_timer_cancel, under the mutex.                                 *)
Matches(t) == slots[t.idx].active /\ slots[t.idx].gen = t.gen

CancelHit(c) ==
  /\ call[c].op = "cancel"
  /\ Matches(call[c].tok)
  /\ LET tab == [slots EXCEPT ![call[c].tok.idx].active = FALSE]
     IN slots' = tab /\ ArmEarliest(tab, armed, call[c].now)
  /\ ended' = [ended EXCEPT ![slots[call[c].tok.idx].id] = "cancelled"]
  /\ call' = [call EXCEPT ![c] = NoCall]
  /\ UNCHANGED <<started, clock, cb, nextId, tokens, stops, fired>>

CancelMiss(c) ==
  /\ call[c].op = "cancel"
  /\ ~Matches(call[c].tok)
  /\ call' = [call EXCEPT ![c] = NoCall]
  /\ UNCHANGED <<tableVars, started, clock, cb, histVars>>

-----------------------------------------------------------------------------
(* The alarm expires and the esp_timer task is about to call timer_cb_: a  *)
(* timer_cancel from now on comes too late.                                *)
CbExpire ==
  /\ cb = CbIdle
  /\ alarm # Off /\ clock >= alarm
  /\ alarm' = Off
  /\ cb' = [pc |-> "expired"]
  /\ UNCHANGED <<slots, armed, dueAt, refused, started, clock, call, histVars>>

(* timer_cb_ reads the clock, and returns if the service was stopped.      *)
CbEnter ==
  /\ cb.pc = "expired"
  /\ cb' = IF started THEN [pc |-> "entered", now |-> clock] ELSE CbIdle
  /\ UNCHANGED <<tableVars, started, clock, call, histVars>>

(* Under the mutex: collect what is due, expire one-shots, move periodic   *)
(* deadlines on, arm the alarm again.                                      *)
IsDueEarly(i, now) == slots[i].active /\ slots[i].due <= now + 1
IsDue(i, now) == slots[i].active /\ slots[i].due <= now

Expire(s, now) ==
  IF s.period = 0 THEN [s EXCEPT !.active = FALSE]
  ELSE [s EXCEPT !.due = PeriodicNextDue(s.due, s.period, now)]

CbLocked ==
  /\ cb.pc = "entered"
  /\ LET now == cb.now
         due == {i \in Timers : IsDue(i, now)}
         tab == [i \in Timers |-> IF i \in due THEN Expire(slots[i], now) ELSE slots[i]]
     IN \E list \in [1 .. Cardinality(due) -> due] :   \* in the order of the slots
          /\ \A k, l \in DOMAIN list : k < l => list[k] < list[l]
          /\ slots' = tab
          /\ ArmEarliest(tab, FALSE, now)
          /\ cb' = [pc |-> "post", fires |-> [k \in DOMAIN list |-> slots[list[k]]]]
  /\ UNCHANGED <<started, clock, call, histVars>>

(* After the mutex: post the collected events one by one.                  *)
CbPost ==
  /\ cb.pc = "post" /\ cb.fires # <<>>
  /\ fired' = [fired EXCEPT ![Head(cb.fires).id] = Append(@, Head(cb.fires).due)]
  /\ cb' = [cb EXCEPT !.fires = Tail(@)]
  /\ UNCHANGED <<tableVars, started, clock, call, nextId, tokens, stops, ended>>

CbReturn ==
  /\ cb.pc = "post" /\ cb.fires = <<>>
  /\ cb' = CbIdle
  /\ UNCHANGED <<tableVars, started, clock, call, histVars>>

Tick ==
  /\ clock < Horizon
  /\ clock' = clock + 1
  /\ UNCHANGED <<tableVars, started, cb, call, histVars>>

CbStep == CbExpire \/ CbEnter \/ CbLocked \/ CbPost \/ CbReturn
CallStep(c) == Arm(c) \/ ArmRefused(c) \/ CancelHit(c) \/ CancelMiss(c)

(* Nothing left to do within the bounds. *)
Over == clock = Horizon /\ cb = CbIdle /\ UNCHANGED vars

Next ==
  \/ Start \/ Stop \/ Tick \/ CbStep \/ Over
  \/ \E c \in Callers : CallArm(c) \/ CallCancel(c) \/ CallStep(c)

Spec == Init /\ [][Next]_vars

(* Time passes, the esp_timer task runs its callback, and a task that      *)
(* waits for the mutex gets it.                                            *)
Fairness == WF_vars(Tick) /\ WF_vars(CbStep) /\ \A c \in Callers : WF_vars(CallStep(c))
FairSpec == Spec /\ Fairness

-----------------------------------------------------------------------------
SlotType  == [active : BOOLEAN, gen : 0 .. TokenMod - 1, due : Nat, period : Periods \cup {0},
              id : 0 .. MaxArms]
TokenType == [idx : Timers, gen : 1 .. TokenMod - 1, id : Ids, era : 0 .. stops, due : Nat,
              period : Periods \cup {0}]
CallType  == {NoCall} \cup [op : {"once"}, now : 0 .. clock, d : Nat \ {0}]
             \cup [op : {"periodic"}, now : 0 .. clock, d : Periods \ {0}]
             \cup [op : {"cancel"}, now : 0 .. clock, tok : tokens]
CbType    == {CbIdle} \cup [pc : {"expired"}] \cup [pc : {"entered"}, now : 0 .. clock]
             \cup [pc : {"post"}, fires : Seq(SlotType)]

TimerTypeOK ==
  /\ slots \in [Timers -> SlotType]
  /\ armed \in BOOLEAN /\ started \in BOOLEAN /\ refused \in BOOLEAN
  /\ dueAt \in Nat /\ clock \in 0 .. Horizon
  /\ alarm \in Nat \cup {Off}
  /\ cb \in CbType /\ call \in [Callers -> CallType]
  /\ nextId \in 1 .. MaxArms + 1 /\ stops \in 0 .. MaxStops
  /\ tokens \subseteq TokenType
  /\ ended \in [Ids -> {"no", "cancelled", "stopped"}]
  /\ fired \in [Ids -> Seq(Nat)]

(* The hardware alarm always stands for the earliest deadline, so that no  *)
(* arm, cancel or callback, in any order, lets a deadline be slept         *)
(* through.  Only the callback that is about to arm it again, and a start  *)
(* that esp_timer refused, leave it otherwise.                             *)
EarliestGuarded ==
  cb.pc \notin {"expired", "entered"} =>
    /\ ActiveIn(slots) # {} /\ ~refused => armed
    /\ armed => /\ ActiveIn(slots) # {}
                /\ dueAt = EarliestDue(slots)
                /\ alarm # Off

(* A token cancels the timer it was returned for, or none: a slot that was *)
(* used again has another generation, until that wraps around after        *)
(* TokenMod - 1 uses of the slot.  (Start clears the generations: a token  *)
(* does not outlive a stop.)                                               *)
LaterUses(t) == Cardinality({u \in tokens : u.idx = t.idx /\ u.era = t.era /\ u.id > t.id})

TokenNamesOneTimer ==
  \A t \in tokens : t.era = stops /\ Matches(t) =>
    \/ slots[t.idx].id = t.id
    \/ LaterUses(t) > 0 /\ LaterUses(t) % (TokenMod - 1) = 0

(* No timer posts after a cancel that returned true.                       *)
CancelledIsSilent == [][\A n \in Ids : ended[n] = "cancelled" => fired'[n] = fired[n]]_vars

-----------------------------------------------------------------------------
(* What DeadlineSet speaks of: the active slots, and what the callback     *)
(* collected and has not posted yet.                                       *)
Collected == IF cb.pc = "post" THEN {[id |-> f.id, due |-> f.due] : f \in ToSet(cb.fires)} ELSE {}
Table     == {[id |-> slots[i].id, due |-> slots[i].due, period |-> slots[i].period] :
                i \in ActiveIn(slots)}

DS == INSTANCE DeadlineSet
        WITH Deadlines <- 1 .. Horizon, Periods <- Periods \cup {0},
             time <- clock, pending <- Table, owed <- Collected,
             posted <- [n \in Ids |-> ToSet(fired[n])]

(* The table, the tokens, the alarm and the mutex implement the set of     *)
(* deadlines of DeadlineSet: no order of arms, cancels, clock readings and *)
(* callbacks posts a deadline early, twice or after its cancel, and none   *)
(* is lost or left uncollected, unless esp_timer refused to start and no   *)
(* later call armed it.                                                    *)
KeepsDeadlines == DS!DeadlineSpec /\ ([]<>refused \/ DS!DeadlineFairness)
=============================================================================
