----------------------------- MODULE GpioService -----------------------------
(***************************************************************************)
(* services__gpio over idf_gpio_port: inputs watched through an interrupt  *)
(* on both edges, debounced by time inside the interrupt handler.          *)
(*                                                                         *)
(* The hardware latches an edge of a pin until the interrupt is served, so *)
(* edges may come, and time may pass, between the edge and the handler and *)
(* between the handler's check of the time and its reading of the pin.     *)
(* Which pin raised an interrupt, what its handler reports and which slot  *)
(* the handler was given are three different things.                       *)
(***************************************************************************)
EXTENDS Naturals, FiniteSets

CONSTANTS
  Pins, NoPin, (* the pins, and what an unused slot holds                 *)
  SlotCount,   (* MAX_GPIO_INPUTS                                         *)
  Debounce,    (* debounce_us of every input                              *)
  MayInitAgain, (* whether services_gpio_init is called when in use       *)
  MaxTime, MaxEdges, MaxAdds, MaxFailures (* bounds                       *)

ASSUME GpioAssumption ==
  /\ NoPin \notin Pins
  /\ SlotCount \in Nat \ {0} /\ Debounce \in Nat
  /\ MayInitAgain \in BOOLEAN
  /\ {MaxTime, MaxEdges, MaxAdds, MaxFailures} \subseteq Nat

Slots == 1 .. SlotCount

VARIABLES
  now, level,  (* the clock and the pins                                  *)
  edgeAt,      (* history: when each pin last changed                     *)
  s_inputs,    (* [pin, last_irq_time, registered] of every slot          *)
  handler,     (* the slot given with the handler of each pin, 0: none    *)
  listens,     (* pins whose interrupt is enabled                         *)
  latched,     (* pins with an edge that was not served yet               *)
  add,         (* services_gpio_add_input: where it stands, pin, slot     *)
  added,       (* history: pins whose last add returned true              *)
  wins,        (* history: adds that succeeded since the last init        *)
  isr,         (* the handler: where it stands, pin, slot                 *)
  said, saidAt, (* history: per slot, the level last reported, or 2, and  *)
                 (* the time of the check before it, or 0                  *)
  gap,         (* history: the shortest time between two of a slot        *)
  wrongPin,    (* history: a report named another pin than the one that   *)
                 (* had changed                                            *)
  edges, adds, failures (* history, for the bounds                        *)

pinVars  == <<now, level, edgeAt, edges>>
addVars  == <<add, added, wins, adds, failures>>
sayVars  == <<said, saidAt, gap, wrongPin>>
gpioVars == <<pinVars, s_inputs, handler, listens, latched, addVars, isr, sayVars>>

Idle(r) == r.at = "idle"
NoCall  == [at |-> "idle", pin |-> NoPin, slot |-> 0]

GpioInit ==
  /\ now = Debounce /\ level \in [Pins -> {0, 1}] /\ edgeAt = [p \in Pins |-> 0] /\ edges = 0
  /\ s_inputs = [s \in Slots |-> [pin |-> NoPin, last |-> 0, registered |-> FALSE]]
  /\ handler = [p \in Pins |-> 0] /\ listens = {} /\ latched = {}
  /\ add = NoCall /\ added = {} /\ wins = 0 /\ adds = 0 /\ failures = 0
  /\ isr = NoCall
  /\ said = [s \in Slots |-> 2] /\ saidAt = [s \in Slots |-> 0] /\ gap = MaxTime /\ wrongPin = FALSE

-----------------------------------------------------------------------------
(* The world: time passes, a pin changes.                                  *)
Tick ==
  /\ now < MaxTime
  /\ now' = now + 1
  /\ UNCHANGED <<level, edgeAt, edges, s_inputs, handler, listens, latched, addVars, isr, sayVars>>

Edge(p) ==
  /\ edges < MaxEdges
  /\ edges' = edges + 1
  /\ level' = [level EXCEPT ![p] = 1 - @]
  /\ edgeAt' = [edgeAt EXCEPT ![p] = now]
  /\ latched' = IF p \in listens THEN latched \cup {p} ELSE latched
  /\ UNCHANGED <<now, s_inputs, handler, listens, addVars, isr, sayVars>>

-----------------------------------------------------------------------------
(* services_gpio_init: the slots are free; the handlers stay attached.     *)
InitSlots ==
  /\ MayInitAgain /\ Idle(add)
  /\ s_inputs' = [s \in Slots |-> [s_inputs[s] EXCEPT !.registered = FALSE]]
  /\ added' = {} /\ wins' = 0
  /\ UNCHANGED <<pinVars, handler, listens, latched, add, adds, failures, isr, sayVars>>

(* services_gpio_add_input: the first free slot is filled, ...             *)
FreeFor      == {s \in Slots : ~s_inputs[s].registered}
Lowest(S) == CHOOSE s \in S : \A t \in S : s <= t

Filled(p)         == [pin |-> p, last |-> 0, registered |-> TRUE]

ClaimSlot(p) ==
  /\ Idle(add) /\ adds < MaxAdds
  /\ adds' = adds + 1
  /\ FreeFor # {}
  /\ LET s == Lowest(FreeFor) IN
       /\ s_inputs' = [s_inputs EXCEPT ![s] = Filled(p)]
       /\ add' = [at |-> "config", pin |-> p, slot |-> s]
       /\ said' = [said EXCEPT ![s] = 2] /\ saidAt' = [saidAt EXCEPT ![s] = 0]
  /\ UNCHANGED <<pinVars, handler, listens, latched, added, wins, failures, isr, gap, wrongPin>>

NoFreeSlot(p) ==
  /\ Idle(add) /\ adds < MaxAdds
  /\ adds' = adds + 1
  /\ FreeFor = {}
  /\ added' = added \ {p}
  /\ UNCHANGED <<pinVars, s_inputs, handler, listens, latched, add, wins, failures, isr, sayVars>>

(* ... given back when a call fails.                                       *)
GiveSlotBack == s_inputs' = [s_inputs EXCEPT ![add.slot].registered = FALSE]

AddFails ==
  /\ failures < MaxFailures
  /\ failures' = failures + 1
  /\ GiveSlotBack
  /\ add' = NoCall
  /\ added' = added \ {add.pin}

(* gpio_port_config: gpio_config turns the interrupt of the pin off.       *)
ConfigPin ==
  /\ add.at = "config"
  /\ \/ /\ listens' = listens \ {add.pin} /\ latched' = latched \ {add.pin}
        /\ add' = [add EXCEPT !.at = "intr"]
        /\ UNCHANGED <<s_inputs, added, failures>>
     \/ AddFails /\ UNCHANGED <<listens, latched>>
  /\ UNCHANGED <<pinVars, handler, wins, adds, isr, sayVars>>

(* gpio_port_set_intr: service, type and handler; the handler comes last.  *)
(* The driver may enable the interrupt with it.                            *)
AttachOld   == UNCHANGED handler
AttachSlot  == handler' = [handler EXCEPT ![add.pin] = add.slot]

SetIntr ==
  /\ add.at = "intr"
  /\ \/ /\ AttachSlot
        /\ listens' \in {listens, listens \cup {add.pin}}
        /\ add' = [add EXCEPT !.at = "enable"]
        /\ UNCHANGED <<s_inputs, added, failures>>
     \/ AddFails /\ UNCHANGED <<handler, listens>>
  /\ UNCHANGED <<pinVars, latched, wins, adds, isr, sayVars>>

EnableIntr ==
  /\ add.at = "enable"
  /\ listens' = listens \cup {add.pin}
  /\ added' = added \cup {add.pin} /\ wins' = wins + 1
  /\ add' = NoCall
  /\ UNCHANGED <<pinVars, s_inputs, handler, latched, adds, failures, isr, sayVars>>

-----------------------------------------------------------------------------
(* The interrupt of a pin: the latch is cleared, the handler called.       *)
TakeInterrupt(p) ==
  /\ Idle(isr) /\ p \in latched
  /\ latched' = latched \ {p}
  /\ isr' = IF handler[p] = 0 THEN NoCall ELSE [at |-> "check", pin |-> p, slot |-> handler[p]]
  /\ UNCHANGED <<pinVars, s_inputs, handler, listens, addVars, sayVars>>

(* gpio_isr_handler: is it long enough since the last one that counted?    *)
ElapsedTwice(s) == now - s_inputs[s].last >= 2 * Debounce
Elapsed(s)      == now - s_inputs[s].last >= Debounce

CheckTime ==
  /\ isr.at = "check"
  /\ IF Elapsed(isr.slot)
     THEN /\ s_inputs' = [s_inputs EXCEPT ![isr.slot].last = now]
          /\ isr' = [isr EXCEPT !.at = "report"]
     ELSE isr' = NoCall /\ UNCHANGED s_inputs
  /\ UNCHANGED <<pinVars, handler, listens, latched, addVars, sayVars>>

(* The pin of the slot is read and posted.                                 *)
Report ==
  /\ isr.at = "report"
  /\ LET s == isr.slot
         t == s_inputs[s].last
     IN /\ said' = [said EXCEPT ![s] = level[s_inputs[s].pin]]
        /\ saidAt' = [saidAt EXCEPT ![s] = t]
        /\ gap' = IF saidAt[s] # 0 /\ t - saidAt[s] < gap THEN t - saidAt[s] ELSE gap
        /\ wrongPin' = (wrongPin \/ s_inputs[s].pin # isr.pin)
  /\ isr' = NoCall
  /\ UNCHANGED <<pinVars, s_inputs, handler, listens, latched, addVars>>

GpioNext == \/ Tick \/ \E p \in Pins : Edge(p)
            \/ InitSlots \/ \E p \in Pins : ClaimSlot(p) \/ NoFreeSlot(p)
            \/ ConfigPin \/ SetIntr \/ EnableIntr
            \/ \E p \in Pins : TakeInterrupt(p)
            \/ CheckTime \/ Report

GpioSpec == GpioInit /\ [][GpioNext]_gpioVars

-----------------------------------------------------------------------------
GpioTypeOK ==
  /\ level \in [Pins -> {0, 1}]
  /\ handler \in [Pins -> Slots \cup {0}]
  /\ latched \subseteq listens /\ listens \cup added \subseteq Pins
  /\ add.at \in {"idle", "config", "intr", "enable"} /\ isr.at \in {"idle", "check", "report"}
  /\ ~Idle(add) => s_inputs[add.slot].registered /\ s_inputs[add.slot].pin = add.pin

(* Bounces are kept apart: two reports of an input are never closer than   *)
(* the debounce time, whatever was latched while the handler ran.          *)
ReportsApart == gap >= Debounce

(* What is reported lags behind the pin only when the pin's last change    *)
(* came within the debounce time of a report.  (It then lags for good, see *)
(* StableLevelIsReported.)                                                 *)
Lags(p) == LET s == handler[p] IN
             /\ s # 0 /\ p \in listens \ latched /\ isr.pin # p
             /\ said[s] # 2 /\ said[s] # level[p]
LagsOnlyAfterBounce == \A p \in Pins : Lags(p) => edgeAt[p] < saidAt[handler[p]] + Debounce

(* Every report names the pin that changed, although slots are handed out  *)
(* and given back while handlers are attached.                             *)
NamesTheRightPin == ~wrongPin

(* An input whose last add succeeded is listened to, with a slot of its    *)
(* own that holds its settings, whatever calls failed in between.          *)
AddedIsWatched ==
  \A p \in added : add.pin # p =>
    /\ p \in listens /\ handler[p] # 0
    /\ s_inputs[handler[p]].registered /\ s_inputs[handler[p]].pin = p

(* A failed add uses up no slot: one slot is taken per add that succeeded, *)
(* and one by the call under way.                                          *)
SlotsAreUsed ==
  Cardinality(Slots \ FreeFor) = wins + (IF Idle(add) THEN 0 ELSE 1)

(* core_ev_schema.h:42: EV_GPIO_INPUT says that an input changed.  A pin   *)
(* that is stable for longer than the debounce time was reported as it is. *)
StableLevelIsReported == \A p \in Pins : now > edgeAt[p] + Debounce => ~Lags(p)
=============================================================================
