----------------------------- MODULE Ds18Service -----------------------------
(***************************************************************************)
(* services__ds18b20_ev on top of EventBus, with the application of        *)
(* demo_ds18b20_ev: a thermometer state machine driven by EV_DS18_DRV_TICK *)
(* events that two esp_timer callbacks post to the service itself.         *)
(*                                                                         *)
(* The service and the application subscribe to the whole bus, so the      *)
(* service's queue also receives its own results and everybody else's      *)
(* events.  A tick that finds the queue full is dropped like any event.    *)
(*                                                                         *)
(* Three activities interleave: the esp_timer task (one callback at a      *)
(* time), the service task and another task that posts events.  Every bus  *)
(* step is the action of EventBus; the actions here say when a post begins *)
(* and what the state machine does around it.  The 1-Wire transfer         *)
(* succeeds or fails; readings have no value.                              *)
(***************************************************************************)
EXTENDS EventBus

CONSTANTS
  Period, Once,       (* the posters timer_period_cb and timer_once_cb     *)
  Service,            (* the poster ds18_task                              *)
  Other,              (* a poster that has nothing to do with the service  *)
  DrvTick, Ready, Error, Foreign,   (* the events                          *)
  ServiceQueue, AppQueue            (* the two subscriptions               *)

ASSUME DsAssumption ==
  /\ {Period, Once, Service, Other} = Posters
  /\ Period # Once /\ {Period, Once} \cap {Service, Other} = {}
  /\ {DrvTick, Ready, Error, Foreign} = Events /\ DrvTick \notin {Ready, Error, Foreign}
  /\ {ServiceQueue, AppQueue} = Queues
  /\ EvQos[DrvTick] = "DROP_NEW"
  /\ IsLease(Ready) /\ ~IsLease(DrvTick) /\ ~IsLease(Error) /\ ~IsLease(Foreign)
  /\ Serves[ServiceQueue] = {} /\ Serves[AppQueue] = {Ready}

VARIABLES
  st,          (* s_st                                                     *)
  stage,       (* where ds18_task stands in process_sm                     *)
  cb,          (* where the esp_timer task stands in a callback            *)
  shot,        (* s_t_once is armed                                        *)
  conv,        (* the sensor: no conversion, one running, one over         *)
  unreported,  (* history: a good reading led to no event at all           *)
  tickLost     (* history: the service's full queue refused a tick         *)

ownVars == <<st, stage, cb, shot, conv, unreported>>
dsVars  == <<ownVars, tickLost>>
allVars == <<vars, dsVars>>

DsInit ==
  /\ BusInit
  /\ st = "IDLE" /\ stage = "receive" /\ cb = "none" /\ shot = FALSE
  /\ conv = "none" /\ unreported = FALSE /\ tickLost = FALSE

(* services_ds18_start subscribes before it starts the periodic timer, and *)
(* app_main subscribes after that.                                         *)
ServiceStart == Subscribe(ServiceQueue) /\ UNCHANGED dsVars
AppStart     == subRes[ServiceQueue] = "ok" /\ Subscribe(AppQueue) /\ UNCHANGED dsVars

-----------------------------------------------------------------------------
(* timer_period_cb: test s_st, set it, post.                               *)
PeriodWantedEarly == st # "WAIT"
PeriodWantedAny   == TRUE
PeriodWanted      == st = "IDLE"

PeriodFires ==
  /\ subRes[ServiceQueue] = "ok"
  /\ cb = "none" /\ posted[Period] < MaxPosts[Period]
  /\ cb' = IF PeriodWanted THEN "mark" ELSE "none"
  /\ UNCHANGED <<vars, st, stage, shot, conv, unreported, tickLost>>

PeriodMarks ==
  /\ cb = "mark"
  /\ st' = "KICK" /\ cb' = "kick"
  /\ UNCHANGED <<vars, stage, shot, conv, unreported, tickLost>>

PeriodPosts ==
  /\ cb = "kick"
  /\ Post(Period, DrvTick)
  /\ cb' = "posting"
  /\ UNCHANGED <<st, stage, shot, conv, unreported, tickLost>>

(* timer_once_cb, long enough after the conversion began.                  *)
OnceFires ==
  /\ shot /\ cb = "none"
  /\ shot' = FALSE /\ cb' = "over"
  /\ conv' = IF conv = "running" THEN "over" ELSE conv
  /\ UNCHANGED <<vars, st, stage, unreported, tickLost>>

OncePosts ==
  /\ cb = "over"
  /\ Post(Once, DrvTick)
  /\ cb' = "posting"
  /\ UNCHANGED <<st, stage, shot, conv, unreported, tickLost>>

CallbackReturns ==
  /\ cb = "posting"
  /\ job[Period] = NoJob /\ job[Once] = NoJob
  /\ cb' = "none"
  /\ UNCHANGED <<vars, st, stage, shot, conv, unreported, tickLost>>

-----------------------------------------------------------------------------
(* ds18_task between two xQueueReceive: only a tick means something.  The  *)
(* service looks at no other message, its own EV_DS18_READY included.      *)
HasTick == hold[ServiceQueue] # NoMsg /\ hold[ServiceQueue].ev = DrvTick

TaskReceives == stage = "receive" /\ Receive(ServiceQueue) /\ UNCHANGED dsVars
TaskIgnores  == stage = "receive" /\ ~HasTick /\ Discard(ServiceQueue) /\ UNCHANGED dsVars

TaskDispatches ==
  /\ stage = "receive" /\ HasTick
  /\ st' = IF st = "WAIT" THEN "READ" ELSE "KICK"
  /\ stage' = IF st = "WAIT" THEN "read" ELSE "convert"
  /\ UNCHANGED <<vars, cb, shot, conv, unreported, tickLost>>

(* S_KICK_CONVERT: start a conversion, then the one-shot timer.            *)
ConvertStarts ==
  /\ stage = "convert"
  /\ conv' = "running"
  /\ st' = "WAIT" /\ stage' = "arm"
  /\ UNCHANGED <<vars, cb, shot, unreported, tickLost>>

StartOnceNot == UNCHANGED shot
StartOnce    == shot' = TRUE

ConvertArms ==
  /\ stage = "arm"
  /\ StartOnce
  /\ Discard(ServiceQueue)
  /\ stage' = "receive"
  /\ UNCHANGED <<st, cb, conv, unreported, tickLost>>

(* S_READ: a reading goes out as a lease, when the pool has one.           *)
ReadSucceeds ==
  /\ stage = "read"
  /\ Alloc(Service, Ready)
  /\ unreported' = (unreported \/ freeTop = 0)
  /\ conv' = "none"
  /\ stage' = "report"
  /\ UNCHANGED <<st, cb, shot, tickLost>>

(* The bus transfer of either state fails: EV_DS18_ERROR.                  *)
TransferFails ==
  /\ stage \in {"convert", "read"}
  /\ Post(Service, Error)
  /\ conv' = "none"
  /\ stage' = "report"
  /\ UNCHANGED <<st, cb, shot, unreported, tickLost>>

BackToIdle ==
  /\ stage = "report" /\ job[Service] = NoJob
  /\ st' = "IDLE" /\ stage' = "receive"
  /\ Discard(ServiceQueue)
  /\ UNCHANGED <<cb, shot, conv, unreported, tickLost>>

-----------------------------------------------------------------------------
(* The posts under way, the application and the rest of the system; a tick *)
(* of p that comes to the service's queue may find it full.                *)
TickRefused(p) ==
  /\ p \in {Period, Once}
  /\ AtQueue(p) /\ Head(job[p].todo) = ServiceQueue /\ ~HasRoom(ServiceQueue)

BusGoesOn ==
  \E p \in Posters : /\ Proceed(p)
                     /\ tickLost' = (tickLost \/ TickRefused(p))
                     /\ UNCHANGED ownVars
OtherPosts == Post(Other, Foreign) /\ UNCHANGED dsVars
AppReads   == ReaderStep(AppQueue) /\ UNCHANGED dsVars

(* The bounded run is over.                                                *)
RunOver == posted[Period] = MaxPosts[Period] /\ UNCHANGED allVars

DsNext ==
  \/ ServiceStart \/ AppStart
  \/ PeriodFires \/ PeriodMarks \/ PeriodPosts
  \/ OnceFires \/ OncePosts \/ CallbackReturns
  \/ TaskReceives \/ TaskIgnores \/ TaskDispatches
  \/ ConvertStarts \/ ConvertArms \/ ReadSucceeds \/ TransferFails \/ BackToIdle
  \/ BusGoesOn \/ OtherPosts \/ AppReads
  \/ RunOver

DsSpec == DsInit /\ [][DsNext]_allVars

-----------------------------------------------------------------------------
DsTypeOK ==
  /\ st \in {"IDLE", "KICK", "WAIT", "READ"}
  /\ stage \in {"receive", "convert", "arm", "read", "report"}
  /\ cb \in {"none", "mark", "kick", "over", "posting"}
  /\ shot \in BOOLEAN /\ unreported \in BOOLEAN /\ tickLost \in BOOLEAN
  /\ conv \in {"none", "running", "over"}
  /\ stage # "receive" => hold[ServiceQueue].ev = DrvTick

(* Where a tick for the service can be: in a callback that will post it,   *)
(* in a post that has not yet come to the service's queue, in the queue,   *)
(* or received and not yet acted upon.                                     *)
Bound(p) == /\ job[p] # NoJob /\ job[p].pc = "loop"
            /\ \E k \in 1 .. Len(job[p].todo) : job[p].todo[k] = ServiceQueue

Ticks ==
  {<<"callback">> : x \in {cb} \cap {"mark", "kick", "over"}}
  \cup {<<"post", p>> : p \in {p \in {Period, Once} : Bound(p)}}
  \cup {<<"queue", k>> : k \in {k \in 1 .. Len(queue[ServiceQueue]) :
                                  queue[ServiceQueue][k].ev = DrvTick}}
  \cup {<<"received">> : x \in {x \in {stage} : x = "receive" /\ HasTick}}

(* At most one tick is ever under way, and none while the one-shot that    *)
(* ends a conversion is armed: the state machine cannot be stepped twice   *)
(* for one cause, although the callbacks and the task write s_st without a *)
(* lock.                                                                   *)
OneTickAtATime == Cardinality(Ticks) + (IF shot THEN 1 ELSE 0) <= 1

(* The scratchpad is read only after the conversion had its time.          *)
ReadsAfterConversion == stage = "read" => conv = "over"

(* Outside IDLE the periodic timer does nothing; without a tick and the    *)
(* one-shot the task waits at its queue for ever.                          *)
Stuck == st # "IDLE" /\ stage = "receive" /\ Ticks = {} /\ ~shot

(* The machine gets stuck in one way only, and there at once: the queue of *)
(* the service, which subscribes to the whole bus, was full when a tick    *)
(* came (services_ds18b20_ev.c:56-71 ignore what ev_bus_post answers). No  *)
(* order of the two callbacks, the task and the posts leaves it waiting    *)
(* for a tick otherwise, and no later tick ever makes up for a lost one.   *)
StuckByLossAlone == Stuck <=> tickLost

(* period_ms says how often a conversion is made                           *)
(* (services_ds18b20_ev.h:29), so the machine is not to get stuck at all.  *)
NeverStuck == ~Stuck

(* Every good reading is published (services_ds18b20_ev.h: the client gets *)
(* EV_DS18_READY).                                                         *)
ReadingsReported == ~unreported
=============================================================================
