------------------------------ MODULE LcdDriver ------------------------------
(***************************************************************************)
(* drivers__lcd1602rgb_dfr_async over services__i2c: a state machine that  *)
(* initialises a display and sends it a frame buffer, one I2C request per  *)
(* step.  step() runs in the driver's task, for every I2C event and every  *)
(* tick of its delay timer, and in the application's task, inside          *)
(* lcd1602rgb_request_flush; nothing locks the state they share.  So a     *)
(* step is cut into what it does up to its submit and what it does after.  *)
(* On a chip with one core (the ESP32-C6) the application's task, of lower *)
(* priority, runs only while the driver's waits for an event; with two     *)
(* (the ESP32-S3) they run side by side.  The schedule "locked" is what a  *)
(* lock around request_flush and step would give: it tells the faults of   *)
(* that race from the others.                                              *)
(*                                                                         *)
(* A text is the number of the draw that made it (0: blank); a row is sent *)
(* in Chunks requests.  The panel keeps what the requests write: data goes *)
(* where the address counter stands, and beyond the end of a row out of    *)
(* sight.                                                                  *)
(***************************************************************************)
EXTENDS I2cService, Integers

CONSTANTS
  Rows,        (* LCD_ROWS                                                 *)
  Chunks,      (* LCD_COLS / LCD_BURST                                     *)
  Pause,       (* CONFIG_APP_LCD_INTERCHUNK_DELAY_MS > 0                   *)
  InitSteps,   (* number of commands of the initialisation                 *)
  RgbWrites,   (* register writes of rgb_set and rgb_init; 0: no RGB       *)
  EvDepth,     (* the depth of the driver's event queue                    *)
  Schedule,    (* how the two tasks share the processor                    *)
  MaxDraws,    (* bound: number of draws, the welcome not counted          *)
  MaxFails     (* bound: number of failed transactions                     *)

ASSUME LcdAssumption ==
  /\ Rows \in Nat \ {0} /\ Chunks \in Nat \ {0} /\ InitSteps \in Nat \ {0}
  /\ RgbWrites \in Nat /\ EvDepth \in Nat \ {0}
  /\ MaxDraws \in Nat /\ MaxFails \in Nat
  /\ Pause \in BOOLEAN /\ Schedule \in {"two_cores", "one_core", "locked"}
  /\ NoReq \notin [kind : {"init", "rgb", "addr", "data"}, n : Nat]

VARIABLES
  st,      (* s_st                                                         *)
  row,     (* s_row                                                        *)
  sent,    (* s_sent_in_row, in chunks                                     *)
  dirty,   (* s_dirty                                                      *)
  idx,     (* idx of lcd_init_next_step                                    *)
  fb,      (* s_fb: row -> text                                            *)
  evq,     (* the driver's queue                                           *)
  delay,   (* the one-shot s_delay is running                              *)
  at,      (* task -> where it is: "drv" the driver's, "app" the caller's  *)
  panel,   (* [init, row, pos, text]: commands of the initialisation that  *)
           (* the worker is done with, address counter, contents           *)
  began,   (* EV_SYS_START was posted                                      *)
  news,    (* EV_LCD_READY waits for the application                       *)
  greeted, (* first_ready of app_demo_lcd_task                             *)
  draws,   (* number of draws so far, the welcome among them               *)
  asked,   (* history: what fb held when the last flush began              *)
  fails    (* number of failed transactions so far                         *)

fsmVars == <<st, row, sent, dirty, idx>>
appVars == <<fb, began, greeted, draws, asked>>
hwVars  == <<panel, fails>>
vars == <<fsmVars, i2cVars, evq, delay, at, news, hwVars, appVars>>

RowIds   == 0 .. Rows - 1
ChunkIds == 0 .. Chunks - 1
Tasks    == {"drv", "app"}

(* The text of no draw. *)
Junk == MaxDraws + 2

(* An I2C request of the driver; n: the text, the row or the command. *)
Req(k, n) == [kind |-> k, n |-> n]
RgbReqs == [k \in 1 .. RgbWrites |-> Req("rgb", 0)]

(* What a broadcast leaves in the driver's queue. *)
WithEvent(q, e) == IF Len(q) < EvDepth THEN Append(q, e) ELSE q

(* When a task may go on. *)
AppTurn ==
  /\ Schedule # "two_cores" => at["drv"] = "free"
  /\ Schedule = "one_core" => evq = <<>>
DrvTurn == Schedule = "locked" => at["app"] \in {"free", "drawn", "greeting", "ask"}

Goto(t, l)  == at' = [at EXCEPT ![t] = l]
Return(t)   == Goto(t, "free")

LcdInit ==
  /\ I2cInit
  /\ st = "idle" /\ row = 0 /\ sent = 0 /\ dirty = FALSE /\ idx = 0
  /\ fb = [r \in RowIds |-> 0]
  /\ evq = <<>> /\ delay = FALSE
  /\ at = [t \in Tasks |-> "free"]
  /\ panel = [init |-> 0, row |-> 0, pos |-> 0,
              text |-> [r \in RowIds |-> [c \in ChunkIds |-> 0]]]
  /\ began = FALSE /\ news = FALSE /\ greeted = FALSE /\ draws = 0 /\ fails = 0
  /\ asked = fb

-----------------------------------------------------------------------------
(* step(), by state.                                                       *)
StepNothing(t) ==
  /\ at[t] = "step" /\ st \in {"idle", "ready"}
  /\ Return(t)
  /\ UNCHANGED <<fsmVars, i2cVars, evq, delay, news, hwVars, appVars>>

(* ST_RGB_INIT: the writes stop at the first that finds no room.           *)
StepRgbInit(t) ==
  /\ at[t] = "step" /\ st = "rgb_init"
  /\ SubmitThoseThatFit(RgbReqs)
  /\ Goto(t, IF Len(reqs) + RgbWrites <= I2cDepth THEN "rgb_sent" ELSE "free")
  /\ UNCHANGED <<fsmVars, evq, delay, news, hwVars, appVars>>

RgbSent(t) ==
  /\ at[t] = "rgb_sent"
  /\ st' = "lcd_init"
  /\ delay' = TRUE
  /\ Return(t)
  /\ UNCHANGED <<row, sent, dirty, idx, i2cVars, evq, news, hwVars, appVars>>

(* ST_LCD_INIT: the next command, if the submit goes through.              *)
StepInitCmd(t) ==
  /\ at[t] = "step" /\ st = "lcd_init" /\ idx < InitSteps
  /\ IF CanSubmit
     THEN Submit(Req("init", idx)) /\ idx' = idx + 1 /\ Goto(t, "init_sent")
     ELSE Return(t) /\ UNCHANGED <<idx, i2cVars>>
  /\ UNCHANGED <<st, row, sent, dirty, evq, delay, news, hwVars, appVars>>

InitSent(t) ==
  /\ at[t] = "init_sent"
  /\ delay' = TRUE
  /\ Return(t)
  /\ UNCHANGED <<fsmVars, i2cVars, evq, news, hwVars, appVars>>

StepInitDone(t) ==
  /\ at[t] = "step" /\ st = "lcd_init" /\ idx = InitSteps
  /\ idx' = 0
  /\ st' = "ready"
  /\ news' = TRUE
  /\ evq' = WithEvent(evq, "ready")
  /\ Return(t)
  /\ UNCHANGED <<row, sent, dirty, i2cVars, delay, hwVars, appVars>>

(* ST_LCD_FLUSH_POS: the address of the row, and only then the new state.  *)
RowAddr(r) == IF r = 0 THEN 0 ELSE 1

StepPos(t) ==
  /\ at[t] = "step" /\ st = "pos"
  /\ sent' = 0
  /\ IF CanSubmit
     THEN Submit(Req("addr", RowAddr(row))) /\ Goto(t, "pos_sent")
     ELSE Return(t) /\ UNCHANGED i2cVars
  /\ UNCHANGED <<st, row, dirty, idx, evq, delay, news, hwVars, appVars>>

PosSent(t) ==
  /\ at[t] = "pos_sent"
  /\ st' = "data"
  /\ Return(t)
  /\ UNCHANGED <<row, sent, dirty, idx, i2cVars, evq, delay, news, hwVars, appVars>>

(* ST_LCD_FLUSH_DATA: the next chunk of the row.  What is left is unsigned: *)
(* past the end of the row it is huge, and a chunk of what lies there goes  *)
(* out.                                                                     *)
ChunkAt(r, n) == IF n < Chunks THEN fb[r] ELSE Junk

StepData(t) ==
  /\ at[t] = "step" /\ st = "data"
  /\ st' = IF row >= Rows THEN "idle" ELSE st
  /\ IF row >= Rows THEN Return(t) /\ UNCHANGED i2cVars
     ELSE IF sent = Chunks THEN Goto(t, "row_sent") /\ UNCHANGED i2cVars
     ELSE IF CanSubmit THEN Submit(Req("data", ChunkAt(row, sent))) /\ Goto(t, "data_sent")
     ELSE Return(t) /\ UNCHANGED i2cVars
  /\ UNCHANGED <<row, sent, dirty, idx, evq, delay, news, hwVars, appVars>>

DataSent(t) ==
  /\ at[t] \in {"data_sent", "row_sent"}
  /\ LET n == IF at[t] = "data_sent" THEN sent + 1 ELSE sent IN
       /\ sent' = n
       /\ IF n < Chunks
          THEN /\ delay' = (delay \/ Pause)
               /\ Return(t)
               /\ UNCHANGED <<row, st>>
          ELSE /\ row' = row + 1
               /\ st' = IF row + 1 >= Rows THEN "idle" ELSE "pos"
               /\ Goto(t, IF row + 1 >= Rows THEN "flushed" ELSE "free")
               /\ UNCHANGED delay
  /\ UNCHANGED <<dirty, idx, i2cVars, evq, news, hwVars, appVars>>

Flushed(t) ==
  /\ at[t] = "flushed"
  /\ dirty' = FALSE
  /\ evq' = WithEvent(evq, "tick")
  /\ Return(t)
  /\ UNCHANGED <<st, row, sent, idx, i2cVars, delay, news, hwVars, appVars>>

Step(t) ==
  \/ StepNothing(t) \/ StepRgbInit(t) \/ RgbSent(t)
  \/ StepInitCmd(t) \/ InitSent(t) \/ StepInitDone(t)
  \/ StepPos(t) \/ PosSent(t)
  \/ StepData(t) \/ DataSent(t) \/ Flushed(t)

-----------------------------------------------------------------------------
(* task_ev: an event that steps the state machine, whatever it is in.      *)
StepsOnSuccess(e) == e \in {"start", "done"}
StepsOn(e)        == e \in {"start", "done", "error", "tick"}

DrvReceive ==
  /\ DrvTurn /\ at["drv"] = "free" /\ evq # <<>>
  /\ evq' = Tail(evq)
  /\ st' = IF Head(evq) = "start" THEN "rgb_init" ELSE st
  /\ IF Head(evq) = "ready" THEN SubmitThoseThatFit(RgbReqs) ELSE UNCHANGED i2cVars
  /\ IF StepsOn(Head(evq)) THEN Goto("drv", "step") ELSE UNCHANGED at
  /\ UNCHANGED <<row, sent, dirty, idx, delay, news, hwVars, appVars>>

(* after_delay_cb, in the esp_timer task.                                  *)
DelayOver ==
  /\ delay
  /\ delay' = FALSE
  /\ evq' = WithEvent(evq, "tick")
  /\ UNCHANGED <<fsmVars, i2cVars, at, news, hwVars, appVars>>

-----------------------------------------------------------------------------
(* The panel carries out a request.                                        *)
PanelAfter(r) ==
  CASE r.kind = "init" -> [panel EXCEPT !.init = r.n + 1]
    [] r.kind = "addr" -> [panel EXCEPT !.row = r.n, !.pos = 0]
    [] r.kind = "data" -> [panel EXCEPT !.pos = @ + 1,
                             !.text = IF panel.pos < Chunks
                                      THEN [@ EXCEPT ![panel.row][panel.pos] = r.n] ELSE @]
    [] OTHER -> panel

(* The worker's event steps the driver, DONE and ERROR alike.              *)
I2cTake == WorkerTake /\ UNCHANGED <<fsmVars, evq, delay, at, news, hwVars, appVars>>

I2cDone ==
  /\ WorkerDone
  /\ panel' = PanelAfter(busy)
  /\ evq' = WithEvent(evq, "done")
  /\ UNCHANGED <<fsmVars, delay, at, news, fails, appVars>>

I2cError ==
  /\ fails < MaxFails
  /\ WorkerDone
  /\ fails' = fails + 1
  /\ panel' = IF busy.kind = "init" THEN [panel EXCEPT !.init = busy.n + 1] ELSE panel
  /\ evq' = WithEvent(evq, "error")
  /\ UNCHANGED <<fsmVars, delay, at, news, appVars>>

-----------------------------------------------------------------------------
(* The application: EV_SYS_START once; a welcome on both rows for the      *)
(* first EV_LCD_READY, a row for a log line or a temperature, which come   *)
(* at any time.                                                            *)
AppFree == AppTurn /\ at["app"] = "free" /\ began

AppStart ==
  /\ ~began
  /\ began' = TRUE
  /\ evq' = WithEvent(evq, "start")
  /\ UNCHANGED <<fsmVars, i2cVars, delay, at, news, hwVars, fb, greeted, draws, asked>>

AppWelcome ==
  /\ AppFree /\ news
  /\ news' = FALSE
  /\ IF greeted THEN UNCHANGED <<fb, greeted, draws, at>>
     ELSE /\ greeted' = TRUE
          /\ draws' = draws + 1
          /\ fb' = [r \in RowIds |-> draws + 1]
          /\ Goto("app", "greeting")
  /\ UNCHANGED <<fsmVars, i2cVars, evq, delay, hwVars, began, asked>>

Draw(r) ==
  /\ AppFree /\ draws < MaxDraws + (IF greeted THEN 1 ELSE 0)
  /\ draws' = draws + 1
  /\ fb' = [fb EXCEPT ![r] = draws + 1]
  /\ Goto("app", "drawn")
  /\ UNCHANGED <<fsmVars, i2cVars, evq, delay, news, hwVars, began, greeted, asked>>

(* The end of lcd1602rgb_draw_text; the welcome then sets the colour.      *)
SetDirty ==
  /\ AppTurn /\ at["app"] \in {"drawn", "greeting"}
  /\ dirty' = TRUE
  /\ IF at["app"] = "greeting" THEN SubmitThoseThatFit(RgbReqs) ELSE UNCHANGED i2cVars
  /\ Goto("app", "ask")
  /\ UNCHANGED <<st, row, sent, idx, evq, delay, news, hwVars, appVars>>

(* lcd1602rgb_request_flush: the checks, the start.                        *)
MayFlushAny == dirty
MayFlush    == dirty /\ st \in {"idle", "ready"}

AskFlush ==
  /\ AppTurn /\ at["app"] = "ask"
  /\ Goto("app", IF MayFlush THEN "begin" ELSE "free")
  /\ UNCHANGED <<fsmVars, i2cVars, evq, delay, news, hwVars, appVars>>

BeginFlush ==
  /\ AppTurn /\ at["app"] = "begin"
  /\ row' = 0 /\ sent' = 0 /\ st' = "pos"
  /\ asked' = fb
  /\ Goto("app", "step")
  /\ UNCHANGED <<dirty, idx, i2cVars, evq, delay, news, hwVars, fb, began, greeted, draws>>

AppStep == SetDirty \/ AskFlush \/ BeginFlush \/ (AppTurn /\ Step("app"))
DrvStep == DrvReceive \/ Step("drv")
I2cStep == I2cTake \/ I2cDone \/ I2cError

(* Nothing is under way. *)
Settled ==
  /\ began /\ evq = <<>> /\ ~delay /\ reqs = <<>> /\ busy = NoReq /\ ~news
  /\ \A t \in Tasks : at[t] = "free"
Resting == Settled /\ UNCHANGED vars

LcdNext ==
  \/ AppStart \/ AppWelcome \/ (\E r \in RowIds : Draw(r)) \/ AppStep
  \/ DrvStep \/ I2cStep \/ DelayOver
  \/ Resting

LcdSpec == LcdInit /\ [][LcdNext]_vars

(* FreeRTOS runs every ready task in the end; a one-shot expires.          *)
FairLcdSpec ==
  /\ LcdSpec
  /\ WF_vars(AppStart) /\ WF_vars(AppWelcome) /\ WF_vars(AppStep) /\ WF_vars(DrvStep)
  /\ WF_vars(I2cStep) /\ WF_vars(DelayOver)

-----------------------------------------------------------------------------
(* With two tasks in a step at once, the row and the chunk may go one past *)
(* their ends.                                                             *)
LcdTypeOK ==
  /\ st \in {"idle", "rgb_init", "lcd_init", "ready", "pos", "data"}
  /\ row \in 0 .. Rows + 1 /\ sent \in 0 .. Chunks + 1
  /\ idx \in 0 .. InitSteps
  /\ {dirty, delay, began, news, greeted} \subseteq BOOLEAN
  /\ fb \in [RowIds -> 0 .. MaxDraws + 1]
  /\ Len(evq) <= EvDepth /\ Len(reqs) <= I2cDepth
  /\ panel.row \in RowIds
  /\ draws \in 0 .. MaxDraws + 1 /\ fails \in 0 .. MaxFails

(* Text goes to the display only after its whole initialisation, whichever *)
(* task steps the state machine and whatever stepped it.                   *)
TextAfterInit == busy # NoReq /\ busy.kind \in {"addr", "data"} => panel.init = InitSteps

(* An initialisation command is sent only after the delay the previous one *)
(* needs (the header of the driver: delays only through the one-shot).     *)
InitWaits == [][idx' = idx + 1 => ~delay]_vars

(* However the delays, the I2C events and failed transactions are ordered,  *)
(* and whatever the application draws meanwhile, the initialisation comes   *)
(* to its end and the application greets.                                   *)
GreetingComes == began ~> greeted

(* A flush always comes to its end.                                        *)
Flushing  == st \in {"pos", "data"}
FlushEnds == Flushing ~> ~Flushing

(* What was drawn, and asked to be flushed, is on the display when         *)
(* everything has come to rest.                                            *)
OnDisplay == \A r \in RowIds, c \in ChunkIds : panel.text[r][c] = fb[r]
SettledShowsFrame == Settled /\ greeted => OnDisplay

(* At rest the display shows, in each place, what was there when the last  *)
(* flush began or was drawn since: never something older, never nothing.   *)
(* (No transaction failed: a failed one is not repeated.)                  *)
RestShowsFlushed ==
  Settled /\ fails = 0 => \A r \in RowIds, c \in ChunkIds : panel.text[r][c] \in asked[r] .. fb[r]
=============================================================================
