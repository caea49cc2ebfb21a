# Formal model of the event-driven ESP32 firmware

TLA+ modules, TLC configurations and TLAPS proofs for the firmware under
`firmware/components` of this repository: a lease pool, an event bus, a timer
service, a lock-free log stream, an asynchronous I2C service, the drivers and
services built on them, and the ports below that have a protocol of their own. File names below are relative to
`firmware/components` unless they start with `projects`.

Run everything from this directory: `tlc -config X.cfg M.tla` for a run,
`tlapm M.tla` with one of the modules `*Proofs` or `NumberFacts` for the proofs. The module of each configuration
is in the tables below.

## 1. Inventory

### Components, their state and their operations

| Component | State | Operations | Talks to |
|---|---|---|---|
| `core__leasepool` | slots with generation, reference count, length, buffer; a LIFO free list; counters; in the guard build magics, canaries, poison | `lp_init`, `lp_alloc_try`, `lp_acquire`, `lp_commit`, `lp_addref_n`, `lp_release`, `lp_reset_stats`, `lp_check` | called by every producer and consumer of a lease, and by the bus |
| `core__ev` | subscriber table (never shrinks), one FreeRTOS queue per subscriber, per-event counters, the event schema | `ev_init`, `ev_subscribe`, `ev_unsubscribe`, `ev_post`, `ev_post_lease`, `ev_post_from_isr`, `ev_reset_stats` | all services; retains and releases leases |
| `services__timer` | a table of deadlines, one esp_timer one-shot, a mutex | `start`, `stop`, `arm_once_us`, `arm_periodic_us`, `cancel`, `timer_cb_` | posts to the bus from the esp_timer task |
| `core__spsc_ring`, `infra_log_stream` | two word counters, a byte buffer | reserve, commit, peek, consume; `write_all` | producer: the log bus, consumer: the LCD task |
| `app__log_bus` | a line accumulator under a spinlock | the vprintf hook | writes the stream, posts `EV_LOG_READY` |
| `app__demo_lcd` | its queue, the tail of a line, `first_ready` | the LCD task | drains the stream, draws, asks for flushes |
| `infrastructure__logging` | a circular RAM log | `log_write`, `logrb stat/dump/tail/clear`, other console commands | console |
| `services__i2c` | a bounded request queue, a worker, per request a node and two staging buffers | `services_i2c_start`, `services_i2c_submit`, the worker | posts `EV_I2C_DONE`/`EV_I2C_ERROR` |
| `drivers__lcd1602rgb_dfr_async` | state machine, frame buffer, delay timer | `step`, `request_flush`, `draw_text`, `task_ev`, `after_delay_cb` | submits to I2C, stepped by events |
| `services__ds18b20_ev` | a four-state machine, a periodic and a one-shot esp_timer | two callbacks, `process_sm`, `ds18_task` | posts ticks to itself, publishes leases |
| `infrastructure__gpio_onewire` | none between transfers | reset, write byte, read byte, CRC | called by the thermometer's state machine |
| `services__uart` | a queue set over the driver's event queue and a subscription; the driver's ring and pattern positions | `services_uart_start`, the worker | receive interrupt; leases both ways |
| `services__led`, `infrastructure__idf_led_strip` | a strip, a queue, a task | `services_led_start`, `led_task` | commands from the console over the bus |
| `services__internal_temp`, `infrastructure__idf_internal_temp` | a sensor, a queue, a task, a periodic esp_timer | start, stop, the callback, the worker | posts `EV_SYS_TEMP_UPDATE` |
| `services__gpio`, `infrastructure__idf_gpio_port` | slots with pin and time of the last report | `services_gpio_init`, `add_input`, the interrupt handler | posts from the interrupt |
| `infrastructure__idf_i2c_port` | the lines of the bus | recovery at creation, probe, transfers | under `services__i2c`; probes from the LCD application |
| `projects/demo_lcd_rgb`, `infrastructure__idf_nvs_port` | counters in flash | `check_reset_reason`, `run_diamond_nvs_test`, starts | before every service |
| SPI, watchdog and clock ports, `ports`, `demo_hello_ev` | none | one ESP-IDF call each | not modelled, see section 8 |

### What is hard here

* **Posts are not atomic.** The bus copies the subscriber table in a critical
  section and visits the copy without one; a lease gets a reference per
  subscriber before each send and gives it back when the queue is full.
* **Leases end by protocol.** Each message with a lease is a debt of one
  `lp_release`; who owes it changes hands with every queue operation.
* **Clocks are read before locks.** The timer service and its callback compute
  with a time read before they held the mutex, and post after they gave it up.
* **Two tasks run one state machine.** `lcd1602rgb_request_flush` calls
  `step()` in the application's task.
* **Wake-ups can be lost.** Doorbells and ticks are ordinary events in bounded
  queues: a full queue drops them.
* **Starts fail half-way.** A service takes a device, a queue, an entry of the
  subscriber table, a task and a timer in turn; each may fail, the call may be
  made again, and posts hold copies of the table meanwhile.
* **The hardware does not wait.** Receive interrupts move data between two
  steps of a worker, pin edges are latched while their handler runs, samples of
  the 1-Wire bus come late, a reset finds an I2C slave in the middle of a byte
  or the flash between a write and its commit.
* **Boundaries.** 16-bit generations and 32-bit ring indices wrap; queues, the
  subscriber table and the pool run full.

`PROJECT.json` lists each of these at its line, with the property that would
notice it going wrong or the reason there is none.

### What makes each component correct

* Pool: the free stack is exactly the free slots, once each; an old handle is
  refused; the guard build aborts only on a client's mistake.
* Bus: references equal debts at every step, a lease a reader holds is intact,
  every slot comes back, posts of one poster keep their order, counters add up.
* Timer: the alarm guards the earliest deadline; one event per deadline, on the
  grid of the period; a token names one timer; a one-shot ends.
* Stream: producer and consumer never touch the same bytes; it is a FIFO; lines
  arrive whole and are shown in the end.
* LCD: nothing is written before the initialisation is over, the
  initialisation ends, a flush ends.
* Thermometer: one tick at a time, no early read, nothing but a refused tick
  that stops the machine, every reading published; an accepted temperature is the sensor's.
* I2C requests: every block is owned by one request and freed once, the event for
  every accepted request is posted, in order.
* UART: frames end at the pattern, no byte waits unannounced, requests are
  written in the end. LED: a failed start leaves nothing behind, a queued colour
  is shown. Chip temperature: while the timer runs, readings go on.
* GPIO: the last report differs from the pin only after a bounce; an input
  that was added is watched. I2C recovery: a slave that acknowledged lets go.
* Flash counters: each boot counts once or not at all, wherever the reset came,
  and the application comes up.
* Schema: every event of a table that passes the self-test can be posted, by the
  calls for its kind and no other.

## 2. Modules

    ByteFifo                 abstract: a bounded FIFO of bytes
      ^ refined by
    SpscRing --------------> LogStream        the log pipeline (app__log_bus, LCD task)
    LeasePool -> LeaseHandles                 the pool; the pool with the history of its handles
    LeasePool -> EventBus -> Ds18Service      bus over pool; thermometer service over bus
    DeadlineSet              abstract: timers with deadlines on one clock
      ^ refined by
    TimerService
    I2cService -> LcdDriver                   display driver over the I2C worker
    UartService, LedService, I2cRequests, TempService -> Services
    GpioService, I2cBus, OneWire, BootCounters, LogRing, EvSchema -> BoardParts

    proofs:
    LeasePool, EventBus -> BusProofs -> BusLeaseProofs (with LeaseHandles)
    BusProofs, Ds18Service, OneWire -> Ds18Proofs
    TimerService -> TimerProofs               LogStream -> LogStreamProofs
    Services -> ServicesProofs
    BoardParts, LcdDriver -> BoardProofs
    NumberFacts: remainders, least and greatest elements, sets closed under + 1; used by all but
    BusProofs

(`A -> B`: B EXTENDS A.) `MC*` modules only give constants values; those of
Services and BoardParts are at the top of these two modules or in `MCEvSchema`.

**Services and BoardParts** put modules that share no variable into one
specification. Their bus and pool are each module's own abstraction (a queue that
other events may fill, an allocation that may fail), so that running two of them
side by side would only multiply states and allow no new behaviour of either. A
behaviour therefore picks the one it follows (`service`, `part`) in its initial
state; the others keep their initial state. `TaskRuns` and `OthersRun` are the
fairness of the module that is followed, and its properties hold trivially in
the behaviours of the others.

**LeasePool.** Each API call is one critical section of `s_mux` and one action,
for any handle and argument. A refusal is a step that changes what the code
changes (a counter, the guard's abort). Buffers hold one payload or a poison
pattern. Canaries are left out: no code in the repository writes past a
buffer's end. **LeaseHandles** adds which serial number of allocation each
handle was issued for, to say what "stale" means.

**EventBus.** A post is a small program: begin (snapshot), one action per queue
of the snapshot (send, or overwrite of a mailbox), for leases retain / send /
undo, own release, accounting. Readers receive, open and close views. `job[p]`
is the local state of a post. `Isrs` are posters that are interrupt handlers;
they interleave as tasks of another core would. Events are model values with
kind and QoS as in the schema; `SchemaSelftest` is what
`ev_schema_selftest_or_abort_` accepts. `from`, `seq`, `pay`, `gone` are history.

**TimerService / DeadlineSet.** `CallArm`/`CallCancel` read the clock; `Arm`,
`CancelHit`, `CancelMiss`, `ArmRefused` are the part under the mutex. The callback
is `CbExpire` (the alarm goes off), `CbEnter` (reads the clock), `CbLocked`
(collects under the mutex), `CbPost` (one per event), `CbReturn`.
`esp_timer_start_once` may fail (`StartFails`). History: `tokens`, `ended`,
`fired`, `refused`. `DeadlineSet` knows no table, token, alarm or mutex: what has
passed is collected at once, what is collected is posted once, periodic timers go
on with the first point of their grid to come. `KeepsDeadlines` maps `pending` to
the active slots, `owed` to what the callback has collected, `posted` to `fired`.

**SpscRing / ByteFifo.** Reserve, copy, commit, peek, read and consume are
separate steps with word-wide wrapping indices. The acquire and release
accesses are taken as sequentially consistent: each side writes one index only
and reads the other's once per operation, which is the case the C11 ordering
in the code covers. `RingIsFifo` says `SpscRing` implements `ByteFifo` under
`fifo <- the bytes committed and not read`.

**LogStream.** Writers hold `s_log_mux` from `LogCall` to `LogReturn`; the ring
steps in between interleave with the LCD task's. The queue of that task is
`door`, shared with other events of the bus, as many as come; when it is full, or
the task has not subscribed yet, a doorbell is swallowed (`missed` remembers whether
the last one was, with nobody awake). `'\r'` and formatting are left out.

**LogRing.** Enter, one step per byte and leave for a logging task;
`stat`, then `dump` or `tail`, are two critical sections of the console. The
task that is inside the spinlock is state (`inside`), so that what the lock
gives is a property and not an assumption about step size.

**EvSchema.** A table of events, the self-test that `ev_init` runs over it, the
guards of the three post calls, the counters by place in the table, and `evstat`.
The instance takes the 23 rows of `core_ev_schema.h` with every post of this
repository, and beside it every table of two rows over small sets, so that the
self-test is judged by what the guards later refuse.

**I2cService / LcdDriver.** `step()` is cut into what it does up to its submit
and what it does after, because the worker's event may come in between.
`Schedule` says how the two tasks share the processor: `one_core` (ESP32-C6:
the application, of lower priority, runs only while the driver waits),
`two_cores` (ESP32-S3), or `locked`, which is not the code but what a lock
around `request_flush` and `step` would give, used to separate the faults of
that race from the rest. The panel carries out requests, so that properties
speak of what is on the display.

**Ds18Service.** EventBus with the two esp_timer callbacks, `ds18_task` and the
application's reader as posters and readers. `ReadSucceeds` allocates as
`process_sm` does; the bus steps are EventBus's own actions. `tickLost` is history: a
tick came to the full queue of the service.

**I2cRequests** is `services__i2c` in full: a submit allocates the node, the copy
of the transmit data and the staging buffer one after the other and each may
fail; blocks are named by request and kind and `heap` holds those allocated.

**UartService.** The ESP-IDF driver is modelled from its use: an interrupt takes
a chunk from the FIFO, notes the position of a pattern character, queues one
event. The queue set holds a handle per item; adding a queue that is not empty
fails, as `xQueueAddToSet` does. The service receives its own frames.

**LedService, TempService.** One action per call that may fail in the start, so
that posts, the timer and the worker come between. Devices and queues are named
by the number of the start that made them. A post copies the subscriber table
(`CopySubs`) and sends later (`Send`).

**GpioService.** The edge is latched; the handler is cut between its check of the
time and its reading of the level. The slot a handler was given, the pin that
raised the interrupt and the pin that is reported are three things.

**I2cBus.** Both lines are open-drain; `ConfigurePins` makes an output of one pin
after the other, in either order, each with whatever its latch holds; the slave (idle, sending with any byte and
any number of bits left, acknowledging, broken) reacts to each edge of SCL and
SDA. The master's steps are the pin writes of `i2c_recover_bus_`. The search for
the display's addresses follows.

**OneWire.** Each slot of a transfer is a step; a sample may be late, which reads
a 0 as 1; the wire may be unplugged or grounded between slots. `Crc8` is a fold
over bits and is computed, not assumed.

**BootCounters.** A reset may come at each step; what was set and not committed is
in the flash afterwards or not. Results the code ignores may be failures.

## 3. Runs

| Run | Module, configuration | Asks | Distinct states |
|---|---|---|---|
| leasepool | LeaseHandles, `LeasePool_mc` | do arbitrary calls keep the pool consistent and refuse old handles | 135 000 |
| eventbus_leases | MCEventBus, `EventBus_leases` | are references, leases and slots accounted for in every interleaving; do slots come back; do the pool's guards stay silent | 190 000 |
| eventbus_plain | MCEventBus, `EventBus_plain` | order and counters, with interrupts, mailboxes, resets, an unsubscription and a refused subscription | 1 100 000 |
| timer | TimerService, `TimerService_mc` | does the service implement `DeadlineSet`, liveness included; alarm and tokens, with failing starts and a stop | 288 000 |
| logstream | MCLogStream, `LogStream_mc` | is the ring a FIFO; are lines whole and in order; do they stay unshown after a swallowed doorbell only | 452 000 |
| lcd_one_core | LcdDriver, `LcdDriver_one_core` | order of initialisation and text, end of the initialisation, on one core | 586 000 |
| ds18_fsm | MCDs18Service, `Ds18Service_fsm` | one tick at a time, no early read, stuck by a refused tick alone | 394 000 |
| services | Services, `Services_mc` | frames, memory and resources over failing starts, restarts and full queues; is what was accepted answered in order and done in the end | 275 000 |
| board_parts | BoardParts, `BoardParts_mc` | bounces, hung slaves, late samples, resets, a moving ring and bad schemas | 1 136 000 |
| lcd_race | LcdDriver, `LcdDriver_race` | violated: a flush ends | |
| lcd_init | LcdDriver, `LcdDriver_init` | violated: an initialisation step waits for the delay | |
| ds18_leak | MCDs18Service, `Ds18Service_leak` | violated: every reading is published | |

What the properties of the two compositions say:

| Property | Of | Says |
|---|---|---|
| `LinesEndWithPattern` | UartService | a frame cut at a pattern position ends with the pattern, whatever interrupts came since the position was noted |
| `NoByteWaits` | UartService | bytes in the ring have an event to come or the worker at them, also when the pool was empty |
| `RequestsGetWritten` | UartService | a request in the queue of a running service is written |
| `FailureLeavesNothing` | LedService | a start that failed at any step leaves no strip, no queue and no live entry in the subscriber table |
| `QueuedGetsShown` | LedService | again and again the strip shows the last colour that found room, or a transfer failed |
| `HeapIsOwned` | I2cRequests | the allocated blocks are exactly those of the requests that are built, queued or carried out |
| `AnsweredInOrder` | I2cRequests | the events posted for a client answer its requests in the order they were accepted, one each |
| `AcceptedGetsAnswered` | I2cRequests | for every accepted request an event is posted, done or failed |
| `RunningPublishes` | TempService | while the timer runs on, publications never stop: there is always a further one |
| `LagsOnlyAfterBounce`, `AddedIsWatched` | GpioService | a report lags behind the pin only after a bounce; an added input has its interrupt and slot |
| `AckerIsFreed` | I2cBus | a slave that was acknowledging does not hold SDA when the recovery is over, and has seen the STOP if there was one |
| `AcceptedIsTrue` | OneWire | a temperature that passed presence and CRC is the one in the sensor |
| `CountsBracketed`, `AppComesUp` | BootCounters | a boot counts at most once and at least when committed; the application runs in the end |
| `EveryEventHasItsApi` | EvSchema | in a table that passed the self-test each event is found at its place, and the calls for its kind and no other accept it: `ev_post_lease` for a lease, `ev_post` and `ev_post_from_isr` for the rest |
| `RingIsLogEnd`, `ShownAsAsked` | LogRing | the ring is the end of the log; dump and tail print what was asked although it moves |

### Bounds, and why they are enough

* Pool: 2 slots, generation modulo 3, references up to 2, 3 allocations
  remembered. Generations wrap, the reference limit is hit, both slots are
  recycled; the proofs
  below cover every size, with and without the guard.
* Bus: 2 slots, generations modulo 2, three posts of leases by two posters, queues of
  depth 1 and 2 whose readers may be slow: the pool runs dry, a third lease finds a queue
  full and has that send undone, and a slot that came back is handed out again
  with generation 0, where the schema guard stops the chip (`AbortBlamesHandle` in
  `EventBus_claims` is such a post). What these posts cannot do is fill
  both queues at once, for that takes three slots: `EventBus_three` (section 6) has a plain event
  besides, which takes none, and a reader that unsubscribes.
  Plain posts: three subscribers for two entries, so that a
  subscription is refused, and one that leaves while posts are under way.
* Timer: 2 slots, 2 arms, time up to 4: a timer armed early and one armed late
  in both orders, a callback that comes late by a whole period, a slot used
  twice. Deadlines past the horizon are refused and named as a bound. A start
  failure, a stop and a restart may happen at every point.
* Log: capacity 4 with words modulo 8, so that offsets and words wrap; lines longer than the accumulator, lines in two chunks, five
  calls; a queue of two that other events fill at any time, and a subscription at
  any moment.
* LCD: 2 rows, 1 chunk per row, 2 commands, one draw besides the welcome, one
  failed transaction, an I2C queue of 2.
* Thermometer: two periods, a foreign event and a queue of one that also receives the
  service's own results: any of these fills it, so that a tick of either callback may be refused;
  one slot. `Ds18Service_stuck` has a queue of two and two foreign events; the
  properties of this run hold there too (2 972 000 states).
* UART: three interrupts with up to two characters each (a position that is
  noted, moved by an earlier read and used), slots of 4 bytes so that a batch
  does not fit (which takes three chunks), two requests and one other event in
  queues of two. LED: three calls of the start, two commands and two other
  events in a queue of two. I2C: two clients, three requests, one failure, a queue
  of two: two requests wait together behind the one at the worker, of one client or
  of both, and a full queue, a failed allocation and a failed transfer occur at every
  step; a request reads into a buffer, or does not, and sends or does not. Temperature: four starts, two stops, two failed readings.
* GPIO: two pins, two slots, two edges and two adds within six units of time, a
  debounce of two: a bounce, a second edge while the handler runs, a failed add.
  I2C recovery: bytes of 8 bits, every byte a slave may be sending and every
  number of bits left, 0 and 1 in the latch of each pin. 1-Wire: real scratchpads of 9 bytes, two late samples of
  72. Flash: three resets, one unusable flash, two failures. Log ring: capacity
  3, lines of 2, eight bytes. Schema: all tables of two rows over small sets.

### Fairness

Safety runs use none. `FairBusSpec`: each poster with a step to take and each
reader takes it in the end. Tasks block on their queues with a time limit and
feed a watchdog that resets the chip when one of them starves, and posts never
block, so a FreeRTOS task that is ready runs. `FairSpec` (timer): time passes,
the esp_timer task runs, a waiter for the mutex gets it (FreeRTOS mutexes queue
by priority with inheritance, and critical regions are short). `FairLogSpec`:
the holder of the spinlock runs with interrupts off; the LCD task is woken by
its queue. Nobody is forced to log, to subscribe or to cancel. `ServicesSpec`:
the worker of the followed service runs (same argument), posters of the LED's
events finish their posts, the temperature's esp_timer fires; nobody is forced to
start, stop, post or submit. `PartsSpec`: `app_main` runs on between resets, whose
number is bounded. `FairLcdSpec`:
the worker and the driver's task run, the one-shot expires, the application
reads its queue.

## 4. What the passing runs do not say

* The subscriber limit counts every subscription ever made: entries are cleared
  and never reused. No run claims otherwise; see `RefusedOnlyWhenFull` in section 6.
* `SlotsComeBack` holds for readers that release what they receive, and while the
  schema guard does not stop the chip. The readers of `services__led`
  (`services_led.c:84`), `services__ds18b20_ev` and `services__uart`, which drops the
  `EV_UART_FRAME` leases it publishes and receives itself (`services_uart.c:120-125`),
  do not; the run ds18_leak shows what follows.
* `PoolNeverAborts` is about the guards of the pool. The schema guard does abort on a
  correct client: `AbortBlamesHandle` in `EventBus_claims`.
* `StuckByLossAlone` says how the thermometer gets stuck, not that it does not. The code
  subscribes with depth 8 to the whole bus and drops a tick when eight messages wait:
  `NeverStuck` in `Ds18Service_stuck`.
* `LinesGetShown` and `DropIsCaughtUp` leave lines in the ring unshown after a doorbell
  that was swallowed, until a later one gets through. When the ring has no room
  for a line there is no later one: `LogStream_late`. The program starts that way, as
  `projects/demo_lcd_rgb/main/main.c:156-157` logs before the LCD task subscribes.
* `AnsweredInOrder` and `AcceptedGetsAnswered` end at the post. The bus drops the event
  when the client's queue is full (`core_ev.c:289`).
* `AckerIsFreed` says that a slave that acknowledged no longer holds SDA. When the latch
  of SCL is 0 and that of SDA 1, the fall of SCL lets it go, the code sees SDA high and
  sends no STOP: the slave is still inside its transfer (`HighMeansFree` in
  `BoardParts_claims`).
* `RunningPublishes` speaks of a timer that runs; a start may return true without one
  (`TrueMeansTicking` in `Services_claims`).
* `KeepsDeadlines` excuses starts that `esp_timer` refuses for good: the deadline
  then waits for the next call that arms the alarm.
* `TokenNamesOneTimer` speaks of one start of the service: a stop clears the
  generations, and a token from before may name a timer of after.
* `NoByteWaits` takes interrupts that find nothing behind a pattern character;
  bytes behind it wait for the next reception. A ring of 2048 bytes that
  overflows is left out.
* `FailureLeavesNothing`: the entry that a failed start cleared still counts against
  `EV_MAX_SUBS`.
* `QueuedGetsShown` is about colours that found room. `LinesEndWithPattern` says
  nothing of batches that fit no slot: they are dropped.
* `AcceptedIsTrue` is about at most three late samples (proved for three, section
  7; the run takes two); an 8-bit CRC cannot catch every combination of more.

## 5. Disagreements with the documents, shown by runs

* **lcd_race, `FlushEnds`.** `request_flush` (`lcd1602rgb_dfr_async.c:521-533`)
  tests and sets `s_st`, `s_row`, `s_sent_in_row` and steps the machine without
  a lock. The welcome's RGB writes produce I2C events that step the driver's
  task at the same time. The trace ends in FLUSH_DATA with no request and no
  timer outstanding; every later `request_flush` returns early.
* **lcd_init, `InitWaits`.** `task_ev` steps on every `EV_I2C_DONE`, so
  initialisation commands follow each other as fast as the bus allows. The
  comment in the driver's header says that delays come through the one-shot
  timer only.
* **ds18_leak, `ReadingsReported`.** `ds18_task` receives its own
  `EV_DS18_READY` and does not release it. After as many readings as the pool
  has slots, `lp_alloc_try` fails and the reading is dropped without an event.

## 6. Further configurations

Larger instances (they pass) and known faults (each states one property that TLC
finds violated). They are not part of the list in `PROJECT.json`.

| Configuration | Module | Shows |
|---|---|---|
| `Services_all`, `BoardParts_all` | Services, BoardParts | pass: the instances of section 3 with the type invariant and every further property of each module |
| `LcdDriver_locked` | LcdDriver | passes: with a lock around `step`, flushes end and the display shows what was flushed |
| `EventBus_three` | MCEventBus | passes: the safety of eventbus_leases with a plain event and an unsubscription besides: a lease that finds every queue full has all its sends undone (1 319 000 states) |
| `EventBus_claims` | MCEventBus | `QuietMeansFree`: REPLACE_LAST overwrites a lease in a mailbox (`core_ev.c:286`), and the slot is lost; `RefusedOnlyWhenFull`: entries of unsubscribed queues are not reused (`core_ev.c:366-380`), so the limit of `Kconfig:3` counts every subscription made; `AbortBlamesHandle`: slot 0 with generation 0, which comes after 65536 uses of the slot, packs to 0, and `ev_post_lease` stops the chip with "invalid lease handle" although the handle is live (`core_ev.c:430`) |
| `Ds18Service_stuck` | MCDs18Service | `NeverStuck`: `timer_period_cb` leaves IDLE and then posts its tick without looking at the answer (`services_ds18b20_ev.c:69-70`); foreign events fill the queue, the tick is dropped, and the conversions that `period_ms` promises (`services_ds18b20_ev.h:29`) are over |
| `LogStream_late` | MCLogStream | `NextReadyCatchesUp`: `app_log_bus.c:34` has it that after a line dropped at a full ring the next READY lets the consumer catch up; READY is posted for written lines only, and a ring that was filled while no doorbell got through refuses them all |
| `TimerService_cancel` | TimerService | a periodic timer posts after a cancel that returned true (`services_timer.c:198`) |
| `LcdDriver_draws` | LcdDriver | a draw during a flush stays off the display: `s_dirty` is cleared (`:397`) |
| `Services_claims` | Services | `StartedMeansServed`: a start of the UART returns true and its queue never joined the set, because an event came first (`services_uart.c:174`); `DropsBlameFullPool`: a batch longer than a slot is dropped and logged as a full pool (`:46-58`); `ShowsLastAsked`: the console says the colour is set (`logging_cli.c:84`) and the full queue dropped it; `SendsToLiveQueues`: a post that copied the table sends to a deleted queue (`services_led.c:140`); `TrueMeansTicking`: a start that fails at `esp_timer_create` leaves the task, and the next call sees it and returns true (`services_internal_temp.c:93`), against lines 16-18 of its header; `ReadsLiveDevice`: the worker reads a device that stop deleted (`:136`) |
| `BoardParts_claims` | BoardParts | `FreeAfterRecovery`: a slave in the middle of a byte holds SDA again after the clocks and the STOP (`idf_i2c_port.c:34-36` says it lets go); `IdleBusLeftAlone`: configuring the pins with a latch that holds 0 pulls SDA low itself and the recovery runs on an idle bus (`:50`); `HighMeansFree`: a slave in the middle of a byte lets SDA go for each bit that is 1, and one that acknowledges may go on by the fall of SCL that configuring the pins makes; SDA reads high, which the comment at `:50` takes for a free bus, and the driver begins with that slave in mid-transfer; `StableLevelIsReported`: after a bounce the last report stays wrong although the pin is stable (`services_gpio.c:27`); `NamesTheRightPin`: a second `services_gpio_init` frees slots whose handlers are attached, and a report names another pin; `ResetResets`: `evstat --reset`, as the help at `logging_cli.c:303` has it, resets nothing; `ShowTakesSrcCode`: `evstat show SRC:CODE` of `README.md:190` is not understood |

TLC stops at the first violation. Every name in a `_claims` configuration is
violated on its own; to see the trace of one, leave only it on the `INVARIANTS` line.

## 7. Proofs

Theorems hold for every value of the constants that the named assumptions of the
modules admit (`PoolAssumption`, `BusAssumption`, `SchemaSelftest`,
`TimerAssumption`, `RingAssumption`, `LogAssumption`, and so on; TLC evaluates each of
them in the runs). The bounds of section 3, the counts of calls included, are
constants like the others, so the theorems hold with any bound. What a theorem
assumes beyond them is in its statement and in the last column.

| Module | Theorem | States | Assumes besides |
|---|---|---|---|
| BusProofs | `PoolTypes`, `PoolAlwaysChecks`, `PoolBlamesCallers`, `PoolPeak`, `PoolInvariant` | `TypeOK`, `LpCheckClean`, `NoSelfInflictedAbort`, `PeakCoversUsed`, `Inv` | |
| | `BusTypes`, `BusPool` | types; the pool's promises under the bus and any client | |
| | `PostOrder` | `InPostOrder` | |
| | `CountersAddUp` | `DeliveriesAddUp` | |
| BusLeaseProofs | `RefsAreOwed`, `LeasesStayIntact` | `RefsAccounted`, `LeasesIntact` | `LeaseClients` |
| | `PoolGuardsStaySilent` | `PoolNeverAborts` | `LeaseClients` |
| | `StaleHandlesStayDead` | `StaleHandleRejected` (the pool with its handles) | |
| Ds18Proofs | `NeverTwoTicks`, `ConversionFirst` | `OneTickAtATime`, `ReadsAfterConversion` | |
| | `OnlyLossesStop` | `StuckByLossAlone` | `Depth[ServiceQueue] > 1` |
| | `AcceptedTemperatureIsTrue` | `AcceptedIsTrue` | `MaxLate <= 3`, `SensorsAddCrc` |
| | `UndisturbedIsAccepted` | `UndisturbedSucceeds` | `SensorsAddCrc` |
| | `NothingFromSilence` | `SilenceRefused` | |
| TimerProofs | `TimerTypes`, `AlarmGuardsEarliest` | types, `EarliestGuarded` | |
| | `TokensNameOneTimer` | `TokenNamesOneTimer` | |
| | `TimerRefinesDeadlines` | `TimerService` implements the safety part of `DeadlineSet` | |
| LogStreamProofs | `RingTypes`, `RingPartsApart`, `RingWritesComplete`, `RingRefinesFifo` | of `SpscRing` with any producer and consumer: types, `PartsApart`, `WriteCompletes`, `RingIsFifo` | |
| | `LogTypes`, `LogRefinesFifo` | of the log pipeline: types, `RingIsFifo` | |
| | `LinesShownWhole` | `ShowsWholeLines` | |
| | `DropsAreCaughtUp` | `DropIsCaughtUp` | |
| ServicesProofs | `FailedStartIsUndone`, `StartedIsWhole`, `StripShowsLastQueued` | `FailureLeavesNothing`, `SuccessIsComplete`, `ShowsLastQueued` (LED) | |
| | `EveryBlockHasItsOwner`, `AnswersComeInOrder`, `ReportedDataIsThere` | `HeapIsOwned`, `AnsweredInOrder`, `DoneMeansDataThere` (I2C requests) | |
| | `LinesAreWhole`, `EveryByteIsFetched`, `RequestsWrittenInOrder`, `NoItemWithoutHandle` | `LinesEndWithPattern`, `NoByteWaits`, `RequestsInOrder`, `HandlesMatchItems` (UART) | |
| | `SensorNeverLeaks` | `SensorIsHeld` (chip temperature) | |
| | `EachServiceAsSpecified` | the composition of the run implements `UartSpec`, `LedSpec`, `ReqSpec`, `TempSpec` | |
| BoardProofs | `CountersBracketed` | `CountsBracketed` | |
| | `RingHoldsLogEnd`, `LogrbShowsAsAsked` | `RingIsLogEnd`, `ShownAsAsked` | |
| | `UpHasItsApis` | `EveryEventHasItsApi` | |
| | `RecoveryFreesAcker` | `AckerIsFreed` | |
| | `AddedStaysWatched` | `AddedIsWatched` | |
| | `LagNeedsBounce`, `ReportsNameTheirPin` | `LagsOnlyAfterBounce`, `NamesTheRightPin` | `~MayInitAgain` |
| | `TextComesAfterInit` | `TextAfterInit` | `Schedule = "one_core"` |
| | `EachPartAsSpecified` | the composition of the run implements the specifications of its six parts | |

Each proof has the same shape: an inductive invariant, a lemma that it holds
initially, one lemma or step per action that it is kept, a lemma that it implies
the property, and one temporal step.

### The assumptions

* `LeaseClients` is how leases must be used: every reader releases every lease
  event that is posted, no posted REPLACE_LAST event overwrites a mailbox of depth
  1, and `RefMax` is at least the number of parties that can hold a
  reference. The run eventbus_leases meets all three (`Frames`, `ServeAll`, nine
  parties). The readers of
  `services__led`, `services__ds18b20_ev` and `services__uart` break the first (section 4), a
  REPLACE_LAST event to a mailbox with leases the second (`QuietMeansFree` in `EventBus_claims`).
* `MaxLate <= 3`: the polynomial has four terms, so four late samples can make one
  reading that passes out of another.
* `SensorsAddCrc`: each scratchpad of the sensor carries the CRC of its eight bytes,
  which the sensor computes. The two readings of the runs do: `UndisturbedSucceeds`
  holds of them in `BoardParts_all`.
* `Depth[ServiceQueue] > 1`: `ds18_task` subscribes with a depth of 8; a mailbox would be
  overwritten.
* `Schedule = "one_core"`: on the ESP32-C6 the application's task runs only while
  the driver's has nothing to do, so it cannot start a flush before `EV_SYS_START`
  was handled. On two cores it can, and then the initialisation begins with a text
  under way.
* `~MayInitAgain`: `services_gpio_init` is called once, as the application does;
  `BoardParts_claims` shows what a second call does.

### The inductive invariants, and why they are needed

**Pool (`Inv`).** `LpCheckClean` is not inductive: that a freed slot can be pushed
needs the stack to have room. `FreeListInv` adds that the stack holds only free
slots, each once, and every free slot. A release that frees slot i: i is in use,
hence not on the stack; the stack is injective into the other NumSlots - 1 slots, so by
the pigeonhole principle it holds fewer than NumSlots entries (`RoomOnStack`).

**Bus (`TypeInv`, `OrderInv`).** `BusTypeOK` needs the shape of a post at each
program counter. `InPostOrder` needs more than the order inside a queue
(`QueueOrdered`, `HeldFirst`): a post that is about to send to a queue must not
have sent there, so no copy of the table names a queue twice (`SubsOnce`,
`RoundOnce`, which in turn needs `SubsKnown`), and a message of the post under way
lies only in queues that the post has passed (`Passed`). `DeliveriesAddUp` is an
equation between a counter and the sizes of three finite sets; each step moves one
element from one to another.

**Leases (`LeaseInv`).** `Debtors(i)` is finite and `refcnt[i]` is its size. To know
that a send adds a debtor and not one that is there already, and that an addref or
a release acts on the present generation of the slot, each job and each message
keeps the generation it holds (`JobLease`, `MailLease`) and, with `OrderInv`, is
unique. A producer that has not posted is the only debtor of its slot. `Parties`
bounds the debtors, so that the reference limit of the pool is never hit. The
proof keeps `TypeInv` and `OrderInv` alongside.

**Handles (`HandlesInv`).** `StaleHandleRejected` compares two counts of uses, of which
the pool keeps a remainder only. The generation of a slot is one more than the number of times it
was freed, modulo `GenMod` (`GensCount`); a handle carries the generation that this
count gave it (`IssuedCounted`), so an old handle that still matches is a whole
number of rounds old.

**Thermometer (`DsInv`, `Attended`).** `OneTickAtATime` counts ticks in callbacks, posts,
the queue and the task. A tick can be in one of seven places: a callback that
has not posted, the two posts that are not yet past the service's queue (`Bound`), the queue, the
task's hand, the one-shot, the task at work; `OnePlace` says that at most one of them
holds. That a new one is begun only when all seven are empty needs the state of the
machine: in IDLE nothing is under way (`Machine`), and `timer_period_cb` begins one only in
IDLE. `ReadsAfterConversion` needs the same, as a second tick in WAIT would
cut the conversion short. `OwnEvents` says that nobody but the two callbacks posts
ticks, and `OneInLine` that the queue never holds two. A dropped tick empties a
place and fills none, so this half holds whatever is lost.
For `StuckByLossAlone`, `LossKnown` says the converse: outside IDLE at least one of the
seven holds (`Attended`) exactly as long as no tick was refused. One way, a
tick sent to the queue gets in, unless it is refused, if the table
names the queue, which the copy of the post then holds too (`Known`). The other way, a
refused tick was in one place, hence the only one there was, and in a
machine that nothing attends no step begins another. Every step of the service is one of
the bus (`BusClient`), so `TypeInv` and `OrderInv` come from BusProofs.

**1-Wire (`TransferInv`).** Step by step, what an intact sensor is doing
(`SensorFollows`), and that of the bits read so far no more are wrong than samples
were late (`OnlyLateIsWrong`). The rest is about `onewire_crc8`, on every pair of readings
of 72 bits. The fold over the bits is a run of single shifts (`FoldRuns`). A
shift is linear (`DiffShifts`), so the CRC of the difference of two readings that
pass is 0 (`DifferenceRuns`). Each shift keeps the parity of the CRC plus that of the bits
shifted in, so the readings differ in an even number of bits (`ParityCounts`). Two
are excluded as 1, shifted fewer than 72 times without a 1, does not come back to 1
(`NoWayBack`), which the tables `Zeros1` to `Zeros4` show row by row; 0 is reached from
0 and 1 only (`ShiftToZero`). What remains is no difference at all (`CrcCatches`).
These inductions run over the length of a prefix; as an induction theorem with an
operator for its parameter cannot be used, they are about sets of lengths
(`SetInduction`), and that the fold exists is proved along with its value (`FoldExists`).

**Timer (`TableInv`, `TokensInv`, `NamedInv`).** `EarliestGuarded` needs that a
stopped service is bare (`StoppedIsBare`). A token stays true as the generation of
a slot counts its uses since the start modulo `TokenMod - 1`: a match means a
whole number of rounds (`FullTurns`). For the refinement, a timer's name is in one slot or in
what the callback holds, never in both, and a name to come has not been posted
for (`TimersNamed`); each step is then a step of `DeadlineSet` or a stutter.
`NextDueIs` is the fact about `periodic_next_due_`: the first point of
the grid after now.

**Ring and log (`RingInv`, `PipeInv`, `CatchUpInv`, `LinesInv`).** Words wrap modulo a multiple
of the capacity, so differences of words are the fill level and remainders of words
are the places (`Division`, `SameRemainder` and their consequences in
`NumberFacts`); `ProducerInv` says what reserve promised is still free, although
the consumer moves. A dropped line is caught up because of something stronger that does
not speak of drops: whenever the ring holds bytes, somebody is draining, rings, or will
ring, or the last doorbell was swallowed (`BytesGetOut`). That needs that the last part of
a line cannot fail half-way (`FlushInv`).
That lines are shown whole is a fact about one sequence, `Stream`: what the display
task holds of its line, what is unread in the ring, and what is still to be written,
one after the other. `HasLines` cuts it at its newlines; the pieces are the
pending lines, each by its end, which is all the task's buffer keeps
(`FirstForgotten`). A commit does not change `Stream`, so it does not matter in how many parts
a line is copied (`CommitKeepsStream`).

**Services.** `LedInv` says how much of the service exists at each step of its
start. `ReqInv` says block by block who owns it and that requests differ
(`RequestsApart`); `HeapIsOwned` as a set equation follows. `RingInv` of the UART:
every noted position points at a pattern character inside the ring, whatever was
popped, read or flushed. `CoverInv`: while no event was lost, the noted positions
match, in order, pattern events that are still to come or at the worker, and the
last event pending covers the last byte (`Noted`, `AllCovered`); reading one line
leaves the match of the others.
`ShowInv` follows the last colour that found room: it is in the queue, at the task,
or on the strip, and a word unpacks to the three bytes it was packed from.
`AnswerInv` is about one sequence, `Line`: the request at the worker and then the queue.
Those of a client that lie in it are its accepted requests without an answer
(`LineIsWaiting`, `WaitingIsInLine`), in their order (`LineInOrder`), so
the next to be answered is its first. The numbers of accepted requests rise
(`AcceptedRises`); hence a reading copied later is a later one (`DataInv`). `TxInv` says
the same of the UART's requests. `SetInv` counts the handles of a queue in the set by
their places (`Places`), as many as the queue has items; a full set would mean
more items than the two queues hold, so there is always room (`SetHasRoom`).

**Board.** `BootInv` orders what is committed, in flash and counted. `LogInv` numbers every
byte of the log and says where the last RbCap of them lie. `SchemaInv` is the
self-test of a table that does not change. `AckInv` follows the slave edge by edge.
`LagInv`: who holds which slot (`HandlersHoldSlots`), that a slot being added has
not been reported, and that the time in a slot is the time of its last report.
For the display, `FlowInv` speaks of one sequence, the request under way followed by
those that wait (`Flow`): during the initialisation it holds no text, and afterwards
the last command of the initialisation is done or ahead of every text (`Orderly`).
That the flow has no text early needs that the application's task is outside the state machine
until then (`Awake`), and that nothing at all moves before `EV_SYS_START` (`Asleep`).

### Only model-checked

* Liveness: `SlotsComeBack`, `LinesGetShown`, `GreetingComes`,
  `RequestsGetWritten`, `QueuedGetsShown`, `AcceptedGetsAnswered`,
  `RunningPublishes`, `AppComesUp`, and the fairness part of `KeepsDeadlines`.
  Its safety part is `TimerRefinesDeadlines`; that the fairness of the code gives
  the fairness of `DeadlineSet` needs ENABLED, which is out of the prover's reach.

No module declares a recursive operator: recursion is in folds and functions.

## 8. Not modelled, and why

The SPI, watchdog and clock ports and the port interfaces: one ESP-IDF call each
and no state of their own. `demo_hello_ev` is wiring. `lcd1602rgb_ev.c`, a second
task that calls the driver's functions, is started by no project.
`services_ds18_stop`, and the deletion of the timer's mutex while others wait for
it, are left out; the hazard is listed with a note. Strings and blobs in NVS,
and those console commands that only format (`loglvl`, `lpstat`, `tasks`), are not
there. Undefined behaviour met in the code (an oversized `snprintf` length used
as a length, in `logging_idf.c:116` and `app_log_bus.c:81`) is kept out of the
models by their inputs and named.

## 9. Plan

Order: first what every part rests on, then what carries messages, then the
clients, then the proofs.

1. Done: pool, bus and schema, timer with its abstract specification, ring and
   log pipeline, I2C service in both forms, LCD, RAM log, thermometer, 1-Wire
   transfer, UART, LED, chip temperature, GPIO, I2C recovery, flash counters;
   proofs of the pool.
2. Done: proofs of the pool, bus order and counters, leases, ring and log pipeline,
   timer with its refinement, LED start and colour, I2C memory, answers and readings,
   UART frames, writes and queue set, the chip's sensor, flash counters, RAM log,
   schema, I2C recovery, GPIO, stale handles, order of the display's initialisation,
   thermometer, 1-Wire transfer and its CRC; the two compositions.
3. Next proofs: the display's settled frame (`SettledShowsFrame`) under a lock.
4. Next modules: `services_ds18_stop` and a second start; the LCD event adapter as
   a third task of `LcdDriver`; a fan-out specification of the bus (each
   subscriber gets each event, or a drop is counted) refined by `EventBus`.
