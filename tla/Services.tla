------------------------------- MODULE Services -------------------------------
(***************************************************************************)
(* The services that demo_lcd_rgb starts beside the timer: the UART, the   *)
(* LED, the temperature of the chip and the I2C requests.  They share no   *)
(* variable; the bus and the pool between them are each service's own      *)
(* abstraction of EventBus and LeasePool.  So a behaviour follows one of   *)
(* them, and the states of the instances add up instead of multiplying.    *)
(***************************************************************************)
EXTENDS UartService, LedService, I2cRequests, TempService

(* Interrupts that find a pattern character only at the end of the FIFO,   *)
(* and late ones that find more behind it.                                 *)
MCChunks   == {<<"x">>, <<"nl">>, <<"x", "nl">>}
LongChunks == {<<"x", "x">>, <<"x", "nl">>}

(* Channels at the ends of a byte and beyond.                              *)
MCRequests == {<<1, 0, 255>>, <<300, 256, 2>>}

(* I2C requests: a write and read, a reading that has no buffer.           *)
MCShapes == { [op |-> "TXRX", tx |-> TRUE, rx |-> TRUE], [op |-> "RX", tx |-> FALSE, rx |-> FALSE] }

VARIABLE service   (* the one this behaviour follows                       *)

serviceVars == <<service, uartVars, ledVars, reqVars, tempVars>>

ServicesInit ==
  /\ service \in {"uart", "led", "i2c", "temp"}
  /\ UartInit /\ LedInit /\ ReqInit /\ TempInit

UartAlone == service = "uart" /\ UNCHANGED <<service, ledVars, reqVars, tempVars>>
LedAlone  == service = "led"  /\ UNCHANGED <<service, uartVars, reqVars, tempVars>>
I2cAlone  == service = "i2c"  /\ UNCHANGED <<service, uartVars, ledVars, tempVars>>
TempAlone == service = "temp" /\ UNCHANGED <<service, uartVars, ledVars, reqVars>>

ServicesNext ==
  \/ UartAlone /\ UartNext
  \/ LedAlone /\ LedNext
  \/ I2cAlone /\ ReqNext
  \/ TempAlone /\ TempNext

(* The fairness of FairUartSpec, FairLedSpec, FairReqSpec and              *)
(* FairTempSpec, for the one that is followed: its task gets the           *)
(* processor, and so do the posters of the LED's events and the timer.     *)
TaskRuns == \/ UartAlone /\ WorkerStep
            \/ LedAlone /\ LedTask
            \/ I2cAlone /\ Worker
            \/ TempAlone /\ TempWorker

OthersRun == \/ LedAlone /\ \E p \in Posters : Send(p)
             \/ TempAlone /\ TimerFires

ServicesSpec == ServicesInit /\ [][ServicesNext]_serviceVars
                /\ WF_serviceVars(TaskRuns) /\ WF_serviceVars(OthersRun)
=============================================================================
