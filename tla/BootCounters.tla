---------------------------- MODULE BootCounters ----------------------------
(***************************************************************************)
(* The first steps of app_main in demo_lcd_rgb, over idf_nvs_port: bring   *)
(* the flash up, count the resets that were crashes (check_reset_reason),  *)
(* count the boots (run_diamond_nvs_test).  Any step can be the last one   *)
(* before a reset, and what was set but not committed may or may not be in *)
(* the flash by then.  The results of kv_get_int, kv_set_int and kv_commit *)
(* are ignored by the code, so each of these may fail unseen.              *)
(*                                                                         *)
(* A key that is absent reads as an error too, and leaves the caller's 0.  *)
(***************************************************************************)
EXTENDS Naturals

CONSTANTS
  Reasons,     (* what esp_reset_reason may return after a reset          *)
  MaxResets,   (* bound: resets from outside                              *)
  MaxFull,     (* bound: times the flash is found unusable at a boot      *)
  MaxFaults    (* bound: calls that fail                                  *)

ASSUME BootAssumption ==
  /\ {"panic", "task_wdt"} \subseteq Reasons
  /\ {MaxResets, MaxFull, MaxFaults} \subseteq Nat

Keys == {"crash_cnt", "boot_cnt"}

VARIABLES
  bootPc, key, (* where app_main stands; the counter it works on          *)
  reason,      (* the reason of the last reset                            *)
  full,        (* nvs_flash_init finds no free pages, or a newer version  *)
  flash,       (* what a reset leaves of each key, 0 when it is absent    *)
  nvs,         (* what a read of each key finds now                       *)
  cnt,         (* the local crash_cnt or boot_cnt                         *)
  resets, fulls, faults, (* history: how often the bounds were used       *)
  misread,     (* history: counters whose read failed in this boot        *)
  stored,      (* history: the set of this counter succeeded in this boot *)
  counted,     (* history: events to count, per key, since the erasure    *)
  settled      (* history: those committed since the erasure or a misread *)

flashVars == <<full, flash, nvs>>
bootHistVars  == <<resets, fulls, faults>>
countVars == <<misread, stored, counted, settled>>
bootVars  == <<bootPc, key, reason, flashVars, cnt, bootHistVars, countVars>>

Zero == [k \in Keys |-> 0]

BootInit ==
  /\ bootPc = "init" /\ key = "crash_cnt" /\ reason = "other" /\ full = FALSE
  /\ flash = Zero /\ nvs = Zero /\ cnt = 0
  /\ resets = 0 /\ fulls = 0 /\ faults = 0
  /\ misread = {} /\ stored = FALSE /\ counted = Zero /\ settled = Zero

(* A call that fails uses up one of the failures.                          *)
Fails    == faults < MaxFaults /\ faults' = faults + 1 /\ UNCHANGED <<resets, fulls>>
Succeeds == UNCHANGED bootHistVars

-----------------------------------------------------------------------------
(* A reset for reason r: the program starts over, the RAM is gone.         *)
Restart(r) ==
  /\ bootPc' = "init" /\ key' = "crash_cnt" /\ cnt' = 0
  /\ reason' = r
  /\ nvs' = flash /\ UNCHANGED flash
  /\ misread' = {} /\ stored' = FALSE /\ UNCHANGED <<counted, settled>>

Reset ==
  /\ resets < MaxResets
  /\ \E r \in Reasons, f \in {full, TRUE} :
       /\ f # full => fulls < MaxFull
       /\ Restart(r)
       /\ full' = f
       /\ fulls' = IF f # full THEN fulls + 1 ELSE fulls
  /\ resets' = resets + 1
  /\ UNCHANGED faults

(* ESP_ERROR_CHECK on an error aborts, which is a panic.                   *)
Abort == Restart("panic") /\ UNCHANGED full

-----------------------------------------------------------------------------
(* An unusable flash is erased.                                            *)
UnusableAborts == Abort
Unusable == bootPc' = "erase" /\ UNCHANGED <<key, reason, flashVars, cnt, countVars>>

InitFlash ==
  /\ bootPc = "init"
  /\ \/ /\ ~full /\ Succeeds
        /\ bootPc' = "open"
        /\ UNCHANGED <<key, reason, flashVars, cnt, countVars>>
     \/ full /\ Succeeds /\ Unusable
     \/ Fails /\ Abort

EraseFlash ==
  /\ bootPc = "erase"
  /\ \/ /\ Succeeds
        /\ full' = FALSE /\ flash' = Zero /\ nvs' = Zero
        /\ counted' = Zero /\ settled' = Zero
        /\ bootPc' = "init2"
        /\ UNCHANGED <<key, reason, cnt, misread, stored>>
     \/ Fails /\ Abort

InitAgain ==
  /\ bootPc = "init2"
  /\ \/ /\ Succeeds
        /\ bootPc' = "open"
        /\ UNCHANGED <<key, reason, flashVars, cnt, countVars>>
     \/ Fails /\ Abort

-----------------------------------------------------------------------------
(* The end of one counter: check_reset_reason is followed by the test.     *)
NextCounter ==
  /\ bootPc' = IF key = "crash_cnt" THEN "open" ELSE "run"
  /\ key' = "boot_cnt"
  /\ cnt' = 0
  /\ stored' = FALSE

(* kv_open: nvs_open or the malloc of the wrapper fails.                   *)
KvOpen ==
  /\ bootPc = "open"
  /\ \/ /\ Succeeds
        /\ bootPc' = "get"
        /\ UNCHANGED <<key, cnt, stored>>
     \/ Fails /\ NextCounter
  /\ UNCHANGED <<reason, flashVars, misread, counted, settled>>

(* kv_get_int: on an error out_val keeps the caller's 0.                   *)
Get(k)         == nvs[k]

KvGet ==
  /\ bootPc = "get"
  /\ \/ Succeeds /\ cnt' = Get(key) /\ UNCHANGED misread
     \/ Fails /\ cnt' = 0 /\ misread' = misread \cup {key}
  /\ bootPc' = "count"
  /\ UNCHANGED <<key, reason, flashVars, stored, counted, settled>>

(* Every boot counts, a reset only when it was a crash.                    *)
CountsAny == TRUE
Counts    == key = "boot_cnt" \/ reason \in {"panic", "task_wdt"}

CountOne ==
  /\ bootPc = "count" /\ Succeeds
  /\ IF Counts
     THEN /\ cnt' = cnt + 1
          /\ bootPc' = "set"
          /\ UNCHANGED <<key, stored>>
     ELSE NextCounter
  /\ IF key = "boot_cnt" \/ reason \in {"panic", "task_wdt"}
     THEN counted' = [counted EXCEPT ![key] = @ + 1] ELSE UNCHANGED counted
  /\ UNCHANGED <<reason, flashVars, misread, settled>>

(* kv_set_int: the new value is read from now on, and is in the flash now  *)
(* or after the commit.                                                    *)
KvSet ==
  /\ bootPc = "set"
  /\ \/ /\ Succeeds
        /\ nvs' = [nvs EXCEPT ![key] = cnt]
        /\ flash' \in {flash, nvs'}
        /\ stored' = TRUE
        /\ settled' = IF key \in misread THEN [settled EXCEPT ![key] = 0] ELSE settled
     \/ Fails /\ UNCHANGED <<nvs, flash, stored, settled>>
  /\ bootPc' = "commit"
  /\ UNCHANGED <<key, reason, full, cnt, misread, counted>>

(* kv_commit, and kv_close.                                                *)
Committed     == [flash EXCEPT ![key] = nvs[key]]

KvCommit ==
  /\ bootPc = "commit"
  /\ \/ /\ Succeeds
        /\ flash' \in {Committed, nvs}
        /\ settled' = IF stored THEN [settled EXCEPT ![key] = @ + 1] ELSE settled
     \/ Fails /\ UNCHANGED <<flash, settled>>
  /\ NextCounter
  /\ UNCHANGED <<reason, full, nvs, misread, counted>>

BootStep == \/ InitFlash \/ EraseFlash \/ InitAgain
            \/ KvOpen \/ KvGet \/ CountOne \/ KvSet \/ KvCommit
BootNext == BootStep \/ Reset

BootSpec     == BootInit /\ [][BootNext]_bootVars
FairBootSpec == BootSpec /\ WF_bootVars(BootStep)

-----------------------------------------------------------------------------
BootTypeOK ==
  /\ bootPc \in {"init", "erase", "init2", "open", "get", "count", "set", "commit", "run"}
  /\ key \in Keys /\ reason \in Reasons \cup {"other", "panic"}
  /\ {flash, nvs, counted, settled} \subseteq [Keys -> Nat]
  /\ stored => bootPc = "commit"
  /\ bootPc = "run" => key = "boot_cnt"
  /\ nvs # flash => bootPc \notin {"init", "erase", "init2"}

(* A counter in the flash shows every event that was committed, and none   *)
(* that did not happen: a boot that was cut short is counted once or not   *)
(* at all, never twice, wherever the reset came.                           *)
CountsBracketed == \A k \in Keys : settled[k] <= flash[k] /\ flash[k] <= counted[k]

(* A counter goes back only when the flash is erased, or after its read    *)
(* failed: kv_get_int's result is not looked at, so counting restarts.     *)
NeverBackwards ==
  [][\A k \in Keys : \/ flash'[k] >= flash[k]
                    \/ bootPc = "erase"
                    \/ k \in misread]_bootVars

(* Nothing in the flash keeps the application from coming up: once resets  *)
(* and failures end, it runs.                                              *)
ComesUp == <>[](bootPc = "run")
=============================================================================
