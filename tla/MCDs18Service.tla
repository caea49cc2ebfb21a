---------------------------- MODULE MCDs18Service ----------------------------
(* Small instances of Ds18Service: a few periods, a reading for each.      *)
EXTENDS Ds18Service, TLC

MCKind  == [e \in Events |-> IF e = Ready THEN "LEASE" ELSE "COPY"]
MCQos   == [e \in Events |-> "DROP_NEW"]
MCPosts == (Period :> {DrvTick}) @@ (Once :> {DrvTick}) @@ (Service :> {Ready, Error})
           @@ (Other :> {Foreign})
MCServes == (ServiceQueue :> {}) @@ (AppQueue :> {Ready})

(* Any message fills the queue: a foreign event or the service's own       *)
(* result, before a tick of either callback.                               *)
Single  == (ServiceQueue :> 1) @@ (AppQueue :> 1)
(* Foreign events wait together, or the service's own results with them.   *)
Shallow == (ServiceQueue :> 2) @@ (AppQueue :> 1)
(* Room for the service's own results and a tick.                          *)
Roomy   == (ServiceQueue :> 4) @@ (AppQueue :> 1)

OneForeign    == (Period :> 2) @@ (Once :> 1) @@ (Service :> 1) @@ (Other :> 1)
TwoForeign    == (Period :> 2) @@ (Once :> 1) @@ (Service :> 1) @@ (Other :> 2)
ThreeReadings == (Period :> 3) @@ (Once :> 3) @@ (Service :> 3) @@ (Other :> 0)
=============================================================================
