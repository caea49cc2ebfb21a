------------------------------ MODULE MCEventBus ------------------------------
(* Small instances of EventBus: a lease event, a plain event and a         *)
(* REPLACE_LAST command, one or two posters, queues of depth 1, 2 and 1.   *)
EXTENDS EventBus, TLC

CONSTANTS frame, note, rgb, p1, p2, q1, q2, q3

MCEvents == {frame, note, rgb}
MCKind   == (frame :> "LEASE") @@ (note :> "COPY") @@ (rgb :> "COPY")
MCQos    == (frame :> "DROP_NEW") @@ (note :> "DROP_NEW") @@ (rgb :> "REPLACE_LAST")
MCDepth  == [q \in Queues |-> IF q = q2 THEN 2 ELSE 1]

(* Two producers of leases: contention for slots, a slot recycled while    *)
(* older posts are under way.                                              *)
Frames     == (p1 :> {frame}) @@ (p2 :> {frame})
(* A plain event besides: it fills queues without taking a slot, so that a *)
(* lease finds every queue full and has all its sends undone.              *)
LeasePosts == (p1 :> {frame}) @@ (p2 :> {frame, note})
(* Commands and plain events, without leases.                              *)
CmdPosts   == (p1 :> {rgb}) @@ (p2 :> {rgb, note})
(* Leases and a REPLACE_LAST command meet in one mailbox.                  *)
MixedPosts == (p1 :> {frame}) @@ (p2 :> {frame, rgb})

OneTwo   == (p1 :> 1) @@ (p2 :> 2)

ServeAll == [q \in Queues |-> {frame}]
=============================================================================
