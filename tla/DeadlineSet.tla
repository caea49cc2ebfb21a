----------------------------- MODULE DeadlineSet -----------------------------
(***************************************************************************)
(* What services__timer promises, without its table, tokens and alarm: a   *)
(* set of timers with deadlines on one clock.  When deadlines have passed, *)
(* all that passed are collected at once; each collected timer is posted   *)
(* once, for the deadline it was collected for, before anything else is    *)
(* collected.  A one-shot is then gone; a periodic timer goes on with the  *)
(* first point of its grid that is still to come.                          *)
(***************************************************************************)
EXTENDS Integers

CONSTANTS
  Ids,        (* the names of the timers, one for each arming              *)
  Deadlines, Periods   (* what may be asked for; period 0 is a one-shot    *)

VARIABLES
  time,      (* the clock                                                  *)
  pending,   (* set of [id, due, period]                                   *)
  owed,      (* set of [id, due]: collected, not posted yet                *)
  posted     (* id -> set of the deadlines it was posted for               *)

deadlineVars == <<time, pending, owed, posted>>

DeadlineInit == time = 0 /\ pending = {} /\ owed = {} /\ posted = [n \in Ids |-> {}]

Pass == time' = time + 1 /\ UNCHANGED <<pending, owed, posted>>

(* A deadline may have passed already when its timer is added.             *)
Add(n, due, period) ==
  /\ posted[n] = {} /\ \A t \in pending \cup owed : t.id # n
  /\ pending' = pending \cup {[id |-> n, due |-> due, period |-> period]}
  /\ UNCHANGED <<time, owed, posted>>

Remove(t) == pending' = pending \ {t} /\ UNCHANGED <<time, owed, posted>>
Clear     == pending' = {} /\ UNCHANGED <<time, owed, posted>>

(* The first point of t's grid after now.                                  *)
GoesOn(t, now) == [t EXCEPT !.due = @ + ((now - @) \div t.period + 1) * t.period]

Collect(now) ==
  LET passed == {t \in pending : t.due <= now} IN
    /\ owed = {} /\ passed # {}
    /\ owed' = {[id |-> t.id, due |-> t.due] : t \in passed}
    /\ pending' = (pending \ passed) \cup {GoesOn(t, now) : t \in {u \in passed : u.period # 0}}
    /\ UNCHANGED <<time, posted>>

CollectSome == \E now \in 0 .. time : Collect(now)

Post(f) ==
  /\ owed' = owed \ {f}
  /\ posted' = [posted EXCEPT ![f.id] = @ \cup {f.due}]
  /\ UNCHANGED <<time, pending>>

PostSome == \E f \in owed : Post(f)

DeadlineNext ==
  \/ Pass
  \/ \E n \in Ids, due \in Deadlines, period \in Periods : Add(n, due, period)
  \/ \E t \in pending : Remove(t)
  \/ Clear \/ CollectSome \/ PostSome

DeadlineSpec == DeadlineInit /\ [][DeadlineNext]_deadlineVars

(* What has passed is collected, what is owed is posted.                   *)
DeadlineFairness == WF_deadlineVars(CollectSome) /\ WF_deadlineVars(PostSome)

FairDeadlineSpec == DeadlineSpec /\ DeadlineFairness
=============================================================================
