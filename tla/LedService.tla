----------------------------- MODULE LedService -----------------------------
(***************************************************************************)
(* services__led from its start, which may fail half-way and be called     *)
(* again, to the colour the strip shows; the console's led command and the *)
(* other tasks post to the bus meanwhile.  A post copies the subscriber    *)
(* table first and sends later (ev_broadcast), so the start's own undoing  *)
(* falls between the two.  Only the service's queue is modelled: any       *)
(* event of the bus may be in it.  A strip and a queue are named by the    *)
(* number of the call of services_led_start that made them.                *)
(***************************************************************************)
EXTENDS Integers, SequencesExt

CONSTANTS
  Requests,    (* <<r, g, b>> as typed: natural numbers                   *)
  Depth,       (* depth of the subscription: 8                            *)
  LedFailing,  (* the calls of services_led_start that may fail           *)
  MaxLedStarts, (* bound: calls of services_led_start                     *)
  MaxPosts,    (* bound: led commands                                     *)
  MaxLedOthers, (* bound: other events                                    *)
  MaxBadRefresh (* bound: transfers to the strip that fail                *)

ASSUME LedAssumption ==
  /\ Requests \subseteq Nat \X Nat \X Nat
  /\ Depth \in Nat \ {0}
  /\ LedFailing \subseteq {"strip", "subscribe", "task"}
  /\ {MaxLedStarts, MaxPosts, MaxLedOthers, MaxBadRefresh} \subseteq Nat

Off     == <<0, 0, 0>>
Blue    == <<0, 0, 20>>
Posters == {"console", "others"}
NoPost  == [code |-> "none", a0 |-> 0, want |-> Off, to |-> 0]

VARIABLES
  ledBoot, ledResult, (* where services_led_start stands; what it returned *)
  ledStarts,   (* number of the call                                      *)
  strips,      (* the strips that exist                                   *)
  s_strip, s_led_q, s_task, (* the service's variables, 0 or FALSE at first *)
  queues,      (* the queues that exist                                   *)
  subs,        (* the queue the bus's table holds, or 0                   *)
  q,           (* contents of queue s_q                                   *)
  post,        (* per poster: event and queue copied from the table; want, *)
                 (* history, is the colour the event stands for            *)
  lost,        (* history: a send went to a queue that was deleted        *)
  sent,        (* history: [others, posts, bad], for the bounds           *)
  asked,       (* history: the last colour the console announced          *)
  queued,      (* history: the last colour that found room, Off if none   *)
  ledPc, ledHand, (* the worker: where it stands, the event it took       *)
  pixel, shown, (* the strip's buffer and its light                       *)
  ledFresh     (* history: the last transfer succeeded                    *)

ledStartVars == <<ledBoot, ledResult, ledStarts, strips, s_strip, s_led_q, s_task, queues, subs>>
ledPostVars  == <<post, lost, sent, asked, queued>>
ledTaskVars  == <<ledPc, ledHand, pixel, shown, ledFresh>>
ledVars      == <<ledStartVars, ledPostVars, ledTaskVars, q>>

LedInit ==
  /\ ledBoot = "off" /\ ledResult = "none" /\ ledStarts = 0
  /\ strips = {} /\ s_strip = 0 /\ s_led_q = 0 /\ s_task = FALSE /\ queues = {} /\ subs = 0
  /\ q = <<>> /\ post = [p \in Posters |-> NoPost] /\ lost = FALSE
  /\ sent = [posts |-> 0, others |-> 0, bad |-> 0] /\ asked = Off /\ queued = Off
  /\ ledPc = "none" /\ ledHand = NoPost /\ pixel = Off /\ shown = Off /\ ledFresh = TRUE

-----------------------------------------------------------------------------
(* services_led_start: a service with a task is running already.           *)
Called == ledBoot \in {"off", "returned"} /\ ledStarts < MaxLedStarts

LedStartAgain ==
  /\ Called /\ s_task
  /\ ledResult' = "true" /\ ledStarts' = ledStarts + 1
  /\ UNCHANGED <<ledBoot, strips, s_strip, s_led_q, s_task, queues, subs, q, ledPostVars, ledTaskVars>>

CreateStrip ==
  /\ Called /\ ~s_task
  /\ ledStarts' = ledStarts + 1
  /\ \/ /\ strips' = strips \cup {ledStarts'} /\ s_strip' = ledStarts'
        /\ ledBoot' = "subscribe" /\ ledResult' = "none"
     \/ /\ "strip" \in LedFailing
        /\ ledBoot' = "returned" /\ ledResult' = "false" /\ UNCHANGED <<strips, s_strip>>
  /\ UNCHANGED <<s_led_q, s_task, queues, subs, q, ledPostVars, ledTaskVars>>

(* led_port_delete, then the call returns false.                           *)
GiveUp == /\ strips' = strips \ {s_strip}
          /\ ledBoot' = "returned" /\ ledResult' = "false"

Subscribe ==
  /\ ledBoot = "subscribe"
  /\ \/ /\ queues' = queues \cup {ledStarts} /\ subs' = ledStarts /\ s_led_q' = ledStarts
        /\ q' = <<>> /\ ledBoot' = "task" /\ UNCHANGED <<ledResult, strips>>
     \/ "subscribe" \in LedFailing /\ GiveUp /\ UNCHANGED <<queues, subs, s_led_q, q>>
  /\ UNCHANGED <<ledStarts, s_strip, s_task, ledPostVars, ledTaskVars>>

LedCreateTask ==
  /\ ledBoot = "task"
  /\ \/ s_task' = TRUE /\ ledPc' = "wait" /\ ledBoot' = "returned" /\ ledResult' = "true"
     \/ "task" \in LedFailing /\ ledBoot' = "unsubscribe" /\ UNCHANGED <<s_task, ledPc, ledResult>>
  /\ UNCHANGED <<ledStarts, strips, s_strip, s_led_q, queues, subs, q, ledPostVars,
                 ledHand, pixel, shown, ledFresh>>

UnsubscribeNot == UNCHANGED subs
UnsubscribeQ   == subs' = 0

Unsubscribe ==
  /\ ledBoot = "unsubscribe"
  /\ UnsubscribeQ
  /\ ledBoot' = "delete"
  /\ UNCHANGED <<ledResult, ledStarts, strips, s_strip, s_led_q, s_task, queues, q, ledPostVars, ledTaskVars>>

DeleteQueue ==
  /\ ledBoot = "delete"
  /\ queues' = queues \ {s_led_q} /\ q' = <<>> /\ queued' = Off
  /\ GiveUp
  /\ UNCHANGED <<ledStarts, s_strip, s_led_q, s_task, subs, post, lost, sent, asked, ledTaskVars>>

LedStart == LedStartAgain \/ CreateStrip \/ Subscribe \/ LedCreateTask \/ Unsubscribe \/ DeleteQueue

-----------------------------------------------------------------------------
(* cmd_led: each channel is cut at 255, the three are packed 0x00BBGGRR.   *)
Cut(n)  == IF n > 255 THEN 255 ELSE n
Pack(c) == Cut(c[1]) + 256 * Cut(c[2]) + 65536 * Cut(c[3])

(* Both posters copy the table, ...                                        *)
CopySubs(p, code, a0, want) ==
  /\ post[p] = NoPost
  /\ post' = [post EXCEPT ![p] = [code |-> code, a0 |-> a0, want |-> want, to |-> subs]]

LedCommand(c) ==
  /\ sent.posts < MaxPosts /\ sent' = [sent EXCEPT !.posts = @ + 1]
  /\ CopySubs("console", "rgb", Pack(c), [k \in 1 .. 3 |-> Cut(c[k])])
  /\ UNCHANGED <<ledStartVars, ledTaskVars, q, lost, asked, queued>>

OtherPost(code) ==
  /\ sent.others < MaxLedOthers /\ sent' = [sent EXCEPT !.others = @ + 1]
  /\ CopySubs("others", code, 0, Blue)
  /\ UNCHANGED <<ledStartVars, ledTaskVars, q, lost, asked, queued>>

(* ... and send when they get to it.  The led command is REPLACE_LAST, but *)
(* the queue is deeper than one and so drops what does not fit.            *)
LedRoom           == Len(q) < Depth

Send(p) ==
  /\ post[p] # NoPost
  /\ post' = [post EXCEPT ![p] = NoPost]
  /\ LET m  == post[p]
         in == m.to = s_led_q /\ m.to \in queues /\ LedRoom
     IN /\ q' = IF in THEN Append(q, m) ELSE q
        /\ lost' = (lost \/ (m.to # 0 /\ m.to \notin queues))
        /\ asked' = IF m.code = "rgb" \/ (in /\ m.code = "start") THEN m.want ELSE asked
        /\ queued' = IF in /\ m.code # "tick" THEN m.want ELSE queued
  /\ UNCHANGED <<ledStartVars, ledTaskVars, sent>>

-----------------------------------------------------------------------------
(* led_task: a colour, or the blue of the start; other events are ignored. *)
Unpack(a0)        == <<a0 % 256, (a0 \div 256) % 256, (a0 \div 65536) % 256>>
Colour(m) == IF m.code = "rgb" THEN Unpack(m.a0) ELSE Blue

ShowsStart(m) == m.code = "start"
Shows(m)      == m.code \in {"rgb", "start"}

Receive ==
  /\ ledPc = "wait" /\ q # <<>>
  /\ ledHand' = Head(q) /\ q' = Tail(q)
  /\ IF Shows(Head(q))
     THEN pixel' = Colour(Head(q)) /\ ledPc' = "refresh"
     ELSE UNCHANGED <<pixel, ledPc>>
  /\ UNCHANGED <<ledStartVars, ledPostVars, shown, ledFresh>>

(* led_port_refresh: a transfer that fails is logged, nothing else.        *)
Refresh ==
  /\ ledPc = "refresh"
  /\ \/ shown' = pixel /\ ledFresh' = TRUE /\ UNCHANGED sent
     \/ /\ sent.bad < MaxBadRefresh /\ sent' = [sent EXCEPT !.bad = @ + 1]
        /\ ledFresh' = FALSE /\ UNCHANGED shown
  /\ ledPc' = "wait"
  /\ UNCHANGED <<ledStartVars, post, lost, asked, queued, ledHand, pixel, q>>

LedTask == Receive \/ Refresh
LedNext == \/ LedStart \/ LedTask
           \/ \E c \in Requests : LedCommand(c)
           \/ \E code \in {"start", "tick"} : OtherPost(code)
           \/ \E p \in Posters : Send(p)

LedSpec     == LedInit /\ [][LedNext]_ledVars
FairLedSpec == LedSpec /\ WF_ledVars(LedTask) /\ WF_ledVars(\E p \in Posters : Send(p))

-----------------------------------------------------------------------------
LedTypeOK ==
  /\ ledBoot \in {"off", "subscribe", "task", "unsubscribe", "delete", "returned"}
  /\ ledResult \in {"none", "true", "false"}
  /\ strips \cup queues \subseteq 1 .. ledStarts /\ {s_strip, s_led_q, subs} \subseteq 0 .. ledStarts
  /\ Len(q) <= Depth
  /\ ledPc \in {"none", "wait", "refresh"} /\ (ledPc # "none" <=> s_task)
  /\ \A c \in 1 .. 3 : pixel[c] \in 0 .. 255 /\ shown[c] \in 0 .. 255

(* A start that fails, at whatever step, leaves nothing in use: no strip,  *)
(* no queue, no live entry in the bus's table.  So it may be called again, *)
(* although the dead entry it may leave counts towards EV_MAX_SUBS.        *)
FailureLeavesNothing == ledResult = "false" /\ ledBoot = "returned" => strips = {} /\ queues = {} /\ subs = 0

(* A start that returns true leaves one strip, one queue in the table and  *)
(* the task that serves it, however many calls failed before.              *)
SuccessIsComplete ==
  ledResult = "true" => /\ s_task /\ strips = {s_strip} /\ queues = {s_led_q} /\ subs = s_led_q

(* While the task is at rest and the last transfer went through, the strip *)
(* shows the last colour that found room in the queue, cut and unpacked.   *)
ShowsLastQueued == ledPc = "wait" /\ q = <<>> /\ ledFresh => shown = queued

(* A colour that found room does reach the strip, as long as the transfers *)
(* go through: no event gets stuck behind the ones the task ignores.       *)
QueuedGetsShown == []<>(s_task /\ ledFresh => shown = queued)

(* logging_cli.c:84 tells the user the colour is set.                      *)
ShowsLastAsked == ledPc = "wait" /\ q = <<>> /\ ledFresh /\ post["console"] = NoPost => shown = asked

(* No post sends to a queue that services_led_start has deleted.           *)
SendsToLiveQueues == ~lost
=============================================================================
