------------------------------- MODULE LogRing -------------------------------
(***************************************************************************)
(* The RAM log of infrastructure__logging: a circular buffer that keeps    *)
(* the last bytes of every log line, and the console command logrb that    *)
(* shows them.  Any task logs; a line is copied byte by byte inside one    *)
(* spinlock section.  The console asks for the size first, allocates, and  *)
(* only then copies, in a second section: lines logged between the two     *)
(* move the ring under it.                                                 *)
(*                                                                         *)
(* Abstraction: a line is some bytes, all equal to the name of the task    *)
(* that logs it, and a newline; the header and the text of a line are not  *)
(* told apart.                                                             *)
(***************************************************************************)
EXTENDS Integers, Sequences, FiniteSets

CONSTANTS
  LogTasks,    (* the tasks that log                                      *)
  Newline,     (* the byte that ends a line                               *)
  Blank,       (* what malloc left in the buffer                          *)
  RbCap,       (* s_rb_sz, CONFIG_INFRA_LOG_RINGBUF_KB in bytes           *)
  MaxLine,     (* bound: bytes of a line without its newline              *)
  MaxLogged    (* bound: bytes logged between two clears                  *)

ASSUME RbAssumption ==
  /\ RbCap \in Nat \ {0}
  /\ MaxLine \in Nat
  /\ MaxLogged \in Nat
  /\ Newline \notin LogTasks /\ Blank \notin LogTasks /\ Blank # Newline

VARIABLES
  rb,          (* s_rb                                                    *)
  w,           (* s_w, where the next byte goes                           *)
  len,         (* s_len, how many bytes are valid                         *)
  overflow,    (* s_overflow                                              *)
  inside,      (* the tasks inside a section of s_rb_lock                 *)
  left,        (* task -> bytes of its line still to copy, without newline *)
  cli,         (* the console command: what it does and its size limit    *)
  shown,       (* the bytes the last dump or tail printed                 *)
  hist,        (* history: every byte logged since the last clear         *)
  rbAt         (* history: Len(hist) when shown was copied                *)

ringVars == <<rb, w, len, overflow, hist>>
cliVars  == <<cli, shown, rbAt>>
rbVars     == <<ringVars, inside, left, cliVars>>

LesserOf(a, b) == IF a < b THEN a ELSE b

RbInit ==
  /\ rb = [i \in 0 .. RbCap - 1 |-> Blank]
  /\ w = 0 /\ len = 0 /\ overflow = FALSE
  /\ inside = {}
  /\ left = [t \in LogTasks |-> 0]
  /\ cli = [pc |-> "prompt", limit |-> 0]
  /\ shown = <<>>
  /\ hist = <<>> /\ rbAt = 0

-----------------------------------------------------------------------------
(* portENTER_CRITICAL(&s_rb_lock) passes when nobody is inside.            *)
MayEnter    == inside = {}

NextPosNoWrap == LesserOf(w + 1, RbCap - 1)
NextPos       == (w + 1) % RbCap

(* rb_write_byte: the newest byte replaces the oldest in a full ring.      *)
WriteByte(b) ==
  /\ rb' = [rb EXCEPT ![w] = b]
  /\ w' = NextPos
  /\ IF len < RbCap THEN len' = len + 1 /\ UNCHANGED overflow
                  ELSE overflow' = TRUE /\ UNCHANGED len
  /\ hist' = Append(hist, b)

(* rb_push_line, from log_write: enter, copy the line, end it and leave.   *)
PushBegin(t, n) ==
  /\ t \notin inside
  /\ MayEnter
  /\ Len(hist) + n + 1 <= MaxLogged
  /\ inside' = inside \cup {t}
  /\ left' = [left EXCEPT ![t] = n]
  /\ UNCHANGED <<ringVars, cliVars>>

PushByte(t) ==
  /\ t \in inside
  /\ left[t] > 0
  /\ WriteByte(t)
  /\ left' = [left EXCEPT ![t] = @ - 1]
  /\ UNCHANGED <<inside, cliVars>>

PushEnd(t) ==
  /\ t \in inside
  /\ left[t] = 0
  /\ WriteByte(Newline)
  /\ inside' = inside \ {t}
  /\ UNCHANGED <<left, cliVars>>

-----------------------------------------------------------------------------
(* logrb dump --limit n, logrb tail n: infra_log_rb_stat, then malloc.     *)
StatLimit(n) == LesserOf(n, len)

CliStat(cmd, n) ==
  /\ cli.pc = "prompt"
  /\ MayEnter
  /\ cli' = [pc |-> cmd, limit |-> StatLimit(n)]
  /\ UNCHANGED <<ringVars, inside, left, shown, rbAt>>

(* rb_copy_from_start: n bytes from start on, with wrap-around.            *)
CopyFrom(start, n) == [k \in 1 .. n |-> rb[(start + k - 1) % RbCap]]

Snapshot(max) == CopyFrom((w + RbCap - len) % RbCap, LesserOf(len, max))

TailOldest(max) == CopyFrom((w + RbCap - len) % RbCap, LesserOf(max, len))
Latest(max) == LET take == LesserOf(max, len) IN CopyFrom((w + RbCap - take) % RbCap, take)

(* infra_log_rb_snapshot and infra_log_rb_tail into the allocated buffer;  *)
(* both refuse a buffer of no bytes, and the command then prints nothing.  *)
Show(bytes) ==
  /\ MayEnter
  /\ shown' = IF cli.limit = 0 THEN <<>> ELSE bytes
  /\ rbAt' = Len(hist)
  /\ cli' = [cli EXCEPT !.pc = IF @ = "dump" THEN "dumped" ELSE "tailed"]
  /\ UNCHANGED <<ringVars, inside, left>>

CliDump == cli.pc = "dump" /\ Show(Snapshot(cli.limit))
CliTail == cli.pc = "tail" /\ Show(Latest(cli.limit))

CliReturn ==
  /\ cli.pc \in {"dumped", "tailed"}
  /\ cli' = [pc |-> "prompt", limit |-> 0]
  /\ shown' = <<>> /\ rbAt' = 0
  /\ UNCHANGED <<ringVars, inside, left>>

(* logrb clear: infra_log_rb_clear resets the indices, not the bytes.      *)
CliClear ==
  /\ cli.pc = "prompt"
  /\ MayEnter
  /\ w' = 0 /\ len' = 0 /\ overflow' = FALSE
  /\ hist' = <<>>
  /\ UNCHANGED <<rb, inside, left, cliVars>>

RbNext ==
  \/ \E t \in LogTasks : PushByte(t) \/ PushEnd(t) \/ \E n \in 0 .. MaxLine : PushBegin(t, n)
  \/ \E cmd \in {"dump", "tail"}, n \in 0 .. RbCap : CliStat(cmd, n)
  \/ CliDump \/ CliTail \/ CliReturn \/ CliClear

RbSpec == RbInit /\ [][RbNext]_rbVars

-----------------------------------------------------------------------------
RbTypeOK ==
  /\ rb \in [0 .. RbCap - 1 -> LogTasks \cup {Newline, Blank}]
  /\ w \in 0 .. RbCap - 1 /\ len \in 0 .. RbCap /\ overflow \in BOOLEAN
  /\ inside \subseteq LogTasks
  /\ left \in [LogTasks -> 0 .. MaxLine]
  /\ cli \in [pc : {"prompt", "dump", "tail", "dumped", "tailed"}, limit : 0 .. RbCap]
  /\ hist \in Seq(LogTasks \cup {Newline}) /\ rbAt \in Nat

(* Read from the oldest byte, the ring is the end of the log: the last Cap *)
(* bytes or all of them, and the overflow flag says which, wherever the    *)
(* write index stands and however often the ring was cleared.              *)
RingIsLogEnd ==
  /\ len = LesserOf(Len(hist), RbCap)
  /\ Snapshot(RbCap) = SubSeq(hist, Len(hist) - len + 1, Len(hist))
  /\ overflow <=> Len(hist) > RbCap

(* A tail prints the newest bytes there are when it copies, as many as     *)
(* were asked for; a dump prints the oldest ones the ring then holds.      *)
(* Lines logged since the size was asked never make either come out short  *)
(* or with a gap.                                                          *)
ShownAsAsked ==
  LET kept == LesserOf(rbAt, RbCap) IN
    /\ cli.pc = "dumped" => shown = SubSeq(hist, rbAt - kept + 1, rbAt - kept + cli.limit)
    /\ cli.pc = "tailed" => shown = SubSeq(hist, rbAt - cli.limit + 1, rbAt)

(* Lines of different tasks never mix: a byte and the next one of the log  *)
(* belong to one line or are separated by a newline.                       *)
LinesDoNotMix ==
  \A k \in 1 .. Len(hist) - 1 :
    hist[k] # Newline /\ hist[k + 1] # Newline => hist[k] = hist[k + 1]
=============================================================================
