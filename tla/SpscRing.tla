------------------------------- MODULE SpscRing -------------------------------
(***************************************************************************)
(* core__spsc_ring as infra_log_stream uses it: a lock-free byte ring with *)
(* one producer (write_all: check the free space, then reserve, copy and   *)
(* commit piece by piece) and one consumer (peek, read, consume).          *)
(*                                                                         *)
(* head and tail are words that only ever grow and wrap around with the    *)
(* word; the offset in the buffer is their remainder by the capacity.  The *)
(* acquire and release accesses make each load and each publication one    *)
(* step; the bytes between them are copied and read while the other side   *)
(* runs.  The drop counter, which nothing reads, is left out.              *)
(***************************************************************************)
EXTENDS Integers, Sequences

CONSTANTS
  Cap,       (* the capacity, a power of two                               *)
  WordMod,   (* 2^32                                                       *)
  Bytes,
  MaxWrite,  (* bound: the longest write                                   *)
  None       (* no byte read yet                                           *)

(* Of "both are powers of two" only this is needed. *)
ASSUME RingAssumption ==
  /\ Cap \in Nat /\ Cap >= 2
  /\ WordMod \in Nat /\ WordMod > Cap /\ WordMod % Cap = 0
  /\ MaxWrite \in Nat
  /\ None \notin Bytes

VARIABLES
  head,   (* written by the producer only                                  *)
  tail,   (* written by the consumer only                                  *)
  store,  (* the buffer                                                    *)
  wr,     (* the producer: pc, the bytes left, the piece reserved, result  *)
  rd,     (* the consumer: the length of its view and how much it has read *)
  last    (* history: the byte read last                                   *)

ringVars == <<head, tail, store, wr, rd, last>>

Index == 0 .. Cap - 1
Words == 0 .. WordMod - 1

Lesser(a, b) == IF a <= b THEN a ELSE b

(* head - tail in the arithmetic of the word. *)
Used     == (head - tail) % WordMod
Free     == IF Used >= Cap THEN 0 ELSE Cap - Used
Offset(x) == x % Cap
Contig(x) == Cap - Offset(x)

Unread == [k \in 1 .. Used - rd.i |-> store[Offset(tail + rd.i + k - 1)]]

RingInit ==
  /\ head = 0 /\ tail = 0
  /\ store \in [Index -> Bytes]
  /\ wr = [pc |-> "idle", rem |-> <<>>, n |-> 0, ok |-> TRUE]
  /\ rd = [n |-> 0, i |-> 0]
  /\ last = None

-----------------------------------------------------------------------------

(* infra_log_stream_write_all: all of it fits, or nothing is written.      *)
WriteAll(data) ==
  /\ wr.pc = "idle" /\ data # <<>>
  /\ wr' = IF Free < Len(data) THEN [wr EXCEPT !.ok = FALSE]
           ELSE [wr EXCEPT !.pc = "reserve", !.rem = data, !.n = 0]
  /\ UNCHANGED <<head, tail, store, rd, last>>

(* spsc_ring_reserve; no space at all ends the write halfway.              *)
Reserve ==
  /\ wr.pc = "reserve"
  /\ LET n == Lesser(Lesser(Len(wr.rem), Free), Contig(head)) IN
       wr' = IF n = 0 THEN [pc |-> "idle", rem |-> <<>>, n |-> 0, ok |-> FALSE]
             ELSE [wr EXCEPT !.pc = "copy", !.n = n]
  /\ UNCHANGED <<head, tail, store, rd, last>>

Copy ==
  /\ wr.pc = "copy"
  /\ store' = [j \in Index |-> IF j \in Offset(head) .. Offset(head) + wr.n - 1
                               THEN wr.rem[j - Offset(head) + 1] ELSE store[j]]
  /\ wr' = [wr EXCEPT !.pc = "commit"]
  /\ UNCHANGED <<head, tail, rd, last>>


(* spsc_ring_commit, and the loop of write_all.                            *)
Commit ==
  /\ wr.pc = "commit"
  /\ head' = (head + wr.n) % WordMod
  /\ LET left == SubSeq(wr.rem, wr.n + 1, Len(wr.rem)) IN
       wr' = [pc |-> IF left = <<>> THEN "idle" ELSE "reserve", rem |-> left, n |-> 0, ok |-> TRUE]
  /\ UNCHANGED <<tail, store, rd, last>>

-----------------------------------------------------------------------------
PeekConsumes ==
  /\ rd.n = 0 /\ Used # 0
  /\ rd' = [n |-> Lesser(Used, Contig(tail)), i |-> 0]
  /\ tail' = (tail + Lesser(Used, Contig(tail))) % WordMod
  /\ UNCHANGED <<head, store, wr, last>>

(* spsc_ring_peek: a view of what is contiguous.  rd.n = 0: no view.       *)
Peek ==
  /\ rd.n = 0 /\ Used # 0
  /\ rd' = [n |-> Lesser(Used, Contig(tail)), i |-> 0]
  /\ UNCHANGED <<head, tail, store, wr, last>>

(* The consumer looks at the bytes of its view one after the other.        *)
ReadByte ==
  /\ rd.i < rd.n
  /\ last' = store[Offset(tail + rd.i)]
  /\ rd' = [rd EXCEPT !.i = @ + 1]
  /\ UNCHANGED <<head, tail, store, wr>>

(* spsc_ring_consume of the whole view.                                    *)
Consume ==
  /\ rd.n # 0 /\ rd.i = rd.n
  /\ tail' = (tail + rd.n) % WordMod
  /\ rd' = [n |-> 0, i |-> 0]
  /\ UNCHANGED <<head, store, wr, last>>

ProducerStep == Reserve \/ Copy \/ Commit
ConsumerStep == Peek \/ ReadByte \/ Consume

RingNext ==
  \/ \E n \in 1 .. MaxWrite : \E data \in [1 .. n -> Bytes] : WriteAll(data)
  \/ ProducerStep
  \/ ConsumerStep

RingSpec == RingInit /\ [][RingNext]_ringVars

-----------------------------------------------------------------------------
RingTypeOK ==
  /\ head \in Words /\ tail \in Words
  /\ store \in [Index -> Bytes]
  /\ wr \in [pc: {"idle", "reserve", "copy", "commit"},
             rem: Seq(Bytes), n: 0 .. Cap, ok: BOOLEAN]
  /\ rd \in [n: 0 .. Cap, i: 0 .. Cap] /\ rd.i <= rd.n
  /\ last \in Bytes \cup {None}

(* The bytes a producer is copying and the bytes a consumer may look at    *)
(* are different ones, however the two interleave and the indices wrap.    *)
ReservedPart == IF wr.pc \in {"copy", "commit"}
                THEN {Offset(head + k) : k \in 0 .. wr.n - 1} ELSE {}
UnreadPart   == {Offset(tail + k) : k \in 0 .. Used - 1}
PartsApart   == Used <= Cap /\ ReservedPart \cap UnreadPart = {}

(* A write that began is never cut short: the space it found free stays    *)
(* free until it is done.                                                  *)
WriteCompletes == wr.pc = "reserve" => Free >= Len(wr.rem)

(* The ring implements the abstract stream: a commit publishes, reading a  *)
(* byte takes it, everything else is invisible.                            *)
Fifo == INSTANCE ByteFifo WITH fifo <- Unread
RingIsFifo == Fifo!Spec
=============================================================================
