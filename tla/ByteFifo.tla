------------------------------- MODULE ByteFifo -------------------------------
(***************************************************************************)
(* What spsc_ring promises: a bounded first-in-first-out stream of bytes   *)
(* between one producer and one consumer, nothing lost, repeated or        *)
(* reordered, with no trace of indices, wrap-around or partial writes.     *)
(***************************************************************************)
EXTENDS Naturals, Sequences

CONSTANTS Bytes, Cap, None

VARIABLES
  fifo,  (* the bytes published and not yet read                           *)
  last   (* the byte the consumer read last                                *)

Init == fifo = <<>> /\ last = None

(* Some bytes are published at once. *)
Put == \E n \in 1 .. Cap - Len(fifo) : \E s \in [1 .. n -> Bytes] :
          fifo' = fifo \o s /\ UNCHANGED last

Take ==
  /\ fifo # <<>>
  /\ last' = Head(fifo)
  /\ fifo' = Tail(fifo)

Next == Put \/ Take

Spec == Init /\ [][Next]_<<fifo, last>>
=============================================================================
