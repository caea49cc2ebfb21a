--------------------------- MODULE LogStreamProofs ---------------------------
(***************************************************************************)
(* The ring is a first-in-first-out stream for every capacity, every width *)
(* of its indices and every interleaving of the producer with the          *)
(* consumer, alone and inside the log pipeline.                            *)
(*                                                                         *)
(* The first part is arithmetic: what head - tail and the offsets are when *)
(* words wrap around, which is where WordMod % Cap = 0 is needed.  The     *)
(* inductive invariant RingInv says what each side knows about the other   *)
(* between two of its steps: the producer's bytes still fit although the   *)
(* space was checked earlier, the piece it copies does not reach what the  *)
(* consumer may read, and what it publishes is what it was given.          *)
(***************************************************************************)
EXTENDS LogStream, NumberFacts, SequenceTheorems, TLAPS

-----------------------------------------------------------------------------
(* Remainders.                                                             *)

(* Through a word whose size is a multiple of m. *)
LEMMA RemainderOfWord ==
  ASSUME NEW m \in Nat, m > 0, NEW w \in Nat, w > 0, w % m = 0, NEW x \in Int
  PROVE  (x % w) % m = x % m
<1> DEFINE k == w \div m
           d == x \div w
           r == x % w
<1>1. k \in Int /\ w = m * k
  BY Division
<1>2. d \in Int /\ r \in Int /\ x = w * d + r
  BY Division
<1> HIDE DEF k, d, r
<1>3. k * d \in Int /\ w * d = m * (k * d)
  BY <1>1, <1>2, Z3
<1>4. x = r + m * (k * d)
  BY <1>2, <1>3
<1>5. (r + m * (k * d)) % m = r % m
  BY <1>2, <1>3, AddMultiple
<1> QED BY <1>4, <1>5 DEF r

LEMMA SmallRemainder ==
  ASSUME NEW m \in Nat, m > 0, NEW r \in 0 .. m - 1
  PROVE  r % m = r
<1>1. (m * 0 + r) % m = r
  BY Remainder
<1>2. m * 0 + r = r
  BY Z3
<1> QED BY <1>1, <1>2

LEMMA RemainderOfDifference ==
  ASSUME NEW m \in Nat, m > 0, NEW x \in Int, NEW y \in Int
  PROVE  (x - (y % m)) % m = (x - y) % m
<1> DEFINE d == y \div m
           r == y % m
<1>1. d \in Int /\ r \in 0 .. m - 1 /\ y = m * d + r
  BY Division
<1> HIDE DEF d, r
<1>2. m * d \in Int BY <1>1, Z3
<1>3. x - r = (x - y) + m * d BY <1>1, <1>2
<1>4. x - y \in Int
  OBVIOUS
<1>5. ((x - y) + m * d) % m = (x - y) % m
  BY <1>1, <1>4, AddMultiple
<1> QED BY <1>3, <1>5 DEF r

-----------------------------------------------------------------------------
(* Words and offsets.                                                      *)

LEMMA WordFacts ==
  /\ WordMod \in Nat /\ WordMod > 0 /\ Cap \in Nat /\ Cap > 0
  /\ Cap < WordMod /\ WordMod % Cap = 0
BY RingAssumption

(* A sum of a word and a length, taken modulo the word, has the offset of  *)
(* the sum.                                                                *)
LEMMA OffsetOfWord ==
  ASSUME NEW x \in Int, NEW y \in Int
  PROVE  Offset((x % WordMod) + y) = Offset(x + y)
<1>1. x % WordMod \in Int
  BY WordFacts, Division
<1>2. (((x % WordMod) % Cap) + y) % Cap = ((x % WordMod) + y) % Cap
  BY <1>1, WordFacts, RemainderOfSum
<1>3. ((x % Cap) + y) % Cap = (x + y) % Cap
  BY WordFacts, RemainderOfSum
<1>4. (x % WordMod) % Cap = x % Cap
  BY WordFacts, RemainderOfWord
<1> QED BY <1>2, <1>3, <1>4 DEF Offset

LEMMA OffsetType ==
  ASSUME NEW x \in Int
  PROVE  Offset(x) \in Index
BY WordFacts, Division DEF Offset, Index

(* Short of the end of the buffer offsets are consecutive.                 *)
LEMMA OffsetContiguous ==
  ASSUME NEW x \in Int, NEW k \in Nat, k < Contig(x)
  PROVE  Offset(x + k) = Offset(x) + k
<1>1. Offset(x) \in 0 .. Cap - 1
  BY OffsetType DEF Index
<1>2. Offset(x) + k \in 0 .. Cap - 1
  BY <1>1, WordFacts DEF Contig
<1>3. (Offset(x) + k) % Cap = Offset(x) + k
  BY <1>2, WordFacts, SmallRemainder
<1>4. k \in Int
  OBVIOUS
<1>5. ((x % Cap) + k) % Cap = (x + k) % Cap
  BY <1>4, WordFacts, RemainderOfSum
<1> QED BY <1>3, <1>5 DEF Offset

(* Within one capacity different positions have different offsets.         *)
LEMMA OffsetInjective ==
  ASSUME NEW x \in Int, NEW y \in Int, Offset(x) = Offset(y), -Cap < x - y, x - y < Cap
  PROVE  x = y
BY WordFacts, SameRemainder DEF Offset

LEMMA UsedType ==
  ASSUME head \in Words, tail \in Words
  PROVE  Used \in Words
<1>1. head - tail \in Int
  BY DEF Words
<1> QED BY <1>1, WordFacts, Division DEF Used, Words

(* The head is Used positions beyond the tail, wrapped or not.             *)
LEMMA HeadIsTailPlusUsed ==
  ASSUME head \in Words, tail \in Words, NEW k \in Int
  PROVE  Offset(head + k) = Offset(tail + Used + k)
<1>1. head - tail \in Int /\ tail \in Int /\ head \in Int /\ Used \in Int
  BY UsedType, WordFacts DEF Words
<1>2. (((head - tail) % WordMod) + tail) % WordMod = ((head - tail) + tail) % WordMod
  BY <1>1, WordFacts, RemainderOfSum
<1>3. (tail + Used) % WordMod = head % WordMod
  BY <1>1, <1>2 DEF Used
<1>4. tail + Used \in Int
  BY <1>1
<1>5. Offset(((tail + Used) % WordMod) + k) = Offset((tail + Used) + k)
  BY <1>4, OffsetOfWord
<1>6. Offset((head % WordMod) + k) = Offset(head + k)
  BY <1>1, OffsetOfWord
<1> QED BY <1>3, <1>5, <1>6

(* What a commit and a consume do to the number of bytes in use.           *)
LEMMA UsedAfterCommit ==
  ASSUME head \in Words, tail \in Words, NEW n \in Nat, Used + n < WordMod,
         head' = (head + n) % WordMod, tail' = tail
  PROVE  head' \in Words /\ Used' = Used + n
<1>1. /\ head - tail \in Int /\ head + n \in Int /\ -tail \in Int
      /\ head \in Int /\ tail \in Int /\ n \in Int
  BY DEF Words
<1>2. head' \in Words
  BY <1>1, WordFacts, Division DEF Words
<1>3. (((head + n) % WordMod) + (-tail)) % WordMod = ((head + n) + (-tail)) % WordMod
  BY <1>1, WordFacts, RemainderOfSum
<1>4. (((head - tail) % WordMod) + n) % WordMod = ((head - tail) + n) % WordMod
  <2> DEFINE d == head - tail
  <2>1. d \in Int
    BY <1>1
  <2> HIDE DEF d
  <2>2. ((d % WordMod) + n) % WordMod = (d + n) % WordMod
    BY <1>1, <2>1, WordFacts, RemainderOfSum
  <2> QED BY <2>2 DEF d
<1>5. (head + n) + (-tail) = (head - tail) + n
  BY <1>1
<1>6. head' \in Int
  BY <1>2 DEF Words
<1>7. Used' = (head' + (-tail)) % WordMod
  BY <1>1, <1>6 DEF Used
<1>8. Used' = (Used + n) % WordMod
  BY <1>3, <1>4, <1>5, <1>7 DEF Used
<1>9. Used + n \in 0 .. WordMod - 1
  BY UsedType, WordFacts DEF Words
<1> QED BY <1>2, <1>8, <1>9, WordFacts, SmallRemainder

LEMMA UsedAfterConsume ==
  ASSUME head \in Words, tail \in Words, NEW n \in Nat, n <= Used,
         tail' = (tail + n) % WordMod, head' = head
  PROVE  tail' \in Words /\ Used' = Used - n
<1>1. head - tail \in Int /\ tail + n \in Int /\ -n \in Int /\ head \in Int /\ tail \in Int
  BY DEF Words
<1>2. tail' \in Words
  BY <1>1, WordFacts, Division DEF Words
<1>3. (head - ((tail + n) % WordMod)) % WordMod = (head - (tail + n)) % WordMod
  BY <1>1, WordFacts, RemainderOfDifference
<1>4. (((head - tail) % WordMod) + (-n)) % WordMod = ((head - tail) + (-n)) % WordMod
  <2> DEFINE d == head - tail
             e == -n
  <2>1. d \in Int /\ e \in Int
    BY <1>1
  <2> HIDE DEF d, e
  <2>2. ((d % WordMod) + e) % WordMod = (d + e) % WordMod
    BY <2>1, WordFacts, RemainderOfSum
  <2> QED BY <2>2 DEF d, e
<1>5. head - (tail + n) = (head - tail) + (-n)
  BY <1>1
<1>6. Used \in 0 .. WordMod - 1
  BY UsedType DEF Words
<1>7. Used + (-n) = Used - n /\ Used - n \in 0 .. WordMod - 1
  BY <1>6, WordFacts
<1>8. Used' = (Used - n) % WordMod
  BY <1>3, <1>4, <1>5, <1>7 DEF Used
<1> QED BY <1>2, <1>7, <1>8, WordFacts, SmallRemainder
-----------------------------------------------------------------------------
(* The inductive invariant of the ring.                                    *)

ProducerInv ==
  /\ wr.pc # "idle" => wr.rem # <<>> /\ Used + Len(wr.rem) <= Cap
  /\ wr.pc \in {"copy", "commit"} => wr.n \in 1 .. Len(wr.rem) /\ wr.n <= Contig(head)
  /\ wr.pc = "commit" => \A k \in 0 .. wr.n - 1 : store[Offset(head) + k] = wr.rem[k + 1]

RingInv == RingTypeOK /\ Used <= Cap /\ rd.n <= Used /\ ProducerInv

(* One step of the ring, with writes of any length.                        *)
RingStep ==
  \/ \E data \in Seq(Bytes) : WriteAll(data)
  \/ ProducerStep
  \/ ConsumerStep

LEMMA RingInvFacts ==
  ASSUME RingInv
  PROVE  /\ head \in Words /\ tail \in Words /\ head \in Nat /\ tail \in Nat
         /\ store \in [Index -> Bytes]
         /\ wr \in [pc: {"idle", "reserve", "copy", "commit"},
                    rem: Seq(Bytes), n: 0 .. Cap, ok: BOOLEAN]
         /\ rd \in [n: 0 .. Cap, i: 0 .. Cap] /\ rd.i <= rd.n
         /\ Used \in 0 .. Cap /\ Free = Cap - Used
         /\ Len(wr.rem) \in Nat /\ (wr.rem # <<>> => Len(wr.rem) > 0)
         /\ Contig(head) \in 1 .. Cap /\ Contig(tail) \in 1 .. Cap
<1>1. RingTypeOK /\ Used <= Cap
  BY DEF RingInv
<1>2. head \in Words /\ tail \in Words /\ head \in Nat /\ tail \in Nat
  BY <1>1 DEF RingTypeOK, Words
<1>3. Used \in 0 .. Cap
  BY <1>1, <1>2, UsedType DEF Words
<1>4. Free = Cap - Used
  BY <1>3, WordFacts DEF Free
<1>5. wr.rem \in Seq(Bytes)
  BY <1>1 DEF RingTypeOK
<1>6. Len(wr.rem) \in Nat /\ (wr.rem # <<>> => Len(wr.rem) > 0)
  BY <1>5, EmptySeq, LenProperties
<1>7. Contig(head) \in 1 .. Cap /\ Contig(tail) \in 1 .. Cap
  <2>1. Offset(head) \in 0 .. Cap - 1 /\ Offset(tail) \in 0 .. Cap - 1
    BY <1>2, OffsetType DEF Index
  <2> QED BY <2>1, WordFacts DEF Contig
<1> QED BY <1>1, <1>2, <1>3, <1>4, <1>6, <1>7 DEF RingTypeOK

LEMMA RingInitInv == RingInit => RingInv
<1> SUFFICES ASSUME RingInit PROVE RingInv
  OBVIOUS
<1>1. RingTypeOK
  BY WordFacts, EmptySeq DEF RingInit, RingTypeOK, Words
<1>2. Used = 0
  BY WordFacts, SmallRemainder DEF RingInit, Used
<1> QED BY <1>1, <1>2, WordFacts DEF RingInv, ProducerInv, RingInit

LEMMA WriteAllInv ==
  ASSUME RingInv, NEW data \in Seq(Bytes), WriteAll(data)
  PROVE  RingInv'
<1> USE RingInvFacts
<1>1. UNCHANGED <<head, tail, store, rd, last>> /\ data # <<>>
  BY DEF WriteAll
<1>2. Used' = Used
  BY <1>1 DEF Used
<1>3. CASE Free < Len(data)
  <2>1. wr' = [wr EXCEPT !.ok = FALSE] /\ wr.pc = "idle"
    BY <1>3 DEF WriteAll
  <2>2. RingTypeOK'
    BY <1>1, <2>1 DEF RingInv, RingTypeOK
  <2>3. wr'.pc = "idle"
    BY <2>1
  <2> QED BY <1>1, <1>2, <2>2, <2>3 DEF RingInv, ProducerInv
<1>4. CASE ~(Free < Len(data))
  <2>1. wr' = [wr EXCEPT !.pc = "reserve", !.rem = data, !.n = 0]
    BY <1>4 DEF WriteAll
  <2>2. Len(data) \in Nat /\ Used + Len(data) <= Cap
    BY <1>4, LenProperties, WordFacts
  <2>3. wr' = [pc |-> "reserve", rem |-> data, n |-> 0, ok |-> wr.ok]
    BY <2>1
  <2>4. wr'.pc = "reserve" /\ wr'.rem = data /\ 0 \in 0 .. Cap
    BY <2>3, WordFacts
  <2>5. wr' \in [pc: {"idle", "reserve", "copy", "commit"},
                 rem: Seq(Bytes), n: 0 .. Cap, ok: BOOLEAN]
    BY <2>3, <2>4
  <2>6. RingTypeOK'
    BY <1>1, <2>5 DEF RingInv, RingTypeOK
  <2> QED BY <1>1, <1>2, <2>2, <2>4, <2>6 DEF RingInv, ProducerInv
<1> QED BY <1>3, <1>4

(* A reserve never finds the ring full: the write was checked to fit.      *)
LEMMA ReserveFindsRoom ==
  ASSUME RingInv, Reserve
  PROVE  LET n == Lesser(Lesser(Len(wr.rem), Free), Contig(head))
         IN  n \in 1 .. Len(wr.rem) /\ n <= Contig(head) /\ wr' = [wr EXCEPT !.pc = "copy", !.n = n]
<1> USE RingInvFacts
<1> DEFINE n == Lesser(Lesser(Len(wr.rem), Free), Contig(head))
<1>1. wr.rem # <<>> /\ Used + Len(wr.rem) <= Cap
  BY DEF RingInv, ProducerInv, Reserve
<1>2. n \in 1 .. Len(wr.rem) /\ n <= Contig(head)
  BY <1>1, WordFacts DEF Lesser
<1>3. n # 0
  BY <1>2
<1> QED BY <1>2, <1>3 DEF Reserve

LEMMA ReserveInv == ASSUME RingInv, Reserve PROVE RingInv'
<1> USE RingInvFacts
<1>1. PICK n \in 1 .. Len(wr.rem) :
        n <= Contig(head) /\ wr' = [wr EXCEPT !.pc = "copy", !.n = n]
  BY ReserveFindsRoom
<1>2. UNCHANGED <<head, tail, store, rd, last>> /\ wr.pc = "reserve"
  BY DEF Reserve
<1>3. Used' = Used /\ Contig(head)' = Contig(head)
  BY <1>2 DEF Used, Contig, Offset
<1>4. n \in 0 .. Cap
  BY <1>1, WordFacts
<1>5. RingTypeOK'
  BY <1>1, <1>2, <1>4 DEF RingInv, RingTypeOK
<1>6. wr'.pc = "copy" /\ wr'.rem = wr.rem /\ wr'.n = n
  BY <1>1
<1> QED BY <1>1, <1>2, <1>3, <1>5, <1>6 DEF RingInv, ProducerInv

LEMMA CopyInv == ASSUME RingInv, Copy PROVE RingInv'
<1> USE RingInvFacts
<1>1. /\ UNCHANGED <<head, tail, rd, last>>
      /\ wr.pc = "copy" /\ wr' = [wr EXCEPT !.pc = "commit"]
      /\ store' = [j \in Index |-> IF j \in Offset(head) .. Offset(head) + wr.n - 1
                                   THEN wr.rem[j - Offset(head) + 1] ELSE store[j]]
  BY DEF Copy
<1>2. Used' = Used /\ Contig(head)' = Contig(head) /\ Offset(head)' = Offset(head)
  BY <1>1 DEF Used, Contig, Offset
<1>3. /\ wr.n \in 1 .. Len(wr.rem) /\ wr.n <= Contig(head)
      /\ wr.rem # <<>> /\ Used + Len(wr.rem) <= Cap
  BY <1>1 DEF RingInv, ProducerInv
<1>4. Offset(head) \in 0 .. Cap - 1
  BY OffsetType DEF Index
<1>5. \A j \in Offset(head) .. Offset(head) + wr.n - 1 :
        j \in Index /\ j - Offset(head) + 1 \in 1 .. Len(wr.rem)
  <2> DEFINE o == Offset(head)
             n == wr.n
             l == Len(wr.rem)
  <2>1. o \in 0 .. Cap - 1 /\ n \in 1 .. l /\ l \in Nat /\ n <= Cap - o
    BY <1>3, <1>4 DEF Contig
  <2> HIDE DEF o, n, l
  <2>2. \A j \in o .. o + n - 1 : j \in 0 .. Cap - 1 /\ j - o + 1 \in 1 .. l
    BY <2>1, WordFacts
  <2> QED BY <2>2 DEF o, n, l, Index
<1>6. store' \in [Index -> Bytes]
  <2> SUFFICES ASSUME NEW j \in Index PROVE store'[j] \in Bytes
    BY <1>1
  <2>1. CASE j \in Offset(head) .. Offset(head) + wr.n - 1
    <3>1. j - Offset(head) + 1 \in 1 .. Len(wr.rem)
      BY <1>5, <2>1
    <3>2. wr.rem[j - Offset(head) + 1] \in Bytes
      BY <3>1, ElementOfSeq
    <3> QED BY <1>1, <2>1, <3>2
  <2>2. CASE j \notin Offset(head) .. Offset(head) + wr.n - 1
    BY <1>1, <2>2
  <2> QED BY <2>1, <2>2
<1>7. RingTypeOK'
  BY <1>1, <1>6 DEF RingInv, RingTypeOK
<1>8. wr'.pc = "commit" /\ wr'.rem = wr.rem /\ wr'.n = wr.n
  BY <1>1
<1>9. \A k \in 0 .. wr.n - 1 : store'[Offset(head) + k] = wr.rem[k + 1]
  <2> SUFFICES ASSUME NEW k \in 0 .. wr.n - 1
               PROVE  store'[Offset(head) + k] = wr.rem[k + 1]
    OBVIOUS
  <2>1. Offset(head) + k \in Offset(head) .. Offset(head) + wr.n - 1
    BY <1>3, <1>4, SMTT(30)
  <2>2. (Offset(head) + k) - Offset(head) + 1 = k + 1
    BY <1>4
  <2>3. Offset(head) + k \in Index
    BY <2>1, <1>5
  <2> QED BY <1>1, <2>1, <2>2, <2>3
<1> QED BY <1>1, <1>2, <1>3, <1>7, <1>8, <1>9 DEF RingInv, ProducerInv

(* What a commit leaves to be written.                                     *)
LEMMA CommitFacts ==
  ASSUME RingInv, Commit
  PROVE  LET left == SubSeq(wr.rem, wr.n + 1, Len(wr.rem)) IN
         /\ UNCHANGED <<tail, store, rd, last>>
         /\ wr.n \in 1 .. Len(wr.rem) /\ Used + Len(wr.rem) <= Cap /\ wr.n <= Contig(head)
         /\ head' \in Words /\ Used' = Used + wr.n
         /\ left \in Seq(Bytes) /\ Len(left) = Len(wr.rem) - wr.n
         /\ wr' = [pc |-> IF left = <<>> THEN "idle" ELSE "reserve",
                   rem |-> left, n |-> 0, ok |-> TRUE]
<1> USE RingInvFacts
<1> DEFINE left == SubSeq(wr.rem, wr.n + 1, Len(wr.rem))
<1>1. UNCHANGED <<tail, store, rd, last>> /\ wr.pc = "commit"
  BY DEF Commit
<1>2. wr.n \in 1 .. Len(wr.rem) /\ Used + Len(wr.rem) <= Cap /\ wr.n <= Contig(head)
  BY <1>1 DEF RingInv, ProducerInv
<1>3. head' \in Words /\ Used' = Used + wr.n
  <2>1. wr.n \in Nat /\ Used + wr.n < WordMod
    BY <1>2, WordFacts
  <2>2. head' = (head + wr.n) % WordMod
    BY DEF Commit
  <2> QED BY <1>1, <2>1, <2>2, UsedAfterCommit
<1>4. left \in Seq(Bytes) /\ Len(left) = Len(wr.rem) - wr.n
  <2>1. wr.n + 1 \in Int /\ Len(wr.rem) \in Int
    BY <1>2
  <2>2. \A j \in wr.n + 1 .. Len(wr.rem) : wr.rem[j] \in Bytes
    BY <1>2, ElementOfSeq
  <2>3. /\ left \in Seq(Bytes)
        /\ Len(left) = IF wr.n + 1 <= Len(wr.rem) THEN Len(wr.rem) - (wr.n + 1) + 1 ELSE 0
    BY <2>1, <2>2, SubSeqProperties
  <2> QED BY <2>3, <1>2
<1> QED BY <1>1, <1>2, <1>3, <1>4 DEF Commit

LEMMA CommitInv == ASSUME RingInv, Commit PROVE RingInv'
<1> USE RingInvFacts
<1> DEFINE left == SubSeq(wr.rem, wr.n + 1, Len(wr.rem))
<1>1. /\ UNCHANGED <<tail, store, rd, last>>
      /\ wr.n \in 1 .. Len(wr.rem) /\ Used + Len(wr.rem) <= Cap
      /\ head' \in Words /\ Used' = Used + wr.n
      /\ left \in Seq(Bytes) /\ Len(left) = Len(wr.rem) - wr.n
      /\ wr' = [pc |-> IF left = <<>> THEN "idle" ELSE "reserve",
                rem |-> left, n |-> 0, ok |-> TRUE]
  BY CommitFacts
<1> HIDE DEF left
<1>2. RingTypeOK'
  BY <1>1, WordFacts DEF RingInv, RingTypeOK
<1>3. Used' <= Cap /\ rd'.n <= Used'
  BY <1>1, WordFacts, SMTT(30) DEF RingInv
<1>4. wr'.pc = IF left = <<>> THEN "idle" ELSE "reserve"
  BY <1>1
<1>5. wr'.rem = left
  BY <1>1
<1>6. wr'.pc \in {"idle", "reserve"} /\ (wr'.pc = "reserve" => left # <<>>)
  BY <1>4
<1>7. Used' + Len(left) <= Cap
  BY <1>1
<1>8. ProducerInv'
  BY <1>5, <1>6, <1>7 DEF ProducerInv
<1> QED BY <1>2, <1>3, <1>8 DEF RingInv

(* The consumer's steps leave the producer's part of the invariant alone.  *)
LEMMA ConsumerFrame ==
  ASSUME RingInv, UNCHANGED <<head, store, wr>>, Used' \in 0 .. Used
  PROVE  ProducerInv'
<1>1. Contig(head)' = Contig(head) /\ Offset(head)' = Offset(head)
  BY DEF Contig, Offset
<1> QED BY <1>1, RingInvFacts, WordFacts DEF RingInv, ProducerInv

LEMMA PeekInv == ASSUME RingInv, Peek PROVE RingInv'
<1> USE RingInvFacts
<1>1. /\ UNCHANGED <<head, tail, store, wr, last>>
      /\ rd' = [n |-> Lesser(Used, Contig(tail)), i |-> 0]
  BY DEF Peek
<1>2. Used' = Used
  BY <1>1 DEF Used
<1>3. Lesser(Used, Contig(tail)) \in 0 .. Cap /\ Lesser(Used, Contig(tail)) <= Used
  BY WordFacts DEF Lesser
<1>4. RingTypeOK'
  BY <1>1, <1>3, WordFacts DEF RingInv, RingTypeOK
<1>5. ProducerInv'
  BY <1>1, <1>2, ConsumerFrame
<1> QED BY <1>1, <1>2, <1>3, <1>4, <1>5 DEF RingInv

LEMMA ReadByteInv == ASSUME RingInv, ReadByte PROVE RingInv'
<1> USE RingInvFacts
<1>1. /\ UNCHANGED <<head, tail, store, wr>> /\ rd.i < rd.n
      /\ rd' = [rd EXCEPT !.i = @ + 1] /\ last' = store[Offset(tail + rd.i)]
  BY DEF ReadByte
<1>2. Used' = Used
  BY <1>1 DEF Used
<1>3. Offset(tail + rd.i) \in Index
  BY OffsetType
<1>4. rd'.n = rd.n /\ rd'.i = rd.i + 1 /\ rd' \in [n: 0 .. Cap, i: 0 .. Cap]
  BY <1>1, WordFacts, SMTT(30)
<1>5. RingTypeOK'
  BY <1>1, <1>3, <1>4 DEF RingInv, RingTypeOK
<1>6. ProducerInv'
  BY <1>1, <1>2, ConsumerFrame
<1> QED BY <1>2, <1>4, <1>5, <1>6 DEF RingInv

LEMMA ConsumeInv == ASSUME RingInv, Consume PROVE RingInv'
<1> USE RingInvFacts
<1>1. /\ UNCHANGED <<head, store, wr, last>> /\ rd' = [n |-> 0, i |-> 0]
      /\ tail' = (tail + rd.n) % WordMod
  BY DEF Consume
<1>2. rd.n \in Nat /\ rd.n <= Used
  BY DEF RingInv
<1>3. tail' \in Words /\ Used' = Used - rd.n
  BY <1>1, <1>2, UsedAfterConsume
<1>4. RingTypeOK'
  BY <1>1, <1>3, WordFacts DEF RingInv, RingTypeOK
<1>5. Used' \in 0 .. Used
  BY <1>2, <1>3
<1>6. ProducerInv'
  BY <1>1, <1>5, ConsumerFrame
<1> QED BY <1>1, <1>4, <1>5, <1>6, WordFacts DEF RingInv

LEMMA RingStepInv == RingInv /\ [RingStep]_ringVars => RingInv'
<1> SUFFICES ASSUME RingInv, [RingStep]_ringVars PROVE RingInv'
  OBVIOUS
<1>1. CASE UNCHANGED ringVars
  <2>1. UNCHANGED <<head, tail, store, wr, rd, last>>
    BY <1>1 DEF ringVars
  <2> QED BY <2>1 DEF RingInv, RingTypeOK, ProducerInv, Used, Contig, Offset
<1>2. CASE \E data \in Seq(Bytes) : WriteAll(data)
  BY <1>2, WriteAllInv
<1>3. CASE ProducerStep
  BY <1>3, ReserveInv, CopyInv, CommitInv DEF ProducerStep
<1>4. CASE ConsumerStep
  BY <1>4, PeekInv, ReadByteInv, ConsumeInv DEF ConsumerStep
<1> QED BY <1>1, <1>2, <1>3, <1>4 DEF RingStep
(* The consumer's bytes lie before the producer's, Used positions apart    *)
(* and less than a capacity from end to end.                               *)
LEMMA ApartWhileCopying ==
  ASSUME RingInv, NEW k \in Nat, NEW j \in Nat, j < Used, Used + k < Cap
  PROVE  Offset(head + k) # Offset(tail + j)
<1>1. /\ head \in Words /\ tail \in Words /\ tail \in Int
      /\ Used \in Int /\ Cap \in Int /\ k \in Int /\ j \in Int
  BY RingInvFacts, WordFacts
<1>2. Offset(head + k) = Offset(tail + Used + k)
  BY <1>1, HeadIsTailPlusUsed
<1> DEFINE x == tail + Used + k
           y == tail + j
<1>3. x \in Int /\ y \in Int /\ -Cap < x - y /\ x - y < Cap /\ x # y
  BY <1>1
<1> HIDE DEF x, y
<1>4. Offset(x) # Offset(y)
  BY <1>3, OffsetInjective
<1> QED BY <1>2, <1>4 DEF x, y

LEMMA RingInvImpliesPartsApart == RingInv => PartsApart
<1> SUFFICES ASSUME RingInv PROVE PartsApart
  OBVIOUS
<1> USE RingInvFacts
<1>1. ASSUME NEW k \in 0 .. wr.n - 1, NEW j \in 0 .. Used - 1, wr.pc \in {"copy", "commit"}
      PROVE  Offset(head + k) # Offset(tail + j)
  <2>1. wr.n \in 1 .. Len(wr.rem) /\ Used + Len(wr.rem) <= Cap
    BY <1>1 DEF RingInv, ProducerInv
  <2>2. k \in Nat /\ j \in Nat /\ j < Used /\ Used + k < Cap
    BY <2>1, WordFacts, SMTT(30)
  <2> QED BY <2>2, ApartWhileCopying
<1>2. ReservedPart \cap UnreadPart = {}
  BY <1>1 DEF ReservedPart, UnreadPart
<1> QED BY <1>2 DEF PartsApart

LEMMA RingInvImpliesWriteCompletes == RingInv => WriteCompletes
BY RingInvFacts, WordFacts DEF RingInv, ProducerInv, WriteCompletes

-----------------------------------------------------------------------------
(* Refinement of the abstract stream.                                      *)

LEMMA UnreadFacts ==
  ASSUME RingInv
  PROVE  /\ Used - rd.i \in 0 .. Cap
         /\ Unread \in Seq(Bytes) /\ Len(Unread) = Used - rd.i
         /\ \A k \in 1 .. Used - rd.i : Unread[k] = store[Offset(tail + rd.i + k - 1)]
<1> USE RingInvFacts
<1> DEFINE n == Used - rd.i
<1>1. n \in 0 .. Cap
  BY WordFacts DEF RingInv
<1>2. \A k \in 1 .. n : store[Offset(tail + rd.i + k - 1)] \in Bytes
  <2> SUFFICES ASSUME NEW k \in 1 .. n PROVE store[Offset(tail + rd.i + k - 1)] \in Bytes
    OBVIOUS
  <2>1. tail + rd.i + k - 1 \in Int
    BY <1>1
  <2> QED BY <2>1, OffsetType
<1>3. Unread \in [1 .. n -> Bytes]
  BY <1>2 DEF Unread
<1>4. n \in Nat
  BY <1>1
<1> HIDE DEF n
<1>5. Unread \in Seq(Bytes)
  BY <1>3, <1>4, SeqDef
<1>6. Len(Unread) = n
  BY <1>3, <1>4, <1>5, LenProperties
<1> QED BY <1>1, <1>5, <1>6 DEF n, Unread

(* Bytes the consumer has not read are not touched by the producer's copy. *)
LEMMA CopyKeepsUnread ==
  ASSUME RingInv, Copy
  PROVE  UNCHANGED <<Unread, last>>
<1> USE RingInvFacts
<1>1. /\ UNCHANGED <<head, tail, rd, last>> /\ wr.pc = "copy"
      /\ store' = [j \in Index |-> IF j \in Offset(head) .. Offset(head) + wr.n - 1
                                   THEN wr.rem[j - Offset(head) + 1] ELSE store[j]]
  BY DEF Copy
<1>2. Used' = Used
  BY <1>1 DEF Used
<1>3. /\ wr.n \in 1 .. Len(wr.rem) /\ wr.n <= Contig(head)
      /\ Used + Len(wr.rem) <= Cap
  BY <1>1 DEF RingInv, ProducerInv
<1>4. ASSUME NEW k \in 1 .. Used - rd.i
      PROVE  store'[Offset(tail + rd.i + k - 1)] = store[Offset(tail + rd.i + k - 1)]
  <2> DEFINE j == rd.i + k - 1
             o == Offset(tail + j)
             h == Offset(head)
  <2>1. j \in Nat /\ j < Used /\ tail + j \in Int /\ tail + j = tail + rd.i + k - 1
    BY WordFacts, SMTT(30) DEF RingInv
  <2>2. o \in Index
    BY <2>1, OffsetType
  <2>3. h \in Nat /\ o \in Nat
    BY <2>2, OffsetType DEF Index
  <2>4. o \notin h .. h + wr.n - 1
    <3> SUFFICES ASSUME o \in h .. h + wr.n - 1 PROVE FALSE
      OBVIOUS
    <3> DEFINE i == o - h
    <3> HIDE DEF o, h
    <3>0. wr.n \in Nat /\ Len(wr.rem) \in Nat /\ Used \in Nat /\ Contig(head) \in Nat
      BY <1>3
    <3>1. i \in Nat /\ i < wr.n /\ o = h + i
      BY <2>3, <3>0, SMTT(30)
    <3>2. i < Contig(head) /\ Used + i < Cap
      BY <3>0, <3>1, <1>3, WordFacts, SMTT(30)
    <3> HIDE DEF i, j
    <3>3. Offset(head + i) = h + i
      BY <3>1, <3>2, OffsetContiguous DEF h
    <3>4. Offset(head + i) # Offset(tail + j)
      BY <3>1, <3>2, <2>1, ApartWhileCopying
    <3> QED BY <3>1, <3>3, <3>4 DEF o
  <2>5. store'[o] = store[o]
    BY <1>1, <2>2, <2>4
  <2> QED BY <2>1, <2>5
<1> QED BY <1>1, <1>2, <1>4 DEF Unread

(* A commit appends what was copied.                                       *)
LEMMA CommitAppends ==
  ASSUME RingInv, Commit
  PROVE  /\ wr.n \in 1 .. Cap - Len(Unread) /\ last' = last
         /\ [k \in 1 .. wr.n |-> wr.rem[k]] \in [1 .. wr.n -> Bytes]
         /\ Unread' = Unread \o [k \in 1 .. wr.n |-> wr.rem[k]]
<1> USE RingInvFacts
<1>1. /\ UNCHANGED <<tail, store, rd, last>> /\ wr.n \in 1 .. Len(wr.rem)
      /\ Used + Len(wr.rem) <= Cap /\ wr.n <= Contig(head) /\ Used' = Used + wr.n
  BY CommitFacts
<1>2. \A k \in 0 .. wr.n - 1 : store[Offset(head) + k] = wr.rem[k + 1]
  BY DEF RingInv, ProducerInv, Commit
<1> DEFINE n == wr.n
           s == [k \in 1 .. n |-> wr.rem[k]]
           u == Used - rd.i
<1>3. n \in 1 .. Cap - Len(Unread) /\ n \in Nat
  BY <1>1, UnreadFacts, WordFacts, SMTT(30)
<1>4. s \in [1 .. n -> Bytes]
  <2>1. \A k \in 1 .. n : k \in 1 .. Len(wr.rem)
    BY <1>1
  <2>2. \A k \in 1 .. n : wr.rem[k] \in Bytes
    BY <2>1, ElementOfSeq
  <2> QED BY <2>2
<1>5. s \in Seq(Bytes) /\ Len(s) = n
  <2> HIDE DEF s, n
  <2> QED BY <1>3, <1>4, SeqDef, LenProperties
<1>6. RingInv'
  BY CommitInv
<1>7. /\ Unread' \in Seq(Bytes) /\ Len(Unread') = u + n
      /\ \A k \in 1 .. u + n : Unread'[k] = store[Offset(tail + rd.i + k - 1)]
  <2>1. /\ Unread' \in Seq(Bytes) /\ Len(Unread') = Used' - rd'.i
        /\ \A k \in 1 .. Used' - rd'.i : Unread'[k] = store'[Offset(tail' + rd'.i + k - 1)]
    <3>1. (RingInv => /\ Unread \in Seq(Bytes) /\ Len(Unread) = Used - rd.i
                      /\ \A k \in 1 .. Used - rd.i :
                           Unread[k] = store[Offset(tail + rd.i + k - 1)])'
      BY UnreadFacts, PTL
    <3> QED BY <1>6, <3>1 DEF Offset
  <2>2. Used' - rd'.i = u + n
    BY <1>1, WordFacts
  <2> QED BY <1>1, <2>1, <2>2
<1>8. /\ Unread \o s \in Seq(Bytes) /\ Len(Unread \o s) = u + n
      /\ \A k \in 1 .. u + n : (Unread \o s)[k] = IF k <= u THEN Unread[k] ELSE s[k - u]
  <2> HIDE RingInvFacts DEF s, n, u
  <2>1. Unread \in Seq(Bytes) /\ Len(Unread) = u
    BY UnreadFacts DEF u
  <2>2. /\ Unread \o s \in Seq(Bytes) /\ Len(Unread \o s) = Len(Unread) + Len(s)
        /\ \A k \in 1 .. Len(Unread) + Len(s) :
             (Unread \o s)[k] = IF k <= Len(Unread) THEN Unread[k] ELSE s[k - Len(Unread)]
    BY <1>5, <2>1, ConcatProperties
  <2> QED BY <1>5, <2>1, <2>2
<1>9. \A k \in 1 .. u + n : Unread'[k] = (Unread \o s)[k]
  <2> SUFFICES ASSUME NEW k \in 1 .. u + n
               PROVE  store[Offset(tail + rd.i + k - 1)] = IF k <= u THEN Unread[k] ELSE s[k - u]
    BY <1>7, <1>8
  <2>1. CASE k <= u
    <3>1. k \in 1 .. u
      BY <2>1, UnreadFacts
    <3> QED BY <2>1, <3>1, UnreadFacts
  <2>2. CASE ~(k <= u)
    <3> DEFINE i == k - u - 1
    <3>0. /\ u \in Int /\ n \in Nat /\ n <= Contig(head) /\ Contig(head) \in Int
          /\ tail \in Int /\ rd.i \in Int /\ Used \in Int
      BY <1>1, UnreadFacts
    <3>1. i \in 0 .. n - 1 /\ i \in Nat /\ i < Contig(head) /\ i \in Int /\ k - u = i + 1
      <4> HIDE RingInvFacts DEF u, n
      <4> QED BY <2>2, <3>0
    <3>2. tail + rd.i + k - 1 = tail + Used + i
      <4>1. k \in Int
        BY <3>0
      <4> HIDE RingInvFacts
      <4> QED BY <3>0, <4>1
    <3> HIDE DEF i
    <3>3. Offset(tail + Used + i) = Offset(head + i)
      BY <3>1, HeadIsTailPlusUsed
    <3>4. Offset(head + i) = Offset(head) + i
      BY <3>1, OffsetContiguous
    <3>5. store[Offset(head) + i] = wr.rem[i + 1]
      BY <3>1, <1>2
    <3>6. s[i + 1] = wr.rem[i + 1]
      BY <3>1, <1>3
    <3> QED BY <2>2, <3>1, <3>2, <3>3, <3>4, <3>5, <3>6
  <2> QED BY <2>1, <2>2
<1>10. Unread' = Unread \o s
  <2> HIDE DEF s, u, n
  <2> QED BY <1>7, <1>8, <1>9, SeqEqual
<1> QED BY <1>1, <1>3, <1>4, <1>10

LEMMA CommitPuts == ASSUME RingInv, Commit PROVE Fifo!Put
BY CommitAppends DEF Fifo!Put

(* Reading a byte takes the oldest.                                        *)
LEMMA ReadByteTakes == ASSUME RingInv, ReadByte PROVE Fifo!Take
<1> USE RingInvFacts
<1>1. /\ UNCHANGED <<head, tail, store, wr>> /\ rd.i < rd.n
      /\ rd'.i = rd.i + 1 /\ last' = store[Offset(tail + rd.i)]
  BY DEF ReadByte
<1> DEFINE u == Used - rd.i
<1>2. Used' = Used /\ rd.n <= Used /\ u \in 1 .. Cap
  <2>1. Used' = Used
    BY <1>1 DEF Used
  <2>2. rd.n <= Used /\ Used \in 0 .. Cap /\ rd.n \in Nat /\ rd.i \in Nat
    BY DEF RingInv
  <2> QED BY <1>1, <2>1, <2>2, WordFacts, SMTT(30)
<1>3. Unread # <<>> /\ Len(Unread) = u
  BY <1>2, UnreadFacts, EmptySeq
<1>4. Unread[1] = last'
  <2>1. 1 \in 1 .. Used - rd.i /\ tail + rd.i + 1 - 1 = tail + rd.i
    BY <1>2
  <2> QED BY <1>1, <2>1, UnreadFacts
<1>5. Head(Unread) = last'
  BY <1>3, <1>4, UnreadFacts DEF Head
<1>6. /\ Tail(Unread) \in Seq(Bytes) /\ Len(Tail(Unread)) = u - 1
      /\ \A k \in 1 .. u - 1 : Tail(Unread)[k] = Unread[k + 1]
  BY <1>3, UnreadFacts, HeadTailProperties
<1>7. Unread' = [k \in 1 .. u - 1 |-> store[Offset(tail + rd.i + (k + 1) - 1)]]
  <2>1. Used' - rd'.i = u - 1
    BY <1>1, <1>2
  <2>2. \A k \in 1 .. u - 1 : tail' + rd'.i + k - 1 = tail + rd.i + (k + 1) - 1
    BY <1>1
  <2>3. Unread' = [k \in 1 .. Used' - rd'.i |-> store'[Offset(tail' + rd'.i + k - 1)]]
    BY DEF Unread, Offset
  <2> QED BY <1>1, <2>1, <2>2, <2>3
<1>8. \A k \in 1 .. u - 1 : Unread'[k] = Tail(Unread)[k]
  <2> SUFFICES ASSUME NEW k \in 1 .. u - 1 PROVE Unread'[k] = Tail(Unread)[k]
    OBVIOUS
  <2>1. k + 1 \in 1 .. Used - rd.i
    BY <1>2
  <2>2. Unread[k + 1] = store[Offset(tail + rd.i + (k + 1) - 1)]
    BY <2>1, UnreadFacts
  <2> QED BY <1>6, <1>7, <2>2
<1>9. Tail(Unread) \in [1 .. u - 1 -> Bytes]
  BY <1>6, LenProperties
<1>10. Unread' = Tail(Unread)
  BY <1>7, <1>8, <1>9
<1> QED BY <1>3, <1>5, <1>10 DEF Fifo!Take

(* Giving back a view that was read to its end changes nothing for the     *)
(* reader.                                                                 *)
LEMMA ConsumeKeepsUnread == ASSUME RingInv, Consume PROVE UNCHANGED <<Unread, last>>
<1> USE RingInvFacts
<1>1. /\ UNCHANGED <<head, store, wr, last>> /\ rd'.n = 0 /\ rd'.i = 0 /\ rd.i = rd.n
      /\ tail' = (tail + rd.n) % WordMod
  BY DEF Consume
<1>2. rd.n \in Nat /\ rd.n <= Used /\ tail + rd.n \in Int
  BY DEF RingInv
<1>3. Used' = Used - rd.n
  BY <1>1, <1>2, UsedAfterConsume
<1>4. Used' - rd'.i = Used - rd.i
  BY <1>1, <1>2, <1>3, WordFacts
<1>5. ASSUME NEW k \in 1 .. Used - rd.i
      PROVE  Offset(tail' + rd'.i + k - 1) = Offset(tail + rd.i + k - 1)
  <2>1. k - 1 \in Int /\ (tail + rd.n) % WordMod \in Int
    BY <1>2, WordFacts, Division
  <2>2. Offset(((tail + rd.n) % WordMod) + (k - 1)) = Offset((tail + rd.n) + (k - 1))
    BY <1>2, <2>1, OffsetOfWord
  <2>3. tail' + rd'.i + k - 1 = ((tail + rd.n) % WordMod) + (k - 1)
    BY <1>1, <2>1
  <2>4. tail + rd.i + k - 1 = (tail + rd.n) + (k - 1)
    BY <1>1, <2>1
  <2> QED BY <2>2, <2>3, <2>4
<1>6. Unread' = [k \in 1 .. Used' - rd'.i |-> store'[Offset(tail' + rd'.i + k - 1)]]
  BY DEF Unread, Offset
<1> QED BY <1>1, <1>4, <1>5, <1>6 DEF Unread

(* Every step of the ring is a step of the stream, or invisible.           *)
LEMMA RingStepRefines ==
  ASSUME RingInv, [RingStep]_ringVars
  PROVE  [Fifo!Next]_<<Unread, last>>
<1> USE RingInvFacts
<1>1. ASSUME UNCHANGED <<head, tail, store, rd, last>> PROVE UNCHANGED <<Unread, last>>
  BY <1>1 DEF Unread, Used, Offset
<1>2. CASE UNCHANGED ringVars
  BY <1>1, <1>2 DEF ringVars
<1>3. CASE \E data \in Seq(Bytes) : WriteAll(data)
  BY <1>1, <1>3 DEF WriteAll
<1>4. CASE ProducerStep
  <2>1. CASE Reserve
    BY <1>1, <2>1 DEF Reserve
  <2>2. CASE Copy
    BY <2>2, CopyKeepsUnread
  <2>3. CASE Commit
    BY <2>3, CommitPuts DEF Fifo!Next
  <2> QED BY <1>4, <2>1, <2>2, <2>3 DEF ProducerStep
<1>5. CASE ConsumerStep
  <2>1. CASE Peek
    <3>1. /\ UNCHANGED <<head, tail, store, last>>
          /\ rd.n = 0 /\ rd'.i = 0
      BY <2>1 DEF Peek
    <3>2. rd'.i = rd.i
      BY <3>1
    <3> QED BY <3>1, <3>2 DEF Unread, Used, Offset
  <2>2. CASE ReadByte
    BY <2>2, ReadByteTakes DEF Fifo!Next
  <2>3. CASE Consume
    BY <2>3, ConsumeKeepsUnread
  <2> QED BY <1>5, <2>1, <2>2, <2>3 DEF ConsumerStep
<1> QED BY <1>2, <1>3, <1>4, <1>5 DEF RingStep

LEMMA RingInitRefines == RingInit => Fifo!Init
<1> SUFFICES ASSUME RingInit PROVE Fifo!Init
  OBVIOUS
<1>1. RingInv
  BY RingInitInv
<1>2. Used = 0 /\ rd.i = 0 /\ last = None
  BY WordFacts, SmallRemainder DEF RingInit, Used
<1>3. Unread = <<>>
  BY <1>1, <1>2, UnreadFacts, EmptySeq
<1> QED BY <1>2, <1>3 DEF Fifo!Init
-----------------------------------------------------------------------------
(* The ring on its own.                                                    *)

LEMMA RingNextIsRingStep == [RingNext]_ringVars => [RingStep]_ringVars
<1>1. \A n \in 1 .. MaxWrite : [1 .. n -> Bytes] \subseteq Seq(Bytes)
  BY RingAssumption, SeqDef
<1> QED BY <1>1 DEF RingNext, RingStep

LEMMA RingInvariance == RingSpec => []RingInv
<1>1. RingInv /\ [RingNext]_ringVars => RingInv'
  BY RingStepInv, RingNextIsRingStep
<1> QED BY <1>1, RingInitInv, PTL DEF RingSpec

(* The two indices stay words, the view stays inside the capacity, and the *)
(* buffer holds bytes (spsc_ring.c).                                       *)
THEOREM RingTypes == RingSpec => []RingTypeOK
<1>1. RingInv => RingTypeOK
  BY DEF RingInv
<1> QED BY <1>1, RingInvariance, PTL

(* What spsc_ring_reserve hands to the producer and what spsc_ring_peek    *)
(* shows to the consumer never overlap, at any fill level and wherever the *)
(* indices wrapped.                                                        *)
THEOREM RingPartsApart == RingSpec => []PartsApart
BY RingInvariance, RingInvImpliesPartsApart, PTL

(* The space infra_log_stream_write_all saw free before its loop is free   *)
(* in every round of the loop.                                             *)
THEOREM RingWritesComplete == RingSpec => []WriteCompletes
BY RingInvariance, RingInvImpliesWriteCompletes, PTL

(* The ring implements the bounded byte stream: nothing is lost, repeated  *)
(* or reordered, at any interleaving of the two sides.                     *)
THEOREM RingRefinesFifo == RingSpec => RingIsFifo
<1>1. RingInv /\ [RingNext]_ringVars => [Fifo!Next]_<<Unread, last>>
  BY RingStepRefines, RingNextIsRingStep
<1> QED BY <1>1, RingInvariance, RingInitRefines, PTL DEF RingSpec, RingIsFifo, Fifo!Spec

-----------------------------------------------------------------------------
(* The log pipeline: every step of it is a step of the ring or leaves the  *)
(* ring alone.                                                             *)

LEMMA LogNextIsRingStep ==
  ASSUME LogTypeOK, [LogNext]_vars
  PROVE  [RingStep]_ringVars
<1>1. acc \in Seq(Bytes) /\ <<Newline>> \in Seq(Bytes)
  <2>1. acc \in Seq(Bytes \ {Newline})
    BY DEF LogTypeOK
  <2>2. \A s \in Seq(Bytes \ {Newline}) : s \in Seq(Bytes)
    BY SeqMonotonic
  <2> QED BY <2>1, <2>2, LogAssumption
<1>2. CASE UNCHANGED vars
  BY <1>2 DEF vars
<1>3. ASSUME NEW w \in Writers, LogCall(w) PROVE UNCHANGED ringVars
  BY <1>3 DEF LogCall
<1>4. CASE LogStep
  <2>1. CASE AppendByte
    BY <2>1 DEF AppendByte
  <2>2. CASE EndLine
    BY <1>1, <2>2 DEF EndLine, RingStep
  <2>3. CASE WriteNewline
    BY <1>1, <2>3 DEF WriteNewline, RingStep
  <2>4. CASE PostReady
    BY <2>4 DEF PostReady
  <2>5. CASE LogReturn
    BY <2>5 DEF LogReturn
  <2>6. CASE RingWrite
    BY <2>6 DEF RingWrite, RingStep
  <2> QED BY <1>4, <2>1, <2>2, <2>3, <2>4, <2>5, <2>6 DEF LogStep
<1>5. CASE Subscribe
  BY <1>5 DEF Subscribe
<1>6. CASE OtherEvent
  BY <1>6 DEF OtherEvent
<1>7. CASE LcdStep
  <2>1. CASE Wake
    BY <2>1 DEF Wake
  <2>2. CASE DrainView
    BY <2>2 DEF DrainView, RingStep, ConsumerStep
  <2>3. CASE DrainByte
    BY <2>3 DEF DrainByte, RingStep, ConsumerStep
  <2>4. CASE DrainConsumed
    BY <2>4 DEF DrainConsumed, RingStep, ConsumerStep
  <2>5. CASE DrainEnd
    BY <2>5 DEF DrainEnd
  <2> QED BY <1>7, <2>1, <2>2, <2>3, <2>4, <2>5 DEF LcdStep
<1>8. CASE Silence
  BY <1>8 DEF Silence, vars
<1> QED BY <1>2, <1>3, <1>4, <1>5, <1>6, <1>7, <1>8 DEF LogNext

(* Appending to an accumulator that keeps the last n.                      *)
LEMMA PushKeepFacts ==
  ASSUME NEW S, NEW s \in Seq(S), NEW b \in S, NEW n \in Nat \ {0}, Len(s) <= n
  PROVE  PushKeep(s, b, n) \in Seq(S) /\ Len(PushKeep(s, b, n)) <= n
<1>1. CASE Len(s) < n
  BY <1>1, AppendProperties, LenProperties DEF PushKeep
<1>2. CASE ~(Len(s) < n)
  <2>1. s # <<>>
    BY <1>2, EmptySeq, LenProperties
  <2>2. Tail(s) \in Seq(S) /\ Len(Tail(s)) = Len(s) - 1
    BY <2>1, HeadTailProperties
  <2>3. Append(Tail(s), b) \in Seq(S) /\ Len(Append(Tail(s), b)) = Len(Tail(s)) + 1
    BY <2>2, AppendProperties
  <2> QED BY <1>2, <2>2, <2>3, LenProperties DEF PushKeep
<1> QED BY <1>1, <1>2

(* The doorbell's queue keeps its type and depth.                          *)
LEMMA RingDoorFacts ==
  ASSUME LogTypeOK, NEW ev \in {"ready", "other"}, RingDoor(ev)
  PROVE  door' \in Seq({"ready", "other"}) /\ Len(door') <= DoorDepth
<1>1. door \in Seq({"ready", "other"}) /\ Len(door) <= DoorDepth
  BY DEF LogTypeOK
<1>2. Append(door, ev) \in Seq({"ready", "other"}) /\ Len(Append(door, ev)) = Len(door) + 1
  BY <1>1, AppendProperties
<1>3. Len(door) \in Nat /\ DoorDepth \in Nat
  BY <1>1, LenProperties, LogAssumption
<1> QED BY <1>1, <1>2, <1>3 DEF RingDoor, DoorOpen

LEMMA LogInitTypes == LogInit => LogTypeOK
<1> SUFFICES ASSUME LogInit PROVE LogTypeOK
  OBVIOUS
<1>1. RingTypeOK
  BY RingInitInv DEF RingInv, LogInit
<1>2. /\ <<>> \in Seq(Bytes) /\ <<>> \in Seq(Bytes \ {Newline})
      /\ <<>> \in Seq({"ready", "other"}) /\ Len(<<>>) = 0
  BY EmptySeq
<1>3. 0 <= AccCap /\ 0 <= ShowCap /\ 0 <= DoorDepth
  BY LogAssumption
<1> QED BY <1>1, <1>2, <1>3 DEF LogInit, LogTypeOK

LEMMA LogStepTypes ==
  ASSUME LogTypeOK, RingTypeOK', [LogNext]_vars
  PROVE  LogTypeOK'
<1>0. /\ mux \in Writers \cup {None}
      /\ chunk \in Seq(Bytes) /\ acc \in Seq(Bytes \ {Newline}) /\ Len(acc) <= AccCap
      /\ flush \in {"no", "line", "newline"}
      /\ door \in Seq({"ready", "other"}) /\ Len(door) <= DoorDepth
      /\ lcd \in {"wait", "drain"}
      /\ line \in Seq(Bytes \ {Newline}) /\ Len(line) <= ShowCap
      /\ lost \in BOOLEAN /\ subbed \in BOOLEAN
      /\ AccCap \in Nat \ {0} /\ ShowCap \in Nat \ {0}
  BY LogAssumption DEF LogTypeOK
<1>1. chunk # <<>> => Head(chunk) \in Bytes /\ Tail(chunk) \in Seq(Bytes)
  BY <1>0, HeadTailProperties
<1>2. <<>> \in Seq(Bytes \ {Newline}) /\ Len(<<>>) <= AccCap /\ Len(<<>>) <= ShowCap
  BY <1>0, EmptySeq
<1>3. CASE UNCHANGED vars
  BY <1>3 DEF vars, logVars, lcdVars, LogTypeOK
<1>4. ASSUME NEW w \in Writers, LogCall(w) PROVE LogTypeOK'
  BY <1>0, <1>4, LogAssumption DEF LogCall, LogTypeOK, lcdVars
<1>5. CASE AppendByte
  <2>1. Head(chunk) \in Bytes \ {Newline}
    BY <1>1, <1>5 DEF AppendByte
  <2>2. PushKeep(acc, Head(chunk), AccCap) \in Seq(Bytes \ {Newline})
        /\ Len(PushKeep(acc, Head(chunk), AccCap)) <= AccCap
    BY <1>0, <2>1, PushKeepFacts
  <2> QED BY <1>0, <1>1, <1>5, <2>2 DEF AppendByte, LogTypeOK, lcdVars
<1>6. CASE EndLine
  <2>1. chunk' \in Seq(Bytes) /\ UNCHANGED <<mux, missed, door, lcd, line, subbed>>
    BY <1>1, <1>6 DEF EndLine, lcdVars
  <2>2. acc' \in {acc, <<>>} /\ flush' \in {flush, "line"} /\ lost' \in BOOLEAN
    BY <1>0, <1>6 DEF EndLine
  <2> QED BY <1>0, <1>2, <2>1, <2>2 DEF LogTypeOK
<1>7. CASE WriteNewline
  <2>1. /\ UNCHANGED <<mux, chunk, lost, missed, door, lcd, line, subbed>>
        /\ acc' \in {acc, <<>>} /\ flush' \in {"newline", "no"}
    BY <1>7 DEF WriteNewline, lcdVars
  <2> QED BY <1>0, <1>2, <2>1 DEF LogTypeOK
<1>8. CASE PostReady
  <2>1. door' \in Seq({"ready", "other"}) /\ Len(door') <= DoorDepth
    BY <1>0, <1>8, RingDoorFacts DEF PostReady
  <2>2. UNCHANGED <<mux, chunk, lcd, line, subbed>> /\ acc' = <<>> /\ flush' = "no"
        /\ lost' \in BOOLEAN
    BY <1>8 DEF PostReady, lcdVars
  <2>3. missed' \in BOOLEAN
    BY <1>0, <1>8 DEF PostReady, Swallowed, LogTypeOK
  <2> QED BY <1>0, <1>2, <2>1, <2>2, <2>3 DEF LogTypeOK
<1>9. CASE LogReturn
  BY <1>0, <1>9 DEF LogReturn, LogTypeOK, lcdVars
<1>10. CASE RingWrite
  BY <1>0, <1>10 DEF RingWrite, LogTypeOK, logVars, lcdVars
<1>11. CASE Subscribe
  BY <1>0, <1>11 DEF Subscribe, LogTypeOK, logVars
<1>12. CASE OtherEvent
  <2>1. door' \in Seq({"ready", "other"}) /\ Len(door') <= DoorDepth
    BY <1>12, RingDoorFacts DEF OtherEvent
  <2> QED BY <1>0, <1>12, <2>1 DEF OtherEvent, LogTypeOK, logVars, lcdVars
<1>13. CASE Wake
  <2>1. door' \in Seq({"ready", "other"}) /\ Len(door') = Len(door) - 1
    BY <1>0, <1>13, HeadTailProperties DEF Wake
  <2>2. Len(door') <= DoorDepth
    BY <1>0, <2>1, LenProperties, LogAssumption
  <2>3. lcd' \in {"wait", "drain"}
    BY <1>0, <1>13 DEF Wake
  <2> QED BY <1>0, <1>13, <2>1, <2>2, <2>3 DEF Wake, LogTypeOK, logVars
<1>14. CASE DrainView
  BY <1>0, <1>14 DEF DrainView, LogTypeOK, logVars, lcdVars
<1>15. CASE DrainByte
  <2>1. last' \in Bytes
    <3>1. store \in [Index -> Bytes] /\ tail \in Int /\ rd.i \in Int
      BY DEF LogTypeOK, RingTypeOK, Words
    <3>2. Offset(tail + rd.i) \in Index
      BY <3>1, OffsetType
    <3> QED BY <1>15, <3>1, <3>2 DEF DrainByte, ReadByte
  <2>2. line' \in Seq(Bytes \ {Newline}) /\ Len(line') <= ShowCap
    <3>1. CASE last' = Newline
      BY <1>2, <1>15, <3>1 DEF DrainByte
    <3>2. CASE last' # Newline
      <4>1. line' = PushKeep(line, last', ShowCap)
        BY <1>15, <3>2 DEF DrainByte
      <4>2. last' \in Bytes \ {Newline}
        BY <2>1, <3>2
      <4> QED BY <1>0, <4>1, <4>2, PushKeepFacts
    <3> QED BY <3>1, <3>2
  <2> QED BY <1>0, <1>15, <2>2 DEF DrainByte, LogTypeOK
<1>16. CASE DrainConsumed
  BY <1>0, <1>16 DEF DrainConsumed, LogTypeOK, logVars, lcdVars
<1>17. CASE DrainEnd
  BY <1>0, <1>17 DEF DrainEnd, LogTypeOK, logVars
<1>18. CASE Silence
  BY <1>3, <1>18 DEF Silence
<1> QED
  BY <1>3, <1>4, <1>5, <1>6, <1>7, <1>8, <1>9, <1>10, <1>11, <1>12, <1>13, <1>14,
     <1>15, <1>16, <1>17, <1>18 DEF LogNext, LogStep, LcdStep

PipeInv == RingInv /\ LogTypeOK

LEMMA PipeInvariance == LogSpec => []PipeInv
<1>1. LogInit => PipeInv
  BY RingInitInv, LogInitTypes DEF LogInit, PipeInv
<1>2. PipeInv /\ [LogNext]_vars => PipeInv'
  <2> SUFFICES ASSUME PipeInv, [LogNext]_vars PROVE PipeInv'
    OBVIOUS
  <2>1. RingInv'
    BY LogNextIsRingStep, RingStepInv DEF PipeInv
  <2>2. RingTypeOK'
    BY <2>1 DEF RingInv
  <2> QED BY <2>1, <2>2, LogStepTypes DEF PipeInv
<1> QED BY <1>1, <1>2, PTL DEF LogSpec

(* Writers, display task and ring keep their types whatever interleaves    *)
(* (app_log_bus.c, app_demo_lcd.c).                                        *)
THEOREM LogTypes == LogSpec => []LogTypeOK
<1>1. PipeInv => LogTypeOK
  BY DEF PipeInv
<1> QED BY <1>1, PipeInvariance, PTL

(* The stream between app__log_bus and the display task is first in, first *)
(* out, with the code that writes the lines and the code that drains them. *)
THEOREM LogRefinesFifo == LogSpec => RingIsFifo
<1>1. LogInit => Fifo!Init
  BY RingInitRefines DEF LogInit
<1>2. PipeInv /\ [LogNext]_vars => [Fifo!Next]_<<Unread, last>>
  BY LogNextIsRingStep, RingStepRefines DEF PipeInv
<1> QED BY <1>1, <1>2, PipeInvariance, PTL DEF LogSpec, RingIsFifo, Fifo!Spec
-----------------------------------------------------------------------------
(* A dropped line is no dead end.                                          *)
(*                                                                         *)
(* What keeps the display going is stronger than the property: whenever    *)
(* the ring holds bytes, whether a line was dropped or not, the display    *)
(* task is draining, has a doorbell, will get one from the line that is    *)
(* being written, or the last doorbell was swallowed.  FlushInv says that  *)
(* the line being written cannot fail halfway.                             *)

FlushInv ==
  /\ wr.pc = "idle" => wr.rem = <<>>
  /\ flush = "no" => wr.pc = "idle"
  /\ flush # "no" /\ wr.pc = "idle" => wr.ok
  /\ flush = "line" => Used + Len(wr.rem) + 1 <= Cap

BytesGetOut == Used # 0 => flush # "no" \/ lcd = "drain" \/ ReadyWaits \/ missed

LEMMA WriteAllStarts ==
  ASSUME RingInv, NEW data \in Seq(Bytes), WriteAll(data), Used + Len(data) <= Cap
  PROVE  /\ wr'.pc = "reserve" /\ wr'.rem = data /\ Used' = Used
         /\ wr'.ok = wr.ok
<1>1. ~(Free < Len(data))
  BY RingInvFacts, LenProperties, WordFacts
<1>2. wr' = [wr EXCEPT !.pc = "reserve", !.rem = data, !.n = 0]
  BY <1>1 DEF WriteAll
<1>3. UNCHANGED <<head, tail>>
  BY DEF WriteAll
<1>4. Used' = Used
  BY <1>3 DEF Used
<1> QED BY <1>2, <1>4, RingInvFacts

(* The producer's own steps: they end a write with success only, and do    *)
(* not take space beyond what the write was given.                         *)
LEMMA ProducerKeepsFlush ==
  ASSUME RingInv, FlushInv, flush # "no", flush' = flush, ProducerStep
  PROVE  FlushInv'
<1> USE RingInvFacts
<1>1. CASE Reserve
  <2>1. wr'.pc = "copy" /\ wr'.rem = wr.rem
    BY <1>1, ReserveFindsRoom
  <2>2. Used' = Used
    BY <1>1 DEF Reserve, Used
  <2> QED BY <2>1, <2>2 DEF FlushInv
<1>2. CASE Copy
  <2>1. wr'.pc = "commit" /\ wr'.rem = wr.rem
    BY <1>2 DEF Copy
  <2>2. Used' = Used
    BY <1>2 DEF Copy, Used
  <2> QED BY <2>1, <2>2 DEF FlushInv
<1>3. CASE Commit
  <2> DEFINE left == SubSeq(wr.rem, wr.n + 1, Len(wr.rem))
  <2>1. /\ wr.n \in 1 .. Len(wr.rem) /\ Used' = Used + wr.n
        /\ Len(left) = Len(wr.rem) - wr.n
        /\ wr' = [pc |-> IF left = <<>> THEN "idle" ELSE "reserve",
                  rem |-> left, n |-> 0, ok |-> TRUE]
    BY <1>3, CommitFacts
  <2> HIDE DEF left
  <2>2. wr'.rem = left /\ wr'.ok = TRUE
    BY <2>1
  <2>3. wr'.pc = "idle" => left = <<>>
    BY <2>1
  <2>4. Used' + Len(wr'.rem) = Used + Len(wr.rem)
    <3>1. Used \in Int /\ wr.n \in Int /\ Len(wr.rem) \in Int
      BY <2>1
    <3> HIDE RingInvFacts
    <3> QED BY <2>1, <2>2, <3>1
  <2> QED BY <2>2, <2>3, <2>4 DEF FlushInv
<1> QED BY <1>1, <1>2, <1>3 DEF ProducerStep

(* The consumer only makes room.                                           *)
LEMMA ConsumerKeepsFlush ==
  ASSUME RingInv, FlushInv, UNCHANGED <<flush, wr>>, Used' \in 0 .. Used
  PROVE  FlushInv'
BY RingInvFacts, WordFacts, SMTT(30) DEF FlushInv

LEMMA FlushFrame ==
  ASSUME FlushInv, UNCHANGED <<ringVars, flush>>
  PROVE  FlushInv'
BY DEF FlushInv, ringVars, Used

LEMMA FlushStep ==
  ASSUME PipeInv, FlushInv, [LogNext]_vars
  PROVE  FlushInv'
<1> USE DEF PipeInv
<1>0. RingInv /\ acc \in Seq(Bytes) /\ <<Newline>> \in Seq(Bytes) /\ Len(<<Newline>>) = 1
  <2>1. acc \in Seq(Bytes \ {Newline})
    BY DEF LogTypeOK
  <2>2. \A s \in Seq(Bytes \ {Newline}) : s \in Seq(Bytes)
    BY SeqMonotonic
  <2> QED BY <2>1, <2>2, LogAssumption
<1>1. CASE EndLine
  <2>1. flush = "no" /\ wr.pc = "idle"
    BY <1>1 DEF EndLine, FlushInv
  <2>2. CASE acc # <<>> /\ RoomFor(acc)
    <3>1. WriteAll(acc) /\ flush' = "line"
      BY <1>1, <2>2 DEF EndLine
    <3>2. Used + Len(acc) + 1 <= Cap
      BY <2>2, <1>0, RingInvFacts, LenProperties, WordFacts DEF RoomFor
    <3>3. Used + Len(acc) <= Cap
      BY <1>0, <3>2, RingInvFacts, LenProperties, WordFacts
    <3>4. wr'.pc = "reserve" /\ wr'.rem = acc /\ Used' = Used
      BY <1>0, <3>1, <3>3, WriteAllStarts
    <3> QED BY <3>1, <3>2, <3>4 DEF FlushInv
  <2>3. CASE ~(acc # <<>> /\ RoomFor(acc))
    BY <1>1, <2>3, FlushFrame DEF EndLine
  <2> QED BY <2>2, <2>3
<1>2. CASE WriteNewline
  <2>1. wr.ok /\ wr.rem = <<>> /\ Used + Len(wr.rem) + 1 <= Cap
    BY <1>2 DEF WriteNewline, FlushInv
  <2>2. Len(wr.rem) = 0
    BY <2>1, EmptySeq
  <2>3. flush' = "newline" /\ WriteAll(<<Newline>>)
    BY <1>2, <2>1 DEF WriteNewline
  <2>4. Used + Len(<<Newline>>) <= Cap
    BY <1>0, <2>1, <2>2, RingInvFacts, WordFacts
  <2>5. wr'.pc = "reserve"
    BY <1>0, <2>3, <2>4, WriteAllStarts
  <2> QED BY <2>3, <2>5 DEF FlushInv
<1>3. CASE PostReady
  BY <1>3 DEF PostReady, FlushInv, ringVars
<1>4. CASE RingWrite
  <2>1. flush # "no"
    BY <1>4 DEF RingWrite, ProducerStep, Reserve, Copy, Commit, FlushInv
  <2> QED BY <1>0, <1>4, <2>1, ProducerKeepsFlush DEF RingWrite, logVars
<1>5. CASE DrainView \/ DrainByte
  <2>1. UNCHANGED <<head, tail, wr, flush>>
    BY <1>5 DEF DrainView, DrainByte, Peek, ReadByte, logVars
  <2> QED BY <2>1 DEF FlushInv, Used
<1>6. CASE DrainConsumed
  <2>1. UNCHANGED <<head, wr, flush>> /\ tail' = (tail + rd.n) % WordMod
    BY <1>6 DEF DrainConsumed, Consume, logVars
  <2>2. rd.n \in Nat /\ rd.n <= Used
    BY RingInvFacts DEF RingInv
  <2>3. Used' = Used - rd.n
    BY <1>0, <2>1, <2>2, UsedAfterConsume, RingInvFacts
  <2>4. Used' \in 0 .. Used
    BY <1>0, <2>2, <2>3, RingInvFacts, WordFacts
  <2> QED BY <1>0, <2>1, <2>4, ConsumerKeepsFlush
<1>7. ASSUME NEW w \in Writers, LogCall(w) PROVE FlushInv'
  BY <1>7, FlushFrame DEF LogCall
<1>8. CASE AppendByte \/ LogReturn
  BY <1>8, FlushFrame DEF AppendByte, LogReturn
<1>9. CASE Subscribe \/ OtherEvent \/ Wake \/ DrainEnd
  BY <1>9, FlushFrame DEF Subscribe, OtherEvent, Wake, DrainEnd, logVars
<1>10. CASE Silence \/ UNCHANGED vars
  BY <1>10, FlushFrame DEF Silence, vars, logVars
<1> QED
  BY <1>1, <1>2, <1>3, <1>4, <1>5, <1>6, <1>7, <1>8, <1>9, <1>10
     DEF LogNext, LogStep, LcdStep

LEMMA DoorType ==
  ASSUME LogTypeOK
  PROVE  door \in Seq({"ready", "other"}) /\ Len(door) \in Nat
BY LenProperties DEF LogTypeOK

(* A doorbell that is let in waits; nobody else's event takes one away.    *)
LEMMA DoorKeepsReady ==
  ASSUME LogTypeOK, NEW ev \in {"ready", "other"}, RingDoor(ev)
  PROVE  /\ ReadyWaits => ReadyWaits'
         /\ DoorOpen /\ ev = "ready" => ReadyWaits'
         /\ ~DoorOpen => door' = door
<1>1. CASE door' = door /\ ~DoorOpen
  BY <1>1 DEF ReadyWaits
<1>2. CASE door' = Append(door, ev)
  <2>1. /\ Len(door') = Len(door) + 1 /\ door'[Len(door) + 1] = ev
        /\ \A k \in 1 .. Len(door) : door'[k] = door[k]
    BY <1>2, DoorType, AppendProperties
  <2>2. 1 .. Len(door) \subseteq 1 .. Len(door') /\ Len(door) + 1 \in 1 .. Len(door')
    BY <2>1, DoorType
  <2>3. (ReadyWaits => ReadyWaits') /\ (ev = "ready" => ReadyWaits')
    BY <2>1, <2>2 DEF ReadyWaits
  <2> QED BY <1>2, <2>3 DEF RingDoor
<1> QED BY <1>1, <1>2 DEF RingDoor

LEMMA TailKeepsReady ==
  ASSUME LogTypeOK, door # <<>>, door' = Tail(door), ReadyWaits, Head(door) # "ready"
  PROVE  ReadyWaits'
<1>1. /\ Len(door') = Len(door) - 1
      /\ \A k \in 1 .. Len(door') : door'[k] = door[k + 1]
  BY DoorType, HeadTailProperties
<1> PICK k \in 1 .. Len(door) : door[k] = "ready"
  BY DEF ReadyWaits
<1>2. k # 1
  BY DEF Head
<1>3. k - 1 \in 1 .. Len(door') /\ (k - 1) + 1 = k
  BY <1>1, <1>2, DoorType
<1>4. door'[k - 1] = "ready"
  BY <1>1, <1>3
<1> QED BY <1>3, <1>4 DEF ReadyWaits

CatchUpInv == PipeInv /\ FlushInv /\ BytesGetOut

LEMMA BytesGetOutStep ==
  ASSUME CatchUpInv, [LogNext]_vars
  PROVE  BytesGetOut'
<1> USE DEF CatchUpInv
<1>0. LogTypeOK /\ RingInv
  BY DEF PipeInv
<1>1. ASSUME UNCHANGED <<ringVars, flush, door, lcd, missed>> PROVE BytesGetOut'
  BY <1>1 DEF BytesGetOut, ReadyWaits, Used, ringVars
<1>2. ASSUME flush' # "no" PROVE BytesGetOut'
  BY <1>2 DEF BytesGetOut
<1>3. ASSUME NEW w \in Writers, LogCall(w) PROVE BytesGetOut'
  BY <1>1, <1>3 DEF LogCall, lcdVars
<1>4. CASE AppendByte \/ LogReturn
  BY <1>1, <1>4 DEF AppendByte, LogReturn, lcdVars
<1>5. CASE EndLine
  BY <1>1, <1>2, <1>5 DEF EndLine, lcdVars
<1>6. CASE WriteNewline
  <2>1. wr.ok
    BY <1>6 DEF WriteNewline, FlushInv
  <2> QED BY <1>2, <1>6, <2>1 DEF WriteNewline
<1>7. CASE PostReady
  <2>1. wr.ok
    BY <1>7 DEF PostReady, FlushInv
  <2>2. RingDoor("ready") /\ missed' = Swallowed /\ lcd' = lcd
    BY <1>7, <2>1 DEF PostReady, lcdVars
  <2>3. (ReadyWaits => ReadyWaits') /\ (DoorOpen => ReadyWaits')
    BY <1>0, <2>2, DoorKeepsReady
  <2>4. missed' \/ DoorOpen \/ ReadyWaits \/ lcd' = "drain"
    BY <1>0, <2>2 DEF Swallowed, LogTypeOK
  <2> QED BY <2>3, <2>4 DEF BytesGetOut
<1>8. CASE RingWrite
  <2>1. flush # "no" /\ flush' = flush
    BY <1>8 DEF RingWrite, ProducerStep, Reserve, Copy, Commit, FlushInv, logVars
  <2> QED BY <1>2, <2>1
<1>9. CASE Subscribe
  BY <1>1, <1>9 DEF Subscribe, logVars
<1>10. CASE OtherEvent
  <2>1. UNCHANGED <<ringVars, flush, lcd, missed>> /\ (ReadyWaits => ReadyWaits')
    BY <1>0, <1>10, DoorKeepsReady DEF OtherEvent, logVars, lcdVars
  <2> QED BY <2>1 DEF BytesGetOut, Used, ringVars
<1>11. CASE Wake
  <2>1. UNCHANGED <<ringVars, flush, missed>>
    BY <1>11 DEF Wake, logVars
  <2>2. CASE Head(door) = "ready"
    BY <1>11, <2>2 DEF Wake, BytesGetOut
  <2>3. CASE Head(door) # "ready"
    <3>1. lcd' = lcd /\ (ReadyWaits => ReadyWaits')
      BY <1>0, <1>11, <2>3, TailKeepsReady DEF Wake
    <3> QED BY <2>1, <3>1 DEF BytesGetOut, Used, ringVars
  <2> QED BY <2>2, <2>3
<1>12. CASE DrainView \/ DrainByte \/ DrainConsumed
  BY <1>12 DEF DrainView, DrainByte, DrainConsumed, BytesGetOut, lcdVars
<1>13. CASE DrainEnd
  BY <1>13 DEF DrainEnd, BytesGetOut, Used, ringVars
<1>14. CASE Silence \/ UNCHANGED vars
  BY <1>1, <1>14 DEF Silence, vars, logVars, lcdVars
<1> QED
  BY <1>3, <1>4, <1>5, <1>6, <1>7, <1>8, <1>9, <1>10, <1>11, <1>12, <1>13, <1>14
     DEF LogNext, LogStep, LcdStep

LEMMA LogInitCatchUp == LogInit => CatchUpInv
<1> SUFFICES ASSUME LogInit PROVE CatchUpInv
  OBVIOUS
<1>1. PipeInv
  BY RingInitInv, LogInitTypes DEF LogInit, PipeInv
<1>2. FlushInv
  BY DEF LogInit, RingInit, FlushInv
<1>3. Used = 0
  BY WordFacts, SmallRemainder DEF LogInit, RingInit, Used
<1> QED BY <1>1, <1>2, <1>3 DEF CatchUpInv, BytesGetOut

(* A line that found the ring full is followed by a wake-up of the display *)
(* task or by another line that will wake it, unless the last doorbell     *)
(* found the task's queue full or the task not yet subscribed, with no     *)
(* other doorbell waiting and the task not draining (app_log_bus.c:        *)
(* logbus_flush_line_locked; app_demo_lcd.c: drain_log_stream_to_lcd_).    *)
THEOREM DropsAreCaughtUp == LogSpec => []DropIsCaughtUp
<1>1. CatchUpInv /\ [LogNext]_vars => CatchUpInv'
  <2> SUFFICES ASSUME CatchUpInv, [LogNext]_vars PROVE CatchUpInv'
    OBVIOUS
  <2>1. PipeInv'
    <3>1. RingInv' /\ LogTypeOK /\ RingInv
      BY LogNextIsRingStep, RingStepInv DEF CatchUpInv, PipeInv
    <3>2. RingTypeOK'
      BY <3>1 DEF RingInv
    <3> QED BY <3>1, <3>2, LogStepTypes DEF PipeInv
  <2>2. FlushInv'
    BY FlushStep DEF CatchUpInv
  <2> QED BY <2>1, <2>2, BytesGetOutStep DEF CatchUpInv
<1>2. CatchUpInv => DropIsCaughtUp
  BY DEF CatchUpInv, BytesGetOut, DropIsCaughtUp
<1> QED BY <1>1, <1>2, LogInitCatchUp, PTL DEF LogSpec

-----------------------------------------------------------------------------
(* Whole lines.  What the display task has of its line, what is unread,    *)
(* and what is still to be written of the line at hand, one after the      *)
(* other, is the lines to be shown, each with its newline: CutAt gives the *)
(* places of the newlines, and each pending line is the end of what lies   *)
(* between two of them.                                                    *)
Rest   == IF flush = "line" THEN Append(wr.rem, Newline) ELSE wr.rem
Stream == (line \o Unread) \o Rest

EndOf(p, v, a, b) ==
  /\ Len(p) = Lesser(ShowCap, b - a - 1)
  /\ \A i \in 0 .. Len(p) - 1 : p[Len(p) - i] = v[b - 1 - i]

CutAt(c, v, lines) ==
  /\ c[0] = 0 /\ c[Len(lines)] = Len(v)
  /\ \A k \in 1 .. Len(lines) :
       /\ c[k - 1] < c[k] /\ c[k] <= Len(v) /\ v[c[k]] = Newline
       /\ \A j \in c[k - 1] + 1 .. c[k] - 1 : v[j] # Newline
       /\ EndOf(lines[k], v, c[k - 1], c[k])

HasLines(v, lines) == \E c \in [0 .. Len(lines) -> Nat] : CutAt(c, v, lines)

(* The end of a line that is to be shown.                                  *)
LEMMA LastOfIs ==
  ASSUME NEW s \in Seq(Bytes), s # <<>>, NEW n \in Nat \ {0}
  PROVE  /\ LastOf(s, n) \in Seq(Bytes)
         /\ Len(LastOf(s, n)) = Lesser(n, Len(s))
         /\ \A i \in 0 .. Len(LastOf(s, n)) - 1 : LastOf(s, n)[Len(LastOf(s, n)) - i] = s[Len(s) - i]
<1> DEFINE m == Len(s)
           l == Lesser(n, m)
           p == SubSeq(s, 1 + m - l, m)
<1>1. m \in Nat \ {0} /\ l \in 1 .. m
  BY EmptySeq DEF Lesser
<1>2. LastOf(s, n) = p
  <2>1. LastOf(s, n) = SubSeq(s, Lesser(m, 1 + m - l), m)
    BY DEF LastOf
  <2>2. Lesser(m, 1 + m - l) = 1 + m - l
    <3> HIDE DEF m, l
    <3> QED BY <1>1 DEF Lesser
  <2> QED BY <2>1, <2>2
<1>3. \A i \in 1 + m - l .. m : s[i] \in Bytes
  BY <1>1, ElementOfSeq
<1> HIDE DEF m, l
<1>4. /\ p \in Seq(Bytes)
      /\ Len(p) = IF 1 + m - l <= m THEN m - (1 + m - l) + 1 ELSE 0
      /\ \A i \in 1 .. m - (1 + m - l) + 1 : p[i] = s[1 + m - l + i - 1]
  <2>1. 1 + m - l \in Int /\ m \in Int BY <1>1
  <2> QED BY <1>3, <2>1, SubSeqProperties
<1> HIDE DEF p
<1>5. Len(p) = l BY <1>1, <1>4
<1>6. ASSUME NEW i \in 0 .. l - 1 PROVE p[l - i] = s[m - i]
  <2>1. l - i \in 1 .. m - (1 + m - l) + 1 /\ 1 + m - l + (l - i) - 1 = m - i BY <1>1
  <2> QED BY <2>1, <1>4
<1> QED BY <1>2, <1>4, <1>5, <1>6 DEF m, l

(* A line written behind the others.                                       *)
LEMMA LineAdded ==
  ASSUME NEW v \in Seq(Bytes), NEW lines \in Seq(Seq(Bytes)), HasLines(v, lines),
         NEW s \in Seq(Bytes), s # <<>>, \A j \in 1 .. Len(s) : s[j] # Newline
  PROVE  HasLines(v \o Append(s, Newline), Append(lines, LastOf(s, ShowCap)))
<1> DEFINE n == Len(lines)
           l == Len(v)
           m == Len(s)
           t == Append(s, Newline)
           w == v \o t
           p == LastOf(s, ShowCap)
           more == Append(lines, p)
<1>1. PICK c \in [0 .. n -> Nat] : CutAt(c, v, lines) BY DEF HasLines
<1>2. ShowCap \in Nat \ {0} /\ Newline \in Bytes BY LogAssumption
<1>3. /\ p \in Seq(Bytes) /\ Len(p) = Lesser(ShowCap, m)
      /\ \A i \in 0 .. Len(p) - 1 : p[Len(p) - i] = s[m - i]
  BY <1>2, LastOfIs
<1>4. n \in Nat /\ l \in Nat /\ m \in Nat BY LenProperties
<1>5. /\ t \in Seq(Bytes) /\ Len(t) = m + 1 /\ t[m + 1] = Newline
      /\ \A j \in 1 .. m : t[j] = s[j]
  BY <1>2, AppendProperties
<1>6. /\ more \in Seq(Seq(Bytes)) /\ Len(more) = n + 1 /\ more[n + 1] = p
      /\ \A k \in 1 .. n : more[k] = lines[k]
  <2> HIDE DEF p
  <2> QED BY <1>3, AppendProperties
<1> HIDE DEF t, p, more
<1>7. /\ w \in Seq(Bytes) /\ Len(w) = l + (m + 1)
      /\ \A j \in 1 .. l + (m + 1) : w[j] = IF j <= l THEN v[j] ELSE t[j - l]
  <2>1. /\ w \in Seq(Bytes) /\ Len(w) = Len(v) + Len(t)
        /\ \A j \in 1 .. Len(v) + Len(t) : w[j] = IF j <= Len(v) THEN v[j] ELSE t[j - Len(v)]
    <3>1. t \in Seq(Bytes) BY <1>5
    <3> QED BY <3>1, ConcatProperties
  <2>2. Len(v) + Len(t) = l + (m + 1) BY <1>5
  <2> QED BY <2>1, <2>2
<1>8. /\ \A j \in 1 .. l : w[j] = v[j]
      /\ \A j \in 1 .. m : w[l + j] = s[j]
      /\ w[l + m + 1] = Newline
  <2>1. \A j \in 1 .. l : w[j] = v[j] BY <1>4, <1>7
  <2>2. ASSUME NEW j \in 1 .. m + 1 PROVE w[l + j] = t[j]
    <3>1. l + j \in 1 .. l + (m + 1) /\ ~(l + j <= l) /\ l + j - l = j BY <1>4
    <3> QED BY <3>1, <1>7
  <2>3. m + 1 \in 1 .. m + 1 /\ l + (m + 1) = l + m + 1 BY <1>4
  <2> QED BY <2>1, <2>2, <2>3, <1>4, <1>5
<1> HIDE DEF w
<1> DEFINE d == [k \in 0 .. n + 1 |-> IF k <= n THEN c[k] ELSE l + m + 1]
<1>9. d \in [0 .. Len(more) -> Nat]
  <2>1. ASSUME NEW k \in 0 .. n + 1 PROVE (IF k <= n THEN c[k] ELSE l + m + 1) \in Nat
    BY <1>1, <1>4
  <2> QED BY <2>1, <1>6
<1>10. /\ \A k \in 0 .. n : d[k] = c[k] /\ d[n + 1] = l + m + 1
       /\ d[n + 1] = l + m + 1
  BY <1>4
<1> HIDE DEF d
<1>11. c[0] = 0 /\ c[n] = l BY <1>1 DEF CutAt
<1>12. ASSUME NEW k \in 1 .. n
       PROVE  /\ d[k - 1] < d[k] /\ d[k] <= Len(w) /\ w[d[k]] = Newline
              /\ \A j \in d[k - 1] + 1 .. d[k] - 1 : w[j] # Newline
              /\ EndOf(more[k], w, d[k - 1], d[k])
  <2>1. /\ c[k - 1] < c[k] /\ c[k] <= l /\ v[c[k]] = Newline
        /\ \A j \in c[k - 1] + 1 .. c[k] - 1 : v[j] # Newline
        /\ EndOf(lines[k], v, c[k - 1], c[k])
    BY <1>1 DEF CutAt
  <2>2. k - 1 \in 0 .. n /\ k \in 0 .. n BY <1>4
  <2>3. c[k] \in Nat /\ c[k - 1] \in Nat /\ d[k] = c[k] /\ d[k - 1] = c[k - 1]
    BY <2>2, <1>1, <1>10
  <2> DEFINE a == c[k - 1]
             b == c[k]
             q == lines[k]
  <2>4. q \in Seq(Bytes) BY ElementOfSeq
  <2>5. Len(q) \in Nat /\ more[k] = q BY <2>4, <1>6, LenProperties
  <2>6. /\ a \in Nat /\ b \in Nat /\ a < b /\ b <= l /\ d[k] = b /\ d[k - 1] = a
        /\ v[b] = Newline /\ \A j \in a + 1 .. b - 1 : v[j] # Newline
    BY <2>1, <2>3
  <2>7. Len(q) = Lesser(ShowCap, b - a - 1) /\ \A i \in 0 .. Len(q) - 1 : q[Len(q) - i] = v[b - 1 - i]
    BY <2>1 DEF EndOf
  <2> HIDE DEF a, b, q
  <2>8. b \in 1 .. l /\ \A j \in a + 1 .. b - 1 : j \in 1 .. l BY <2>6, <1>4
  <2>9. ASSUME NEW i \in 0 .. Len(q) - 1 PROVE w[b - 1 - i] = v[b - 1 - i]
    <3>1. b - 1 - i \in a + 1 .. b - 1 BY <2>5, <2>6, <2>7, <1>2 DEF Lesser
    <3> QED BY <3>1, <2>8, <1>8
  <2>10. EndOf(more[k], w, a, b) BY <2>5, <2>7, <2>9 DEF EndOf
  <2>11. d[k - 1] < d[k] /\ d[k] <= Len(w) BY <2>6, <1>4, <1>7
  <2>12. w[d[k]] = Newline BY <2>6, <2>8, <1>8
  <2>13. \A j \in d[k - 1] + 1 .. d[k] - 1 : w[j] # Newline BY <2>6, <2>8, <1>8
  <2> QED BY <2>6, <2>10, <2>11, <2>12, <2>13
<1>13. /\ d[n] < d[n + 1] /\ d[n + 1] <= Len(w) /\ w[d[n + 1]] = Newline
       /\ \A j \in d[n] + 1 .. d[n + 1] - 1 : w[j] # Newline
       /\ EndOf(more[n + 1], w, d[n], d[n + 1])
  <2>1. d[n] = l /\ d[n + 1] = l + m + 1 BY <1>4, <1>10, <1>11
  <2>2. ASSUME NEW j \in l + 1 .. l + m PROVE w[j] = s[j - l] /\ s[j - l] # Newline
    <3>1. j - l \in 1 .. m /\ l + (j - l) = j BY <1>4
    <3> QED BY <3>1, <1>8
  <2>3. ASSUME NEW i \in 0 .. Len(p) - 1 PROVE p[Len(p) - i] = w[l + m + 1 - 1 - i]
    <3>1. i <= m - 1 /\ i \in Nat BY <1>2, <1>3, <1>4 DEF Lesser
    <3>2. m - i \in 1 .. m /\ l + m + 1 - 1 - i = l + (m - i) BY <3>1, <1>4
    <3>3. w[l + (m - i)] = s[m - i] BY <3>2, <1>8
    <3> QED BY <3>2, <3>3, <1>3
  <2>4. l + m + 1 - l - 1 = m BY <1>4
  <2>5. EndOf(p, w, l, l + m + 1) BY <2>3, <2>4, <1>3 DEF EndOf
  <2>6. l + m + 1 - 1 = l + m /\ l < l + m + 1 /\ l + m + 1 <= Len(w) BY <1>4, <1>7
  <2>7. \A j \in d[n] + 1 .. d[n + 1] - 1 : w[j] # Newline
    <3>1. d[n] + 1 = l + 1 /\ d[n + 1] - 1 = l + m BY <2>1, <2>6
    <3>2. \A j \in l + 1 .. l + m : w[j] # Newline BY <2>2
    <3> QED BY <3>1, <3>2
  <2>8. EndOf(more[n + 1], w, d[n], d[n + 1]) BY <2>1, <2>5, <1>6
  <2> QED BY <2>1, <2>6, <2>7, <2>8, <1>8
<1>14. d[0] = 0 /\ d[Len(more)] = Len(w) BY <1>4, <1>6, <1>7, <1>10, <1>11
<1>15. \A k \in 1 .. Len(more) : k \in 1 .. n \/ k = n + 1 BY <1>4, <1>6
<1>17. ASSUME NEW k \in 1 .. Len(more)
       PROVE  /\ d[k - 1] < d[k] /\ d[k] <= Len(w) /\ w[d[k]] = Newline
              /\ \A j \in d[k - 1] + 1 .. d[k] - 1 : w[j] # Newline
              /\ EndOf(more[k], w, d[k - 1], d[k])
  <2>1. CASE k \in 1 .. n BY <1>12, <2>1
  <2>2. CASE k = n + 1
    <3>1. k - 1 = n BY <2>2, <1>4
    <3> QED BY <1>13, <2>2, <3>1
  <2> QED BY <1>15, <2>1, <2>2
<1>18. CutAt(d, w, more) BY <1>14, <1>17 DEF CutAt
<1> QED BY <1>9, <1>18 DEF HasLines, w, t, more, p

(* The first line, once its newline is reached, is what is pending first,  *)
(* and without it the others remain.                                       *)
LEMMA LineTaken ==
  ASSUME NEW v \in Seq(Bytes), NEW lines \in Seq(Seq(Bytes)), HasLines(v, lines),
         NEW b \in 1 .. Len(v), v[b] = Newline, \A j \in 1 .. b - 1 : v[j] # Newline
  PROVE  /\ lines # <<>> /\ EndOf(lines[1], v, 0, b)
         /\ HasLines(SubSeq(v, b + 1, Len(v)), Tail(lines))
<1> DEFINE n == Len(lines)
           l == Len(v)
           w == SubSeq(v, b + 1, l)
           less == Tail(lines)
<1>1. PICK c \in [0 .. n -> Nat] : CutAt(c, v, lines) BY DEF HasLines
<1>2. n \in Nat /\ l \in Nat /\ ShowCap \in Nat \ {0} BY LenProperties, LogAssumption
<1>3. c[0] = 0 /\ c[n] = l BY <1>1 DEF CutAt
<1>4. n # 0 BY <1>2, <1>3
<1>5. lines # <<>> BY <1>4, EmptySeq
<1>6. less \in Seq(Seq(Bytes)) /\ Len(less) = n - 1 /\ \A k \in 1 .. n - 1 : less[k] = lines[k + 1]
  BY <1>5, HeadTailProperties
<1>7. /\ w \in Seq(Bytes) /\ Len(w) = l - b
      /\ \A i \in 1 .. l - b : w[i] = v[b + i]
  <2>1. \A i \in b + 1 .. l : v[i] \in Bytes BY <1>2, ElementOfSeq
  <2>2. /\ w \in Seq(Bytes)
        /\ Len(w) = IF b + 1 <= l THEN l - (b + 1) + 1 ELSE 0
        /\ \A i \in 1 .. l - (b + 1) + 1 : w[i] = v[(b + 1) + i - 1]
    <3>1. b + 1 \in Int /\ l \in Int BY <1>2
    <3> QED BY <2>1, <3>1, SubSeqProperties
  <2>3. l - (b + 1) + 1 = l - b /\ \A i \in 1 .. l - b : (b + 1) + i - 1 = b + i BY <1>2
  <2>4. Len(w) = l - b BY <1>2, <2>2
  <2> QED BY <2>2, <2>3, <2>4
<1> HIDE DEF w, less
<1>8. ASSUME NEW k \in 1 .. n
      PROVE  /\ c[k - 1] \in Nat /\ c[k] \in Nat
             /\ c[k - 1] < c[k] /\ c[k] <= l /\ v[c[k]] = Newline
             /\ \A j \in c[k - 1] + 1 .. c[k] - 1 : v[j] # Newline
             /\ EndOf(lines[k], v, c[k - 1], c[k])
  <2>1. k - 1 \in 0 .. n /\ k \in 0 .. n BY <1>2
  <2> QED BY <2>1, <1>1 DEF CutAt
<1>9. 1 \in 1 .. n /\ 1 - 1 = 0 BY <1>2, <1>4
<1>10. c[1] = b /\ EndOf(lines[1], v, 0, c[1])
  <2>1. /\ c[1] \in Nat /\ 0 < c[1] /\ v[c[1]] = Newline
        /\ \A j \in 1 .. c[1] - 1 : v[j] # Newline
        /\ EndOf(lines[1], v, 0, c[1])
    BY <1>3, <1>8, <1>9
  <2>2. ~(c[1] < b) BY <2>1
  <2>3. ~(b < c[1]) BY <2>1
  <2> QED BY <2>1, <2>2, <2>3
<1>11. \A k \in 1 .. n : c[k] >= b
  <2>0. \A k \in 1 .. n : c[k] \in Nat BY <1>8
  <2> SUFFICES ASSUME NEW m \in 1 .. n, c[m] < b PROVE FALSE
    <3>1. b \in Nat BY <1>2
    <3> HIDE DEF n
    <3> QED BY <3>1, <2>0
  <2> DEFINE S == {k \in 1 .. n : c[k] < b}
  <2>1. S \subseteq Nat /\ S # {}
    <3>1. m \in S OBVIOUS
    <3>2. \A k \in 1 .. n : k \in Nat BY <1>2
    <3> QED BY <3>1, <3>2
  <2>2. PICK k \in S : \A i \in S : k <= i
    <3> HIDE DEF S
    <3> QED BY <2>1, LeastNat
  <2>3. k \in 1 .. n /\ c[k] < b /\ k # 1 BY <1>10
  <2>4. k - 1 \in 1 .. n /\ k - 1 \notin S BY <2>2, <2>3, <1>2
  <2>5. c[k - 1] < c[k] /\ c[k] \in Nat /\ c[k - 1] \in Nat BY <2>3, <1>8
  <2>6. ~(c[k - 1] < b) BY <2>4
  <2> QED BY <2>3, <2>5, <2>6
<1> DEFINE d == [k \in 0 .. n - 1 |-> c[k + 1] - b]
<1>12. ASSUME NEW k \in 0 .. n - 1 PROVE d[k] = c[k + 1] - b /\ d[k] \in Nat /\ c[k + 1] \in Nat
  <2>1. k + 1 \in 1 .. n BY <1>2
  <2> QED BY <2>1, <1>8, <1>11
<1>13. d \in [0 .. Len(less) -> Nat] BY <1>6, <1>12
<1> HIDE DEF d
<1>14. ASSUME NEW k \in 1 .. n - 1
       PROVE  /\ d[k - 1] < d[k] /\ d[k] <= Len(w) /\ w[d[k]] = Newline
              /\ \A j \in d[k - 1] + 1 .. d[k] - 1 : w[j] # Newline
              /\ EndOf(less[k], w, d[k - 1], d[k])
  <2>1. k + 1 \in 1 .. n /\ k - 1 \in 0 .. n - 1 /\ k \in 0 .. n - 1 /\ (k - 1) + 1 = k /\ (k + 1) - 1 = k
    BY <1>2
  <2> DEFINE x == c[k]
             y == c[k + 1]
             q == lines[k + 1]
  <2>2. q \in Seq(Bytes) BY <2>1, ElementOfSeq
  <2>3. /\ x \in Nat /\ y \in Nat /\ x < y /\ y <= l /\ v[y] = Newline
        /\ \A j \in x + 1 .. y - 1 : v[j] # Newline
        /\ Len(q) = Lesser(ShowCap, y - x - 1)
        /\ \A i \in 0 .. Len(q) - 1 : q[Len(q) - i] = v[y - 1 - i]
    BY <2>1, <1>8 DEF EndOf
  <2>4. x >= b
    <3>1. k \in 1 .. n BY <1>2
    <3> QED BY <3>1, <1>11
  <2>5. d[k] = y - b /\ d[k - 1] = x - b /\ less[k] = q BY <2>1, <1>6, <1>12
  <2>6. Len(q) \in Nat BY <2>2, LenProperties
  <2> HIDE DEF x, y, q
  <2>14. x \in Nat /\ y \in Nat /\ b \in Nat /\ l \in Nat /\ x < y /\ y <= l BY <2>3, <1>2
  <2>7. ASSUME NEW j \in x - b + 1 .. y - b PROVE b + j \in x + 1 .. y /\ w[j] = v[b + j]
    <3>1. j \in 1 .. l - b /\ b + j \in x + 1 .. y BY <2>3, <2>4, <1>2
    <3> QED BY <3>1, <1>7
  <2>8. w[y - b] = Newline
    <3>1. y - b \in x - b + 1 .. y - b BY <2>4, <2>14
    <3>2. b + (y - b) = y BY <2>14
    <3>3. w[y - b] = v[b + (y - b)] BY <3>1, <2>7
    <3> QED BY <3>2, <3>3, <2>3
  <2>9. ASSUME NEW j \in x - b + 1 .. y - b - 1 PROVE w[j] # Newline
    <3>1. j \in x - b + 1 .. y - b /\ b + j \in x + 1 .. y - 1 BY <2>14
    <3> QED BY <3>1, <2>3, <2>7
  <2>10. ASSUME NEW i \in 0 .. Len(q) - 1 PROVE q[Len(q) - i] = w[y - b - 1 - i]
    <3>1. y - b - 1 - i \in x - b + 1 .. y - b /\ b + (y - b - 1 - i) = y - 1 - i
      BY <2>3, <2>4, <2>6, <1>2 DEF Lesser
    <3>2. w[y - b - 1 - i] = v[y - 1 - i] BY <3>1, <2>7
    <3> QED BY <3>2, <2>3
  <2>11. (y - b) - (x - b) - 1 = y - x - 1 BY <2>3, <2>4
  <2>12. EndOf(q, w, x - b, y - b) BY <2>3, <2>10, <2>11 DEF EndOf
  <2>13. x - b < y - b /\ y - b <= Len(w)
    <3>1. Len(w) = l - b BY <1>7
    <3> HIDE DEF l
    <3> QED BY <3>1, <2>14
  <2> QED BY <2>5, <2>8, <2>9, <2>12, <2>13
<1>15. d[0] = 0 /\ d[Len(less)] = Len(w)
  <2>1. 0 \in 0 .. n - 1 /\ n - 1 \in 0 .. n - 1 /\ (n - 1) + 1 = n BY <1>2, <1>4
  <2>2. d[0] = c[0 + 1] - b /\ d[n - 1] = c[n] - b BY <2>1, <1>12
  <2> QED BY <2>2, <1>3, <1>6, <1>7, <1>10
<1>16. CutAt(d, w, less) BY <1>6, <1>14, <1>15 DEF CutAt
<1>17. HasLines(w, less) BY <1>13, <1>16 DEF HasLines
<1> QED BY <1>5, <1>10, <1>17 DEF w, less

(* When the display task's line is full, its first byte is forgotten.      *)
LEMMA FirstForgotten ==
  ASSUME NEW v \in Seq(Bytes), NEW lines \in Seq(Seq(Bytes)), HasLines(v, lines),
         Len(v) > ShowCap, \A j \in 1 .. ShowCap + 1 : v[j] # Newline
  PROVE  HasLines(Tail(v), lines)
<1> DEFINE n == Len(lines)
           l == Len(v)
           w == Tail(v)
<1>1. PICK c \in [0 .. n -> Nat] : CutAt(c, v, lines) BY DEF HasLines
<1>2. n \in Nat /\ l \in Nat /\ ShowCap \in Nat \ {0} BY LenProperties, LogAssumption
<1>3. c[0] = 0 /\ c[n] = l BY <1>1 DEF CutAt
<1>4. n # 0 BY <1>2, <1>3
<1>5. w \in Seq(Bytes) /\ Len(w) = l - 1 /\ \A i \in 1 .. l - 1 : w[i] = v[i + 1]
  <2>1. v # <<>> BY <1>2, EmptySeq
  <2> QED BY <2>1, HeadTailProperties
<1> HIDE DEF w
<1>8. ASSUME NEW k \in 1 .. n
      PROVE  /\ c[k - 1] \in Nat /\ c[k] \in Nat
             /\ c[k - 1] < c[k] /\ c[k] <= l /\ v[c[k]] = Newline
             /\ \A j \in c[k - 1] + 1 .. c[k] - 1 : v[j] # Newline
             /\ EndOf(lines[k], v, c[k - 1], c[k])
             /\ c[k] > ShowCap + 1
  <2>1. k - 1 \in 0 .. n /\ k \in 0 .. n BY <1>2
  <2>2. c[k - 1] < c[k] /\ c[k] <= l /\ v[c[k]] = Newline /\ c[k] \in Nat /\ c[k - 1] \in Nat
    BY <2>1, <1>1 DEF CutAt
  <2>3. c[k] > ShowCap + 1 BY <2>2, <1>2
  <2> QED BY <2>1, <2>2, <2>3, <1>1 DEF CutAt
<1> DEFINE d == [k \in 0 .. n |-> IF k = 0 THEN 0 ELSE c[k] - 1]
<1>9. ASSUME NEW k \in 1 .. n PROVE d[k] = c[k] - 1 /\ d[k] \in Nat BY <1>2, <1>8
<1>10. d \in [0 .. n -> Nat] /\ d[0] = 0
  <2>1. ASSUME NEW k \in 0 .. n PROVE (IF k = 0 THEN 0 ELSE c[k] - 1) \in Nat
    <3>1. k = 0 \/ k \in 1 .. n BY <1>2
    <3> QED BY <3>1, <1>8, <1>2
  <2> QED BY <2>1, <1>2
<1> HIDE DEF d
<1>11. ASSUME NEW k \in 1 .. n
       PROVE  /\ d[k - 1] < d[k] /\ d[k] <= Len(w) /\ w[d[k]] = Newline
              /\ \A j \in d[k - 1] + 1 .. d[k] - 1 : w[j] # Newline
              /\ EndOf(lines[k], w, d[k - 1], d[k])
  <2> DEFINE x == c[k - 1]
             y == c[k]
             z == d[k - 1]
             q == lines[k]
  <2>1. q \in Seq(Bytes) BY ElementOfSeq
  <2>2. /\ x \in Nat /\ y \in Nat /\ x < y /\ y <= l /\ v[y] = Newline /\ y > ShowCap + 1
        /\ \A j \in x + 1 .. y - 1 : v[j] # Newline
        /\ Len(q) = Lesser(ShowCap, y - x - 1)
        /\ \A i \in 0 .. Len(q) - 1 : q[Len(q) - i] = v[y - 1 - i]
    BY <1>8 DEF EndOf
  <2>3. d[k] = y - 1 /\ ((x = 0 /\ z = 0) \/ (z = x - 1 /\ x > ShowCap + 1))
    <3>1. CASE k = 1
      <4>1. k - 1 = 0 BY <3>1
      <4>2. x = 0 /\ z = 0 BY <4>1, <1>3, <1>10
      <4>3. d[k] = y - 1 BY <1>9
      <4> HIDE DEF x, y, z
      <4> QED BY <3>1, <4>2, <4>3
    <3>2. CASE k # 1
      <4>1. k - 1 \in 1 .. n BY <3>2, <1>2
      <4> QED BY <4>1, <1>8, <1>9
    <3> QED BY <3>1, <3>2
  <2>4. Len(q) \in Nat BY <2>1, LenProperties
  <2> HIDE DEF x, y, z, q
  <2>5. z \in Nat /\ z < y - 1 /\ y - 1 <= l - 1
    <3>1. y - 1 <= l - 1 BY <2>2, <1>2
    <3>2. CASE x = 0 /\ z = 0 BY <3>1, <3>2, <2>2, <1>2
    <3>3. CASE z = x - 1 /\ x > ShowCap + 1 BY <3>1, <3>3, <2>2, <1>2
    <3> QED BY <2>3, <3>2, <3>3
  <2>6. ASSUME NEW j \in z + 1 .. y - 1 PROVE w[j] = v[j + 1] /\ j + 1 \in x + 1 .. y
    <3>1. j \in 1 .. l - 1 /\ j + 1 \in x + 1 .. y BY <2>2, <2>3, <2>5, <1>2
    <3> QED BY <3>1, <1>5
  <2>7. w[y - 1] = Newline
    <3>1. y - 1 \in z + 1 .. y - 1 /\ (y - 1) + 1 = y BY <2>2, <2>5
    <3> QED BY <3>1, <2>2, <2>6
  <2>8. ASSUME NEW j \in z + 1 .. y - 1 - 1 PROVE w[j] # Newline
    <3>1. j \in z + 1 .. y - 1 /\ j + 1 \in x + 1 .. y - 1 BY <2>2, <2>3, <2>5, <1>2
    <3> QED BY <3>1, <2>2, <2>6
  <2>9. Len(q) = Lesser(ShowCap, y - 1 - z - 1) /\ Len(q) <= y - 1 - z - 1
    <3>1. x \in Nat /\ y \in Nat /\ x < y /\ y > ShowCap + 1 /\ Len(q) = Lesser(ShowCap, y - x - 1)
      BY <2>2
    <3>2. CASE x = 0 /\ z = 0 BY <3>1, <3>2, <1>2 DEF Lesser
    <3>3. CASE z = x - 1 /\ x > ShowCap + 1
      <4>1. y - 1 - z - 1 = y - x - 1 BY <3>1, <3>3
      <4> QED BY <3>1, <4>1, <1>2 DEF Lesser
    <3> QED BY <2>3, <3>2, <3>3
  <2>10. ASSUME NEW i \in 0 .. Len(q) - 1 PROVE q[Len(q) - i] = w[y - 1 - 1 - i]
    <3>1. y - 1 - 1 - i \in z + 1 .. y - 1 /\ (y - 1 - 1 - i) + 1 = y - 1 - i
      BY <2>2, <2>4, <2>5, <2>9
    <3>2. w[y - 1 - 1 - i] = v[y - 1 - i] BY <3>1, <2>6
    <3> QED BY <3>2, <2>2
  <2>11. EndOf(q, w, z, y - 1) BY <2>9, <2>10 DEF EndOf
  <2> QED BY <2>3, <2>5, <2>7, <2>8, <2>11, <1>5 DEF z, q
<1>12. d[Len(lines)] = Len(w)
  <2>1. n \in 1 .. n BY <1>2, <1>4
  <2> QED BY <2>1, <1>3, <1>5, <1>9
<1>13. CutAt(d, w, lines) BY <1>10, <1>11, <1>12 DEF CutAt
<1> QED BY <1>10, <1>13 DEF HasLines, w
-----------------------------------------------------------------------------
(* How the steps move the stream.                                          *)

(* What lies behind a prefix.                                            *)
LEMMA AfterPrefix ==
  ASSUME NEW s \in Seq(Bytes), NEW t \in Seq(Bytes)
  PROVE  SubSeq(s \o t, Len(s) + 1, Len(s \o t)) = t
<1> DEFINE u == s \o t
           a == Len(s)
           b == Len(t)
<1>1. a \in Nat /\ b \in Nat BY LenProperties
<1>2. /\ u \in Seq(Bytes) /\ Len(u) = a + b
      /\ \A i \in 1 .. a + b : u[i] = IF i <= a THEN s[i] ELSE t[i - a]
  BY ConcatProperties
<1> HIDE DEF u, a, b
<1> DEFINE w == SubSeq(u, a + 1, a + b)
<1>3. \A i \in a + 1 .. a + b : u[i] \in Bytes
  <2>1. \A i \in a + 1 .. a + b : i \in 1 .. Len(u) BY <1>1, <1>2
  <2> QED BY <2>1, <1>2, ElementOfSeq
<1>4. /\ w \in Seq(Bytes)
      /\ Len(w) = IF a + 1 <= a + b THEN (a + b) - (a + 1) + 1 ELSE 0
      /\ \A i \in 1 .. (a + b) - (a + 1) + 1 : w[i] = u[(a + 1) + i - 1]
  <2>1. a + 1 \in Int /\ a + b \in Int BY <1>1
  <2> QED BY <2>1, <1>3, SubSeqProperties
<1> HIDE DEF w
<1>5. Len(w) = b BY <1>1, <1>4
<1>6. ASSUME NEW i \in 1 .. b PROVE w[i] = t[i]
  <2>1. i \in 1 .. (a + b) - (a + 1) + 1 /\ (a + 1) + i - 1 = a + i BY <1>1
  <2>2. a + i \in 1 .. a + b BY <1>1
  <2>3. ~(a + i <= a) /\ (a + i) - a = i BY <1>1
  <2>4. w[i] = u[a + i] BY <2>1, <1>4
  <2>5. u[a + i] = t[(a + i) - a] BY <2>2, <2>3, <1>2
  <2> QED BY <2>3, <2>4, <2>5
<1>7. w = t
  <2>1. Len(w) = Len(t) /\ \A i \in 1 .. Len(w) : w[i] = t[i] BY <1>5, <1>6 DEF b
  <2> QED BY <2>1, <1>4, SeqEqual
<1> QED BY <1>2, <1>7 DEF w, a, u

(* Concatenation under a name of its own: where sequences are only         *)
(* regrouped, nothing of them is needed but these facts.                   *)
Cat(s, t) == s \o t

LEMMA Assoc ==
  /\ \A s, t, u \in Seq(Bytes) : Cat(Cat(s, t), u) = Cat(s, Cat(t, u))
  /\ \A s, t \in Seq(Bytes) : Cat(s, t) \in Seq(Bytes)
<1>1. ASSUME NEW s \in Seq(Bytes), NEW t \in Seq(Bytes), NEW u \in Seq(Bytes)
      PROVE  Cat(Cat(s, t), u) = Cat(s, Cat(t, u))
  <2>1. (s \o t) \o u = s \o (t \o u) BY ConcatAssociative
  <2> QED BY <2>1 DEF Cat
<1>2. ASSUME NEW s \in Seq(Bytes), NEW t \in Seq(Bytes) PROVE Cat(s, t) \in Seq(Bytes)
  BY ConcatProperties DEF Cat
<1> QED BY <1>1, <1>2, Zenon

LEMMA Regroup ==
  \A a, b, c, d \in Seq(Bytes) :
     /\ Cat(Cat(a, Cat(b, c)), d) = Cat(Cat(Cat(a, b), c), d)
     /\ Cat(Cat(a, Cat(b, c)), d) = Cat(Cat(a, b), Cat(c, d))
     /\ Cat(a, b) \in Seq(Bytes) /\ Cat(c, d) \in Seq(Bytes)
<1> TAKE a, b, c, d \in Seq(Bytes)
<1>1. Cat(a, b) \in Seq(Bytes) /\ Cat(c, d) \in Seq(Bytes) BY Assoc
<1>2. Cat(a, Cat(b, c)) = Cat(Cat(a, b), c) BY Assoc
<1>3. Cat(Cat(Cat(a, b), c), d) = Cat(Cat(a, b), Cat(c, d)) BY <1>1, Assoc
<1> QED BY <1>1, <1>2, <1>3, Zenon

LEMMA OneByte ==
  ASSUME NEW b \in Bytes
  PROVE  <<b>> \in Seq(Bytes) /\ Len(<<b>>) = 1
OBVIOUS

LEMMA StreamTypes ==
  ASSUME PipeInv
  PROVE  /\ line \in Seq(Bytes) /\ Len(line) \in Nat /\ Len(line) <= ShowCap
         /\ \A j \in 1 .. Len(line) : line[j] # Newline
         /\ Unread \in Seq(Bytes) /\ wr.rem \in Seq(Bytes) /\ Rest \in Seq(Bytes)
         /\ line \o Unread \in Seq(Bytes) /\ Stream \in Seq(Bytes)
         /\ acc \in Seq(Bytes) /\ \A j \in 1 .. Len(acc) : acc[j] # Newline
<1>1. line \in Seq(Bytes \ {Newline}) /\ acc \in Seq(Bytes \ {Newline}) /\ Len(line) <= ShowCap
  BY DEF PipeInv, LogTypeOK
<1>2. \A s \in Seq(Bytes \ {Newline}) : s \in Seq(Bytes) /\ \A j \in 1 .. Len(s) : s[j] # Newline
  <2> SUFFICES ASSUME NEW s \in Seq(Bytes \ {Newline})
               PROVE  s \in Seq(Bytes) /\ \A j \in 1 .. Len(s) : s[j] # Newline
    OBVIOUS
  <2>1. s \in Seq(Bytes) BY SeqMonotonic
  <2>2. \A j \in 1 .. Len(s) : s[j] \in Bytes \ {Newline} BY ElementOfSeq
  <2> QED BY <2>1, <2>2
<1>3. line \in Seq(Bytes) /\ acc \in Seq(Bytes) BY <1>1, <1>2
<1>4. Len(line) \in Nat BY <1>3, LenProperties
<1>5. Unread \in Seq(Bytes) BY UnreadFacts DEF PipeInv
<1>6. wr.rem \in Seq(Bytes) BY DEF PipeInv, RingInv, RingTypeOK
<1>7. Append(wr.rem, Newline) \in Seq(Bytes) BY <1>6, LogAssumption, AppendProperties
<1>8. Rest \in Seq(Bytes) BY <1>6, <1>7 DEF Rest
<1>9. line \o Unread \in Seq(Bytes) BY <1>3, <1>5, ConcatProperties
<1>10. Stream \in Seq(Bytes)
  <2> DEFINE u == line \o Unread
  <2>1. u \in Seq(Bytes) BY <1>9
  <2> HIDE DEF u
  <2>2. u \o Rest \in Seq(Bytes) BY <2>1, <1>8, ConcatProperties
  <2> QED BY <2>2 DEF u, Stream
<1> QED BY <1>1, <1>2, <1>3, <1>4, <1>5, <1>6, <1>8, <1>9, <1>10

(* What a commit publishes was in the rest.                                *)
LEMMA CommitKeepsStream ==
  ASSUME PipeInv, Commit, UNCHANGED <<flush, line>>
  PROVE  Stream' = Stream
<1> DEFINE n == wr.n
           piece == [k \in 1 .. n |-> wr.rem[k]]
           left == SubSeq(wr.rem, n + 1, Len(wr.rem))
<1>0. RingInv BY DEF PipeInv
<1>1. /\ n \in 1 .. Len(wr.rem) /\ left \in Seq(Bytes) /\ Len(left) = Len(wr.rem) - n
      /\ wr'.rem = left
  BY <1>0, CommitFacts
<1>2. piece \in [1 .. n -> Bytes] /\ Unread' = Unread \o piece BY <1>0, CommitAppends
<1>3. Len(wr.rem) \in Nat /\ n \in Nat /\ wr.rem \in Seq(Bytes) BY <1>1, StreamTypes, LenProperties
<1>4. piece \in Seq(Bytes) /\ Len(piece) = n
  <2> HIDE DEF piece, n
  <2> QED BY <1>2, <1>3, SeqDef, LenProperties
<1>5. \A k \in 1 .. n : piece[k] = wr.rem[k] OBVIOUS
<1>6. \A k \in 1 .. Len(wr.rem) - n : left[k] = wr.rem[n + k]
  <2>1. \A i \in n + 1 .. Len(wr.rem) : wr.rem[i] \in Bytes BY <1>3, ElementOfSeq
  <2>2. n + 1 \in Int /\ Len(wr.rem) \in Int BY <1>3
  <2>3. \A i \in 1 .. Len(wr.rem) - (n + 1) + 1 : left[i] = wr.rem[(n + 1) + i - 1]
    BY <2>1, <2>2, SubSeqProperties
  <2>4. \A k \in 1 .. Len(wr.rem) - n : /\ k \in 1 .. Len(wr.rem) - (n + 1) + 1
                                        /\ (n + 1) + k - 1 = n + k
    BY <1>3
  <2> QED BY <2>3, <2>4
<1> HIDE DEF piece, left, n
<1>7. wr.rem = piece \o left
  <2>1. /\ piece \o left \in Seq(Bytes) /\ Len(piece \o left) = Len(piece) + Len(left)
        /\ \A i \in 1 .. Len(piece) + Len(left) :
             (piece \o left)[i] = IF i <= Len(piece) THEN piece[i] ELSE left[i - Len(piece)]
    BY <1>1, <1>4, ConcatProperties
  <2>2. Len(piece) + Len(left) = Len(wr.rem) BY <1>1, <1>3, <1>4
  <2>3. ASSUME NEW i \in 1 .. Len(wr.rem) PROVE wr.rem[i] = (piece \o left)[i]
    <3>1. CASE i <= n
      <4>1. i \in 1 .. n BY <3>1, <1>3
      <4> QED BY <3>1, <4>1, <2>1, <2>2, <1>4, <1>5
    <3>2. CASE ~(i <= n)
      <4>1. i - n \in 1 .. Len(wr.rem) - n /\ n + (i - n) = i BY <3>2, <1>3
      <4> QED BY <3>2, <4>1, <2>1, <2>2, <1>4, <1>6
    <3> QED BY <3>1, <3>2
  <2> QED BY <2>1, <2>2, <2>3, <1>3, SeqEqual
<1>8. Rest = piece \o Rest'
  <2>1. CASE flush = "line"
    <3>1. Rest = Append(piece \o left, Newline) /\ Rest' = Append(left, Newline)
      BY <2>1, <1>1, <1>7 DEF Rest
    <3>2. Append(left, Newline) = left \o <<Newline>> /\ <<Newline>> \in Seq(Bytes)
      BY <1>1, LogAssumption, AppendIsConcat, OneByte
    <3>3. piece \o left \in Seq(Bytes) BY <1>3, <1>7
    <3>4. Append(piece \o left, Newline) = (piece \o left) \o <<Newline>>
      BY <3>3, LogAssumption, AppendIsConcat
    <3> QED BY <3>1, <3>2, <3>4, <1>1, <1>4, ConcatAssociative
  <2>2. CASE flush # "line" BY <2>2, <1>1, <1>7 DEF Rest
  <2> QED BY <2>1, <2>2
<1>9. Rest' \in Seq(Bytes)
  <2>1. Append(left, Newline) \in Seq(Bytes) BY <1>1, LogAssumption, AppendProperties
  <2> QED BY <2>1, <1>1 DEF Rest
<1>10. Stream' = (line \o (Unread \o piece)) \o Rest' BY <1>2 DEF Stream
<1>11. (line \o (Unread \o piece)) \o Rest' = (line \o Unread) \o (piece \o Rest')
  <2>1. line \in Seq(Bytes) /\ Unread \in Seq(Bytes) BY StreamTypes
  <2> PICK a \in Seq(Bytes), b \in Seq(Bytes), c \in Seq(Bytes), d \in Seq(Bytes) :
          a = line /\ b = Unread /\ c = piece /\ d = Rest'
    BY <2>1, <1>4, <1>9
  <2>2. Cat(Cat(a, Cat(b, c)), d) = Cat(Cat(a, b), Cat(c, d)) BY Regroup
  <2> QED BY <2>2 DEF Cat
<1> QED BY <1>8, <1>10, <1>11, Zenon DEF Stream

(* The byte the display task reads is the one behind its line.             *)
LEMMA StreamAtByte ==
  ASSUME PipeInv, NEW b, Unread # <<>>, b = Head(Unread)
  PROVE  /\ b \in Bytes /\ Len(line) + 1 \in 1 .. Len(Stream) /\ Stream[Len(line) + 1] = b
         /\ \A j \in 1 .. Len(line) : Stream[j] = line[j] /\ Stream[j] # Newline
<1> DEFINE u == line \o Unread
           m == Len(line)
           n == Len(Unread)
<1>1. n \in Nat \ {0} /\ m \in Nat BY StreamTypes, EmptySeq
<1>2. b \in Bytes /\ b = Unread[1]
  BY StreamTypes, HeadTailProperties DEF Head
<1>3. /\ u \in Seq(Bytes) /\ Len(u) = m + n
      /\ \A i \in 1 .. m + n : u[i] = IF i <= m THEN line[i] ELSE Unread[i - m]
  BY StreamTypes, ConcatProperties
<1> HIDE DEF u
<1>4. /\ Len(u \o Rest) = Len(u) + Len(Rest)
      /\ \A i \in 1 .. Len(u) + Len(Rest) :
           (u \o Rest)[i] = IF i <= Len(u) THEN u[i] ELSE Rest[i - Len(u)]
  <2>1. u \in Seq(Bytes) BY <1>3
  <2>2. Rest \in Seq(Bytes) BY StreamTypes
  <2> QED BY <2>1, <2>2, ConcatProperties
<1>5. Stream = u \o Rest BY DEF u, Stream
<1>6. Len(Rest) \in Nat BY StreamTypes, LenProperties
<1>7. m + 1 \in 1 .. m + n /\ m + 1 - m = 1 /\ \A j \in 1 .. m : j \in 1 .. m + n BY <1>1
<1>8. \A i \in 1 .. m + n : i \in 1 .. Len(u) + Len(Rest) /\ i <= Len(u) BY <1>1, <1>3, <1>6
<1>9. \A i \in 1 .. m + n : Stream[i] = u[i] BY <1>4, <1>5, <1>8
<1>10. Stream[m + 1] = b
  <2>1. ~(m + 1 <= m) BY <1>1
  <2> QED BY <2>1, <1>2, <1>3, <1>7, <1>9
<1>11. \A j \in 1 .. m : Stream[j] = line[j] /\ Stream[j] # Newline
  BY <1>3, <1>7, <1>9, StreamTypes
<1>12. m + 1 \in 1 .. Len(Stream) BY <1>1, <1>3, <1>4, <1>5, <1>6
<1> QED BY <1>2, <1>10, <1>11, <1>12

-----------------------------------------------------------------------------
(* Every step keeps the lines.                                             *)
LinesInv == pending \in Seq(Seq(Bytes)) /\ HasLines(Stream, pending)

(* The first newline of the stream ends the line pending first.            *)
FirstEndsAt(k) ==
  /\ pending # <<>> /\ EndOf(pending[1], Stream, 0, k)
  /\ HasLines(SubSeq(Stream, k + 1, Len(Stream)), Tail(pending))

LEMMA PendingFirst ==
  ASSUME PipeInv, LinesInv, NEW k \in 1 .. Len(Stream),
         Stream[k] = Newline, \A j \in 1 .. k - 1 : Stream[j] # Newline
  PROVE  FirstEndsAt(k)
<1>1. Stream \in Seq(Bytes) BY StreamTypes
<1>2. pending \in Seq(Seq(Bytes)) /\ HasLines(Stream, pending) BY DEF LinesInv
<1> QED BY <1>1, <1>2, LineTaken DEF FirstEndsAt

(* The lines of the next state, said of its values.                        *)
LEMMA LinesThen == HasLines(Stream', pending') => HasLines(Stream, pending)'
BY DEF HasLines, CutAt, EndOf

(* Three frames: of the stream's parts, of the ring, of the ring's actors. *)
LEMMA LinesFrame ==
  ASSUME LinesInv, UNCHANGED <<line, Unread, pending>>, Rest' = Rest
  PROVE  LinesInv'
<1>1. Stream' = Stream BY DEF Stream
<1> QED BY <1>1 DEF LinesInv, HasLines, CutAt, EndOf

LEMMA UnreadFrame ==
  ASSUME UNCHANGED <<head, tail, store, rd>>
  PROVE  Unread' = Unread
BY DEF Unread, Used, Offset

LEMMA RingFrame ==
  ASSUME LinesInv, UNCHANGED <<ringVars, line, pending>>,
         flush' = flush \/ (flush # "line" /\ flush' # "line")
  PROVE  LinesInv'
<1>1. Unread' = Unread BY UnreadFrame DEF ringVars
<1>2. Rest' = Rest BY DEF Rest, ringVars
<1> QED BY <1>1, <1>2, LinesFrame

(* A line comes to the ring as a whole, or not at all.                     *)
LEMMA EndLineLines ==
  ASSUME PipeInv, FlushInv, LinesInv, EndLine
  PROVE  LinesInv'
<1>1. flush = "no" /\ UNCHANGED line BY DEF EndLine, lcdVars
<1>2. CASE acc # <<>> /\ RoomFor(acc)
  <2>1. flush' = "line" /\ WriteAll(acc) /\ pending' = Append(pending, LastOf(acc, ShowCap))
    BY <1>2 DEF EndLine
  <2>2. acc \in Seq(Bytes) /\ \A j \in 1 .. Len(acc) : acc[j] # Newline BY StreamTypes
  <2>3. Len(acc) \in Nat BY <2>2, LenProperties
  <2>4. Used + Len(acc) <= Cap
    <3>1. Free >= Len(acc) + 1 BY <1>2 DEF RoomFor
    <3>2. Used \in Nat /\ Free = Cap - Used /\ Cap \in Nat BY RingInvFacts, WordFacts DEF PipeInv
    <3> QED BY <2>3, <3>1, <3>2
  <2>5. wr'.rem = acc BY <2>1, <2>2, <2>4, WriteAllStarts DEF PipeInv
  <2>6. Unread' = Unread
    <3>1. UNCHANGED <<head, tail, store, rd>> BY <2>1 DEF WriteAll
    <3> QED BY <3>1, UnreadFrame
  <2>7. Rest = <<>> BY <1>1 DEF Rest, FlushInv
  <2>8. Rest' = Append(acc, Newline) BY <2>1, <2>5 DEF Rest
  <2>9. Stream = line \o Unread
    <3> PICK u \in Seq(Bytes) : u = line \o Unread BY StreamTypes
    <3>1. u \o <<>> = u BY ConcatEmptySeq
    <3> QED BY <3>1, <2>7 DEF Stream
  <2>10. Stream' = Stream \o Append(acc, Newline) BY <1>1, <2>6, <2>8, <2>9 DEF Stream
  <2>11. HasLines(Stream \o Append(acc, Newline), Append(pending, LastOf(acc, ShowCap)))
    BY <1>2, <2>2, StreamTypes, LineAdded DEF LinesInv
  <2>12. HasLines(Stream', pending') BY <2>1, <2>10, <2>11, Zenon
  <2>13. LastOf(acc, ShowCap) \in Seq(Bytes) BY <1>2, <2>2, LastOfIs, LogAssumption
  <2>14. pending' \in Seq(Seq(Bytes))
    <3> PICK l \in Seq(Bytes) : l = LastOf(acc, ShowCap) BY <2>13
    <3>1. Append(pending, l) \in Seq(Seq(Bytes)) BY AppendProperties DEF LinesInv
    <3> QED BY <3>1, <2>1
  <2> QED BY <2>12, <2>14, LinesThen DEF LinesInv
<1>3. CASE ~(acc # <<>> /\ RoomFor(acc))
  <2>1. UNCHANGED <<ringVars, line, pending, flush>> BY <1>1, <1>3 DEF EndLine
  <2> QED BY <2>1, RingFrame
<1> QED BY <1>2, <1>3

(* The newline that was still to be written is now being written.          *)
LEMMA NewlineLines ==
  ASSUME PipeInv, FlushInv, LinesInv, WriteNewline
  PROVE  LinesInv'
<1>1. flush = "line" /\ wr.pc = "idle" /\ UNCHANGED <<line, pending>>
  BY DEF WriteNewline, lcdVars
<1>2. wr.ok /\ wr.rem = <<>> /\ Used + Len(wr.rem) + 1 <= Cap BY <1>1 DEF FlushInv
<1>3. flush' = "newline" /\ WriteAll(<<Newline>>) BY <1>1, <1>2 DEF WriteNewline
<1>4. <<Newline>> \in Seq(Bytes) /\ Len(<<Newline>>) = 1 BY LogAssumption, OneByte
<1>5. Used + Len(<<Newline>>) <= Cap
  <2>1. Len(wr.rem) = 0 BY <1>2, EmptySeq
  <2>2. Used \in Nat /\ Cap \in Nat BY RingInvFacts, WordFacts DEF PipeInv
  <2> QED BY <1>2, <1>4, <2>1, <2>2
<1>6. wr'.rem = <<Newline>> BY <1>3, <1>4, <1>5, WriteAllStarts DEF PipeInv
<1>7. Unread' = Unread
  <2>1. UNCHANGED <<head, tail, store, rd>> BY <1>3 DEF WriteAll
  <2> QED BY <2>1, UnreadFrame
<1>8. Append(<<>>, Newline) = <<Newline>> OBVIOUS
<1>9. Rest = <<Newline>> /\ Rest' = <<Newline>> BY <1>1, <1>2, <1>3, <1>6, <1>8 DEF Rest
<1> QED BY <1>1, <1>7, <1>9, LinesFrame

(* Reserve and copy publish nothing, a commit moves bytes inside the       *)
(* stream.                                                                 *)
LEMMA RingWriteLines ==
  ASSUME PipeInv, LinesInv, RingWrite
  PROVE  LinesInv'
<1>1. UNCHANGED <<line, flush, pending>> BY DEF RingWrite, logVars, lcdVars
<1>2. RingInv /\ wr.rem \in Seq(Bytes) BY StreamTypes DEF PipeInv
<1>3. CASE Reserve
  <2>1. wr'.rem = wr.rem BY <1>2, <1>3, ReserveFindsRoom, RingInvFacts
  <2>2. UNCHANGED <<head, tail, store, rd>> BY <1>3 DEF Reserve
  <2>3. Unread' = Unread BY <2>2, UnreadFrame
  <2> QED BY <1>1, <2>1, <2>3, LinesFrame DEF Rest
<1>4. CASE Copy
  <2>1. wr'.rem = wr.rem BY <1>2, <1>4, RingInvFacts DEF Copy
  <2>2. Unread' = Unread BY <1>2, <1>4, CopyKeepsUnread
  <2> QED BY <1>1, <2>1, <2>2, LinesFrame DEF Rest
<1>5. CASE Commit
  <2>1. Stream' = Stream BY <1>1, <1>5, CommitKeepsStream
  <2> QED BY <1>1, <2>1 DEF LinesInv, HasLines, CutAt, EndOf
<1> QED BY <1>3, <1>4, <1>5 DEF RingWrite, ProducerStep

(* The display task's byte: of its line, or the end of it.                 *)
LEMMA DrainByteLines ==
  ASSUME PipeInv, LinesInv, DrainByte
  PROVE  LinesInv'
<1> DEFINE t == Tail(Unread)
<1>1. ReadByte /\ UNCHANGED <<flush, wr>> BY DEF DrainByte, ReadByte
<1>2. Unread # <<>> /\ last' = Head(Unread) /\ Unread' = t
  BY <1>1, ReadByteTakes DEF PipeInv, Fifo!Take
<1> PICK b : b = last' OBVIOUS
<1>3. /\ b \in Bytes /\ Len(line) + 1 \in 1 .. Len(Stream) /\ Stream[Len(line) + 1] = b
      /\ \A j \in 1 .. Len(line) : Stream[j] = line[j] /\ Stream[j] # Newline
  BY <1>2, StreamAtByte
<1>4. /\ line \in Seq(Bytes) /\ Unread \in Seq(Bytes) /\ Rest \in Seq(Bytes)
      /\ Stream \in Seq(Bytes) /\ Len(line) \in Nat /\ Len(line) <= ShowCap
  BY StreamTypes
<1>5. t \in Seq(Bytes) BY <1>2, <1>4, HeadTailProperties
<1>6. <<b>> \in Seq(Bytes) /\ Len(<<b>>) = 1 BY <1>3, OneByte
<1>7. Unread = <<b>> \o t
  <2>1. Unread = <<Head(Unread)>> \o Tail(Unread) BY <1>2, <1>4
  <2> QED BY <2>1, <1>2
<1>8. Rest' = Rest BY <1>1 DEF Rest
<1> HIDE DEF t
<1>9. /\ Stream = ((line \o <<b>>) \o t) \o Rest
      /\ Stream = (line \o <<b>>) \o (t \o Rest)
      /\ line \o <<b>> \in Seq(Bytes) /\ t \o Rest \in Seq(Bytes)
  <2> DEFINE y == <<b>>
  <2>1. y \in Seq(Bytes) /\ line \in Seq(Bytes) /\ t \in Seq(Bytes) /\ Rest \in Seq(Bytes)
    BY <1>4, <1>5, <1>6
  <2> HIDE DEF y
  <2>2. Cat(Cat(line, Cat(y, t)), Rest) = Cat(Cat(Cat(line, y), t), Rest) BY <2>1, Regroup
  <2>3. Cat(Cat(line, Cat(y, t)), Rest) = Cat(Cat(line, y), Cat(t, Rest)) BY <2>1, Regroup
  <2>4. Cat(line, y) \in Seq(Bytes) /\ Cat(t, Rest) \in Seq(Bytes) BY <2>1, Assoc
  <2> QED BY <2>2, <2>3, <2>4, <1>7 DEF Stream, Cat, y
<1>10. CASE b = Newline
  <2>1. line' = <<>> /\ pending' = Tail(pending) BY <1>10 DEF DrainByte
  <2>2. Stream' = t \o Rest
    <3>1. <<>> \o t = t BY <1>5, ConcatEmptySeq
    <3> QED BY <2>1, <3>1, <1>2, <1>8 DEF Stream
  <2>3. SubSeq(Stream, Len(line) + 1 + 1, Len(Stream)) = t \o Rest
    <3> PICK u \in Seq(Bytes), v \in Seq(Bytes) : u = line \o <<b>> /\ v = t \o Rest
      BY <1>9
    <3>1. SubSeq(u \o v, Len(u) + 1, Len(u \o v)) = v BY AfterPrefix
    <3>2. Len(u) = Len(line) + 1 BY <1>4, <1>6, ConcatProperties
    <3> QED BY <3>1, <3>2, <1>9
  <2>8. PICK k \in 1 .. Len(Stream) : k = Len(line) + 1 BY <1>3
  <2>4. Stream[k] = Newline /\ \A j \in 1 .. k - 1 : Stream[j] # Newline
    <3>1. \A j \in 1 .. k - 1 : j \in 1 .. Len(line) BY <2>8, <1>4
    <3> QED BY <3>1, <2>8, <1>3, <1>10
  <2>5. pending # <<>> /\ HasLines(SubSeq(Stream, k + 1, Len(Stream)), Tail(pending))
    <3>1. FirstEndsAt(k) BY <2>4, PendingFirst, Zenon
    <3> QED BY <3>1, Zenon DEF FirstEndsAt
  <2>6. HasLines(Stream, pending)'
    <3>1. SubSeq(Stream, k + 1, Len(Stream)) = Stream' BY <2>2, <2>3, <2>8
    <3>2. HasLines(Stream', pending') BY <2>1, <2>5, <3>1, Zenon
    <3> QED BY <3>2, LinesThen, Zenon
  <2>7. Tail(pending) \in Seq(Seq(Bytes)) BY <2>5, HeadTailProperties DEF LinesInv
  <2> QED BY <2>1, <2>6, <2>7 DEF LinesInv
<1>11. CASE b # Newline /\ Len(line) < ShowCap
  <2>1. line' = Append(line, b) /\ UNCHANGED pending BY <1>11 DEF DrainByte, PushKeep
  <2>2. Append(line, b) = line \o <<b>> BY <1>3, <1>4, AppendIsConcat
  <2>3. Stream' = Stream BY <2>1, <2>2, <1>2, <1>8, <1>9 DEF Stream
  <2> QED BY <2>1, <2>3 DEF LinesInv, HasLines, CutAt, EndOf
<1>12. CASE b # Newline /\ ~(Len(line) < ShowCap)
  <2>0. ShowCap \in Nat \ {0} BY LogAssumption
  <2>1. line' = Append(Tail(line), b) /\ UNCHANGED pending BY <1>12 DEF DrainByte, PushKeep
  <2>2. Len(line) = ShowCap BY <1>4, <1>12, <2>0
  <2>3. line # <<>> BY <2>0, <2>2, EmptySeq
  <2>13. PICK x \in Bytes, r \in Seq(Bytes) : x = Head(line) /\ r = Tail(line)
    BY <2>3, <1>4, HeadTailProperties
  <2>4. line = <<x>> \o r BY <2>3, <2>13, <1>4
  <2>5. <<x>> \in Seq(Bytes) /\ Len(<<x>>) = 1 BY <2>13, OneByte
  <2>6. Append(r, b) = r \o <<b>> /\ r \o <<b>> \in Seq(Bytes)
    BY <2>13, <1>3, <1>6, AppendIsConcat, ConcatProperties
  <2>7. Stream' = ((r \o <<b>>) \o t) \o Rest BY <2>1, <2>6, <2>13, <1>2, <1>8 DEF Stream
  <2>8. Stream = <<x>> \o (((r \o <<b>>) \o t) \o Rest) /\ ((r \o <<b>>) \o t) \o Rest \in Seq(Bytes)
    <3> DEFINE y == <<b>>
               z == <<x>>
    <3>1. y \in Seq(Bytes) /\ z \in Seq(Bytes) /\ t \in Seq(Bytes) /\ Rest \in Seq(Bytes)
          /\ r \in Seq(Bytes)
      BY <1>4, <1>5, <1>6, <2>5, <2>13
    <3> HIDE DEF y, z
    <3> DEFINE g == Cat(r, y)
               h == Cat(g, t)
    <3>2. g \in Seq(Bytes) /\ Cat(Cat(z, r), y) = Cat(z, g)
      <4>1. g \in Seq(Bytes) BY <3>1, Assoc
      <4>2. Cat(Cat(z, r), y) = Cat(z, Cat(r, y)) BY <3>1, Assoc
      <4> QED BY <4>1, <4>2, Zenon
    <3> HIDE DEF g
    <3>3. h \in Seq(Bytes) /\ Cat(Cat(z, g), t) = Cat(z, h) BY <3>1, <3>2, Assoc
    <3> HIDE DEF h
    <3>4. Cat(h, Rest) \in Seq(Bytes) /\ Cat(Cat(z, h), Rest) = Cat(z, Cat(h, Rest))
      BY <3>1, <3>3, Assoc
    <3> QED BY <3>2, <3>3, <3>4, <2>4, <1>9 DEF Cat, g, h, y, z
  <2>9. Tail(Stream) = Stream'
    <3> PICK z \in Seq(Bytes) : z = ((r \o <<b>>) \o t) \o Rest BY <2>8
    <3>1. <<x>> \o z # <<>>
      <4>1. Len(<<x>> \o z) = 1 + Len(z) /\ Len(z) \in Nat BY <2>5, ConcatProperties, LenProperties
      <4> QED BY <4>1, EmptySeq
    <3>2. Tail(Stream) = SubSeq(<<x>> \o z, 2, Len(<<x>> \o z))
      BY <3>1, <2>8, <1>4, TailIsSubSeq
    <3>3. SubSeq(<<x>> \o z, 2, Len(<<x>> \o z)) = z
      <4> PICK y \in Seq(Bytes) : y = <<x>> BY <2>5
      <4>1. SubSeq(y \o z, Len(y) + 1, Len(y \o z)) = z BY AfterPrefix
      <4>2. Len(y) + 1 = 2 BY <2>5
      <4> QED BY <4>1, <4>2
    <3> QED BY <3>2, <3>3, <2>7
  <2>10. Len(Stream) > ShowCap /\ \A j \in 1 .. ShowCap + 1 : Stream[j] # Newline
    <3>1. Len(Stream) \in Nat BY <1>4, LenProperties
    <3>2. ShowCap + 1 \in 1 .. Len(Stream) BY <1>3, <2>2
    <3>3. ASSUME NEW j \in 1 .. ShowCap + 1 PROVE Stream[j] # Newline
      <4>1. j \in 1 .. ShowCap \/ j = ShowCap + 1 BY <2>0
      <4>2. CASE j \in 1 .. ShowCap BY <4>2, <2>2, <1>3
      <4>3. CASE j = ShowCap + 1 BY <4>3, <2>2, <1>3, <1>12
      <4> QED BY <4>1, <4>2, <4>3
    <3> QED BY <2>0, <3>1, <3>2, <3>3
  <2>11. HasLines(Tail(Stream), pending) BY <2>10, <1>4, FirstForgotten DEF LinesInv
  <2>12. HasLines(Stream', pending') BY <2>1, <2>9, <2>11, Zenon
  <2> QED BY <2>1, <2>12, LinesThen DEF LinesInv
<1> QED BY <1>10, <1>11, <1>12

LEMMA LinesStep ==
  ASSUME PipeInv, FlushInv, LinesInv, [LogNext]_vars
  PROVE  LinesInv'
<1>1. CASE EndLine BY <1>1, EndLineLines
<1>2. CASE WriteNewline BY <1>2, NewlineLines
<1>3. CASE PostReady
  <2>1. UNCHANGED <<ringVars, line, pending>> /\ flush = "newline" /\ flush' = "no"
    BY <1>3 DEF PostReady, lcdVars
  <2> QED BY <2>1, RingFrame
<1>4. CASE RingWrite BY <1>4, RingWriteLines
<1>5. CASE DrainView
  <2>1. UNCHANGED <<head, tail, store, wr, line, flush, pending>> /\ rd.n = 0 /\ rd'.i = 0
    BY <1>5 DEF DrainView, Peek, logVars, lcdVars
  <2>2. rd.i = 0
    <3>1. rd.i <= rd.n /\ rd.i \in Nat BY RingInvFacts, WordFacts DEF PipeInv
    <3> QED BY <2>1, <3>1
  <2>3. Unread' = Unread BY <2>1, <2>2 DEF Unread, Used, Offset
  <2> QED BY <2>1, <2>3, LinesFrame DEF Rest
<1>6. CASE DrainByte BY <1>6, DrainByteLines
<1>7. CASE DrainConsumed
  <2>1. UNCHANGED <<wr, line, flush, pending>> /\ Consume
    BY <1>7 DEF DrainConsumed, Consume, logVars, lcdVars
  <2>2. Unread' = Unread BY <2>1, ConsumeKeepsUnread DEF PipeInv
  <2> QED BY <2>1, <2>2, LinesFrame DEF Rest
<1>8. ASSUME NEW w \in Writers, LogCall(w) PROVE LinesInv'
  BY <1>8, RingFrame DEF LogCall, lcdVars
<1>9. CASE AppendByte \/ LogReturn
  BY <1>9, RingFrame DEF AppendByte, LogReturn, lcdVars
<1>10. CASE Subscribe \/ OtherEvent \/ Wake \/ DrainEnd
  BY <1>10, RingFrame DEF Subscribe, OtherEvent, Wake, DrainEnd, logVars, lcdVars
<1>11. CASE Silence \/ UNCHANGED vars
  BY <1>11, RingFrame DEF Silence, vars, logVars, lcdVars
<1> QED
  BY <1>1, <1>2, <1>3, <1>4, <1>5, <1>6, <1>7, <1>8, <1>9, <1>10, <1>11
     DEF LogNext, LogStep, LcdStep

LEMMA LinesInit == LogInit => LinesInv
<1> SUFFICES ASSUME LogInit PROVE LinesInv
  OBVIOUS
<1>1. PipeInv BY LogInitCatchUp DEF CatchUpInv
<1>2. line = <<>> /\ pending = <<>> /\ flush = "no" /\ wr.rem = <<>> /\ rd.i = 0
  BY DEF LogInit, RingInit
<1>3. Used = 0 BY WordFacts, SmallRemainder DEF LogInit, RingInit, Used
<1>4. Unread = <<>> BY <1>1, <1>2, <1>3, UnreadFacts, EmptySeq DEF PipeInv
<1>5. Rest = <<>> BY <1>2 DEF Rest
<1>6. Stream = <<>>
  <2>1. <<>> \o <<>> = <<>> BY EmptySeq, ConcatEmptySeq
  <2> QED BY <2>1, <1>2, <1>4, <1>5 DEF Stream
<1>7. Len(<<>>) = 0 /\ <<>> \in Seq(Seq(Bytes)) BY EmptySeq
<1> DEFINE c == [k \in 0 .. 0 |-> 0]
<1>8. c \in [0 .. Len(<<>>) -> Nat] /\ c[0] = 0 BY <1>7
<1> HIDE DEF c
<1>9. CutAt(c, <<>>, <<>>) BY <1>7, <1>8 DEF CutAt
<1>10. HasLines(<<>>, <<>>) BY <1>8, <1>9 DEF HasLines
<1> QED BY <1>2, <1>6, <1>7, <1>10 DEF LinesInv

(* What the display shows at a newline is the end of the line written      *)
(* first of those not yet shown (app_demo_lcd.c:                           *)
(* drain_log_stream_to_lcd_): the newline is the first one in the stream   *)
(* of what the task holds and what is unread.                              *)
THEOREM LinesShownWhole == LogSpec => []ShowsWholeLines
<1>1. PipeInv /\ LinesInv => ShowsWholeLines
  <2> SUFFICES ASSUME PipeInv, LinesInv, AtNewline
               PROVE  pending # <<>> /\ line = Head(pending)
    BY DEF ShowsWholeLines
  <2>1. rd.i \in Nat /\ rd.i < rd.n /\ rd.n <= Used /\ rd.n \in Nat /\ Used \in Nat /\ tail \in Nat
    BY RingInvFacts, WordFacts DEF PipeInv, RingInv, AtNewline
  <2>2. 1 \in 1 .. Used - rd.i /\ tail + rd.i + 1 - 1 = tail + rd.i BY <2>1
  <2>3. Unread[1] = Newline /\ Len(Unread) = Used - rd.i /\ Unread \in Seq(Bytes)
    <3>1. Unread[1] = store[Offset(tail + rd.i + 1 - 1)] BY <2>2, UnreadFacts DEF PipeInv
    <3> QED BY <2>2, <3>1, UnreadFacts DEF PipeInv, AtNewline
  <2>4. Unread # <<>> BY <2>2, <2>3, EmptySeq
  <2>5. Head(Unread) = Newline BY <2>3, <2>4 DEF Head
  <2> PICK b : b = Head(Unread) OBVIOUS
  <2>6. /\ Len(line) + 1 \in 1 .. Len(Stream) /\ Stream[Len(line) + 1] = Newline
        /\ \A j \in 1 .. Len(line) : Stream[j] = line[j] /\ Stream[j] # Newline
    BY <2>4, <2>5, StreamAtByte
  <2>7. /\ line \in Seq(Bytes) /\ Len(line) \in Nat /\ Len(line) <= ShowCap /\ Stream \in Seq(Bytes)
        /\ ShowCap \in Nat
    BY StreamTypes, LogAssumption
  <2> PICK k \in 1 .. Len(Stream) : k = Len(line) + 1 BY <2>6
  <2>8. Stream[k] = Newline /\ \A j \in 1 .. k - 1 : Stream[j] # Newline
    <3>1. \A j \in 1 .. k - 1 : j \in 1 .. Len(line) BY <2>7
    <3> QED BY <3>1, <2>6
  <2>9. pending # <<>> /\ EndOf(pending[1], Stream, 0, k)
    BY <2>8, PendingFirst DEF FirstEndsAt
  <2> PICK p : p = pending[1] OBVIOUS
  <2>10. p = Head(pending) /\ p \in Seq(Bytes)
    <3>1. Head(pending) \in Seq(Bytes) BY <2>9, HeadTailProperties DEF LinesInv
    <3> QED BY <3>1, <2>9 DEF LinesInv, Head
  <2>11. Len(p) = Len(line)
    <3>1. Len(p) = Lesser(ShowCap, k - 0 - 1) BY <2>9 DEF EndOf
    <3>2. k - 0 - 1 = Len(line) BY <2>7
    <3>3. Lesser(ShowCap, Len(line)) = Len(line) BY <2>7 DEF Lesser
    <3> QED BY <3>1, <3>2, <3>3
  <2>12. ASSUME NEW i \in 1 .. Len(line) PROVE line[i] = p[i]
    <3>1. Len(line) - i \in 0 .. Len(p) - 1 /\ Len(p) - (Len(line) - i) = i
          /\ k - 1 - (Len(line) - i) = i
      BY <2>7, <2>11
    <3>2. p[Len(p) - (Len(line) - i)] = Stream[k - 1 - (Len(line) - i)]
      BY <3>1, <2>9 DEF EndOf
    <3> QED BY <3>1, <3>2, <2>6
  <2>13. line = p BY <2>7, <2>10, <2>11, <2>12, SeqEqual
  <2> QED BY <2>9, <2>10, <2>13
<1>2. LogInit => FlushInv /\ LinesInv
  BY LogInitCatchUp, LinesInit DEF CatchUpInv
<1>3. PipeInv /\ FlushInv /\ LinesInv /\ [LogNext]_vars => (FlushInv /\ LinesInv)'
  BY FlushStep, LinesStep
<1>4. LogSpec => []PipeInv
  BY PipeInvariance
<1> QED BY <1>1, <1>2, <1>3, <1>4, PTL DEF LogSpec
=============================================================================
