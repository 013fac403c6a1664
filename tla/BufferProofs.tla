---------------------------- MODULE BufferProofs ----------------------------
(***************************************************************************)
(* Proofs about Buffer for every set of bytes, every kPreAllocSize, every  *)
(* alignment, every width of an integer and any number of puts.            *)
(***************************************************************************)
EXTENDS Buffer, SequenceTheorems, TLAPS

(* What a put leaves behind: the first allocation is never given back, and a
   byte that was put is the one meant, or behind kPreAllocSize and lost. *)
Kept ==
  \A o \in 0..(hasPut - 1) :
    rep[o] = written[o + 1] \/ (o >= PreAlloc /\ rep[o] = Junk)

IInv == TypeOK /\ PreAlloc <= cap /\ Kept

-----------------------------------------------------------------------------
(* Lemmas about the data. *)

(* What users put is a sequence of bytes. *)
LEMMA DatumIsSeq ==
  ASSUME NEW d \in Datum \cup Integer
  PROVE  d \in Seq(Byte) /\ Len(d) \in Nat /\ DOMAIN d = 1..Len(d)
<1>1. PICK n \in Nat : d \in [1..n -> Byte]
  <2>1. CASE d \in Integer
    BY <2>1, BufferAssumption DEF Integer
  <2>2. CASE d \in Datum
    <3>1. PICK n \in Lengths : d \in [1..n -> IF n < IntLimit THEN Byte ELSE {0}]
      BY <2>2 DEF Datum
    <3>2. n \in Nat /\ {0} \subseteq Byte
      BY BufferAssumption
    <3> QED BY <3>1, <3>2
  <2> QED BY <2>1, <2>2
<1>2. d \in Seq(Byte)
  BY <1>1, SeqDef
<1> QED BY <1>2, LenProperties

(* Reversing keeps the length and is its own inverse. *)
LEMMA ReverseProperties ==
  ASSUME NEW S, NEW s \in Seq(S)
  PROVE  /\ Reverse(s) \in Seq(S)
         /\ Len(Reverse(s)) = Len(s)
         /\ \A j \in 1..Len(s) : Reverse(s)[j] = s[Len(s) - j + 1]
         /\ Reverse(Reverse(s)) = s
<1> DEFINE n == Len(s)
<1>1. n \in Nat /\ s \in [1..n -> S]
  BY LenProperties
<1>2. Reverse(s) = [j \in 1..n |-> s[n - j + 1]]
  BY DEF Reverse
<1>3. \A j \in 1..n : n - j + 1 \in 1..n
  BY <1>1, SMT
<1>4. Reverse(s) \in [1..n -> S]
  BY <1>1, <1>2, <1>3
<1>5. Reverse(s) \in Seq(S)
  BY <1>1, <1>4, SeqDef
<1>6. Len(Reverse(s)) = n
  BY <1>1, <1>4, <1>5, LenProperties
<1>7. Reverse(Reverse(s)) = [j \in 1..n |-> Reverse(s)[n - j + 1]]
  BY <1>6 DEF Reverse
<1>8. \A j \in 1..n : Reverse(s)[n - j + 1] = s[j]
  BY <1>1, <1>2, <1>3, SMT
<1>9. Reverse(Reverse(s)) = s
  BY <1>1, <1>7, <1>8
<1> QED BY <1>2, <1>5, <1>6, <1>9

(* The integers put are sequences of Width bytes, in both orders. *)
LEMMA IntegerReversed ==
  ASSUME NEW u \in Integer
  PROVE  /\ Reverse(u) \in Integer /\ Reverse(Reverse(u)) = u
         /\ Len(u) = Width
<1>1. u \in Seq(Byte) /\ DOMAIN u = 1..Len(u) /\ Len(u) \in Nat
  BY DatumIsSeq
<1>2. Len(u) = Width
  BY <1>1, BufferAssumption, LenProperties, SMT DEF Integer
<1>3. Reverse(u) \in [1..Width -> Byte]
  BY <1>1, <1>2, ReverseProperties, LenProperties
<1> QED BY <1>1, <1>2, <1>3, ReverseProperties DEF Integer

(* A reallocation enlarges, and what it asks for is more than the put needs
   on top of the first allocation (buffer.cc lines 53-61). *)
LEMMA TargetGrows ==
  ASSUME NEW n \in Nat
  PROVE  Target(n) \in Nat /\ Target(n) > PreAlloc + n
<1> DEFINE m == PreAlloc + n
           r == m % Align
<1>1. m \in Nat /\ Align \in Nat \ {0}
  BY BufferAssumption
<1>2. r \in 0..(Align - 1) /\ r <= m
  BY <1>1, SMT
<1>3. Target(n) = (m - r) + Align
  BY DEF Target
<1> HIDE DEF r
<1>4. Target(n) \in Nat /\ Target(n) > m
  BY <1>1, <1>2, <1>3, SMT
<1> QED BY <1>4

-----------------------------------------------------------------------------
(* The steps that put. *)

(* The invariant holds at first. *)
LEMMA InitKept == Init => IInv
<1> SUFFICES ASSUME Init PROVE IInv
  OBVIOUS
<1>1. <<>> \in Seq(Byte) /\ Len(<<>>) = 0
  BY EmptySeq
<1>2. TypeOK
  BY <1>1, BufferAssumption, SMT DEF Init, TypeOK
<1> QED BY <1>2, BufferAssumption, SMT DEF Init, IInv, Kept

(* The storage after acquire_put_nbytes(n). *)
LEMMA StorageKept ==
  ASSUME IInv, NEW n \in Nat
  PROVE  /\ Capacity(n) \in Nat /\ PreAlloc <= Capacity(n) /\ cap <= Capacity(n)
         /\ Storage(n) \in [0..(Capacity(n) - 1) -> Byte \cup {Junk}]
         /\ \A o \in 0..(cap - 1) :
              Storage(n)[o] = rep[o] \/ (o >= PreAlloc /\ Storage(n)[o] = Junk)
<1>0. PreAlloc \in Nat /\ cap \in Nat /\ PreAlloc <= cap
      /\ rep \in [0..(cap - 1) -> Byte \cup {Junk}]
  BY BufferAssumption DEF IInv, TypeOK
<1>1. CASE NeedsRoom(n)
  <2>1. Capacity(n) = Target(n) /\ Target(n) \in Nat /\ Target(n) > PreAlloc + n
    BY <1>1, TargetGrows DEF Capacity
  <2>2. Capacity(n) > cap
    BY <1>0, <1>1, <2>1, SMT DEF NeedsRoom
  <2>3. Storage(n) = [o \in 0..(Capacity(n) - 1) |-> IF o < PreAlloc THEN rep[o] ELSE Junk]
    BY <1>1 DEF Storage
  <2> QED BY <1>0, <2>1, <2>2, <2>3, SMT
<1>2. CASE ~NeedsRoom(n)
  <2>1. Capacity(n) = cap
    BY <1>2 DEF Capacity
  <2>2. Storage(n) = [o \in 0..(cap - 1) |-> rep[o]]
    BY <1>2, <2>1 DEF Storage
  <2> QED BY <1>0, <2>1, <2>2, SMT
<1> QED BY <1>1, <1>2

(* A put of d keeps what was put before, up to the bytes that get lost, and
   appends d. *)
LEMMA AppendKeeps ==
  ASSUME IInv, NEW d \in Seq(Byte), append(d, d)
  PROVE  IInv'
<1> DEFINE n == Len(d)
<1>1. n \in Nat /\ d \in [1..n -> Byte]
  BY LenProperties
<1>2. /\ Capacity(n) \in Nat /\ PreAlloc <= Capacity(n) /\ cap <= Capacity(n)
      /\ Storage(n) \in [0..(Capacity(n) - 1) -> Byte \cup {Junk}]
      /\ \A o \in 0..(cap - 1) :
           Storage(n)[o] = rep[o] \/ (o >= PreAlloc /\ Storage(n)[o] = Junk)
  BY <1>1, StorageKept
<1>3. /\ cap' = Capacity(n) /\ hasPut' = hasPut + n /\ written' = written \o d
      /\ rep' = [o \in 0..(Capacity(n) - 1) |->
                  IF o \in hasPut..(hasPut + n - 1) THEN d[o - hasPut + 1] ELSE Storage(n)[o]]
      /\ hasPut + n <= Capacity(n)
      /\ UNCHANGED <<hasPeek, answer, aborted>>
  <2>1. HasRoom(n) /\ hasPut \in Nat
    BY DEF append, IInv, TypeOK
  <2>2. hasPut + n <= Capacity(n)
    BY <1>1, <1>2, <2>1, SMT DEF HasRoom
  <2> QED BY <2>2 DEF append
<1>4. /\ written \in Seq(Byte) /\ Len(written) = hasPut
      /\ hasPut \in Nat /\ hasPut <= cap /\ cap \in Nat /\ hasPeek \in 0..hasPut
      /\ answer.ok \in BOOLEAN
      /\ aborted \in {"no", "tgtsz", "has_put"}
  BY SMT DEF IInv, TypeOK
<1>5. /\ written' \in Seq(Byte) /\ Len(written') = hasPut + n
      /\ \A j \in 1..(hasPut + n) :
           written'[j] = IF j <= hasPut THEN written[j] ELSE d[j - hasPut]
  BY <1>3, <1>4, ConcatProperties
<1> HIDE DEF n
<1>6. \A o \in hasPut..(hasPut + n - 1) : o - hasPut + 1 \in 1..n /\ o \in 0..(Capacity(n) - 1)
  BY <1>1, <1>2, <1>3, <1>4, SMT
<1>7. rep' \in [0..(cap' - 1) -> Byte \cup {Junk}]
  BY <1>1, <1>2, <1>3, <1>6
<1>8. TypeOK'
  <2>1. hasPut' \in 0..cap' /\ hasPeek' \in 0..hasPut'
    BY <1>1, <1>2, <1>3, <1>4, SMT
  <2> QED BY <1>2, <1>3, <1>4, <1>5, <1>7, <2>1 DEF TypeOK
<1>9. Kept'
  <2>0. hasPut' = hasPut + n
    BY <1>3
  <2> SUFFICES ASSUME NEW o \in 0..(hasPut' - 1)
               PROVE  rep'[o] = written'[o + 1] \/ (o >= PreAlloc /\ rep'[o] = Junk)
    BY Zenon DEF Kept
  <2>1. o \in 0..(Capacity(n) - 1) /\ o + 1 \in 1..(hasPut + n)
    BY <1>1, <1>2, <1>3, <1>4, <2>0, SMT
  <2>2. CASE o < hasPut
    <3>1. o \in 0..(hasPut - 1) /\ o \in 0..(cap - 1) /\ ~(o \in hasPut..(hasPut + n - 1))
          /\ o + 1 <= hasPut
      BY <1>1, <1>4, <2>1, <2>2, SMT
    <3>2. rep'[o] = Storage(n)[o] /\ written'[o + 1] = written[o + 1]
      BY <1>3, <1>5, <2>1, <3>1
    <3>3. rep[o] = written[o + 1] \/ (o >= PreAlloc /\ rep[o] = Junk)
      BY <3>1 DEF IInv, Kept
    <3> QED BY <1>2, <3>1, <3>2, <3>3
  <2>3. CASE ~(o < hasPut)
    <3>1. o \in hasPut..(hasPut + n - 1) /\ ~(o + 1 <= hasPut)
      BY <1>1, <1>4, <2>1, <2>3, SMT
    <3>2. rep'[o] = d[o - hasPut + 1]
      BY <1>3, <2>1, <3>1
    <3>3. written'[o + 1] = d[(o + 1) - hasPut]
      BY <1>5, <2>1, <3>1
    <3>4. (o + 1) - hasPut = o - hasPut + 1
      BY <1>4, <2>1, SMT
    <3> QED BY <3>2, <3>3, <3>4
  <2> QED BY <2>2, <2>3
<1> QED BY <1>2, <1>3, <1>8, <1>9 DEF IInv

(* A failed put changes nothing but the verdict; a peek moves the mark. *)
LEMMA AbortKeeps ==
  ASSUME IInv, NEW d, appendAborts(d)
  PROVE  IInv'
  BY DEF appendAborts, IInv, TypeOK, Kept

(* A peek, whether it fails or not, keeps the invariant. *)
LEMMA PeekKeeps ==
  ASSUME IInv, NEW n \in Nat, NEW v, Read(n, v) \/ PeekFails(n)
  PROVE  IInv'
<1>1. hasPut \in Nat /\ hasPeek \in 0..hasPut
  BY SMT DEF IInv, TypeOK
<1>2. hasPeek' \in 0..hasPut
  BY <1>1, SMT DEF Read, PeekFails, Left
<1>4. answer'.ok \in BOOLEAN
  <2>1. answer' = [ok |-> TRUE, val |-> v] \/ answer' = [ok |-> FALSE, val |-> <<>>]
    BY DEF Read, PeekFails
  <2>2. [ok |-> TRUE, val |-> v].ok = TRUE /\ [ok |-> FALSE, val |-> <<>>].ok = FALSE
    OBVIOUS
  <2> QED BY <2>1, <2>2, Zenon
<1>3. UNCHANGED <<cap, rep, hasPut, written, aborted>>
  BY DEF Read, PeekFails
<1> QED BY <1>2, <1>3, <1>4 DEF IInv, TypeOK, Kept

(* Every step keeps the invariant. *)
LEMMA StepKeeps == IInv /\ [Next]_vars => IInv'
<1> SUFFICES ASSUME IInv, [Next]_vars PROVE IInv'
  OBVIOUS
<1>1. ASSUME NEW u \in Integer, PutUint32(u) PROVE IInv'
  <2>1. Reverse(u) \in Seq(Byte)
    BY IntegerReversed, DatumIsSeq
  <2> QED BY <1>1, <2>1, AppendKeeps, AbortKeeps DEF PutUint32, htonl
<1>2. ASSUME NEW d \in Datum, PutString(d) \/ PutBytes(d) PROVE IInv'
  <2>1. d \in Seq(Byte)
    BY DatumIsSeq
  <2>2. ASSUME appendThrows(d) PROVE IInv'
    BY <2>2 DEF appendThrows, vars, IInv, TypeOK, Kept
  <2> QED BY <1>2, <2>1, <2>2, AppendKeeps, AbortKeeps DEF PutString, PutBytes
<1>3. CASE PeekUint32
  BY <1>3, BufferAssumption, PeekKeeps DEF PeekUint32
<1>4. ASSUME NEW n \in Lengths, PeekString(n) \/ PeekBytes(n) PROVE IInv'
  BY <1>4, BufferAssumption, PeekKeeps DEF PeekString, PeekBytes
<1>5. CASE UNCHANGED vars
  BY <1>5 DEF vars, IInv, TypeOK, Kept
<1> QED BY <1>1, <1>2, <1>3, <1>4, <1>5 DEF Next

(* So it is an invariant. *)
LEMMA Invariance == Spec => []IInv
  BY InitKept, StepKeeps, PTL DEF Spec

(***************************************************************************)
(* Every variable has its type: the puts end within the capacity and the   *)
(* peeks never overtake them, whatever the sizes of buffer.cc are.         *)
(***************************************************************************)
THEOREM TypeCorrect == Spec => []TypeOK
<1>1. IInv => TypeOK
  BY DEF IInv
<1> QED BY <1>1, Invariance, PTL

(***************************************************************************)
(* Whatever is put later, the first kPreAllocSize bytes survive every      *)
(* reallocation (buffer.cc lines 53-61).                                   *)
(***************************************************************************)
THEOREM PrefixAlwaysIntact == Spec => []PrefixIntact
<1>1. IInv => PrefixIntact
  BY BufferAssumption, SMT DEF IInv, TypeOK, Kept, PrefixIntact
<1> QED BY <1>1, Invariance, PTL

-----------------------------------------------------------------------------
(* The failed assertions. *)

(* An assertion that a put of a length that fits an int fails is the one about
   the room left, and the put asks for more than was allocated at first. *)
LEMMA AbortBeyond ==
  ASSUME IInv, NEW d \in Datum \cup Integer, appendAborts(d)
  PROVE  /\ hasPut + Len(d) > PreAlloc
         /\ aborted' = "tgtsz" => Len(d) >= IntLimit
<1> DEFINE n == Len(d)
<1>1. n \in Nat /\ IntLimit \in Nat /\ PreAlloc < IntLimit
  BY DatumIsSeq, BufferAssumption
<1>2. PreAlloc \in Nat /\ cap \in Nat /\ hasPut \in Nat /\ PreAlloc <= cap
  BY BufferAssumption, SMT DEF IInv, TypeOK
<1>3. CASE n < IntLimit
  <2>1. Grows(n)
    <3>1. Target(n) \in Nat /\ Target(n) > PreAlloc + n
      BY <1>1, TargetGrows
    <3> HIDE DEF n
    <3>2. NeedsRoom(n) => Target(n) > cap
      BY <1>1, <1>2, <3>1 DEF NeedsRoom
    <3> QED BY <1>2, <3>1, <3>2 DEF Grows
  <2>2. ~Throws(n)
    BY <1>1, TargetGrows, SMT DEF Throws
  <2>3. nbytes(d) = n
    BY <1>3 DEF nbytes
  <2>4. ~HasRoom(n) /\ aborted' = "has_put"
    BY <2>1, <2>2, <2>3 DEF appendAborts
  <2>5. Capacity(n) \in Nat /\ PreAlloc <= Capacity(n)
    BY <1>1, StorageKept
  <2> HIDE DEF n
  <2>6. hasPut + n > PreAlloc
    BY <1>1, <1>2, <2>4, <2>5, SMT DEF HasRoom
  <2> QED BY <2>4, <2>6 DEF n
<1>4. CASE ~(n < IntLimit)
  BY <1>1, <1>2, <1>4, SMT
<1> QED BY <1>3, <1>4

(***************************************************************************)
(* The assertion of buffer.cc line 58 fails only for a length that is no   *)
(* int; that of line 64 only for a put that asks for more than was         *)
(* allocated at first.                                                     *)
(***************************************************************************)
THEOREM AbortsAlwaysBeyond == Spec => AbortsOnlyBeyond
<1> DEFINE Beyond ==
      aborted' # aborted =>
        \A d \in Datum \cup Integer : appendAborts(d) =>
          /\ hasPut + Len(d) > PreAlloc
          /\ aborted' = "tgtsz" => Len(d) >= IntLimit
<1>1. IInv /\ [Next]_vars => [Beyond]_vars
  BY AbortBeyond
<1> QED BY <1>1, Invariance, PTL DEF Spec, AbortsOnlyBeyond

-----------------------------------------------------------------------------
(* The abstract queue: the bytes put and not yet peeked. *)

Pending == SubSeq(written, hasPeek + 1, hasPut)

PendingOK ==
  /\ hasPut \in Nat /\ hasPeek \in Nat /\ hasPeek <= hasPut
  /\ written \in Seq(Byte) /\ Len(written) = hasPut
  /\ Pending \in Seq(Byte) /\ Len(Pending) = hasPut - hasPeek
  /\ \A i \in 1..(hasPut - hasPeek) : Pending[i] = written[hasPeek + i]

(* What is pending is a sequence of the bytes between the two cursors. *)
LEMMA PendingProperties == IInv => PendingOK
<1> SUFFICES ASSUME IInv PROVE PendingOK
  OBVIOUS
<1>1. /\ hasPut \in Nat /\ hasPeek \in Nat /\ hasPeek <= hasPut
      /\ written \in Seq(Byte) /\ Len(written) = hasPut
  BY SMT DEF IInv, TypeOK
<1>2. \A i \in (hasPeek + 1)..hasPut : written[i] \in Byte
  BY <1>1, LenProperties, SMT
<1>3. /\ Pending \in Seq(Byte)
      /\ Len(Pending) = IF hasPeek + 1 <= hasPut THEN hasPut - (hasPeek + 1) + 1 ELSE 0
      /\ \A i \in 1..(hasPut - (hasPeek + 1) + 1) : Pending[i] = written[(hasPeek + 1) + i - 1]
  BY <1>1, <1>2, SubSeqProperties DEF Pending
<1>4. Len(Pending) = hasPut - hasPeek
  BY <1>1, <1>3, SMT
<1>5. \A i \in 1..(hasPut - hasPeek) :
        i \in 1..(hasPut - (hasPeek + 1) + 1) /\ (hasPeek + 1) + i - 1 = hasPeek + i
  BY <1>1, SMT
<1> QED BY <1>1, <1>3, <1>4, <1>5 DEF PendingOK

(* A put appends what is put. *)
LEMMA PutRefines ==
  ASSUME IInv, NEW d \in Seq(Byte), append(d, d)
  PROVE  Abstract!Put(d)
<1> DEFINE n == Len(d)
<1>1. n \in Nat /\ d \in [1..n -> Byte]
  BY LenProperties
<1>2. hasPut' = hasPut + n /\ written' = written \o d /\ UNCHANGED <<hasPeek, answer>>
  BY DEF append
<1>3. IInv'
  BY AppendKeeps
<1>4. /\ hasPut \in Nat /\ hasPeek \in Nat /\ hasPeek <= hasPut
      /\ written \in Seq(Byte) /\ Len(written) = hasPut
      /\ Pending \in Seq(Byte) /\ Len(Pending) = hasPut - hasPeek
      /\ \A i \in 1..(hasPut - hasPeek) : Pending[i] = written[hasPeek + i]
  BY PendingProperties DEF PendingOK
<1>5. /\ Pending' \in Seq(Byte) /\ Len(Pending') = hasPut' - hasPeek'
      /\ \A i \in 1..(hasPut' - hasPeek') : Pending'[i] = written'[hasPeek' + i]
  <2>1. PendingOK'
    BY <1>3, PendingProperties, PTL
  <2> QED BY <2>1 DEF PendingOK
<1>6. \A j \in 1..(hasPut + n) : written'[j] = IF j <= hasPut THEN written[j] ELSE d[j - hasPut]
  BY <1>2, <1>4, ConcatProperties
<1>7. /\ Pending \o d \in Seq(Byte) /\ Len(Pending \o d) = (hasPut - hasPeek) + n
      /\ \A i \in 1..((hasPut - hasPeek) + n) :
           (Pending \o d)[i] =
             IF i <= hasPut - hasPeek THEN Pending[i] ELSE d[i - (hasPut - hasPeek)]
  <2>1. /\ Pending \in Seq(Byte) /\ Len(Pending) = hasPut - hasPeek
        /\ d \in Seq(Byte) /\ Len(d) = n
    BY <1>4
  <2> HIDE DEF n
  <2>2. /\ Pending \o d \in Seq(Byte) /\ Len(Pending \o d) = Len(Pending) + Len(d)
        /\ \A i \in 1..(Len(Pending) + Len(d)) :
             (Pending \o d)[i] =
               IF i <= Len(Pending) THEN Pending[i] ELSE d[i - Len(Pending)]
    BY <2>1, ConcatProperties
  <2> QED BY <2>1, <2>2
<1> HIDE DEF n
<1>8. Len(Pending') = (hasPut - hasPeek) + n
  BY <1>1, <1>2, <1>4, <1>5, SMT
<1>9. ASSUME NEW i \in 1..((hasPut - hasPeek) + n)
      PROVE  Pending'[i] = (Pending \o d)[i]
  <2>1. Pending'[i] = written'[hasPeek + i] /\ hasPeek + i \in 1..(hasPut + n)
    BY <1>1, <1>2, <1>4, <1>5, SMT
  <2>2. CASE i <= hasPut - hasPeek
    <3>1. i \in 1..(hasPut - hasPeek) /\ hasPeek + i <= hasPut
      BY <1>4, <2>2, SMT
    <3> QED BY <1>4, <1>6, <1>7, <2>1, <2>2, <3>1
  <2>3. CASE ~(i <= hasPut - hasPeek)
    <3>1. ~(hasPeek + i <= hasPut) /\ (hasPeek + i) - hasPut = i - (hasPut - hasPeek)
      BY <1>4, <2>3, SMT
    <3> QED BY <1>6, <1>7, <2>1, <2>3, <3>1
  <2> QED BY <2>2, <2>3
<1>10. Pending' = Pending \o d
  BY <1>5, <1>7, <1>8, <1>9, SeqEqual
<1> QED BY <1>2, <1>10 DEF Abstract!Put, Pending

(* As long as no byte is lost, a peek reads the front of the queue and takes
   it away. *)
LEMMA ReadRefines ==
  ASSUME IInv, ~Lost, NEW n \in Nat, NEW val, Read(n, val)
  PROVE  /\ Len(Pending) >= n
         /\ Ahead(n) = SubSeq(Pending, 1, n) /\ Ahead(n) \in [1..n -> Byte]
         /\ Pending' = SubSeq(Pending, n + 1, Len(Pending))
         /\ answer' = [ok |-> TRUE, val |-> val]
<1> DEFINE left == hasPut - hasPeek
<1>1. /\ hasPut \in Nat /\ hasPeek \in Nat /\ hasPeek <= hasPut
      /\ written \in Seq(Byte) /\ Len(written) = hasPut
      /\ Pending \in Seq(Byte) /\ Len(Pending) = left
      /\ \A i \in 1..left : Pending[i] = written[hasPeek + i]
  BY PendingProperties DEF PendingOK
<1>2. /\ answer' = [ok |-> TRUE, val |-> val] /\ hasPeek' = hasPeek + n
      /\ UNCHANGED <<cap, rep, hasPut, written>> /\ Left >= n
  BY DEF Read
<1>3. left \in Nat /\ n <= left
  BY <1>1, <1>2, SMT DEF Left
<1>4. \A o \in 0..(hasPut - 1) : rep[o] = written[o + 1]
  <2> SUFFICES ASSUME NEW o \in 0..(hasPut - 1), o >= PreAlloc, rep[o] = Junk PROVE Lost
    BY DEF IInv, Kept
  <2>1. o \in PreAlloc..(hasPut - 1)
    BY <1>1, BufferAssumption, SMT
  <2> QED BY <2>1 DEF Lost
<1>5. \A i \in 1..left : Pending[i] \in Byte
  BY <1>1, LenProperties
<1>6. /\ SubSeq(Pending, 1, n) \in Seq(Byte) /\ Len(SubSeq(Pending, 1, n)) = n
      /\ \A i \in 1..n : SubSeq(Pending, 1, n)[i] = Pending[i]
  <2>1. \A i \in 1..n : Pending[i] \in Byte
    BY <1>1, <1>3, <1>5, SMT
  <2>2. /\ SubSeq(Pending, 1, n) \in Seq(Byte)
        /\ Len(SubSeq(Pending, 1, n)) = IF 1 <= n THEN n - 1 + 1 ELSE 0
        /\ \A i \in 1..(n - 1 + 1) : SubSeq(Pending, 1, n)[i] = Pending[1 + i - 1]
    BY <2>1, SubSeqProperties
  <2>3. n - 1 + 1 = n /\ \A i \in 1..n : 1 + i - 1 = i
    BY SMT
  <2> QED BY <2>2, <2>3, SMT
<1>7. SubSeq(Pending, 1, n) \in [1..n -> Byte]
  BY <1>6, LenProperties
<1>8. \A j \in 1..n : rep[hasPeek + j - 1] = Pending[j]
  <2> SUFFICES ASSUME NEW j \in 1..n PROVE rep[hasPeek + j - 1] = Pending[j]
    OBVIOUS
  <2>1. /\ hasPeek + j - 1 \in 0..(hasPut - 1) /\ (hasPeek + j - 1) + 1 = hasPeek + j
        /\ j \in 1..left
    BY <1>1, <1>3, SMT
  <2> QED BY <1>1, <1>4, <2>1
<1>9. Ahead(n) = SubSeq(Pending, 1, n)
  <2>1. Ahead(n) = [j \in 1..n |-> SubSeq(Pending, 1, n)[j]]
    BY <1>6, <1>8 DEF Ahead
  <2> QED BY <1>7, <2>1
<1>10. Pending' = SubSeq(Pending, n + 1, left)
  <2>1. IInv'
    BY PeekKeeps
  <2>2. /\ Pending' \in Seq(Byte) /\ Len(Pending') = hasPut' - hasPeek'
        /\ \A i \in 1..(hasPut' - hasPeek') : Pending'[i] = written'[hasPeek' + i]
    <3>1. PendingOK'
      BY <2>1, PendingProperties, PTL
    <3> QED BY <3>1 DEF PendingOK
  <2>3. hasPut' - hasPeek' = left - n
    BY <1>1, <1>2, SMT
  <2>4. \A i \in (n + 1)..left : Pending[i] \in Byte
    BY <1>3, <1>5, SMT
  <2>5. /\ SubSeq(Pending, n + 1, left) \in Seq(Byte)
        /\ Len(SubSeq(Pending, n + 1, left)) = IF n + 1 <= left THEN left - (n + 1) + 1 ELSE 0
        /\ \A i \in 1..(left - (n + 1) + 1) :
             SubSeq(Pending, n + 1, left)[i] = Pending[(n + 1) + i - 1]
    <3>1. left \in Int /\ n + 1 \in Int
      BY <1>3
    <3> HIDE DEF left
    <3> QED BY <2>4, <3>1, SubSeqProperties
  <2> HIDE DEF left
  <2>6. Len(SubSeq(Pending, n + 1, left)) = left - n
    BY <1>3, <2>5, SMT
  <2>7. ASSUME NEW i \in 1..(left - n)
        PROVE  Pending'[i] = SubSeq(Pending, n + 1, left)[i]
    <3>1. /\ i \in 1..(left - (n + 1) + 1) /\ (n + 1) + i - 1 = n + i /\ n + i \in 1..left
          /\ (hasPeek + n) + i = hasPeek + (n + i)
      BY <1>1, <1>3, SMT
    <3>2. Pending'[i] = written[(hasPeek + n) + i]
      BY <1>2, <2>2, <2>3
    <3>3. SubSeq(Pending, n + 1, left)[i] = Pending[n + i]
      BY <2>5, <3>1
    <3> QED BY <1>1, <3>1, <3>2, <3>3
  <2> QED BY <2>2, <2>3, <2>5, <2>6, <2>7, SeqEqual
<1> QED BY <1>1, <1>2, <1>3, <1>7, <1>9, <1>10

(* Some datum has each of the lengths users ask for. *)
LEMMA DatumOfLength ==
  /\ \A n \in Lengths : \E d \in Datum : Len(d) = n
  /\ \E u \in Integer : Len(u) = Width
<1>1. ASSUME NEW n \in Nat
      PROVE  /\ [j \in 1..n |-> 0] \in [1..n -> {0}] /\ [j \in 1..n |-> 0] \in [1..n -> Byte]
             /\ Len([j \in 1..n |-> 0]) = n
  <2>1. [j \in 1..n |-> 0] \in [1..n -> {0}] /\ [j \in 1..n |-> 0] \in [1..n -> Byte]
    BY BufferAssumption
  <2>2. [j \in 1..n |-> 0] \in Seq(Byte)
    BY <2>1, SeqDef
  <2> QED BY <2>1, <2>2, LenProperties
<1>2. ASSUME NEW n \in Lengths PROVE \E d \in Datum : Len(d) = n
  <2>1. n \in Nat
    BY BufferAssumption
  <2>2. [j \in 1..n |-> 0] \in [1..n -> IF n < IntLimit THEN Byte ELSE {0}]
    BY <1>1, <2>1
  <2> QED BY <1>1, <2>1, <2>2 DEF Datum
<1>3. \E u \in Integer : Len(u) = Width
  BY <1>1, BufferAssumption DEF Integer
<1> QED BY <1>2, <1>3

(* A peek that fails is one that the queue refuses. *)
LEMMA FailedPeekRefines ==
  ASSUME IInv, NEW n \in Nat, PeekFails(n)
  PROVE  Abstract!PeekFails(n)
<1>1. hasPut \in Nat /\ hasPeek \in Nat /\ hasPeek <= hasPut /\ Len(Pending) = hasPut - hasPeek
  BY PendingProperties DEF PendingOK
<1>2. Len(Pending) < n
  BY <1>1, SMT DEF PeekFails, Left
<1> QED BY <1>2 DEF PeekFails, Abstract!PeekFails, Pending

(* Every step of the buffer is one of the queue's, unless a byte is lost. *)
LEMMA StepRefines ==
  ASSUME IInv, Next
  PROVE  Abstract!Next \/ Lost \/ UNCHANGED Abstract!queueVars
<1> SUFFICES ASSUME ~Lost PROVE Abstract!Next \/ UNCHANGED Abstract!queueVars
  OBVIOUS
<1>1. ASSUME NEW d, appendAborts(d) PROVE UNCHANGED Abstract!queueVars
  BY <1>1 DEF appendAborts, Abstract!queueVars
<1>2. ASSUME NEW u \in Integer, PutUint32(u) PROVE Abstract!Next \/ UNCHANGED Abstract!queueVars
  <2>1. Reverse(u) \in Seq(Byte)
    BY IntegerReversed, DatumIsSeq
  <2>2. append(Reverse(u), Reverse(u)) => Abstract!Put(Reverse(u))
    BY <2>1, PutRefines
  <2> QED BY <1>1, <1>2, <2>2 DEF PutUint32, htonl, Abstract!Next,
         Abstract!Reverse, Reverse
<1>3. ASSUME NEW d \in Datum, PutString(d) \/ PutBytes(d)
      PROVE  Abstract!Next \/ UNCHANGED Abstract!queueVars
  <2>1. append(d, d) => Abstract!Put(d)
    BY DatumIsSeq, PutRefines
  <2>2. appendThrows(d) => UNCHANGED Abstract!queueVars
    BY DEF appendThrows, vars, Abstract!queueVars
  <2> QED BY <1>1, <1>3, <2>1, <2>2 DEF PutString, PutBytes, Abstract!Next
<1>4. CASE PeekUint32
  <2>1. CASE PeekFails(Width)
    <3>1. Abstract!PeekFails(Width)
      BY <2>1, BufferAssumption, FailedPeekRefines
    <3> QED BY <3>1, DatumOfLength DEF Abstract!Next
  <2>2. CASE Read(Width, ntohl(Ahead(Width)))
    <3> DEFINE u == Reverse(Ahead(Width))
    <3>1. /\ Len(Pending) >= Width
          /\ Ahead(Width) = SubSeq(Pending, 1, Width) /\ Ahead(Width) \in Integer
          /\ Pending' = SubSeq(Pending, Width + 1, Len(Pending))
          /\ answer' = [ok |-> TRUE, val |-> u]
      BY <2>2, BufferAssumption, ReadRefines DEF Integer, ntohl
    <3>2. u \in Integer /\ Reverse(u) = Ahead(Width) /\ Len(u) = Width
      BY <3>1, IntegerReversed
    <3> HIDE DEF u
    <3>3. Abstract!PeekInteger
      BY <3>1, <3>2 DEF Abstract!PeekInteger, Abstract!Reverse, Reverse, Pending
    <3> QED BY <3>3 DEF Abstract!Next
  <2> QED BY <1>4, <2>1, <2>2 DEF PeekUint32
<1>5. ASSUME NEW n \in Lengths, PeekString(n) \/ PeekBytes(n) PROVE Abstract!Next
  <2>0. n \in Nat
    BY BufferAssumption
  <2>1. CASE PeekFails(n)
    <3>1. Abstract!PeekFails(n)
      BY <2>0, <2>1, FailedPeekRefines
    <3> QED BY <3>1, DatumOfLength DEF Abstract!Next
  <2>2. CASE Read(n, Ahead(n))
    <3>1. /\ Len(Pending) >= n
          /\ Ahead(n) = SubSeq(Pending, 1, n)
          /\ Pending' = SubSeq(Pending, n + 1, Len(Pending))
          /\ answer' = [ok |-> TRUE, val |-> Ahead(n)]
      BY <2>0, <2>2, ReadRefines
    <3>2. Abstract!Peek(n)
      BY <3>1 DEF Abstract!Peek, Pending
    <3> QED BY <3>2, DatumOfLength DEF Abstract!Next
  <2> QED BY <1>5, <2>1, <2>2 DEF PeekString, PeekBytes
<1> QED BY <1>2, <1>3, <1>4, <1>5 DEF Next

(***************************************************************************)
(* The buffer implements the queue of bytes that include/buffer.h promises *)
(* (lines 41-51) as long as no reallocation has lost a byte behind the     *)
(* first kPreAllocSize, for puts and peeks of any lengths in any order.    *)
(***************************************************************************)
THEOREM RefinesQueueUntilLost == Spec => QueueUntilLost
<1>1. Init => Abstract!Init
  BY SubSeqEmpty, SMT DEF Init, Abstract!Init
<1>2. IInv /\ [Next]_vars => [Abstract!Next \/ Lost]_(Abstract!queueVars)
  <2>1. UNCHANGED vars => UNCHANGED Abstract!queueVars
    BY DEF vars, Abstract!queueVars
  <2> QED BY <2>1, StepRefines
<1> QED BY <1>1, <1>2, Invariance, PTL DEF Spec, QueueUntilLost
=============================================================================
