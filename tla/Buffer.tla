------------------------------- MODULE Buffer -------------------------------
(***************************************************************************)
(* cp1craft::io::BufferImpl (src/io/buffer.cc).  The bytes live in the     *)
(* storage of a std::vector whose size() stays kPreAllocSize: the puts     *)
(* write behind its end, within its capacity.  A reallocation copies the   *)
(* size() elements only; the rest of the new storage is uninitialised.     *)
(* The buffer is not thread-safe: one call at a time, one action per call. *)
(***************************************************************************)
EXTENDS Integers, SequencesExt

CONSTANTS
  Byte,      (* the values of a byte                                       *)
  PreAlloc,  (* Buffer::kPreAllocSize                                      *)
  Align,     (* kAlignment                                                 *)
  Width,     (* sizeof(uint32_t)                                           *)
  IntLimit,  (* 2^31: an int is below it, a length below its double        *)
  Lengths,   (* the lengths of the strings and byte arrays users put       *)
  MaxPut     (* bound of the model: how many bytes are put                 *)

ASSUME BufferAssumption ==
  /\ Byte \subseteq Nat /\ 0 \in Byte
  /\ PreAlloc \in Nat
  /\ Align \in Nat \ {0} /\ \E e \in 0..Align : Align = 2^e
  /\ IntLimit \in Nat /\ PreAlloc < IntLimit
  /\ Width \in Nat /\ Width < IntLimit
  /\ Lengths \subseteq 0..(2 * IntLimit - 1)
  /\ MaxPut \in Nat

Junk == -1   \* an uninitialised byte: any value may be read

VARIABLES
  cap,       (* rep_.capacity()                                            *)
  rep,       (* the storage, by offset                                     *)
  hasPut,    (* has_put_                                                   *)
  hasPeek,   (* has_peek_                                                  *)
  written,   (* history: the bytes users meant to put, in order            *)
  answer,    (* of the last peek: whether it succeeded, and what it read   *)
  aborted    (* "no", or what the assertion that failed is about          *)

vars == <<cap, rep, hasPut, hasPeek, written, answer, aborted>>

(* A string or a byte array, and a uint32_t as it lies in memory on a
   little-endian host: the least significant byte first.  The bytes of one that
   is too long for an int are never read. *)
Datum == UNION {[1..n -> IF n < IntLimit THEN Byte ELSE {0}] : n \in Lengths}
Integer == [1..Width -> Byte]

(* htonl and ntohl of a little-endian host. *)
htonl(u) == Reverse(u)
ntohl(u) == Reverse(u)

Init ==
  /\ cap = PreAlloc
  /\ rep = [o \in 0..(PreAlloc - 1) |-> 0]
  /\ hasPut = 0
  /\ hasPeek = 0
  /\ written = <<>>
  /\ answer = [ok |-> FALSE, val |-> <<>>]
  /\ aborted = "no"

-----------------------------------------------------------------------------
(***************************************************************************)
(* acquire_put_nbytes(n): the capacity it leaves, and the storage.  The    *)
(* mask is the remainder by a power of two.  A negative n makes sizes that *)
(* are negative here and, as a size_t, greater than any vector's.          *)
(***************************************************************************)
nbytes(d) == IF Len(d) < IntLimit THEN Len(d) ELSE Len(d) - 2 * IntLimit

NeedsRoom(n) == PreAlloc + n \notin 0..cap

Target_unrounded(n) == (PreAlloc + n) - ((PreAlloc + n) % Align)
Target(n) == (PreAlloc + n) - ((PreAlloc + n) % Align) + Align

Capacity(n) == IF NeedsRoom(n) THEN Target(n) ELSE cap

Storage_moved(n) ==
  [o \in 0..(Capacity(n) - 1) |-> IF ~NeedsRoom(n) THEN rep[o] ELSE Junk]
Storage(n) ==
  [o \in 0..(Capacity(n) - 1) |->
     IF o < PreAlloc \/ ~NeedsRoom(n) THEN rep[o] ELSE Junk]

(* The two assertions a put passes, and reserve between them: it throws. *)
Grows(n) == NeedsRoom(n) => Target(n) \notin 0..cap
Throws(n) == NeedsRoom(n) /\ Target(n) < 0
HasRoom_no(n) == TRUE
HasRoom(n) == n >= 0 /\ Capacity(n) - hasPut >= n

(* append(d, n), where d stands for the bytes w of the history.  MaxPut
   bounds the puts. *)
append(d, w) ==
  /\ aborted = "no"
  /\ nbytes(d) = Len(d) /\ Len(written) + Len(d) <= MaxPut
  /\ Grows(Len(d)) /\ HasRoom(Len(d))
  /\ cap' = Capacity(Len(d))
  /\ rep' = [o \in 0..(Capacity(Len(d)) - 1) |->
               IF o \in hasPut..(hasPut + Len(d) - 1)
               THEN d[o - hasPut + 1] ELSE Storage(Len(d))[o]]
  /\ hasPut' = hasPut + Len(d)
  /\ written' = written \o w
  /\ UNCHANGED <<hasPeek, answer, aborted>>

(* The process ends in a failed assertion. *)
appendAborts(d) ==
  /\ aborted = "no"
  /\ nbytes(d) = Len(d) => Len(written) + Len(d) <= MaxPut
  /\ ~(Grows(nbytes(d)) /\ HasRoom(nbytes(d))) /\ ~Throws(nbytes(d))
  /\ aborted' = IF Grows(nbytes(d)) THEN "has_put" ELSE "tgtsz"
  /\ UNCHANGED <<cap, rep, hasPut, hasPeek, written, answer>>

(* reserve throws std::length_error and nothing is put. *)
appendThrows(d) == aborted = "no" /\ Throws(nbytes(d)) /\ UNCHANGED vars

(* An integer stands for its bytes, the most significant first. *)
PutUint32_host(u) == append(u, Reverse(u)) \/ appendAborts(u)
PutUint32(u) == append(htonl(u), Reverse(u)) \/ appendAborts(htonl(u))
PutString(s) == append(s, s) \/ appendAborts(s) \/ appendThrows(s)
PutBytes(p) == append(p, p) \/ appendAborts(p) \/ appendThrows(p)

-----------------------------------------------------------------------------
(* acquire_peek_nbytes(n): whether n bytes are left. *)
Left == IF hasPut > hasPeek THEN hasPut - hasPeek ELSE 0

Ahead(n) == [j \in 1..n |-> rep[hasPeek + j - 1]]

Read(n, val) ==
  /\ aborted = "no"
  /\ Left >= n
  /\ answer' = [ok |-> TRUE, val |-> val]
  /\ hasPeek' = hasPeek + n
  /\ UNCHANGED <<cap, rep, hasPut, written, aborted>>

PeekFails(n) ==
  /\ aborted = "no"
  /\ ~(Left >= n)
  /\ answer' = [ok |-> FALSE, val |-> <<>>]
  /\ UNCHANGED <<cap, rep, hasPut, hasPeek, written, aborted>>

PeekUint32 == Read(Width, ntohl(Ahead(Width))) \/ PeekFails(Width)
PeekString(n) == Read(n, Ahead(n)) \/ PeekFails(n)
PeekBytes(n) == Read(n, Ahead(n)) \/ PeekFails(n)

Next ==
  \/ \E u \in Integer : PutUint32(u)
  \/ \E d \in Datum : PutString(d) \/ PutBytes(d)
  \/ PeekUint32
  \/ \E n \in Lengths : PeekString(n) \/ PeekBytes(n)

Spec == Init /\ [][Next]_vars
-----------------------------------------------------------------------------
(* Properties *)

(* Every variable has its type: the puts end within the capacity, and the
   peeks never overtake them (has_peek_ <= has_put_ <= capacity()). *)
TypeOK ==
  /\ cap \in Nat
  /\ rep \in [0..(cap - 1) -> Byte \cup {Junk}]
  /\ hasPut \in 0..cap
  /\ hasPeek \in 0..hasPut
  /\ written \in Seq(Byte) /\ Len(written) = hasPut
  /\ answer.ok \in BOOLEAN
  /\ aborted \in {"no", "tgtsz", "has_put"}

(* Whatever is put later, the first kPreAllocSize bytes survive: every
   reallocation of acquire_put_nbytes (lines 53-61) copies them. *)
PrefixIntact ==
  \A o \in 0..(hasPut - 1) : o < PreAlloc => rep[o] = written[o + 1]

(* A put that fits an int passes the assertion of line 58, for a reallocation
   really enlarges; that of line 64 fails only once more is put than was allocated
   at first: the room is computed from size(), as if nothing had been put. *)
AbortsOnlyBeyond ==
  [][aborted' # aborted =>
       \A d \in Datum \cup Integer : appendAborts(d) =>
         /\ hasPut + Len(d) > PreAlloc
         /\ aborted' = "tgtsz" => Len(d) >= IntLimit]_vars

(* The promise of include/buffer.h, lines 41-51. *)
Abstract == INSTANCE ByteQueue WITH
  queue <- SubSeq(written, hasPeek + 1, hasPut)

ImplementsQueue == Abstract!Spec

(* The buffer keeps that promise until a reallocation loses a byte behind the
   first kPreAllocSize (lines 53-121). *)
Lost == \E o \in PreAlloc..(hasPut - 1) : rep[o] = Junk
QueueUntilLost == Abstract!Init /\ [][Abstract!Next \/ Lost]_(Abstract!queueVars)
=============================================================================
