------------------------------ MODULE RingBuffer ------------------------------
(***************************************************************************)
(* The lock-free ring of pa_ringbuffer.c under its own contract: one       *)
(* writing thread, one reading thread ("safe only for a single-thread      *)
(* reader and a single-thread writer"), and a flush only when neither is   *)
(* in a call.  SlotRing is the ring as the receiver uses it.               *)
(*                                                                         *)
(* A step is what one thread does between two accesses the other thread    *)
(* can observe: computing the regions (which loads the other thread's      *)
(* index), each memcpy, and the store of the own index.  The memory        *)
(* barriers of pa_memorybarrier.h order exactly these steps, so they are   *)
(* the program order of the model.                                         *)
(*                                                                         *)
(* "& bigMask" and "& smallMask" are % of the powers of two they mask.     *)
(***************************************************************************)
EXTENDS Integers, Sequences

CONSTANTS
  BufferSize,   (* bufferSize: number of elements in the FIFO              *)
  MaxWrite,     (* largest elementCount given to PaUtil_WriteRingBuffer    *)
  ReadCount,    (* elementCount given to every PaUtil_ReadRingBuffer       *)
  MaxElements   (* bound on the elements ever accepted                     *)

ASSUME SizeAssumption == BufferSize \in Nat \ {0}

(* PaUtil_InitializeRingBuffer returns -1 for any other size. *)
ASSUME PowerOfTwo == \E k \in 0 .. BufferSize : BufferSize = 2 ^ k

ASSUME CountAssumption == /\ MaxWrite \in Nat
                          /\ ReadCount \in Nat
                          /\ MaxElements \in Nat

VARIABLES
  buffer,       (* the memory the regions point into                       *)
  writeIndex, readIndex,
  w, r,         (* locals of the writer's and of the reader's call         *)
  out,          (* the array the reader passes as data                     *)
  written,      (* history: number of elements accepted so far             *)
  taken         (* history: number of elements read so far                 *)

vars == <<buffer, writeIndex, readIndex, w, r, out, written, taken>>

-----------------------------------------------------------------------------
(* Mutated forms of operators below: bugs the properties have to notice.    *)
bigMaskMissing(x) == x

bigMaskOneBitShort(x) == x % BufferSize

WriteAvailableAlways == BufferSize

ClampAllOrNothing(elementCount, available) ==
  IF elementCount > available THEN 0 ELSE elementCount

AfterCopy1Done(call) == "advance"

-----------------------------------------------------------------------------
bigMask(x) == x % (2 * BufferSize)
smallMask(x) == x % BufferSize

ReadAvailable == bigMask(writeIndex - readIndex)
WriteAvailable == BufferSize - ReadAvailable

Clamp(elementCount, available) ==
  IF elementCount > available THEN available ELSE elementCount

(* The one or two blocks in which n elements from index i on lie. *)
FirstBlock(i, n) == IF i + n > BufferSize THEN BufferSize - i ELSE n

Regions(i, n) == [pc |-> "copy1", index |-> i, size1 |-> FirstBlock(i, n),
                  size2 |-> n - FirstBlock(i, n)]

NoCall == [pc |-> "idle", index |-> 0, size1 |-> 0, size2 |-> 0]

Count(call) == call.size1 + call.size2

AfterCopy1(call) == IF call.size2 > 0 THEN "copy2" ELSE "advance"

-----------------------------------------------------------------------------
Init ==
  /\ buffer = [i \in 0 .. BufferSize - 1 |-> 0]
  /\ writeIndex = 0
  /\ readIndex = 0
  /\ w = NoCall
  /\ r = NoCall
  /\ out = [i \in 1 .. ReadCount |-> 0]
  /\ written = 0
  /\ taken = 0

(* PaUtil_WriteRingBuffer with n elements: choose the regions. *)
GetWriteRegions(n) ==
  /\ w.pc = "idle"
  /\ written + n <= MaxElements
  /\ w' = Regions(smallMask(writeIndex), Clamp(n, WriteAvailable))
  /\ UNCHANGED <<buffer, writeIndex, readIndex, r, out, written, taken>>

WriteCopy1 ==
  /\ w.pc = "copy1"
  /\ buffer' = [i \in 0 .. BufferSize - 1 |->
                  IF i \in w.index .. w.index + w.size1 - 1
                  THEN written + 1 + (i - w.index) ELSE buffer[i]]
  /\ w' = [w EXCEPT !.pc = AfterCopy1(w)]
  /\ UNCHANGED <<writeIndex, readIndex, r, out, written, taken>>

WriteCopy2 ==
  /\ w.pc = "copy2"
  /\ buffer' = [i \in 0 .. BufferSize - 1 |->
                  IF i < w.size2 THEN written + w.size1 + 1 + i ELSE buffer[i]]
  /\ w' = [w EXCEPT !.pc = "advance"]
  /\ UNCHANGED <<writeIndex, readIndex, r, out, written, taken>>

AdvanceWriteIndex ==
  /\ w.pc = "advance"
  /\ writeIndex' = bigMask(writeIndex + Count(w))
  /\ written' = written + Count(w)
  /\ w' = [w EXCEPT !.pc = "idle"]
  /\ UNCHANGED <<buffer, readIndex, r, out, taken>>

(* PaUtil_ReadRingBuffer: the same four steps on the other side. *)
GetReadRegions ==
  /\ r.pc = "idle"
  /\ r' = Regions(smallMask(readIndex), Clamp(ReadCount, ReadAvailable))
  /\ UNCHANGED <<buffer, writeIndex, readIndex, w, out, written, taken>>

ReadCopy1 ==
  /\ r.pc = "copy1"
  /\ out' = [i \in 1 .. ReadCount |->
               IF i <= r.size1 THEN buffer[r.index + i - 1] ELSE out[i]]
  /\ r' = [r EXCEPT !.pc = AfterCopy1(r)]
  /\ UNCHANGED <<buffer, writeIndex, readIndex, w, written, taken>>

ReadCopy2 ==
  /\ r.pc = "copy2"
  /\ out' = [i \in 1 .. ReadCount |->
               IF i > r.size1 /\ i <= Count(r) THEN buffer[i - r.size1 - 1] ELSE out[i]]
  /\ r' = [r EXCEPT !.pc = "advance"]
  /\ UNCHANGED <<buffer, writeIndex, readIndex, w, written, taken>>

AdvanceReadIndex ==
  /\ r.pc = "advance"
  /\ readIndex' = bigMask(readIndex + Count(r))
  /\ taken' = taken + Count(r)
  /\ r' = [r EXCEPT !.pc = "idle"]
  /\ UNCHANGED <<buffer, writeIndex, w, out, written>>

Write == \/ \E n \in 0 .. MaxWrite : GetWriteRegions(n)
         \/ WriteCopy1 \/ WriteCopy2 \/ AdvanceWriteIndex

Read == GetReadRegions \/ ReadCopy1 \/ ReadCopy2 \/ AdvanceReadIndex

(* PaUtil_FlushRingBuffer, when the buffer is neither read nor written.     *)
Flush ==
  /\ w.pc = "idle" /\ r.pc = "idle"
  /\ writeIndex' = 0 /\ readIndex' = 0
  /\ taken' = written
  /\ UNCHANGED <<buffer, w, r, out, written>>

Next == Write \/ Read \/ Flush

Spec == Init /\ [][Next]_vars

-----------------------------------------------------------------------------
Pcs == {"idle", "copy1", "copy2", "advance"}
Calls == [pc : Pcs, index : 0 .. BufferSize - 1,
          size1 : 0 .. BufferSize, size2 : 0 .. BufferSize]

(* Type invariant: both indices stay in the doubled range, the locals of a *)
(* call stay inside the buffer.                                            *)
TypeOK ==
  /\ buffer \in [0 .. BufferSize - 1 -> Nat]
  /\ writeIndex \in 0 .. 2 * BufferSize - 1
  /\ readIndex \in 0 .. 2 * BufferSize - 1
  /\ w \in Calls /\ r \in Calls
  /\ out \in [1 .. ReadCount -> Nat]
  /\ written \in Nat /\ taken \in Nat

(* The number of readable elements the two indices encode is the number    *)
(* accepted and not yet read, and never exceeds the buffer: the extra bit  *)
(* of bigMask keeps a full ring apart from an empty one.                   *)
Available == /\ ReadAvailable = written - taken
             /\ written - taken <= BufferSize

(* No write ever lands on an element not yet read: slot by slot, from the  *)
(* read index on, the ring holds exactly the unread elements in order.     *)
UnreadIntact ==
  \A j \in 0 .. written - taken - 1 : buffer[smallMask(readIndex + j)] = taken + 1 + j

(* Where the call in progress of the writer stands: its blocks start at the *)
(* write index, fit the free space, and what is already copied is there.   *)
WriterLocals ==
  w.pc # "idle" =>
    /\ w.index = smallMask(writeIndex)
    /\ w.size1 = FirstBlock(w.index, Count(w))
    /\ Count(w) <= BufferSize - (written - taken)
    /\ w.pc = "copy2" => w.size2 > 0
    /\ w.pc \in {"copy2", "advance"} =>
         \A i \in 0 .. w.size1 - 1 : buffer[w.index + i] = written + 1 + i
    /\ w.pc = "advance" =>
         \A i \in 0 .. w.size2 - 1 : buffer[i] = written + w.size1 + 1 + i

(* The same of the reader: its blocks hold unread elements, and what it has *)
(* copied are the oldest of them.                                          *)
ReaderLocals ==
  r.pc # "idle" =>
    /\ r.index = smallMask(readIndex)
    /\ r.size1 = FirstBlock(r.index, Count(r))
    /\ Count(r) <= written - taken
    /\ Count(r) <= ReadCount
    /\ r.pc = "copy2" => r.size2 > 0
    /\ r.pc \in {"copy2", "advance"} =>
         \A i \in 1 .. r.size1 : out[i] = taken + i
    /\ r.pc = "advance" =>
         \A i \in 1 .. Count(r) : out[i] = taken + i

(* The inductive invariant behind the theorems of RingBufferProofs. *)
IInv == TypeOK /\ Available /\ UnreadIntact /\ WriterLocals /\ ReaderLocals

(* Slots a call in progress may be copying. *)
Touched(call) ==
  IF call.pc = "idle" THEN {}
  ELSE (call.index .. call.index + call.size1 - 1) \cup (0 .. call.size2 - 1)

(* No data race: whatever the interleaving, the blocks a write is filling  *)
(* and the blocks a read is draining share no slot, so the memcpys of the  *)
(* two threads never overlap.                                              *)
NoDataRace == Touched(w) \cap Touched(r) = {}

(* What a finished copy hands to the caller are the oldest unread elements,*)
(* each once and in order, across the wrap of the buffer.                  *)
ReadsInOrder ==
  r.pc = "advance" => \A i \in 1 .. Count(r) : out[i] = taken + i

-----------------------------------------------------------------------------
(* The ring implements the bounded FIFO: a call takes effect when its      *)
(* index is stored.  The abstract queue is read out of the buffer itself.  *)
Unread == [i \in 1 .. ReadAvailable |-> buffer[smallMask(readIndex + i - 1)]]

InProgress(call) == IF call.pc = "idle" THEN -1 ELSE Count(call)

Fifo == INSTANCE BoundedFifo WITH
          Capacity <- BufferSize,
          queue    <- Unread,
          accepted <- written,
          putting  <- InProgress(w),
          getting  <- InProgress(r),
          got      <- IF r.pc = "idle" THEN SubSeq(out, 1, Count(r)) ELSE <<>>

(* Every behaviour of the ring is a behaviour of BoundedFifo: partial      *)
(* writes and reads, wrap-around and interleaving included.                *)
ImplementsFifo == Fifo!Spec
=============================================================================
