--------------------------- MODULE RingBufferProofs ---------------------------
(***************************************************************************)
(* For every buffer size and every call size, the ring of pa_ringbuffer.c  *)
(* keeps its indices in range, never overwrites an unread element, never   *)
(* copies into and out of one slot at once, and reads in order: it         *)
(* implements the FIFO of BoundedFifo.                                     *)
(***************************************************************************)
EXTENDS RingBuffer, TLAPS

-----------------------------------------------------------------------------
(* The masks, over the ranges of arguments the code gives them.            *)
LEMMA SmallMask ==
  \A x \in 0 .. 3 * BufferSize - 1 :
    smallMask(x) = IF x < BufferSize THEN x
                   ELSE IF x < 2 * BufferSize THEN x - BufferSize
                   ELSE x - 2 * BufferSize
<1>1. \A x \in 0 .. BufferSize - 1 : x % BufferSize = x
  BY SizeAssumption, SMT
<1>2. \A x \in BufferSize .. 2 * BufferSize - 1 : x % BufferSize = x - BufferSize
  BY SizeAssumption, SMT
<1>3. \A x \in 2 * BufferSize .. 3 * BufferSize - 1 :
        x % BufferSize = x - 2 * BufferSize
  BY SizeAssumption, SMT
<1>4. QED
  BY <1>1, <1>2, <1>3, SizeAssumption DEF smallMask

(* bigMask gives an index of the doubled range and keeps what is in it. *)
LEMMA BigMask ==
  \A x \in -(2 * BufferSize) .. 4 * BufferSize - 1 :
    bigMask(x) = IF x < 0 THEN x + 2 * BufferSize
                 ELSE IF x < 2 * BufferSize THEN x
                 ELSE x - 2 * BufferSize
<1>1. \A x \in -(2 * BufferSize) .. -1 :
        x % (2 * BufferSize) = x + 2 * BufferSize
  BY SizeAssumption, SMT
<1>2. \A x \in 0 .. 2 * BufferSize - 1 : x % (2 * BufferSize) = x
  BY SizeAssumption, SMT
<1>3. \A x \in 2 * BufferSize .. 4 * BufferSize - 1 :
        x % (2 * BufferSize) = x - 2 * BufferSize
  BY SizeAssumption, SMT
<1>4. QED
  BY <1>1, <1>2, <1>3, SizeAssumption DEF bigMask

(* The masked difference of two indices of the doubled range, without mask. *)
LEMMA IndexDifference ==
  ASSUME NEW a \in 0 .. 2 * BufferSize - 1, NEW b \in 0 .. 2 * BufferSize - 1
  PROVE  bigMask(a - b) = IF a < b THEN a - b + 2 * BufferSize ELSE a - b
<1>1. a - b \in -(2 * BufferSize) .. 4 * BufferSize - 1
  BY SizeAssumption
<1>2. QED
  BY <1>1, BigMask, SizeAssumption

(* The write index is the read index advanced by what is unread.           *)
LEMMA IndexGap ==
  ASSUME TypeOK, Available
  PROVE  /\ written - taken \in 0 .. BufferSize
         /\ writeIndex = IF readIndex + (written - taken) < 2 * BufferSize
                         THEN readIndex + (written - taken)
                         ELSE readIndex + (written - taken) - 2 * BufferSize
<1>1. writeIndex - readIndex \in -(2 * BufferSize) .. 4 * BufferSize - 1
  BY SizeAssumption DEF TypeOK
<1>2. ReadAvailable = IF writeIndex - readIndex < 0
                      THEN writeIndex - readIndex + 2 * BufferSize
                      ELSE writeIndex - readIndex
  BY <1>1, BigMask, SizeAssumption DEF TypeOK, ReadAvailable
<1>3. QED
  BY <1>2, SizeAssumption DEF TypeOK, Available

(* The regions of a call start at its index and add up to its count.       *)
LEMMA RegionsOfCall ==
  ASSUME NEW i \in 0 .. BufferSize - 1, NEW n \in 0 .. BufferSize
  PROVE  /\ Regions(i, n) \in Calls
         /\ Regions(i, n).pc = "copy1"
         /\ Regions(i, n).index = i
         /\ Count(Regions(i, n)) = n
         /\ Regions(i, n).size1 = FirstBlock(i, Count(Regions(i, n)))
BY SizeAssumption DEF Regions, Calls, Pcs, Count, FirstBlock

-----------------------------------------------------------------------------
(* The ring as PaUtil_InitializeRingBuffer leaves it: empty, no call. *)
LEMMA InitIInv == Init => IInv
<1> SUFFICES ASSUME Init PROVE IInv
  OBVIOUS
<1>1. TypeOK
  BY SizeAssumption, CountAssumption DEF Init, TypeOK, NoCall, Calls, Pcs
<1>2. Available
  BY BigMask, SizeAssumption DEF Init, Available, ReadAvailable
<1>3. UnreadIntact /\ WriterLocals /\ ReaderLocals
  BY DEF Init, UnreadIntact, WriterLocals, ReaderLocals, NoCall
<1>4. QED
  BY <1>1, <1>2, <1>3 DEF IInv

-----------------------------------------------------------------------------
(* A call in progress, field by field. *)
LEMMA CallFields ==
  ASSUME NEW call \in Calls
  PROVE  /\ call.pc \in Pcs
         /\ call.index \in 0 .. BufferSize - 1
         /\ call.size1 \in 0 .. BufferSize
         /\ call.size2 \in 0 .. BufferSize
BY DEF Calls

(* Moving a call to another step changes nothing else of it. *)
LEMMA CallMoves ==
  ASSUME NEW call \in Calls, NEW p \in Pcs
  PROVE  /\ [call EXCEPT !.pc = p] \in Calls
         /\ [call EXCEPT !.pc = p].pc = p
         /\ [call EXCEPT !.pc = p].index = call.index
         /\ [call EXCEPT !.pc = p].size1 = call.size1
         /\ [call EXCEPT !.pc = p].size2 = call.size2
         /\ Count([call EXCEPT !.pc = p]) = Count(call)
BY DEF Calls, Count

(* Where the blocks of a call lie. *)
LEMMA BlocksFit ==
  ASSUME NEW call \in Calls,
         call.size1 = FirstBlock(call.index, Count(call)),
         Count(call) <= BufferSize
  PROVE  /\ call.index + call.size1 <= BufferSize
         /\ call.size2 <= call.index
         /\ call.size2 > 0 => call.size1 = BufferSize - call.index
         /\ Count(call) \in 0 .. BufferSize
         /\ call.size1 = IF call.index + Count(call) > BufferSize
                         THEN BufferSize - call.index ELSE Count(call)
BY CallFields, SizeAssumption DEF FirstBlock, Count

(* The writer of a state in IInv, in plain arithmetic. *)
LEMMA WriterFacts ==
  ASSUME IInv, w.pc # "idle"
  PROVE  /\ w \in Calls
         /\ w.index = IF writeIndex < BufferSize THEN writeIndex
                      ELSE writeIndex - BufferSize
         /\ w.index + w.size1 <= BufferSize
         /\ w.size2 <= w.index
         /\ w.size2 > 0 => w.size1 = BufferSize - w.index
         /\ w.size1 + w.size2 <= BufferSize - (written - taken)
         /\ Count(w) = w.size1 + w.size2
<1>1. /\ w \in Calls
      /\ w.index = smallMask(writeIndex)
      /\ w.size1 = FirstBlock(w.index, Count(w))
      /\ Count(w) <= BufferSize - (written - taken)
  BY DEF IInv, TypeOK, WriterLocals
<1>2. writeIndex \in 0 .. 2 * BufferSize - 1 /\ written - taken \in 0 .. BufferSize
  BY IndexGap DEF IInv, TypeOK
<1>3. w.index = IF writeIndex < BufferSize THEN writeIndex
                ELSE writeIndex - BufferSize
  BY <1>1, <1>2, SmallMask, SizeAssumption
<1>4. Count(w) <= BufferSize
  BY <1>1, <1>2, CallFields, SizeAssumption DEF Count
<1>5. QED
  BY <1>1, <1>3, <1>4, BlocksFit DEF Count

(* The reader of a state in IInv, in plain arithmetic. *)
LEMMA ReaderFacts ==
  ASSUME IInv, r.pc # "idle"
  PROVE  /\ r \in Calls
         /\ r.index = IF readIndex < BufferSize THEN readIndex
                      ELSE readIndex - BufferSize
         /\ r.index + r.size1 <= BufferSize
         /\ r.size2 <= r.index
         /\ r.size2 > 0 => r.size1 = BufferSize - r.index
         /\ r.size1 + r.size2 <= written - taken
         /\ Count(r) = r.size1 + r.size2
<1>1. /\ r \in Calls
      /\ r.index = smallMask(readIndex)
      /\ r.size1 = FirstBlock(r.index, Count(r))
      /\ Count(r) <= written - taken
  BY DEF IInv, TypeOK, ReaderLocals
<1>2. readIndex \in 0 .. 2 * BufferSize - 1 /\ written - taken \in 0 .. BufferSize
  BY IndexGap DEF IInv, TypeOK
<1>3. r.index = IF readIndex < BufferSize THEN readIndex
                ELSE readIndex - BufferSize
  BY <1>1, <1>2, SmallMask, SizeAssumption
<1>4. Count(r) <= BufferSize
  BY <1>1, <1>2, CallFields, SizeAssumption DEF Count
<1>5. QED
  BY <1>1, <1>3, <1>4, BlocksFit DEF Count

(* The slot j places after an index of the doubled range. *)
LEMMA SlotAt ==
  ASSUME NEW a \in 0 .. 2 * BufferSize - 1, NEW j \in 0 .. BufferSize - 1
  PROVE  smallMask(a + j) =
           IF a + j < BufferSize THEN a + j
           ELSE IF a + j < 2 * BufferSize THEN a + j - BufferSize
           ELSE a + j - 2 * BufferSize
<1>1. a + j \in 0 .. 3 * BufferSize - 1
  BY SizeAssumption
<1>2. QED
  BY <1>1, SmallMask, SizeAssumption

(* The slot of the j-th unread element. *)
LEMMA SlotOf ==
  ASSUME TypeOK, NEW j \in 0 .. BufferSize - 1
  PROVE  smallMask(readIndex + j) =
           IF readIndex + j < BufferSize THEN readIndex + j
           ELSE IF readIndex + j < 2 * BufferSize THEN readIndex + j - BufferSize
           ELSE readIndex + j - 2 * BufferSize
BY SlotAt DEF TypeOK

(* No slot of the writer's blocks holds an unread element. *)
LEMMA FreeBlocks ==
  ASSUME IInv, w.pc # "idle", NEW j \in 0 .. written - taken - 1
  PROVE  /\ smallMask(readIndex + j) \in 0 .. BufferSize - 1
         /\ ~ (/\ w.index <= smallMask(readIndex + j)
               /\ smallMask(readIndex + j) < w.index + w.size1)
         /\ ~ (smallMask(readIndex + j) < w.size2)
<1> DEFINE u == written - taken
           N == BufferSize
           s == smallMask(readIndex + j)
           x == w.index
           m == w.size1
           k == w.size2
<1>1. /\ N \in Nat \ {0} /\ u \in 0 .. N /\ j \in 0 .. u - 1
      /\ writeIndex = IF readIndex + u < 2 * N
                      THEN readIndex + u ELSE readIndex + u - 2 * N
      /\ readIndex \in 0 .. 2 * N - 1
  BY IndexGap, SizeAssumption DEF IInv, TypeOK
<1>2. j \in 0 .. N - 1
  BY <1>1
<1>3. s = IF readIndex + j < N THEN readIndex + j
          ELSE IF readIndex + j < 2 * N THEN readIndex + j - N
          ELSE readIndex + j - 2 * N
  BY <1>2, SlotOf DEF IInv
<1>4. /\ x = IF writeIndex < N THEN writeIndex ELSE writeIndex - N
      /\ k <= x
      /\ k > 0 => m = N - x
      /\ m + k <= N - u
  BY WriterFacts
<1>5. m \in 0 .. N /\ k \in 0 .. N
  BY WriterFacts, CallFields
<1> HIDE DEF u, N, s, x, m, k
<1>6. s \in 0 .. N - 1 /\ ~ (x <= s /\ s < x + m) /\ ~ (s < k)
  BY <1>1, <1>2, <1>3, <1>4, <1>5
<1>7. QED
  BY <1>6 DEF u, N, s, x, m, k

-----------------------------------------------------------------------------
(* The writer's steps. *)
LEMMA GetWriteRegionsStep ==
  ASSUME IInv, NEW n \in 0 .. MaxWrite, GetWriteRegions(n)
  PROVE  IInv'
<1> DEFINE count == Clamp(n, WriteAvailable)
<1> USE DEF GetWriteRegions
<1>1. WriteAvailable = BufferSize - (written - taken)
  BY DEF IInv, Available, WriteAvailable
<1>2. count \in 0 .. BufferSize /\ count <= BufferSize - (written - taken)
  BY <1>1, IndexGap, SizeAssumption, CountAssumption DEF IInv, Clamp
<1>3. smallMask(writeIndex) \in 0 .. BufferSize - 1
  BY SmallMask, SizeAssumption DEF IInv, TypeOK
<1>4. /\ w' \in Calls
      /\ w'.pc = "copy1"
      /\ w'.index = smallMask(writeIndex)
      /\ Count(w') = count
      /\ w'.size1 = FirstBlock(w'.index, Count(w'))
  BY <1>2, <1>3, RegionsOfCall
<1>5. TypeOK'
  BY <1>4 DEF IInv, TypeOK
<1>6. Available' /\ UnreadIntact' /\ ReaderLocals'
  BY DEF IInv, Available, ReadAvailable, UnreadIntact, ReaderLocals
<1>7. WriterLocals'
  BY <1>2, <1>4 DEF WriterLocals
<1>8. QED
  BY <1>5, <1>6, <1>7 DEF IInv

(* The first memcpy of a write leaves every unread element alone. *)
LEMMA WriteCopy1Step ==
  ASSUME IInv, WriteCopy1
  PROVE  IInv'
<1>1. /\ w.pc = "copy1"
      /\ buffer' = [i \in 0 .. BufferSize - 1 |->
                      IF i \in w.index .. w.index + w.size1 - 1
                      THEN written + 1 + (i - w.index) ELSE buffer[i]]
      /\ w' = [w EXCEPT !.pc = AfterCopy1(w)]
      /\ UNCHANGED <<writeIndex, readIndex, r, out, written, taken>>
  BY DEF WriteCopy1
<1>2. w.pc # "idle"
  BY <1>1
<1>3. /\ written \in Nat /\ taken \in Nat /\ BufferSize \in Nat
      /\ buffer \in [0 .. BufferSize - 1 -> Nat]
  BY SizeAssumption DEF IInv, TypeOK
<1>4. /\ w \in Calls
      /\ w.index \in 0 .. BufferSize - 1
      /\ w.size1 \in 0 .. BufferSize
      /\ w.size2 \in 0 .. BufferSize
      /\ w.index + w.size1 <= BufferSize
  BY <1>2, WriterFacts, CallFields
<1>5. /\ AfterCopy1(w) \in {"copy2", "advance"}
      /\ AfterCopy1(w) = "copy2" => w.size2 > 0
      /\ AfterCopy1(w) = "advance" => ~ (w.size2 > 0)
  BY DEF AfterCopy1
<1>6. /\ w' \in Calls
      /\ w'.pc = AfterCopy1(w)
      /\ w'.index = w.index /\ w'.size1 = w.size1 /\ w'.size2 = w.size2
      /\ Count(w') = Count(w)
  <2>1. AfterCopy1(w) \in Pcs
    BY <1>5 DEF Pcs
  <2>2. QED
    BY <1>1, <1>4, <2>1, CallMoves
<1>7. TypeOK'
  <2>1. ASSUME NEW i \in 0 .. BufferSize - 1
        PROVE  (IF i \in w.index .. w.index + w.size1 - 1
                THEN written + 1 + (i - w.index) ELSE buffer[i]) \in Nat
    BY <1>3, <1>4
  <2>2. buffer' \in [0 .. BufferSize - 1 -> Nat]
    BY <1>1, <2>1
  <2>3. QED
    BY <1>1, <1>6, <2>2 DEF IInv, TypeOK
<1>8. Available' /\ ReaderLocals'
  BY <1>1 DEF IInv, Available, ReadAvailable, ReaderLocals
<1>9. UnreadIntact'
  <2>1. SUFFICES ASSUME NEW j \in 0 .. written - taken - 1
                 PROVE  buffer'[smallMask(readIndex + j)] = taken + 1 + j
    BY <1>1 DEF UnreadIntact
  <2>2. /\ smallMask(readIndex + j) \in 0 .. BufferSize - 1
        /\ ~ (/\ w.index <= smallMask(readIndex + j)
              /\ smallMask(readIndex + j) < w.index + w.size1)
    BY <1>2, FreeBlocks
  <2>3. smallMask(readIndex + j) \notin w.index .. w.index + w.size1 - 1
    BY <2>2, <1>4
  <2>4. buffer'[smallMask(readIndex + j)] = buffer[smallMask(readIndex + j)]
    BY <1>1, <2>2, <2>3
  <2>5. QED
    BY <2>4 DEF IInv, UnreadIntact
<1>10. ASSUME NEW i \in 0 .. w.size1 - 1
       PROVE  buffer'[w.index + i] = written + 1 + i
  <2>1. /\ w.index + i \in 0 .. BufferSize - 1
        /\ w.index + i \in w.index .. w.index + w.size1 - 1
    <3>1. /\ w.index \in Int /\ w.size1 \in Int /\ i \in Int /\ BufferSize \in Int
          /\ 0 <= i /\ i <= w.size1 - 1 /\ 0 <= w.index
          /\ w.index + w.size1 <= BufferSize
      BY <1>3, <1>4
    <3>2. QED
      BY <3>1
  <2>2. buffer'[w.index + i] = written + 1 + ((w.index + i) - w.index)
    BY <1>1, <2>1
  <2>3. (w.index + i) - w.index = i
    BY <1>4
  <2>4. QED
    BY <2>2, <2>3
<1>11. WriterLocals'
  <2>1. /\ w.index = smallMask(writeIndex)
        /\ w.size1 = FirstBlock(w.index, Count(w))
        /\ Count(w) <= BufferSize - (written - taken)
    BY <1>2 DEF IInv, WriterLocals
  <2>2. w'.pc = "advance" => 0 .. w'.size2 - 1 = {}
    BY <1>4, <1>5, <1>6
  <2>3. QED
    BY <1>1, <1>5, <1>6, <1>10, <2>1, <2>2 DEF WriterLocals
<1>12. QED
  BY <1>7, <1>8, <1>9, <1>11 DEF IInv

(* So does the second, at the start of the buffer. *)
LEMMA WriteCopy2Step ==
  ASSUME IInv, WriteCopy2
  PROVE  IInv'
<1>1. /\ w.pc = "copy2"
      /\ buffer' = [i \in 0 .. BufferSize - 1 |->
                      IF i < w.size2 THEN written + w.size1 + 1 + i ELSE buffer[i]]
      /\ w' = [w EXCEPT !.pc = "advance"]
      /\ UNCHANGED <<writeIndex, readIndex, r, out, written, taken>>
  BY DEF WriteCopy2
<1>2. w.pc # "idle"
  BY <1>1
<1>3. /\ written \in Nat /\ taken \in Nat /\ BufferSize \in Nat
      /\ buffer \in [0 .. BufferSize - 1 -> Nat]
  BY SizeAssumption DEF IInv, TypeOK
<1>4. /\ w \in Calls
      /\ w.index \in 0 .. BufferSize - 1
      /\ w.size1 \in 0 .. BufferSize
      /\ w.size2 \in 0 .. BufferSize
      /\ w.index + w.size1 <= BufferSize
      /\ w.size2 <= w.index
  BY <1>2, WriterFacts, CallFields
<1>5. /\ w.index = smallMask(writeIndex)
      /\ w.size1 = FirstBlock(w.index, Count(w))
      /\ Count(w) <= BufferSize - (written - taken)
      /\ \A i \in 0 .. w.size1 - 1 : buffer[w.index + i] = written + 1 + i
  BY <1>1 DEF IInv, WriterLocals
<1>6. /\ w' \in Calls
      /\ w'.pc = "advance"
      /\ w'.index = w.index /\ w'.size1 = w.size1 /\ w'.size2 = w.size2
      /\ Count(w') = Count(w)
  <2>1. "advance" \in Pcs
    BY DEF Pcs
  <2>2. QED
    BY <1>1, <1>4, <2>1, CallMoves
<1>7. TypeOK'
  <2>1. ASSUME NEW i \in 0 .. BufferSize - 1
        PROVE  (IF i < w.size2 THEN written + w.size1 + 1 + i ELSE buffer[i]) \in Nat
    BY <1>3, <1>4
  <2>2. buffer' \in [0 .. BufferSize - 1 -> Nat]
    BY <1>1, <2>1
  <2>3. QED
    BY <1>1, <1>6, <2>2 DEF IInv, TypeOK
<1>8. Available' /\ ReaderLocals'
  BY <1>1 DEF IInv, Available, ReadAvailable, ReaderLocals
<1>9. UnreadIntact'
  <2>1. SUFFICES ASSUME NEW j \in 0 .. written - taken - 1
                 PROVE  buffer'[smallMask(readIndex + j)] = taken + 1 + j
    BY <1>1 DEF UnreadIntact
  <2>2. /\ smallMask(readIndex + j) \in 0 .. BufferSize - 1
        /\ ~ (smallMask(readIndex + j) < w.size2)
    BY <1>2, FreeBlocks
  <2>3. buffer'[smallMask(readIndex + j)] = buffer[smallMask(readIndex + j)]
    BY <1>1, <2>2
  <2>4. QED
    BY <2>3 DEF IInv, UnreadIntact
<1>10. ASSUME NEW i \in 0 .. w.size1 - 1
       PROVE  buffer'[w.index + i] = written + 1 + i
  <2>1. w.index + i \in 0 .. BufferSize - 1 /\ ~ (w.index + i < w.size2)
    BY <1>3, <1>4
  <2>2. buffer'[w.index + i] = buffer[w.index + i]
    BY <1>1, <2>1
  <2>3. QED
    BY <1>5, <2>2
<1>11. ASSUME NEW i \in 0 .. w.size2 - 1
       PROVE  buffer'[i] = written + w.size1 + 1 + i
  <2>1. i \in 0 .. BufferSize - 1 /\ i < w.size2
    BY <1>3, <1>4
  <2>2. QED
    BY <1>1, <2>1
<1>12. WriterLocals'
  BY <1>1, <1>5, <1>6, <1>10, <1>11 DEF WriterLocals
<1>13. QED
  BY <1>7, <1>8, <1>9, <1>12 DEF IInv

(* After the advance, what was unread is still there and what the call     *)
(* wrote follows it.                                                       *)
LEMMA AdvanceWriteIndexStep ==
  ASSUME IInv, AdvanceWriteIndex
  PROVE  IInv'
<1> DEFINE u == written - taken
           c == Count(w)
<1>1. /\ w.pc = "advance"
      /\ writeIndex' = bigMask(writeIndex + c)
      /\ written' = written + c
      /\ w' = [w EXCEPT !.pc = "idle"]
      /\ UNCHANGED <<buffer, readIndex, r, out, taken>>
  BY DEF AdvanceWriteIndex
<1>2. w.pc # "idle"
  BY <1>1
<1>3. /\ written \in Nat /\ taken \in Nat /\ BufferSize \in Nat \ {0}
      /\ writeIndex \in 0 .. 2 * BufferSize - 1
      /\ readIndex \in 0 .. 2 * BufferSize - 1
      /\ u \in 0 .. BufferSize
      /\ writeIndex = IF readIndex + u < 2 * BufferSize
                      THEN readIndex + u ELSE readIndex + u - 2 * BufferSize
  BY IndexGap, SizeAssumption DEF IInv, TypeOK
<1>4. /\ w \in Calls
      /\ w.index \in 0 .. BufferSize - 1
      /\ w.size1 \in 0 .. BufferSize
      /\ w.size2 \in 0 .. BufferSize
      /\ w.index = IF writeIndex < BufferSize THEN writeIndex
                   ELSE writeIndex - BufferSize
      /\ w.index + w.size1 <= BufferSize
      /\ w.size2 <= w.index
      /\ w.size2 > 0 => w.size1 = BufferSize - w.index
      /\ c = w.size1 + w.size2
      /\ c <= BufferSize - u
  BY <1>2, WriterFacts, CallFields
<1>5. /\ \A i \in 0 .. w.size1 - 1 : buffer[w.index + i] = written + 1 + i
      /\ \A i \in 0 .. w.size2 - 1 : buffer[i] = written + w.size1 + 1 + i
      /\ \A j \in 0 .. u - 1 : buffer[smallMask(readIndex + j)] = taken + 1 + j
  BY <1>1 DEF IInv, WriterLocals, UnreadIntact
<1>6. c \in 0 .. BufferSize
  BY <1>3, <1>4
<1>7. w' \in Calls /\ w'.pc = "idle"
  <2>1. "idle" \in Pcs
    BY DEF Pcs
  <2>2. QED
    BY <1>1, <1>4, <2>1, CallMoves
<1>8. /\ written' \in Nat /\ written' - taken = u + c
      /\ written' - taken <= BufferSize
  BY <1>1, <1>3, <1>4, <1>6
<1>9. writeIndex' = IF writeIndex + c < 2 * BufferSize
                    THEN writeIndex + c ELSE writeIndex + c - 2 * BufferSize
  <2>1. writeIndex + c \in -(2 * BufferSize) .. 4 * BufferSize - 1
    BY <1>3, <1>6
  <2>2. writeIndex + c >= 0
    BY <1>3, <1>6
  <2>3. QED
    BY <1>1, <1>3, <1>6, <2>1, <2>2, BigMask
<1>10. writeIndex' \in 0 .. 2 * BufferSize - 1
  BY <1>3, <1>6, <1>9
<1>11. TypeOK'
  BY <1>1, <1>7, <1>8, <1>10 DEF IInv, TypeOK
<1>12. Available'
  <2>1. bigMask(writeIndex' - readIndex) = u + c
    <3>1. bigMask(writeIndex' - readIndex) =
            IF writeIndex' < readIndex THEN writeIndex' - readIndex + 2 * BufferSize
            ELSE writeIndex' - readIndex
      BY <1>3, <1>10, IndexDifference
    <3> HIDE DEF u, c
    <3>2. QED
      BY <1>3, <1>4, <1>6, <1>9, <1>10, <3>1
  <2>2. QED
    BY <1>1, <1>8, <2>1 DEF Available, ReadAvailable, bigMask
<1>13. UnreadIntact'
  <2> SUFFICES ASSUME NEW j \in 0 .. written' - taken' - 1
               PROVE  buffer'[smallMask(readIndex' + j)] = taken' + 1 + j
    BY DEF UnreadIntact
  <2>1. /\ j \in 0 .. u + c - 1
        /\ buffer' = buffer /\ readIndex' = readIndex /\ taken' = taken
    <3>1. buffer' = buffer /\ readIndex' = readIndex /\ taken' = taken
      BY <1>1
    <3> HIDE DEF u, c
    <3>2. written' - taken' = u + c
      BY <1>8, <3>1
    <3>3. QED
      BY <1>3, <1>6, <3>1, <3>2
  <2>2. CASE j < u
    <3>1. j \in 0 .. u - 1
      BY <2>1, <2>2, <1>3, <1>6
    <3>2. QED
      BY <2>1, <1>5, <3>1
  <2>3. CASE j >= u
    <3> DEFINE i == j - u
               s == smallMask(readIndex + j)
    <3>1. j \in 0 .. BufferSize - 1
      BY <1>3, <1>4, <1>6, <2>1
    <3>2. s = IF readIndex + j < BufferSize THEN readIndex + j
              ELSE IF readIndex + j < 2 * BufferSize THEN readIndex + j - BufferSize
              ELSE readIndex + j - 2 * BufferSize
      BY <3>1, SlotOf DEF IInv
    <3>3. i \in 0 .. c - 1 /\ j = u + i
      BY <1>3, <1>6, <2>1, <2>3
    <3>4. taken + 1 + j = written + 1 + i
      BY <1>3, <1>6, <3>3
    <3>5. i < w.size1 => s = w.index + i
      <4> HIDE DEF s, i, u, c
      <4>1. QED
        BY <1>3, <1>4, <1>6, <3>1, <3>2, <3>3
    <3>6. i >= w.size1 => s = i - w.size1 /\ i - w.size1 \in 0 .. w.size2 - 1
      <4> HIDE DEF s, i, u, c
      <4>1. QED
        BY <1>3, <1>4, <1>6, <3>1, <3>2, <3>3
    <3>7. CASE i < w.size1
      <4>1. i \in 0 .. w.size1 - 1
        BY <1>4, <1>6, <3>3, <3>7
      <4>2. buffer[w.index + i] = written + 1 + i
        BY <1>5, <4>1
      <4>3. QED
        BY <2>1, <3>4, <3>5, <3>7, <4>2
    <3>8. CASE i >= w.size1
      <4>1. buffer[i - w.size1] = written + w.size1 + 1 + (i - w.size1)
        BY <1>5, <3>6, <3>8
      <4>2. written + w.size1 + 1 + (i - w.size1) = written + 1 + i
        BY <1>3, <1>4, <1>6, <3>3
      <4>3. QED
        BY <2>1, <3>4, <3>6, <3>8, <4>1, <4>2
    <3>9. i < w.size1 \/ i >= w.size1
      BY <1>3, <1>4, <1>6, <3>3
    <3>10. QED
      BY <3>7, <3>8, <3>9
  <2>4. QED
    BY <1>3, <1>6, <2>1, <2>2, <2>3
<1>14. WriterLocals'
  BY <1>7 DEF WriterLocals
<1>15. ReaderLocals'
  <2>1. SUFFICES ASSUME r.pc # "idle"
                 PROVE  Count(r) <= u + c
    BY <1>1, <1>8 DEF IInv, ReaderLocals
  <2>2. Count(r) <= u /\ Count(r) \in Int
    BY <2>1, ReaderFacts, CallFields DEF Count
  <2>3. QED
    BY <1>3, <1>6, <2>2
<1>16. QED
  BY <1>11, <1>12, <1>13, <1>14, <1>15 DEF IInv

-----------------------------------------------------------------------------
(* The reader's steps. *)
(* Where the i-th element of the call in progress lies: in the first block, *)
(* or in the second from slot 0 on.                                         *)
LEMMA UnreadBlocks ==
  ASSUME IInv, r.pc # "idle", NEW i \in 1 .. Count(r)
  PROVE  /\ i <= r.size1 => buffer[r.index + i - 1] = taken + i
         /\ i > r.size1 => buffer[i - r.size1 - 1] = taken + i
<1> DEFINE u == written - taken
           N == BufferSize
           j == i - 1
           s == smallMask(readIndex + j)
           x == r.index
           m == r.size1
           k == r.size2
<1>1. /\ N \in Nat \ {0} /\ u \in 0 .. N /\ readIndex \in 0 .. 2 * N - 1
      /\ taken \in Nat
  BY IndexGap, SizeAssumption DEF IInv, TypeOK
<1>2. /\ x = IF readIndex < N THEN readIndex ELSE readIndex - N
      /\ x + m <= N
      /\ k <= x
      /\ k > 0 => m = N - x
      /\ m + k <= u
      /\ Count(r) = m + k
      /\ m \in 0 .. N /\ k \in 0 .. N
  BY ReaderFacts, CallFields
<1>3. i \in 1 .. m + k
  BY <1>2
<1>4. /\ j \in 0 .. N - 1 /\ j \in 0 .. u - 1
      /\ i = j + 1 /\ j \in 0 .. m + k - 1
  <2> HIDE DEF u, N, x, m, k
  <2>1. QED
    BY <1>1, <1>2, <1>3
<1>5. s = IF readIndex + j < N THEN readIndex + j
          ELSE IF readIndex + j < 2 * N THEN readIndex + j - N
          ELSE readIndex + j - 2 * N
  BY <1>4, SlotOf DEF IInv
<1>6. buffer[s] = taken + 1 + j
  BY <1>4 DEF IInv, UnreadIntact
<1>7. /\ i <= m => s = x + i - 1
      /\ i > m => s = i - m - 1
      /\ taken + 1 + j = taken + i
  <2> HIDE DEF u, N, s, x, m, k, j
  <2>1. QED
    BY <1>1, <1>2, <1>3, <1>4, <1>5
<1>8. QED
  BY <1>6, <1>7

(* Choosing the regions of a read takes only unread slots. *)
LEMMA GetReadRegionsStep ==
  ASSUME IInv, GetReadRegions
  PROVE  IInv'
<1> DEFINE count == Clamp(ReadCount, ReadAvailable)
<1>1. /\ r' = Regions(smallMask(readIndex), count)
      /\ UNCHANGED <<buffer, writeIndex, readIndex, w, out, written, taken>>
  BY DEF GetReadRegions
<1>2. ReadAvailable = written - taken
  BY DEF IInv, Available
<1>3. count \in 0 .. BufferSize /\ count <= written - taken /\ count <= ReadCount
  BY <1>2, IndexGap, SizeAssumption, CountAssumption DEF IInv, Clamp
<1>4. smallMask(readIndex) \in 0 .. BufferSize - 1
  BY SmallMask, SizeAssumption DEF IInv, TypeOK
<1> HIDE DEF count
<1>5. /\ r' \in Calls
      /\ r'.pc = "copy1"
      /\ r'.index = smallMask(readIndex)
      /\ Count(r') = count
      /\ r'.size1 = FirstBlock(r'.index, Count(r'))
  BY <1>1, <1>3, <1>4, RegionsOfCall
<1>6. TypeOK'
  BY <1>1, <1>5 DEF IInv, TypeOK
<1>7. Available' /\ UnreadIntact' /\ WriterLocals'
  BY <1>1 DEF IInv, Available, ReadAvailable, UnreadIntact, WriterLocals
<1>8. ReaderLocals'
  BY <1>1, <1>3, <1>5 DEF ReaderLocals
<1>9. QED
  BY <1>6, <1>7, <1>8 DEF IInv

(* The first memcpy of a read delivers the oldest elements. *)
LEMMA ReadCopy1Step ==
  ASSUME IInv, ReadCopy1
  PROVE  IInv'
<1>1. /\ r.pc = "copy1"
      /\ out' = [i \in 1 .. ReadCount |->
                   IF i <= r.size1 THEN buffer[r.index + i - 1] ELSE out[i]]
      /\ r' = [r EXCEPT !.pc = AfterCopy1(r)]
      /\ UNCHANGED <<buffer, writeIndex, readIndex, w, written, taken>>
  BY DEF ReadCopy1
<1>2. r.pc # "idle"
  BY <1>1
<1>3. /\ taken \in Nat /\ out \in [1 .. ReadCount -> Nat] /\ ReadCount \in Nat
  BY CountAssumption DEF IInv, TypeOK
<1>4. /\ r \in Calls
      /\ r.size1 \in 0 .. BufferSize
      /\ r.size2 \in 0 .. BufferSize
      /\ Count(r) = r.size1 + r.size2
  BY <1>2, ReaderFacts, CallFields
<1>5. /\ r.index = smallMask(readIndex)
      /\ r.size1 = FirstBlock(r.index, Count(r))
      /\ Count(r) <= written - taken
      /\ Count(r) <= ReadCount
  BY <1>2 DEF IInv, ReaderLocals
<1>6. /\ AfterCopy1(r) \in {"copy2", "advance"}
      /\ AfterCopy1(r) = "copy2" => r.size2 > 0
      /\ AfterCopy1(r) = "advance" => ~ (r.size2 > 0)
  BY DEF AfterCopy1
<1>7. /\ r' \in Calls
      /\ r'.pc = AfterCopy1(r)
      /\ r'.index = r.index /\ r'.size1 = r.size1 /\ r'.size2 = r.size2
      /\ Count(r') = Count(r)
  <2>1. AfterCopy1(r) \in Pcs
    BY <1>6 DEF Pcs
  <2>2. QED
    BY <1>1, <1>4, <2>1, CallMoves
<1>8. ASSUME NEW i \in 1 .. r.size1
      PROVE  out'[i] = taken + i
  <2>1. i \in 1 .. Count(r) /\ i \in 1 .. ReadCount /\ i <= r.size1
    BY <1>3, <1>4, <1>5
  <2>2. out'[i] = buffer[r.index + i - 1]
    BY <1>1, <2>1
  <2>3. QED
    BY <1>2, <2>1, <2>2, UnreadBlocks
<1>9. TypeOK'
  <2>1. ASSUME NEW i \in 1 .. ReadCount
        PROVE  out'[i] \in Nat
    <3>1. CASE i <= r.size1
      BY <1>3, <1>4, <1>8, <3>1
    <3>2. CASE ~ (i <= r.size1)
      BY <1>1, <1>3, <3>2
    <3>3. QED
      BY <3>1, <3>2
  <2>2. out' \in [1 .. ReadCount -> Nat]
    BY <1>1, <2>1
  <2>3. QED
    BY <1>1, <1>7, <2>2 DEF IInv, TypeOK
<1>10. Available' /\ UnreadIntact' /\ WriterLocals'
  BY <1>1 DEF IInv, Available, ReadAvailable, UnreadIntact, WriterLocals
<1>11. ReaderLocals'
  <2>1. AfterCopy1(r) = "advance" => Count(r) = r.size1
    BY <1>4, <1>6
  <2>2. QED
    BY <1>1, <1>5, <1>6, <1>7, <1>8, <2>1 DEF ReaderLocals
<1>12. QED
  BY <1>9, <1>10, <1>11 DEF IInv

(* The second delivers those that follow them. *)
LEMMA ReadCopy2Step ==
  ASSUME IInv, ReadCopy2
  PROVE  IInv'
<1>1. /\ r.pc = "copy2"
      /\ out' = [i \in 1 .. ReadCount |->
                   IF i > r.size1 /\ i <= Count(r)
                   THEN buffer[i - r.size1 - 1] ELSE out[i]]
      /\ r' = [r EXCEPT !.pc = "advance"]
      /\ UNCHANGED <<buffer, writeIndex, readIndex, w, written, taken>>
  BY DEF ReadCopy2
<1>2. r.pc # "idle"
  BY <1>1
<1>3. /\ taken \in Nat /\ out \in [1 .. ReadCount -> Nat] /\ ReadCount \in Nat
  BY CountAssumption DEF IInv, TypeOK
<1>4. /\ r \in Calls
      /\ r.size1 \in 0 .. BufferSize
      /\ r.size2 \in 0 .. BufferSize
      /\ Count(r) = r.size1 + r.size2
  BY <1>2, ReaderFacts, CallFields
<1>5. /\ r.index = smallMask(readIndex)
      /\ r.size1 = FirstBlock(r.index, Count(r))
      /\ Count(r) <= written - taken
      /\ Count(r) <= ReadCount
      /\ \A i \in 1 .. r.size1 : out[i] = taken + i
  BY <1>1 DEF IInv, ReaderLocals
<1>6. /\ r' \in Calls
      /\ r'.pc = "advance"
      /\ r'.index = r.index /\ r'.size1 = r.size1 /\ r'.size2 = r.size2
      /\ Count(r') = Count(r)
  <2>1. "advance" \in Pcs
    BY DEF Pcs
  <2>2. QED
    BY <1>1, <1>4, <2>1, CallMoves
<1>7. ASSUME NEW i \in 1 .. Count(r)
      PROVE  out'[i] = taken + i
  <2>1. i \in 1 .. ReadCount /\ i <= Count(r)
    BY <1>3, <1>4, <1>5
  <2>2. CASE i <= r.size1
    <3>1. out'[i] = out[i] /\ i \in 1 .. r.size1
      BY <1>1, <1>4, <2>1, <2>2
    <3>2. QED
      BY <1>5, <3>1
  <2>3. CASE i > r.size1
    BY <1>1, <1>2, <2>1, <2>3, UnreadBlocks
  <2>4. QED
    BY <1>4, <2>2, <2>3
<1>8. TypeOK'
  <2>1. ASSUME NEW i \in 1 .. ReadCount
        PROVE  out'[i] \in Nat
    <3>1. CASE i <= Count(r)
      BY <1>3, <1>4, <1>7, <3>1
    <3>2. CASE ~ (i <= Count(r))
      BY <1>1, <1>3, <3>2
    <3>3. QED
      BY <3>1, <3>2
  <2>2. out' \in [1 .. ReadCount -> Nat]
    BY <1>1, <2>1
  <2>3. QED
    BY <1>1, <1>6, <2>2 DEF IInv, TypeOK
<1>9. Available' /\ UnreadIntact' /\ WriterLocals'
  BY <1>1 DEF IInv, Available, ReadAvailable, UnreadIntact, WriterLocals
<1>10. ReaderLocals'
  <2>1. \A i \in 1 .. r.size1 : i \in 1 .. Count(r)
    BY <1>4
  <2>2. QED
    BY <1>1, <1>5, <1>6, <1>7, <2>1 DEF ReaderLocals
<1>11. QED
  BY <1>8, <1>9, <1>10 DEF IInv

(* After the advance the oldest unread element is the one after the call's. *)
LEMMA AdvanceReadIndexStep ==
  ASSUME IInv, AdvanceReadIndex
  PROVE  IInv'
<1> DEFINE u == written - taken
           c == Count(r)
<1>1. /\ r.pc = "advance"
      /\ readIndex' = bigMask(readIndex + c)
      /\ taken' = taken + c
      /\ r' = [r EXCEPT !.pc = "idle"]
      /\ UNCHANGED <<buffer, writeIndex, w, out, written>>
  BY DEF AdvanceReadIndex
<1>2. r.pc # "idle"
  BY <1>1
<1>3. /\ written \in Nat /\ taken \in Nat /\ BufferSize \in Nat \ {0}
      /\ writeIndex \in 0 .. 2 * BufferSize - 1
      /\ readIndex \in 0 .. 2 * BufferSize - 1
      /\ u \in 0 .. BufferSize
      /\ writeIndex = IF readIndex + u < 2 * BufferSize
                      THEN readIndex + u ELSE readIndex + u - 2 * BufferSize
  BY IndexGap, SizeAssumption DEF IInv, TypeOK
<1>4. c \in 0 .. BufferSize /\ c <= u /\ r \in Calls
  BY <1>2, <1>3, ReaderFacts, CallFields
<1>5. r' \in Calls /\ r'.pc = "idle"
  <2>1. "idle" \in Pcs
    BY DEF Pcs
  <2>2. QED
    BY <1>1, <1>4, <2>1, CallMoves
<1>6. /\ taken' \in Nat /\ written' = written
      /\ written' - taken' = u - c /\ written' - taken' <= BufferSize
  BY <1>1, <1>3, <1>4
<1>7. readIndex' = IF readIndex + c < 2 * BufferSize
                   THEN readIndex + c ELSE readIndex + c - 2 * BufferSize
  <2>1. readIndex + c \in -(2 * BufferSize) .. 4 * BufferSize - 1
    BY <1>3, <1>4
  <2>2. readIndex + c >= 0
    BY <1>3, <1>4
  <2>3. QED
    BY <1>1, <1>3, <1>4, <2>1, <2>2, BigMask
<1>8. readIndex' \in 0 .. 2 * BufferSize - 1
  BY <1>3, <1>4, <1>7
<1>9. TypeOK'
  BY <1>1, <1>5, <1>6, <1>8 DEF IInv, TypeOK
<1>10. Available'
  <2>1. bigMask(writeIndex - readIndex') = u - c
    <3>1. bigMask(writeIndex - readIndex') =
            IF writeIndex < readIndex' THEN writeIndex - readIndex' + 2 * BufferSize
            ELSE writeIndex - readIndex'
      BY <1>3, <1>8, IndexDifference
    <3> HIDE DEF u, c
    <3>2. QED
      BY <1>3, <1>4, <1>7, <1>8, <3>1
  <2>2. QED
    BY <1>1, <1>6, <2>1 DEF Available, ReadAvailable, bigMask
<1>11. UnreadIntact'
  <2> SUFFICES ASSUME NEW j \in 0 .. written' - taken' - 1
               PROVE  buffer'[smallMask(readIndex' + j)] = taken' + 1 + j
    BY DEF UnreadIntact
  <2> DEFINE s == smallMask(readIndex' + j)
             k == c + j
             t == smallMask(readIndex + k)
  <2>1. /\ j \in 0 .. u - c - 1
        /\ buffer' = buffer /\ taken' = taken + c
    <3>1. buffer' = buffer /\ taken' = taken + c
      BY <1>1
    <3> HIDE DEF u, c
    <3>2. QED
      BY <1>3, <1>4, <1>6, <3>1
  <2>2. k \in 0 .. u - 1 /\ k \in 0 .. BufferSize - 1 /\ j \in 0 .. BufferSize - 1
    <3> HIDE DEF u, c
    <3>1. QED
      BY <1>3, <1>4, <2>1
  <2>3. t = IF readIndex + k < BufferSize THEN readIndex + k
            ELSE IF readIndex + k < 2 * BufferSize THEN readIndex + k - BufferSize
            ELSE readIndex + k - 2 * BufferSize
    BY <2>2, SlotOf DEF IInv
  <2>4. s = IF readIndex' + j < BufferSize THEN readIndex' + j
            ELSE IF readIndex' + j < 2 * BufferSize THEN readIndex' + j - BufferSize
            ELSE readIndex' + j - 2 * BufferSize
    <3>1. readIndex' \in 0 .. 2 * BufferSize - 1 /\ j \in 0 .. BufferSize - 1
      BY <1>8, <2>2
    <3>2. QED
      BY <3>1, SlotAt
  <2>5. s = t
    <3> HIDE DEF u, c, s, t
    <3>1. QED
      BY <1>3, <1>4, <1>7, <2>2, <2>3, <2>4
  <2>6. buffer[t] = taken + 1 + k
    BY <2>2 DEF IInv, UnreadIntact
  <2>7. taken + 1 + k = taken' + 1 + j
    <3> HIDE DEF u, c
    <3>1. QED
      BY <1>3, <1>4, <2>1, <2>2
  <2>8. QED
    BY <2>1, <2>5, <2>6, <2>7
<1>12. WriterLocals'
  <2>1. SUFFICES ASSUME w.pc # "idle"
                 PROVE  Count(w) <= BufferSize - (u - c)
    BY <1>1, <1>6 DEF IInv, WriterLocals
  <2>2. Count(w) <= BufferSize - u /\ Count(w) \in Int
    BY <2>1, WriterFacts, CallFields DEF Count
  <2>3. QED
    BY <1>3, <1>4, <2>2
<1>13. ReaderLocals'
  BY <1>5 DEF ReaderLocals
<1>14. QED
  BY <1>9, <1>10, <1>11, <1>12, <1>13 DEF IInv

(* A flush between calls leaves nothing unread and both indices at 0.       *)
LEMMA FlushStep ==
  ASSUME IInv, Flush
  PROVE  IInv'
<1>1. /\ w.pc = "idle" /\ r.pc = "idle"
      /\ writeIndex' = 0 /\ readIndex' = 0 /\ taken' = written
      /\ UNCHANGED <<buffer, w, r, out, written>>
  BY DEF Flush
<1>2. written \in Nat /\ BufferSize \in Nat \ {0}
  BY SizeAssumption DEF IInv, TypeOK
<1>3. TypeOK'
  BY <1>1, <1>2 DEF IInv, TypeOK
<1>4. Available'
  <2>1. bigMask(0) = 0
    BY <1>2, BigMask
  <2>2. QED
    BY <1>1, <1>2, <2>1 DEF Available, ReadAvailable
<1>5. UnreadIntact'
  BY <1>1, <1>2 DEF UnreadIntact
<1>6. WriterLocals' /\ ReaderLocals'
  BY <1>1 DEF WriterLocals, ReaderLocals
<1>7. QED
  BY <1>3, <1>4, <1>5, <1>6 DEF IInv

-----------------------------------------------------------------------------
(* A step that changes nothing preserves the invariant. *)
LEMMA StutterStep ==
  ASSUME IInv, UNCHANGED vars
  PROVE  IInv'
<1>1. TypeOK'
  BY DEF vars, IInv, TypeOK
<1>2. Available' /\ UnreadIntact'
  BY DEF vars, IInv, Available, ReadAvailable, UnreadIntact
<1>3. WriterLocals' /\ ReaderLocals'
  BY DEF vars, IInv, WriterLocals, ReaderLocals
<1>4. QED
  BY <1>1, <1>2, <1>3 DEF IInv

(* The inductive invariant holds of every reachable state, for every       *)
(* buffer size, every size of the calls and every interleaving.            *)
THEOREM Inductive == Spec => []IInv
<1>1. IInv /\ [Next]_vars => IInv'
  <2> SUFFICES ASSUME IInv, [Next]_vars PROVE IInv'
    OBVIOUS
  <2>1. CASE \E n \in 0 .. MaxWrite : GetWriteRegions(n)
    BY <2>1, GetWriteRegionsStep
  <2>2. CASE WriteCopy1
    BY <2>2, WriteCopy1Step
  <2>3. CASE WriteCopy2
    BY <2>3, WriteCopy2Step
  <2>4. CASE AdvanceWriteIndex
    BY <2>4, AdvanceWriteIndexStep
  <2>5. CASE GetReadRegions
    BY <2>5, GetReadRegionsStep
  <2>6. CASE ReadCopy1
    BY <2>6, ReadCopy1Step
  <2>7. CASE ReadCopy2
    BY <2>7, ReadCopy2Step
  <2>8. CASE AdvanceReadIndex
    BY <2>8, AdvanceReadIndexStep
  <2>9. CASE Flush
    BY <2>9, FlushStep
  <2>10. CASE UNCHANGED vars
    BY <2>10, StutterStep
  <2>11. QED
    BY <2>1, <2>2, <2>3, <2>4, <2>5, <2>6, <2>7, <2>8, <2>9, <2>10
    DEF Next, Write, Read
<1>2. QED
  BY InitIInv, <1>1, PTL DEF Spec

(* Type correctness: the indices of pa_ringbuffer.c never leave the doubled *)
(* range and the regions of a call never leave the buffer.                 *)
THEOREM TypeCorrect == Spec => []TypeOK
<1>1. IInv => TypeOK
  BY DEF IInv
<1>2. QED
  BY Inductive, <1>1, PTL

(* The masked difference of the two indices is the number of unread        *)
(* elements: full and empty are never confused.                            *)
THEOREM NeverConfused == Spec => []Available
<1>1. IInv => Available
  BY DEF IInv
<1>2. QED
  BY Inductive, <1>1, PTL

(* PaUtil_WriteRingBuffer never overwrites an element not yet read.        *)
THEOREM NeverOverwrites == Spec => []UnreadIntact
<1>1. IInv => UnreadIntact
  BY DEF IInv
<1>2. QED
  BY Inductive, <1>1, PTL

(* PaUtil_ReadRingBuffer hands over the oldest unread elements in order.   *)
THEOREM InOrder == Spec => []ReadsInOrder
<1>1. IInv => ReadsInOrder
  BY DEF IInv, ReaderLocals, ReadsInOrder
<1>2. QED
  BY Inductive, <1>1, PTL

(* The memcpys of the two threads never touch the same slot, although no   *)
(* lock is held: the ring needs no mutex for one writer and one reader.    *)
THEOREM RaceFree == Spec => []NoDataRace
<1>1. ASSUME IInv, w.pc # "idle", r.pc # "idle"
      PROVE  Touched(w) \cap Touched(r) = {}
  <2> SUFFICES ASSUME NEW s \in Touched(w), s \in Touched(r)
               PROVE  FALSE
    OBVIOUS
  <2> DEFINE N == BufferSize
             u == written - taken
             x == w.index
             m == w.size1
             k == w.size2
             y == r.index
             o == r.size1
             p == r.size2
  <2>1. /\ N \in Nat \ {0} /\ u \in 0 .. N
        /\ writeIndex = IF readIndex + u < 2 * N
                        THEN readIndex + u ELSE readIndex + u - 2 * N
        /\ readIndex \in 0 .. 2 * N - 1
    BY <1>1, IndexGap, SizeAssumption DEF IInv, TypeOK
  <2>2. /\ x = IF writeIndex < N THEN writeIndex ELSE writeIndex - N
        /\ k <= x /\ x + m <= N /\ m + k <= N - u
        /\ k > 0 => m = N - x
        /\ m \in 0 .. N /\ k \in 0 .. N
    BY <1>1, WriterFacts, CallFields
  <2>3. /\ y = IF readIndex < N THEN readIndex ELSE readIndex - N
        /\ p <= y /\ y + o <= N /\ o + p <= u
        /\ p > 0 => o = N - y
        /\ o \in 0 .. N /\ p \in 0 .. N
    BY <1>1, ReaderFacts, CallFields
  <2>4. s \in (x .. x + m - 1) \cup (0 .. k - 1)
    BY <1>1 DEF Touched
  <2>5. s \in (y .. y + o - 1) \cup (0 .. p - 1)
    BY <1>1 DEF Touched
  <2> HIDE DEF N, u, x, m, k, y, o, p
  <2>6. /\ s \in Int
        /\ (x <= s /\ s < x + m) \/ (0 <= s /\ s < k)
        /\ (y <= s /\ s < y + o) \/ (0 <= s /\ s < p)
    BY <2>1, <2>2, <2>3, <2>4, <2>5
  <2>7. QED
    BY <2>1, <2>2, <2>3, <2>6
<1>2. IInv => NoDataRace
  BY <1>1 DEF NoDataRace, Touched
<1>3. QED
  BY Inductive, <1>2, PTL

-----------------------------------------------------------------------------
(* Refinement of BoundedFifo: a call takes effect in the step that stores   *)
(* its index, a flush between two calls, and the copies and the choice of   *)
(* regions in between are invisible to the caller on the other side.        *)

(* The n elements accepted after the first a. *)
Run(a, n) == [i \in 1 .. n |-> a + i]

-----------------------------------------------------------------------------
(* Runs are sequences, *)
LEMMA RunIsSeq ==
  ASSUME NEW a \in Nat, NEW n \in Nat
  PROVE  /\ Run(a, n) \in Seq(Nat) /\ Len(Run(a, n)) = n
         /\ \A i \in 1 .. n : Run(a, n)[i] = a + i
BY DEF Run

(* nothing is left of an empty one, *)
LEMMA RunEmpty == ASSUME NEW a \in Nat PROVE Run(a, 0) = <<>>
BY DEF Run

(* two that follow each other make one, *)
LEMMA RunConcat ==
  ASSUME NEW a \in Nat, NEW m \in Nat, NEW n \in Nat
  PROVE  Run(a, m) \o Run(a + m, n) = Run(a, m + n)
BY RunIsSeq DEF Run

(* and one falls apart into a head and a rest. *)
LEMMA RunHead ==
  ASSUME NEW a \in Nat, NEW n \in Nat, NEW m \in 0 .. n
  PROVE  SubSeq(Run(a, n), 1, m) = Run(a, m)
BY RunIsSeq DEF Run

LEMMA RunRest ==
  ASSUME NEW a \in Nat, NEW n \in Nat, NEW m \in 0 .. n
  PROVE  SubSeq(Run(a, n), m + 1, n) = Run(a + m, n - m)
BY RunIsSeq DEF Run

-----------------------------------------------------------------------------
(* What the ring holds between its indices are the elements accepted and    *)
(* not yet read.                                                            *)
UnreadRun ==
  /\ written \in Nat /\ taken \in Nat /\ written - taken \in 0 .. BufferSize
  /\ ReadAvailable = written - taken
  /\ Unread = Run(taken, written - taken)
  /\ Len(Unread) = written - taken

LEMMA UnreadIsRun == IInv => UnreadRun
<1> SUFFICES ASSUME IInv PROVE UnreadRun
  OBVIOUS
<1>1. written \in Nat /\ taken \in Nat /\ written - taken \in 0 .. BufferSize
  BY IndexGap DEF IInv, TypeOK
<1>2. ReadAvailable = written - taken
  BY DEF IInv, Available
<1>3. \A i \in 1 .. written - taken :
        buffer[smallMask(readIndex + i - 1)] = taken + i
  <2> SUFFICES ASSUME NEW i \in 1 .. written - taken
               PROVE  buffer[smallMask(readIndex + i - 1)] = taken + i
    OBVIOUS
  <2> DEFINE j == i - 1
  <2>1. j \in 0 .. written - taken - 1
    BY <1>1
  <2>2. buffer[smallMask(readIndex + j)] = taken + 1 + j
    BY <2>1 DEF IInv, UnreadIntact
  <2>3. readIndex + j = readIndex + i - 1 /\ taken + 1 + j = taken + i
    BY <1>1, SizeAssumption DEF IInv, TypeOK
  <2>4. QED
    BY <2>2, <2>3
<1>4. Unread = Run(taken, written - taken)
  <2>1. Unread = [i \in 1 .. written - taken |-> buffer[smallMask(readIndex + i - 1)]]
    BY <1>2, Zenon DEF Unread
  <2>2. QED
    BY <1>3, <2>1, Zenon DEF Run
<1>5. written - taken \in Nat
  BY <1>1, SizeAssumption
<1>6. Len(Run(taken, written - taken)) = written - taken
  BY <1>1, <1>5, RunIsSeq
<1>7. QED
  BY <1>1, <1>2, <1>4, <1>6 DEF UnreadRun

(* A count of a call is never None.                                         *)
LEMMA CountIsNat ==
  ASSUME NEW call \in Calls PROVE Count(call) \in Nat
BY SizeAssumption DEF Calls, Count

-----------------------------------------------------------------------------
(* The empty ring is the empty queue. *)
LEMMA InitRefines == Init => Fifo!Init
<1> SUFFICES ASSUME Init PROVE Fifo!Init
  OBVIOUS
<1>1. UnreadRun /\ Unread = <<>>
  BY InitIInv, UnreadIsRun, RunEmpty DEF Init, UnreadRun
<1>2. InProgress(w) = -1 /\ InProgress(r) = -1 /\ r.pc = "idle"
  BY DEF Init, NoCall, InProgress
<1>3. SubSeq(out, 1, Count(r)) = <<>>
  BY DEF Init, NoCall, Count
<1>4. QED
  BY <1>1, <1>2, <1>3 DEF Init, Fifo!Init, Fifo!None

(* A write begins: it will store what there is room for now. *)
LEMMA GetWriteRegionsRefines ==
  ASSUME IInv, NEW n \in 0 .. MaxWrite, GetWriteRegions(n) PROVE Fifo!BeginPut(n)
<1>1. /\ w.pc = "idle" /\ written + n <= MaxElements
      /\ w' = Regions(smallMask(writeIndex), Clamp(n, WriteAvailable))
      /\ UNCHANGED <<buffer, writeIndex, readIndex, r, out, written, taken>>
  BY DEF GetWriteRegions
<1>2. UnreadRun
  BY UnreadIsRun
<1>3. WriteAvailable = BufferSize - Len(Unread) /\ WriteAvailable \in 0 .. BufferSize
  BY <1>2, SizeAssumption DEF UnreadRun, WriteAvailable
<1>4. /\ Clamp(n, WriteAvailable) \in 0 .. BufferSize
      /\ Clamp(n, WriteAvailable) = Fifo!Least(n, BufferSize - Len(Unread))
  BY <1>3, CountAssumption, SizeAssumption DEF Clamp, Fifo!Least
<1>5. smallMask(writeIndex) \in 0 .. BufferSize - 1
  BY SmallMask, SizeAssumption DEF IInv, TypeOK
<1>6. InProgress(w)' = Clamp(n, WriteAvailable)
  BY <1>1, <1>4, <1>5, RegionsOfCall DEF InProgress
<1>7. InProgress(w) = -1
  BY <1>1 DEF InProgress
<1>8. Unread' = Unread
  BY <1>1 DEF Unread, ReadAvailable
<1>9. QED
  BY <1>1, <1>4, <1>6, <1>7, <1>8 DEF Fifo!BeginPut, Fifo!None

(* The queue and what the reader got do not change when a copy or nothing   *)
(* happens.                                                                 *)
LEMMA SameUnread ==
  ASSUME UnreadRun, UnreadRun', UNCHANGED <<written, taken>>
  PROVE  Unread' = Unread
BY DEF UnreadRun

LEMMA WriteCopyRefines ==
  ASSUME IInv, UnreadRun, UnreadRun', WriteCopy1 \/ WriteCopy2
  PROVE  UNCHANGED Fifo!fifoVars
<1>1. /\ w.pc # "idle" /\ w'.pc # "idle" /\ Count(w') = Count(w)
      /\ UNCHANGED <<written, taken, r, out>>
  <2>1. /\ w \in Calls /\ w.pc # "idle"
        /\ \/ w' = [w EXCEPT !.pc = AfterCopy1(w)] \/ w' = [w EXCEPT !.pc = "advance"]
        /\ UNCHANGED <<written, taken, r, out>>
    BY DEF WriteCopy1, WriteCopy2, IInv, TypeOK
  <2>2. AfterCopy1(w) # "idle"
    BY DEF AfterCopy1
  <2>3. QED
    BY <2>1, <2>2 DEF Calls, Count
<1>2. UNCHANGED InProgress(w) /\ UNCHANGED InProgress(r)
  BY <1>1 DEF InProgress
<1>3. Unread' = Unread
  BY <1>1, SameUnread
<1>4. QED
  BY <1>1, <1>2, <1>3 DEF Fifo!fifoVars

LEMMA ReadCopyRefines ==
  ASSUME IInv, UnreadRun, UnreadRun', ReadCopy1 \/ ReadCopy2
  PROVE  UNCHANGED Fifo!fifoVars
<1>1. /\ r.pc # "idle" /\ r'.pc # "idle" /\ Count(r') = Count(r)
      /\ UNCHANGED <<written, taken, w>>
  <2>1. /\ r \in Calls /\ r.pc # "idle"
        /\ \/ r' = [r EXCEPT !.pc = AfterCopy1(r)] \/ r' = [r EXCEPT !.pc = "advance"]
        /\ UNCHANGED <<written, taken, w>>
    BY DEF ReadCopy1, ReadCopy2, IInv, TypeOK
  <2>2. AfterCopy1(r) # "idle"
    BY DEF AfterCopy1
  <2>3. QED
    BY <2>1, <2>2 DEF Calls, Count
<1>2. UNCHANGED InProgress(w) /\ UNCHANGED InProgress(r)
  BY <1>1 DEF InProgress
<1>3. Unread' = Unread
  BY <1>1, SameUnread
<1>4. QED
  BY <1>1, <1>2, <1>3 DEF Fifo!fifoVars

(* The store of the write index appends what was copied. *)
LEMMA AdvanceWriteIndexRefines ==
  ASSUME IInv, UnreadRun, UnreadRun', AdvanceWriteIndex PROVE Fifo!EndPut
<1> DEFINE c == Count(w)
<1>1. /\ w.pc = "advance" /\ w \in Calls /\ w' = [w EXCEPT !.pc = "idle"]
      /\ written' = written + c
      /\ UNCHANGED <<r, out, taken>>
  BY DEF AdvanceWriteIndex, IInv, TypeOK
<1>2. c \in Nat /\ InProgress(w) = c
  BY <1>1, CountIsNat DEF InProgress
<1>3. InProgress(w)' = -1
  BY <1>1 DEF Calls, InProgress
<1> HIDE DEF c
<1>4. /\ written \in Nat /\ taken \in Nat /\ written - taken \in Nat
      /\ Unread = Run(taken, written - taken)
      /\ Unread' = Run(taken, written + c - taken)
  <2>1. written \in Nat /\ taken \in Nat /\ written - taken \in Nat
    BY SizeAssumption DEF UnreadRun
  <2>2. Unread = Run(taken, written - taken)
    BY DEF UnreadRun
  <2>3. Unread' = Run(taken', written' - taken')
    BY DEF UnreadRun
  <2>4. written' = written + c /\ taken' = taken
    BY <1>1
  <2>5. written' - taken' = written + c - taken
    BY <1>2, <2>1, <2>4
  <2>6. QED
    BY <2>1, <2>2, <2>3, <2>4, <2>5
<1>5. Run(taken, written - taken) \o Run(written, c) = Run(taken, written + c - taken)
  <2>1. taken + (written - taken) = written /\ (written - taken) + c = written + c - taken
    BY <1>2, <1>4
  <2>2. \A m \in Nat : Run(taken, m) \o Run(taken + m, c) = Run(taken, m + c)
    BY <1>2, <1>4, RunConcat
  <2>3. QED
    BY <1>4, <2>1, <2>2
<1>6. Unread' = Unread \o [i \in 1 .. InProgress(w) |-> written + i]
  BY <1>2, <1>4, <1>5 DEF Run
<1>7. QED
  BY <1>1, <1>2, <1>3, <1>6 DEF Fifo!EndPut, Fifo!None

(* A read begins: it will return what there is to read now. *)
LEMMA GetReadRegionsRefines ==
  ASSUME IInv, UnreadRun, GetReadRegions PROVE Fifo!BeginGet
<1>1. /\ r.pc = "idle"
      /\ r' = Regions(smallMask(readIndex), Clamp(ReadCount, ReadAvailable))
      /\ UNCHANGED <<buffer, writeIndex, readIndex, w, out, written, taken>>
  BY DEF GetReadRegions
<1>2. ReadAvailable = Len(Unread) /\ ReadAvailable \in 0 .. BufferSize
  BY DEF UnreadRun
<1>3. /\ Clamp(ReadCount, ReadAvailable) \in 0 .. BufferSize
      /\ Clamp(ReadCount, ReadAvailable) = Fifo!Least(ReadCount, Len(Unread))
  BY <1>2, CountAssumption, SizeAssumption DEF Clamp, Fifo!Least
<1>4. smallMask(readIndex) \in 0 .. BufferSize - 1
  BY SmallMask, SizeAssumption DEF IInv, TypeOK
<1>5. InProgress(r)' = Clamp(ReadCount, ReadAvailable) /\ r'.pc # "idle"
  BY <1>1, <1>3, <1>4, RegionsOfCall DEF InProgress
<1>6. InProgress(r) = -1
  BY <1>1 DEF InProgress
<1>7. Unread' = Unread
  BY <1>1 DEF Unread, ReadAvailable
<1>8. QED
  BY <1>1, <1>3, <1>5, <1>6, <1>7 DEF Fifo!BeginGet, Fifo!None

(* The store of the read index removes what was copied out. *)
LEMMA AdvanceReadIndexRefines ==
  ASSUME IInv, UnreadRun, UnreadRun', AdvanceReadIndex PROVE Fifo!EndGet
<1> DEFINE c == Count(r)
           n == written - taken
<1>1. /\ r.pc = "advance" /\ r \in Calls /\ r' = [r EXCEPT !.pc = "idle"]
      /\ taken' = taken + c
      /\ UNCHANGED <<w, out, written>>
  BY DEF AdvanceReadIndex, IInv, TypeOK
<1>2. c \in Nat /\ InProgress(r) = c
  BY <1>1, CountIsNat DEF InProgress
<1>3. InProgress(r)' = -1 /\ r'.pc = "idle" /\ Count(r') = c
  BY <1>1 DEF Calls, InProgress, Count
<1>4. c <= n /\ c <= ReadCount /\ \A i \in 1 .. c : out[i] = taken + i
  BY <1>1 DEF IInv, ReaderLocals
<1> HIDE DEF c
<1>5. /\ written \in Nat /\ taken \in Nat /\ n \in Nat /\ c \in 0 .. n
      /\ Unread = Run(taken, n) /\ Len(Unread) = n
      /\ Unread' = Run(taken + c, n - c)
  <2>1. /\ written \in Nat /\ taken \in Nat /\ n \in Nat /\ c \in 0 .. n
        /\ written - (taken + c) = n - c
    BY <1>2, <1>4, SizeAssumption DEF UnreadRun
  <2>2. QED
    BY <1>1, <2>1 DEF UnreadRun
<1> HIDE DEF n
<1>6. SubSeq(Unread, 1, c) = Run(taken, c) /\ SubSeq(Unread, c + 1, n) = Run(taken + c, n - c)
  BY <1>5, RunHead, RunRest
<1>7. SubSeq(out, 1, c) = Run(taken, c)
  BY <1>2, <1>4, <1>5 DEF Run
<1>8. InProgress(r) # -1
  BY <1>2
<1>9. (IF r.pc = "idle" THEN SubSeq(out, 1, Count(r)) ELSE <<>>)'
        = SubSeq(Unread, 1, InProgress(r))
  BY <1>1, <1>2, <1>3, <1>6, <1>7
<1>10. Unread' = SubSeq(Unread, InProgress(r) + 1, Len(Unread))
  BY <1>2, <1>5, <1>6
<1>11. UNCHANGED <<written, InProgress(w)>>
  BY <1>1 DEF InProgress
<1>12. QED
  BY <1>3, <1>8, <1>9, <1>10, <1>11 DEF Fifo!EndGet, Fifo!None

(* A flush between the calls empties the queue. *)
LEMMA FlushRefines ==
  ASSUME IInv, UnreadRun, UnreadRun', Flush PROVE Fifo!Flush
<1>1. /\ w.pc = "idle" /\ r.pc = "idle"
      /\ taken' = written
      /\ UNCHANGED <<w, r, out, written>>
  BY DEF Flush
<1>2. Unread' = <<>>
  <2>1. Unread' = Run(written, written - written) /\ written \in Nat
    BY <1>1 DEF UnreadRun
  <2>2. written - written = 0
    BY <2>1
  <2>3. QED
    BY <2>1, <2>2, RunEmpty
<1>3. InProgress(w) = -1 /\ InProgress(r) = -1
  BY <1>1 DEF InProgress
<1>4. QED
  BY <1>1, <1>2, <1>3 DEF Fifo!Flush, Fifo!None, InProgress

LEMMA StutterRefines ==
  ASSUME UNCHANGED vars PROVE UNCHANGED Fifo!fifoVars
BY DEF vars, Fifo!fifoVars, Unread, ReadAvailable, InProgress, Count

-----------------------------------------------------------------------------
(* Every step of the ring is a step of the FIFO, or invisible. *)
LEMMA StepRefines ==
  ASSUME IInv, UnreadRun, UnreadRun', [Next]_vars
  PROVE  [Fifo!Next]_(Fifo!fifoVars)
<1>1. CASE \E n \in 0 .. MaxWrite : GetWriteRegions(n)
  BY <1>1, GetWriteRegionsRefines DEF Fifo!Next
<1>2. CASE WriteCopy1 \/ WriteCopy2
  BY <1>2, WriteCopyRefines
<1>3. CASE AdvanceWriteIndex
  BY <1>3, AdvanceWriteIndexRefines DEF Fifo!Next
<1>4. CASE GetReadRegions
  BY <1>4, GetReadRegionsRefines DEF Fifo!Next
<1>5. CASE ReadCopy1 \/ ReadCopy2
  BY <1>5, ReadCopyRefines
<1>6. CASE AdvanceReadIndex
  BY <1>6, AdvanceReadIndexRefines DEF Fifo!Next
<1>7. CASE Flush
  BY <1>7, FlushRefines DEF Fifo!Next
<1>8. CASE UNCHANGED vars
  BY <1>8, StutterRefines
<1>9. QED
  BY <1>1, <1>2, <1>3, <1>4, <1>5, <1>6, <1>7, <1>8 DEF Next, Write, Read

(* PaUtilRingBuffer implements the bounded FIFO that pa_ringbuffer.h        *)
(* describes, for every buffer size, every size of the calls and every      *)
(* interleaving of its writer and its reader.                               *)
THEOREM Refines == Spec => ImplementsFifo
<1>1. Init => Fifo!Init
  BY InitRefines
<1>2. IInv => UnreadRun
  BY UnreadIsRun
<1>3. IInv /\ UnreadRun /\ UnreadRun' /\ [Next]_vars => [Fifo!Next]_(Fifo!fifoVars)
  BY StepRefines
<1>4. QED
  BY Inductive, <1>1, <1>2, <1>3, PTL DEF Spec, ImplementsFifo, Fifo!Spec
=============================================================================
