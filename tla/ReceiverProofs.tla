----------------------------- MODULE ReceiverProofs -----------------------------
(***************************************************************************)
(* For every number of slots and streams and every size of the rings: the  *)
(* receiver, which names, resets and reuses slots without a lock, mixes a  *)
(* block in the name of another stream only in a slot that was reset or    *)
(* taken over while the stream thread was punching it.  The argument       *)
(* follows the blocks of a slot through its pipeline - the queue of its    *)
(* ogg_stream_state, the packet in the stream thread's hands, pcm and      *)
(* decoder, ring, mixbuf - and shows each to hold what belongs to the id   *)
(* of the slot (QueuesOwn, PacketOwn, BuffersOwn).                         *)
(* Then: it mixes the blocks of a stream in the order they arrived, but    *)
(* for slots that were reset or taken over during a punch (MixesInOrder).  *)
(***************************************************************************)
EXTENDS Receiver, WellFoundedInduction, TLAPS

-----------------------------------------------------------------------------
(* Blocks of no stream are silence or torn. *)
LEMMA BlockFacts ==
  /\ Silence \in Blocks /\ Torn \in Blocks
  /\ \A q \in Serials, n \in 1 .. MaxPages : Block(q, n) \in Blocks /\ Block(q, n).q = q
  /\ \A b \in Blocks : /\ b.q \in Serials \cup {0, -1} /\ b.n \in 0 .. MaxPages
                       /\ b.q \notin Serials => b \in {Silence, Torn}
<1>1. /\ Silence = [q |-> 0, n |-> 0] /\ Torn = [q |-> -1, n |-> 0]
      /\ \A q, n : Block(q, n) = [q |-> q, n |-> n]
  BY DEF Silence, Torn, Block
<1>2. Silence \in Blocks /\ Torn \in Blocks
  BY DEF Blocks
<1>3. \A q \in Serials, n \in 1 .. MaxPages : Block(q, n) \in Blocks /\ Block(q, n).q = q
  BY <1>1 DEF Blocks
<1>4. ASSUME NEW b \in Blocks
      PROVE  /\ b.q \in Serials \cup {0, -1} /\ b.n \in 0 .. MaxPages
             /\ b.q \notin Serials => b \in {Silence, Torn}
  <2>1. CASE b \in {Silence, Torn}
    BY <1>1, <2>1, BoundAssumption
  <2>2. CASE \E q \in Serials, n \in 1 .. MaxPages : b = Block(q, n)
    BY <1>1, <2>2, BoundAssumption
  <2>3. QED
    BY <2>1, <2>2 DEF Blocks
<1>5. QED
  BY <1>2, <1>3, <1>4

(* 0 names no stream. *)
LEMMA SerialFacts == 0 \notin Serials /\ -1 \notin Serials
BY SerialAssumption

(* Overlaps are noted by every step, and for good. *)
LEMMA Noted ==
  ASSUME TypeOK, NoteOverlap
  PROVE  /\ reused' \in [Slots -> BOOLEAN] /\ OverlapNoted'
         /\ \A s \in Slots : reused[s] => reused'[s]
<1>1. reused' = [s \in Slots |-> reused[s] \/ (Punching(s)' /\ Changing(s)')]
  BY DEF NoteOverlap
<1>2. reused \in [Slots -> BOOLEAN]
  BY DEF TypeOK
<1>3. QED
  BY <1>1, <1>2, Zenon DEF OverlapNoted

(* What is its own stays so while the slot keeps its id. *)
LEMMA FreeOwn ==
  ASSUME TypeOK, NEW s \in Slots, id[s] = 0, NEW b \in Blocks, Own(s, b)
  PROVE  b \in {Silence, Torn}
BY BlockFacts, SerialFacts DEF Own

LEMMA InitIInv == Init => IInv
<1> SUFFICES ASSUME Init PROVE IInv
  OBVIOUS
<1>1. TypeOK
  BY BlockFacts, SlotAssumption, BoundAssumption
     DEF Init, TypeOK, Slots, FreshOs, Waiting, Nothing
<1>2. OverlapNoted /\ PunchesUsed /\ NamedAsPage
  BY SlotAssumption DEF Init, OverlapNoted, PunchesUsed, NamedAsPage, Punching, Changing, Waiting, Slots
<1>3. QueuesOwn /\ PacketOwn
  BY DEF Init, QueuesOwn, PacketOwn, FreshOs
<1>4. BuffersOwn
  BY DEF Init, BuffersOwn, Own
<1>5. ForeignNeedsOverlap
  BY DEF Init, ForeignNeedsOverlap, Foreign, Nothing
<1>6. QED
  BY <1>1, <1>2, <1>3, <1>4, <1>5 DEF IInv

-----------------------------------------------------------------------------
(* The stream thread goes on to the next slot, or begins to punch this one. *)
LEMMA NextSlotIn == \A s \in Slots : NextSlot(s) \in Slots
BY SlotAssumption DEF NextSlot, Slots

LEMMA VisitStep ==
  ASSUME IInv, Visit, NoteOverlap PROVE IInv'
<1>1. TypeOK /\ stream.pc = "visit" /\ stream.slot \in Slots
  BY DEF IInv, TypeOK, Visit
<1>2. /\ UNCHANGED <<id, os, active, ring, pcm, dec, mixbuf, network, opBody, audio,
                     mixed, arrived, traffic, played>>
      /\ stream' = IF id[stream.slot] # 0 THEN [stream EXCEPT !.pc = "packetout"]
                   ELSE [stream EXCEPT !.slot = NextSlot(@)]
  BY DEF Visit
<1>3. OverlapNoted' /\ reused' \in [Slots -> BOOLEAN] /\ \A s \in Slots : reused[s] => reused'[s]
  BY <1>1, Noted
<1>4. TypeOK'
  BY <1>1, <1>2, <1>3, NextSlotIn DEF TypeOK
<1>5. PunchesUsed'
  BY <1>1, <1>2, <1>3 DEF IInv, PunchesUsed, Punching, TypeOK
<1>6. NamedAsPage' /\ QueuesOwn'
  BY <1>2 DEF IInv, NamedAsPage, QueuesOwn
<1>7. PacketOwn'
  BY <1>1, <1>2 DEF PacketOwn, TypeOK
<1>8. BuffersOwn' /\ ForeignNeedsOverlap'
  BY <1>2, <1>3 DEF IInv, BuffersOwn, Own, ForeignNeedsOverlap, Foreign
<1>9. QED
  BY <1>3, <1>4, <1>5, <1>6, <1>7, <1>8 DEF IInv

(* A packet taken from the queue is of the stream the slot is named after,  *)
(* because the slot is not being changed.                                   *)
LEMMA PacketOutStep ==
  ASSUME IInv, PacketOut, NoteOverlap PROVE IInv'
<1> DEFINE s == stream.slot
<1>1. TypeOK /\ stream.pc = "packetout" /\ s \in Slots
  BY DEF IInv, TypeOK, PacketOut
<1>2. UNCHANGED <<id, active, ring, pcm, dec, mixbuf, network, audio, mixed, arrived, traffic, played>>
  BY DEF PacketOut
<1>3. OverlapNoted' /\ reused' \in [Slots -> BOOLEAN] /\ \A u \in Slots : reused[u] => reused'[u]
  BY <1>1, Noted
<1>4. ForeignNeedsOverlap' /\ BuffersOwn' /\ NamedAsPage'
  BY <1>2, <1>3 DEF IInv, BuffersOwn, Own, ForeignNeedsOverlap, Foreign, NamedAsPage
<1>5. CASE os[s].queue = <<>>
  <2>1. /\ stream' = [stream EXCEPT !.pc = "visit", !.slot = NextSlot(@)]
        /\ UNCHANGED <<os, opBody>>
    BY <1>5 DEF PacketOut
  <2>2. TypeOK'
    BY <1>1, <1>2, <1>3, <2>1, NextSlotIn DEF TypeOK
  <2>3. PunchesUsed' /\ PacketOwn' /\ QueuesOwn'
    BY <1>1, <1>2, <1>3, <2>1 DEF IInv, PunchesUsed, Punching, PacketOwn, QueuesOwn, TypeOK
  <2>4. QED
    BY <1>3, <1>4, <2>2, <2>3 DEF IInv
<1>6. CASE os[s].queue # <<>>
  <2> DEFINE q == os[s].queue
  <2>1. /\ stream' = [stream EXCEPT !.pc = "decode", !.op = Head(q)]
        /\ os' = [os EXCEPT ![s].queue = Tail(q)]
        /\ opBody' = "shared"
    BY <1>6 DEF PacketOut
  <2>2. q \in Seq(Blocks \cup {Gap}) /\ q # <<>>
    BY <1>1, <1>6 DEF TypeOK
  <2>3. /\ Head(q) \in Blocks \cup {Gap} /\ Head(q) = q[1] /\ Len(q) \in Nat \ {0}
        /\ Tail(q) \in Seq(Blocks \cup {Gap}) /\ Len(Tail(q)) = Len(q) - 1
        /\ \A i \in 1 .. Len(q) - 1 : Tail(q)[i] = q[i + 1]
    BY <2>2
  <2>4. /\ os'[s].queue = Tail(q) /\ os'[s].serial = os[s].serial
        /\ \A u \in Slots \ {s} : os'[u] = os[u]
    BY <1>1, <2>1 DEF TypeOK
  <2>5. /\ stream'.pc = "decode" /\ stream'.slot = s /\ stream'.op = q[1]
    BY <1>1, <2>1, <2>3 DEF TypeOK
  <2>6. TypeOK'
    <3>1. stream' \in [pc : {"visit", "packetout", "decode", "write"},
                       slot : Slots, op : Blocks \cup {Gap}]
      BY <1>1, <2>1, <2>3 DEF TypeOK
    <3>2. [os[s] EXCEPT !.queue = Tail(q)] \in
            [serial : Serials \cup {0},
             queue : Seq(Blocks \cup {Gap})]
      <4>1. os[s] \in [serial : Serials \cup {0},
                       queue : Seq(Blocks \cup {Gap})]
        BY <1>1 DEF TypeOK
      <4>2. QED
        BY <2>3, <4>1
    <3>3. os' \in [Slots -> [serial : Serials \cup {0},
                             queue : Seq(Blocks \cup {Gap})]]
      BY <1>1, <2>1, <3>2 DEF TypeOK
    <3>4. QED
      BY <1>1, <1>2, <1>3, <2>1, <3>1, <3>3 DEF TypeOK
  <2>7. PunchesUsed'
    BY <1>1, <1>2, <1>3, <2>5 DEF IInv, PunchesUsed, Punching
  <2>8. QueuesOwn'
    <3>1. \A i \in 1 .. Len(os[s].queue) :
            os[s].queue[i] = Gap \/ os[s].queue[i].q = os[s].serial
      BY <1>1 DEF IInv, QueuesOwn
    <3>2. \A i \in 1 .. Len(Tail(q)) : Tail(q)[i] = Gap \/ Tail(q)[i].q = os[s].serial
      BY <2>3, <3>1
    <3>3. \A i \in 1 .. Len(os'[s].queue) :
            os'[s].queue[i] = Gap \/ os'[s].queue[i].q = os'[s].serial
      BY <2>4, <3>2
    <3>4. \A u \in Slots \ {s} : \A i \in 1 .. Len(os'[u].queue) :
            os'[u].queue[i] = Gap \/ os'[u].queue[i].q = os'[u].serial
      BY <2>4 DEF IInv, QueuesOwn
    <3>5. \A u \in Slots : os'[u].serial = os[u].serial
      BY <2>4
    <3>6. QED
      BY <1>2, <3>3, <3>4, <3>5 DEF IInv, QueuesOwn
  <2>9. PacketOwn'
    <3>1. ASSUME ~ reused[s] PROVE q[1] = Gap \/ q[1].q = id[s]
      <4>1. Punching(s) /\ ~ Changing(s) /\ id[s] # 0
        BY <1>1, <3>1 DEF IInv, OverlapNoted, PunchesUsed, Punching
      <4>2. os[s].serial = id[s]
        BY <1>1, <4>1 DEF IInv, QueuesOwn, Changing
      <4>3. q[1] = Gap \/ q[1].q = os[s].serial
        BY <1>1, <2>3 DEF IInv, QueuesOwn
      <4>4. QED
        BY <4>2, <4>3
    <3>2. QED
      BY <1>1, <1>2, <1>3, <2>5, <3>1 DEF PacketOwn, Own
  <2>10. QED
    BY <1>3, <1>4, <2>6, <2>7, <2>8, <2>9 DEF IInv
<1>7. QED
  BY <1>5, <1>6

(* What is decoded is the packet, torn, or what was decoded last. *)
LEMMA DecodeStep ==
  ASSUME IInv, Decode, NoteOverlap PROVE IInv'
<1> DEFINE s == stream.slot
<1>1. TypeOK /\ stream.pc = "decode" /\ s \in Slots
  BY DEF IInv, TypeOK, Decode
<1>2. /\ UNCHANGED <<id, os, active, ring, mixbuf, network, audio, mixed, arrived, traffic, played>>
      /\ stream' = [stream EXCEPT !.pc = "write", !.op = Silence]
      /\ opBody' = "own"
  BY DEF Decode
<1>3. PICK block \in Decoded(s) :
        pcm' = [pcm EXCEPT ![s] = block] /\ dec' = [dec EXCEPT ![s] = block]
  BY DEF Decode
<1>4. OverlapNoted' /\ reused' \in [Slots -> BOOLEAN] /\ \A u \in Slots : reused[u] => reused'[u]
  BY <1>1, Noted
<1>5. block \in Blocks /\ (block = dec[s] \/ block = Torn \/ (block = stream.op /\ stream.op # Gap))
  <2>1. dec[s] \in Blocks /\ stream.op \in Blocks \cup {Gap}
    BY <1>1 DEF TypeOK
  <2>2. CASE stream.op = Gap
    <3>1. block = dec[s]
      BY <2>2, Zenon DEF Decoded
    <3>2. QED
      BY <2>1, <3>1
  <2>3. CASE stream.op # Gap
    <3>1. block \in {stream.op, Torn}
      BY <2>3, Zenon DEF Decoded
    <3>2. QED
      BY <2>1, <2>3, <3>1, BlockFacts
  <2>4. QED
    BY <2>2, <2>3
<1>6. stream'.pc = "write" /\ stream'.slot = s
  BY <1>1, <1>2 DEF TypeOK
<1>7. TypeOK'
  BY <1>1, <1>2, <1>3, <1>4, <1>5, BlockFacts DEF TypeOK
<1>8. PunchesUsed' /\ PacketOwn' /\ NamedAsPage' /\ QueuesOwn' /\ ForeignNeedsOverlap'
  BY <1>1, <1>2, <1>4, <1>6
     DEF IInv, PunchesUsed, Punching, PacketOwn, NamedAsPage, QueuesOwn, ForeignNeedsOverlap, Foreign
<1>9. BuffersOwn'
  <2>1. ASSUME ~ reused[s] PROVE Own(s, block)
    <3>1. ~ Changing(s)
      BY <1>1, <2>1 DEF IInv, OverlapNoted, Punching
    <3>2. Own(s, dec[s])
      BY <1>1, <2>1, <3>1 DEF IInv, BuffersOwn, Changing
    <3>3. Own(s, stream.op) \/ stream.op = Gap
      BY <1>1, <2>1 DEF IInv, PacketOwn
    <3>4. QED
      BY <1>5, <3>2, <3>3 DEF Own
  <2>2. pcm'[s] = block /\ dec'[s] = block /\ \A u \in Slots \ {s} : pcm'[u] = pcm[u] /\ dec'[u] = dec[u]
    BY <1>1, <1>3 DEF TypeOK
  <2>3. QED
    BY <1>2, <1>4, <2>1, <2>2 DEF IInv, BuffersOwn, Own
<1>10. QED
  BY <1>4, <1>7, <1>8, <1>9 DEF IInv

LEMMA DecodeFailsStep ==
  ASSUME IInv, DecodeFails, NoteOverlap PROVE IInv'
<1>1. TypeOK /\ stream.slot \in Slots
  BY DEF IInv, TypeOK
<1>2. /\ UNCHANGED <<id, os, active, ring, pcm, dec, mixbuf, network, audio, mixed,
                     arrived, traffic, played>>
      /\ stream' = [pc |-> "visit", slot |-> NextSlot(stream.slot), op |-> Silence]
      /\ opBody' = "own"
  BY DEF DecodeFails
<1>3. OverlapNoted' /\ reused' \in [Slots -> BOOLEAN] /\ \A u \in Slots : reused[u] => reused'[u]
  BY <1>1, Noted
<1>4. TypeOK'
  BY <1>1, <1>2, <1>3, NextSlotIn, BlockFacts DEF TypeOK
<1>5. PunchesUsed' /\ PacketOwn' /\ NamedAsPage' /\ QueuesOwn'
  BY <1>2 DEF IInv, PunchesUsed, Punching, PacketOwn, NamedAsPage, QueuesOwn
<1>6. BuffersOwn' /\ ForeignNeedsOverlap'
  BY <1>2, <1>3 DEF IInv, BuffersOwn, Own, ForeignNeedsOverlap, Foreign
<1>7. QED
  BY <1>3, <1>4, <1>5, <1>6 DEF IInv

(* The ring gets the block of pcm, if it has room. *)
LEMMA PushFacts ==
  ASSUME NEW block \in Blocks, NEW queue \in Seq(Blocks), Len(queue) <= RingBlocks
  PROVE  /\ Push(queue, block) \in Seq(Blocks) /\ Len(Push(queue, block)) <= RingBlocks
         /\ \A i \in 1 .. Len(Push(queue, block)) :
              \/ Push(queue, block)[i] = block
              \/ i \in 1 .. Len(queue) /\ Push(queue, block)[i] = queue[i]
<1>1. CASE Len(queue) < RingBlocks
  BY <1>1, SlotAssumption DEF Push
<1>2. CASE ~ Len(queue) < RingBlocks
  BY <1>2 DEF Push
<1>3. QED
  BY <1>1, <1>2

LEMMA WriteRingStep ==
  ASSUME IInv, WriteRing, NoteOverlap PROVE IInv'
<1> DEFINE s == stream.slot
           pushed == Push(ring[s], pcm[s])
<1>1. TypeOK /\ stream.pc = "write" /\ s \in Slots /\ pcm[s] \in Blocks
      /\ ring[s] \in Seq(Blocks) /\ Len(ring[s]) <= RingBlocks
  BY DEF IInv, TypeOK, WriteRing
<1>2. /\ UNCHANGED <<id, os, active, pcm, dec, mixbuf, network, opBody, audio,
                     mixed, arrived, traffic, played>>
      /\ stream' = [stream EXCEPT !.pc = "visit", !.slot = NextSlot(@)]
      /\ ring' = [ring EXCEPT ![s] = pushed]
  BY DEF WriteRing
<1>3. OverlapNoted' /\ reused' \in [Slots -> BOOLEAN] /\ \A u \in Slots : reused[u] => reused'[u]
  BY <1>1, Noted
<1>4. /\ pushed \in Seq(Blocks) /\ Len(pushed) <= RingBlocks
      /\ \A i \in 1 .. Len(pushed) :
           pushed[i] = pcm[s] \/ (i \in 1 .. Len(ring[s]) /\ pushed[i] = ring[s][i])
  BY <1>1, PushFacts
<1> HIDE DEF pushed
<1>5. ring'[s] = pushed /\ \A u \in Slots \ {s} : ring'[u] = ring[u]
  BY <1>1, <1>2 DEF TypeOK
<1>6. TypeOK'
  <2>1. ring' \in [Slots -> Seq(Blocks)] /\ \A u \in Slots : Len(ring'[u]) <= RingBlocks
    BY <1>1, <1>2, <1>4, <1>5 DEF TypeOK
  <2>2. QED
    BY <1>1, <1>2, <1>3, <2>1, NextSlotIn DEF TypeOK
<1>7. PunchesUsed' /\ PacketOwn' /\ NamedAsPage' /\ QueuesOwn' /\ ForeignNeedsOverlap'
  BY <1>1, <1>2, <1>3
     DEF IInv, PunchesUsed, Punching, PacketOwn, NamedAsPage, QueuesOwn, ForeignNeedsOverlap, Foreign, TypeOK
<1>8. BuffersOwn'
  <2>1. ASSUME ~ reused[s] PROVE \A i \in 1 .. Len(pushed) : Own(s, pushed[i])
    <3>1. ~ Changing(s)
      BY <1>1, <2>1 DEF IInv, OverlapNoted, Punching
    <3>2. Own(s, pcm[s]) /\ \A i \in 1 .. Len(ring[s]) : Own(s, ring[s][i])
      BY <1>1, <2>1, <3>1 DEF IInv, BuffersOwn, Changing
    <3>3. QED
      BY <1>4, <3>2
  <2>2. QED
    BY <1>2, <1>3, <1>5, <2>1 DEF IInv, BuffersOwn, Own
<1>9. QED
  BY <1>3, <1>6, <1>7, <1>8 DEF IInv

-----------------------------------------------------------------------------
(* The slot a new stream takes is free, so its buffers are silent, and the  *)
(* stream thread is not punching it.                                        *)
LEMMA ReceivePageStep ==
  ASSUME IInv, NEW q \in Serials, ReceivePage(q), NoteOverlap PROVE IInv'
<1>1. TypeOK /\ network.pc = "select"
  BY DEF IInv, ReceivePage
<1>2. /\ arrived' = [arrived EXCEPT ![q] = arrived[q] + 1]
      /\ arrived[q] < MaxPages
  BY DEF ReceivePage
<1>3. /\ UNCHANGED <<os, active, ring, pcm, dec, mixbuf, stream, opBody, audio, mixed, played>>
      /\ traffic' = traffic + 1 /\ traffic < MaxTraffic
  BY DEF ReceivePage
<1>4. OverlapNoted' /\ reused' \in [Slots -> BOOLEAN] /\ \A u \in Slots : reused[u] => reused'[u]
  BY <1>1, Noted
<1>5. arrived'[q] \in 1 .. MaxPages /\ arrived'[q] = arrived[q] + 1
  BY <1>1, <1>2, BoundAssumption DEF TypeOK
<1>6. Block(q, arrived'[q]) \in Blocks /\ Block(q, arrived'[q]).q = q
  BY <1>5, BlockFacts
<1> DEFINE page == Block(q, arrived'[q])
<1> HIDE DEF page
<1>7. PICK s \in Slots :
        \/ /\ network' = [pc |-> "pagein", slot |-> s, page |-> page]
           /\ UNCHANGED id
        \/ /\ network' = [pc |-> "init", slot |-> s, page |-> page]
           /\ id[s] = 0
           /\ id' = [id EXCEPT ![s] = q]
  BY DEF ReceivePage, First, page
<1>8. page \in Blocks /\ page.q = q
  BY <1>6 DEF page
<1>9. TypeOK'
  <2>1. network' \in [pc : {"select", "init", "pagein", "check", "clear", "flush"},
                      slot : 0 .. N, page : Blocks]
    BY <1>7, <1>8, SlotAssumption DEF Slots
  <2>2. id' \in [Slots -> Serials \cup {0}]
    BY <1>1, <1>7 DEF TypeOK
  <2>3. arrived' \in [Serials -> 0 .. MaxPages] /\ traffic' \in 0 .. MaxTraffic
    BY <1>1, <1>2, <1>3, <1>5, BoundAssumption DEF TypeOK
  <2>4. QED
    BY <1>1, <1>3, <1>4, <2>1, <2>2, <2>3 DEF TypeOK
<1>10. ForeignNeedsOverlap'
  BY <1>3, <1>4 DEF IInv, ForeignNeedsOverlap, Foreign
<1>11. CASE network' = [pc |-> "pagein", slot |-> s, page |-> page] /\ UNCHANGED id
  <2> network'.pc = "pagein" /\ network'.slot = s /\ network'.page = page /\ id' = id
    BY <1>11
  <2>1. PunchesUsed' /\ PacketOwn'
    BY <1>1, <1>3, <1>4 DEF IInv, PunchesUsed, Punching, PacketOwn, Own, TypeOK
  <2>2. NamedAsPage'
    BY <1>8 DEF NamedAsPage
  <2>4. QueuesOwn' /\ BuffersOwn'
    BY <1>1, <1>3, <1>4 DEF IInv, QueuesOwn, BuffersOwn, Own
  <2>3. QED
    BY <1>4, <1>9, <1>10, <2>1, <2>2, <2>4 DEF IInv
<1>12. CASE /\ network' = [pc |-> "init", slot |-> s, page |-> page]
            /\ id[s] = 0
            /\ id' = [id EXCEPT ![s] = q]
  <2>1. /\ id'[s] = q /\ q # 0 /\ \A u \in Slots \ {s} : id'[u] = id[u]
        /\ network'.pc = "init" /\ network'.slot = s /\ network'.page.q = q
    BY <1>1, <1>8, <1>12, SerialFacts DEF TypeOK
  <2>2. PunchesUsed'
    BY <1>3, <1>4, <2>1 DEF IInv, PunchesUsed, Punching
  <2>3. NamedAsPage'
    BY <2>1 DEF NamedAsPage
  <2>4. QueuesOwn'
    BY <1>1, <1>3, <2>1 DEF IInv, QueuesOwn
  <2>5. PacketOwn'
    <3>1. CASE stream.slot = s /\ stream.pc = "decode"
      BY <1>4, <1>12, <3>1, <1>3 DEF IInv, PunchesUsed, Punching, PacketOwn
    <3>2. CASE stream.slot # s /\ stream.slot \in Slots
      BY <1>3, <1>4, <2>1, <3>2 DEF IInv, PacketOwn, Own
    <3>3. stream.slot \in Slots
      BY <1>1 DEF TypeOK
    <3>4. QED
      BY <1>3, <3>1, <3>2, <3>3 DEF PacketOwn
  <2>6. BuffersOwn'
    <3>1. ASSUME ~ reused[s]
          PROVE  /\ pcm[s] \in {Silence, Torn} /\ dec[s] \in {Silence, Torn}
                 /\ mixbuf[s] \in {Silence, Torn}
                 /\ \A i \in 1 .. Len(ring[s]) : ring[s][i] \in {Silence, Torn}
      <4>1. /\ Own(s, pcm[s]) /\ Own(s, dec[s]) /\ Own(s, mixbuf[s])
            /\ \A i \in 1 .. Len(ring[s]) : Own(s, ring[s][i])
        BY <1>1, <3>1 DEF IInv, BuffersOwn
      <4>2. /\ pcm[s] \in Blocks /\ dec[s] \in Blocks /\ mixbuf[s] \in Blocks
            /\ \A i \in 1 .. Len(ring[s]) : ring[s][i] \in Blocks
        BY <1>1 DEF TypeOK
      <4>3. QED
        BY <1>1, <1>12, <4>1, <4>2, FreeOwn
    <3>3. QED
      BY <1>1, <1>3, <1>4, <2>1, <3>1 DEF IInv, BuffersOwn, Own
  <2>7. QED
    BY <1>4, <1>9, <1>10, <2>2, <2>3, <2>4, <2>5, <2>6 DEF IInv
<1>13. QED
  BY <1>7, <1>11, <1>12

(* The queue begins anew, for the stream the slot is named after. *)
LEMMA InitStreamStep ==
  ASSUME IInv, InitStream, NoteOverlap PROVE IInv'
<1> DEFINE s == network.slot
<1>1. TypeOK /\ network.pc = "init" /\ s \in Slots /\ id[s] = network.page.q
      /\ network.page.q \in Serials
  BY DEF IInv, InitStream, NamedAsPage
<1>2. /\ os' = [os EXCEPT ![s] = FreshOs(network.page.q)]
      /\ opBody' = IF stream.slot = s THEN "own" ELSE opBody
      /\ network' = [network EXCEPT !.pc = "pagein"]
      /\ UNCHANGED <<id, active, ring, pcm, dec, mixbuf, stream, audio, mixed, arrived, traffic, played>>
  BY DEF InitStream, InitOs
<1>3. OverlapNoted' /\ reused' \in [Slots -> BOOLEAN] /\ \A u \in Slots : reused[u] => reused'[u]
  BY <1>1, Noted
<1>4. network'.pc = "pagein" /\ network'.slot = s /\ network'.page = network.page
  BY <1>1, <1>2 DEF TypeOK
<1>5. FreshOs(network.page.q) = [serial |-> network.page.q, queue |-> <<>>]
  BY DEF FreshOs
<1>6. TypeOK'
  <2>1. FreshOs(network.page.q) \in [serial : Serials \cup {0},
                                     queue : Seq(Blocks \cup {Gap})]
    BY <1>1, <1>5, BoundAssumption
  <2>2. os' \in [Slots -> [serial : Serials \cup {0},
                           queue : Seq(Blocks \cup {Gap})]]
    BY <1>1, <1>2, <2>1 DEF TypeOK
  <2>3. network' \in [pc : {"select", "init", "pagein", "check", "clear", "flush"},
                      slot : 0 .. N, page : Blocks]
    BY <1>1, <1>2 DEF TypeOK
  <2>4. QED
    BY <1>1, <1>2, <1>3, <2>2, <2>3 DEF TypeOK
<1>7. PunchesUsed' /\ NamedAsPage' /\ PacketOwn' /\ ForeignNeedsOverlap'
  BY <1>1, <1>2, <1>3, <1>4
     DEF IInv, PunchesUsed, Punching, NamedAsPage, PacketOwn, Own, ForeignNeedsOverlap, Foreign, TypeOK
<1>8. QueuesOwn'
  <2>1. /\ os'[s].serial = id[s] /\ os'[s].queue = <<>>
        /\ \A u \in Slots \ {s} : os'[u] = os[u]
    BY <1>1, <1>2, <1>5 DEF TypeOK
  <2>2. QED
    BY <1>1, <1>2, <1>4, <2>1 DEF IInv, QueuesOwn
<1>9. BuffersOwn'
  BY <1>1, <1>2, <1>3, <1>4 DEF IInv, BuffersOwn, Own
<1>10. QED
  BY <1>3, <1>6, <1>7, <1>8, <1>9 DEF IInv

(* A page only enters a queue of its own serial. *)
LEMMA PagedInFacts ==
  ASSUME NEW state \in [serial : Serials \cup {0},
                        queue : Seq(Blocks \cup {Gap})],
         NEW page \in Blocks, page.q \in Serials, page.q = state.serial,
         NEW hole \in BOOLEAN,
         \A i \in 1 .. Len(state.queue) :
           state.queue[i] = Gap \/ state.queue[i].q = state.serial
  PROVE  LET next == PagedIn(state, page, hole)
         IN /\ next \in [serial : Serials \cup {0},
                         queue : Seq(Blocks \cup {Gap})]
            /\ next.serial = state.serial
            /\ \A i \in 1 .. Len(next.queue) :
                 next.queue[i] = Gap \/ next.queue[i].q = state.serial
<1> DEFINE more == IF hole THEN <<Gap, page>> ELSE <<page>>
<1>1. PagedIn(state, page, hole) = [state EXCEPT !.queue = @ \o more]
  BY DEF PagedIn
<1>2. /\ more \in Seq(Blocks \cup {Gap})
      /\ \A i \in 1 .. Len(more) : more[i] = Gap \/ more[i].q = state.serial
  <2>0. more = <<page>> \/ more = <<Gap, page>>
    OBVIOUS
  <2> HIDE DEF more
  <2>1. CASE more = <<page>>
    <3>1. <<page>> \in Seq(Blocks \cup {Gap}) /\ Len(<<page>>) = 1 /\ <<page>>[1] = page
      OBVIOUS
    <3>2. QED
      BY <2>1, <3>1
  <2>2. CASE more = <<Gap, page>>
    <3>1. /\ <<Gap, page>> \in Seq(Blocks \cup {Gap}) /\ Len(<<Gap, page>>) = 2
          /\ <<Gap, page>>[1] = Gap /\ <<Gap, page>>[2] = page
      OBVIOUS
    <3>2. QED
      BY <2>2, <3>1
  <2>3. QED
    BY <2>0, <2>1, <2>2
<1> HIDE DEF more
<1> DEFINE q == state.queue \o more
<1>3. /\ q \in Seq(Blocks \cup {Gap})
      /\ \A i \in 1 .. Len(q) : q[i] = Gap \/ q[i].q = state.serial
  BY <1>2
<1> HIDE DEF q
<1>4. PagedIn(state, page, hole) = [state EXCEPT !.queue = q]
  BY <1>1 DEF q
<1>5. QED
  BY <1>3, <1>4

LEMMA PageInStep ==
  ASSUME IInv, PageIn, NoteOverlap PROVE IInv'
<1>0. PICK hole \in BOOLEAN :
        os' = [os EXCEPT ![network.slot] = IF os[network.slot].serial = network.page.q
                                           THEN PagedIn(@, network.page, hole) ELSE @]
  BY DEF PageIn
<1> DEFINE s == network.slot
           page == network.page
           paged == IF os[s].serial = page.q THEN PagedIn(os[s], page, hole) ELSE os[s]
           OsType == [serial : Serials \cup {0}, queue : Seq(Blocks \cup {Gap})]
<1>1. TypeOK /\ network.pc = "pagein" /\ s \in Slots /\ page.q \in Serials
      /\ page \in Blocks /\ os[s] \in OsType
  BY DEF IInv, PageIn, NamedAsPage, TypeOK
<1>2. /\ os' = [os EXCEPT ![s] = paged]
      /\ opBody' = IF stream.slot = s /\ opBody = "shared" THEN "moved" ELSE opBody
      /\ network' = Waiting
      /\ UNCHANGED <<id, active, ring, pcm, dec, mixbuf, stream, audio, mixed, arrived, traffic, played>>
  BY <1>0 DEF PageIn
<1>3. OverlapNoted' /\ reused' \in [Slots -> BOOLEAN] /\ \A u \in Slots : reused[u] => reused'[u]
  BY <1>1, Noted
<1>4. /\ paged \in OsType /\ paged.serial = os[s].serial
      /\ \A i \in 1 .. Len(paged.queue) :
           paged.queue[i] = Gap \/ paged.queue[i].q = os[s].serial
  <2>1. \A i \in 1 .. Len(os[s].queue) : os[s].queue[i] = Gap \/ os[s].queue[i].q = os[s].serial
    BY <1>1 DEF IInv, QueuesOwn
  <2>2. CASE os[s].serial = page.q
    <3>1. paged = PagedIn(os[s], page, hole)
      BY <2>2
    <3>2. QED
      BY <1>1, <2>1, <2>2, <3>1, PagedInFacts
  <2>3. CASE os[s].serial # page.q
    BY <1>1, <2>1, <2>3
  <2>4. QED
    BY <2>2, <2>3
<1> HIDE DEF paged
<1>5. os'[s] = paged /\ \A u \in Slots \ {s} : os'[u] = os[u]
  BY <1>1, <1>2 DEF TypeOK
<1>6. network'.pc = "select" /\ network'.slot = 0 /\ network' = [pc |-> "select", slot |-> 0, page |-> Silence]
  BY <1>2 DEF Waiting
<1>7. TypeOK'
  <2>1. os' \in [Slots -> OsType]
    BY <1>1, <1>2, <1>4 DEF TypeOK
  <2>2. network' \in [pc : {"select", "init", "pagein", "check", "clear", "flush"},
                      slot : 0 .. N, page : Blocks]
    BY <1>6, BlockFacts, SlotAssumption
  <2>3. opBody' \in {"own", "shared", "moved"}
    BY <1>1, <1>2 DEF TypeOK
  <2>4. QED
    BY <1>1, <1>2, <1>3, <2>1, <2>2, <2>3 DEF TypeOK
<1>8. PunchesUsed' /\ PacketOwn' /\ ForeignNeedsOverlap'
  BY <1>1, <1>2, <1>3
     DEF IInv, PunchesUsed, Punching, PacketOwn, Own, ForeignNeedsOverlap, Foreign, TypeOK
<1>9. NamedAsPage'
  BY <1>6, SlotAssumption DEF NamedAsPage, Slots
<1>10. QueuesOwn'
  BY <1>1, <1>2, <1>4, <1>5, <1>6 DEF IInv, QueuesOwn
<1>11. BuffersOwn'
  BY <1>1, <1>2, <1>3, <1>6 DEF IInv, BuffersOwn, Own
<1>12. QED
  BY <1>3, <1>7, <1>8, <1>9, <1>10, <1>11 DEF IInv

-----------------------------------------------------------------------------
LEMMA StartCheckStep ==
  ASSUME IInv, StartCheck, NoteOverlap PROVE IInv'
<1>1. TypeOK /\ network.pc = "select"
  BY DEF IInv, StartCheck
<1>2. /\ network' = [network EXCEPT !.pc = "check", !.slot = 0]
      /\ UNCHANGED <<id, os, active, ring, pcm, dec, mixbuf, stream, opBody, audio,
                     mixed, arrived, traffic, played>>
  BY DEF StartCheck
<1>3. OverlapNoted' /\ reused' \in [Slots -> BOOLEAN] /\ \A u \in Slots : reused[u] => reused'[u]
  BY <1>1, Noted
<1>4. network'.pc = "check" /\ network'.slot = 0
  BY <1>1, <1>2 DEF TypeOK
<1>5. TypeOK'
  <2>1. network' \in [pc : {"select", "init", "pagein", "check", "clear", "flush"},
                      slot : 0 .. N, page : Blocks]
    <3>1. 0 \in 0 .. N
      BY SlotAssumption
    <3>2. QED
      BY <1>1, <1>2, <3>1 DEF TypeOK
  <2>2. QED
    BY <1>1, <1>2, <1>3, <2>1 DEF TypeOK
<1>6. PunchesUsed' /\ PacketOwn' /\ ForeignNeedsOverlap' /\ NamedAsPage'
  BY <1>1, <1>2, <1>3, <1>4
     DEF IInv, PunchesUsed, Punching, PacketOwn, Own, ForeignNeedsOverlap, Foreign, NamedAsPage, TypeOK
<1>7. QueuesOwn' /\ BuffersOwn'
  BY <1>1, <1>2, <1>3, <1>4 DEF IInv, QueuesOwn, BuffersOwn, Own
<1>8. QED
  BY <1>3, <1>5, <1>6, <1>7 DEF IInv

(* A slot that loses its id while it is punched counts as reused. *)
LEMMA CheckSlotStep ==
  ASSUME IInv, CheckSlot, NoteOverlap PROVE IInv'
<1> DEFINE s == network.slot
<1>1. TypeOK /\ network.pc = "check" /\ s \in 0 .. N
  BY DEF IInv, CheckSlot, TypeOK
<1>2. UNCHANGED <<os, active, ring, pcm, dec, mixbuf, stream, opBody, audio,
                  mixed, arrived, traffic, played>>
  BY DEF CheckSlot
<1>3. OverlapNoted' /\ reused' \in [Slots -> BOOLEAN] /\ \A u \in Slots : reused[u] => reused'[u]
  BY <1>1, Noted
<1>4. ForeignNeedsOverlap'
  BY <1>2, <1>3 DEF IInv, ForeignNeedsOverlap, Foreign
<1>5. CASE UNCHANGED id /\ (network' = Waiting \/ (network' = [network EXCEPT !.slot = @ + 1] /\ s < N))
  <2>1. /\ network'.pc \in {"select", "check"} /\ network'.slot \in 0 .. N
        /\ network'.pc = "select" => network'.slot \in Slots
    BY <1>1, <1>5, SlotAssumption DEF TypeOK, Waiting, Slots
  <2>2. network' \in [pc : {"select", "init", "pagein", "check", "clear", "flush"},
                      slot : 0 .. N, page : Blocks]
    <3>1. CASE network' = Waiting
      BY <3>1, BlockFacts, SlotAssumption DEF Waiting
    <3>2. CASE network' = [network EXCEPT !.slot = @ + 1] /\ s < N
      <4>1. s + 1 \in 0 .. N
        BY <1>1, <3>2, SlotAssumption
      <4>2. QED
        BY <1>1, <3>2, <4>1 DEF TypeOK
    <3>3. QED
      BY <1>5, <3>1, <3>2
  <2>3. TypeOK'
    BY <1>1, <1>2, <1>3, <1>5, <2>2 DEF TypeOK
  <2>4. PunchesUsed' /\ PacketOwn' /\ NamedAsPage'
    BY <1>1, <1>2, <1>3, <1>5, <2>1
       DEF IInv, PunchesUsed, Punching, PacketOwn, Own, NamedAsPage, TypeOK
  <2>5. QueuesOwn' /\ BuffersOwn'
    BY <1>1, <1>2, <1>3, <1>5, <2>1 DEF IInv, QueuesOwn, BuffersOwn, Own
  <2>6. QED
    BY <1>3, <1>4, <2>3, <2>4, <2>5 DEF IInv
<1>6. CASE /\ s \in Slots /\ id' = [id EXCEPT ![s] = 0]
           /\ network' = [network EXCEPT !.pc = "clear"]
  <2>1. network'.pc = "clear" /\ network'.slot = s
    BY <1>1, <1>6 DEF TypeOK
  <2>2. id'[s] = 0 /\ \A u \in Slots \ {s} : id'[u] = id[u]
    BY <1>1, <1>6 DEF TypeOK
  <2>3. TypeOK'
    BY <1>1, <1>2, <1>3, <1>6 DEF TypeOK
  <2>4. stream.pc # "visit" /\ stream.slot = s => reused'[s]
    BY <1>2, <1>3, <1>6, <2>1 DEF OverlapNoted, Changing, Punching
  <2>5. PunchesUsed'
    BY <1>2, <1>3, <2>2, <2>4 DEF IInv, PunchesUsed, Punching
  <2>6. PacketOwn'
    <3>1. CASE stream.slot = s
      BY <1>2, <2>4, <3>1 DEF PacketOwn
    <3>2. CASE stream.slot # s
      BY <1>1, <1>2, <1>3, <2>2, <3>2 DEF IInv, PacketOwn, Own, TypeOK
    <3>3. QED
      BY <3>1, <3>2
  <2>7. NamedAsPage'
    BY <1>6, <2>1, <2>2 DEF NamedAsPage
  <2>8. QueuesOwn'
    BY <1>1, <1>2, <2>1, <2>2 DEF IInv, QueuesOwn
  <2>9. BuffersOwn'
    BY <1>1, <1>2, <1>3, <2>1, <2>2 DEF IInv, BuffersOwn, Own
  <2>10. QED
    BY <1>3, <1>4, <2>3, <2>5, <2>6, <2>7, <2>8, <2>9 DEF IInv
<1>7. QED
  <2>1. s < N => s \in Slots
    BY <1>1, SlotAssumption DEF Slots
  <2>2. QED
    BY <1>5, <1>6, <2>1 DEF CheckSlot

(* Whatever a slot held, it is silence afterwards. *)
LEMMA ClearBuffersStep ==
  ASSUME IInv, ClearBuffers, NoteOverlap PROVE IInv'
<1> DEFINE s == network.slot
           cleared == [i \in DOMAIN ring[s] |-> Silence]
<1>1. TypeOK /\ network.pc = "clear" /\ s \in Slots
  BY DEF IInv, ClearBuffers, NamedAsPage
<1>2. /\ ring' = [ring EXCEPT ![s] = cleared]
      /\ pcm' = [pcm EXCEPT ![s] = Silence]
      /\ mixbuf' = [mixbuf EXCEPT ![s] = Silence]
      /\ dec' = [dec EXCEPT ![s] = Silence]
      /\ network' = [network EXCEPT !.pc = "flush"]
      /\ UNCHANGED <<id, os, active, stream, opBody, audio, mixed, arrived, traffic, played>>
  BY DEF ClearBuffers
<1>3. OverlapNoted' /\ reused' \in [Slots -> BOOLEAN] /\ \A u \in Slots : reused[u] => reused'[u]
  BY <1>1, Noted
<1>4. /\ cleared \in Seq(Blocks) /\ Len(cleared) <= RingBlocks
      /\ \A i \in 1 .. Len(cleared) : cleared[i] = Silence
  <2>1. ring[s] \in Seq(Blocks) /\ Len(ring[s]) <= RingBlocks
    BY <1>1 DEF TypeOK
  <2>2. DOMAIN ring[s] = 1 .. Len(ring[s]) /\ Len(ring[s]) \in Nat
    BY <2>1
  <2> DEFINE n == Len(ring[s])
  <2>3. cleared = [i \in 1 .. n |-> Silence]
    BY <2>2, Zenon
  <2> HIDE DEF n, cleared
  <2>4. n \in Nat /\ n <= RingBlocks
    BY <2>1, <2>2 DEF n
  <2>5. QED
    BY <2>3, <2>4, BlockFacts
<1> HIDE DEF cleared
<1>5. network'.pc = "flush" /\ network'.slot = s
  BY <1>1, <1>2 DEF TypeOK
<1>6. /\ ring'[s] = cleared /\ pcm'[s] = Silence /\ mixbuf'[s] = Silence /\ dec'[s] = Silence
      /\ \A u \in Slots \ {s} : /\ ring'[u] = ring[u] /\ pcm'[u] = pcm[u]
                                /\ mixbuf'[u] = mixbuf[u] /\ dec'[u] = dec[u]
  BY <1>1, <1>2 DEF TypeOK
<1>7. TypeOK'
  <2>1. ring' \in [Slots -> Seq(Blocks)] /\ \A u \in Slots : Len(ring'[u]) <= RingBlocks
    BY <1>1, <1>2, <1>4, <1>6 DEF TypeOK
  <2>2. pcm' \in [Slots -> Blocks] /\ dec' \in [Slots -> Blocks] /\ mixbuf' \in [Slots -> Blocks]
    BY <1>1, <1>2, BlockFacts DEF TypeOK
  <2>3. QED
    BY <1>1, <1>2, <1>3, <2>1, <2>2 DEF TypeOK
<1>8. PunchesUsed' /\ PacketOwn' /\ ForeignNeedsOverlap'
  BY <1>1, <1>2, <1>3
     DEF IInv, PunchesUsed, Punching, PacketOwn, Own, ForeignNeedsOverlap, Foreign, TypeOK
<1>9. NamedAsPage' /\ QueuesOwn'
  BY <1>1, <1>2, <1>5 DEF IInv, NamedAsPage, QueuesOwn
<1>10. BuffersOwn'
  BY <1>1, <1>2, <1>3, <1>4, <1>5, <1>6 DEF IInv, BuffersOwn, Own
<1>11. QED
  BY <1>3, <1>7, <1>8, <1>9, <1>10 DEF IInv

LEMMA FlushRingStep ==
  ASSUME IInv, FlushRing, NoteOverlap PROVE IInv'
<1> DEFINE s == network.slot
<1>1. TypeOK /\ network.pc = "flush" /\ s \in Slots
  BY DEF IInv, FlushRing, NamedAsPage
<1>2. /\ ring' = [ring EXCEPT ![s] = <<>>]
      /\ network' = [network EXCEPT !.pc = "check", !.slot = @ + 1]
      /\ UNCHANGED <<id, os, active, pcm, dec, mixbuf, stream, opBody, audio, mixed,
                     arrived, traffic, played>>
  BY DEF FlushRing
<1>3. OverlapNoted' /\ reused' \in [Slots -> BOOLEAN] /\ \A u \in Slots : reused[u] => reused'[u]
  BY <1>1, Noted
<1>4. network'.pc = "check" /\ s + 1 \in 0 .. N
  BY <1>1, <1>2, SlotAssumption DEF TypeOK, Slots
<1>5. ring'[s] = <<>> /\ \A u \in Slots \ {s} : ring'[u] = ring[u]
  BY <1>1, <1>2 DEF TypeOK
<1>6. TypeOK'
  <2>1. ring' \in [Slots -> Seq(Blocks)] /\ \A u \in Slots : Len(ring'[u]) <= RingBlocks
    BY <1>1, <1>2, <1>5, SlotAssumption DEF TypeOK
  <2>2. network' \in [pc : {"select", "init", "pagein", "check", "clear", "flush"},
                      slot : 0 .. N, page : Blocks]
    BY <1>1, <1>2, <1>4 DEF TypeOK
  <2>3. QED
    BY <1>1, <1>2, <1>3, <2>1, <2>2 DEF TypeOK
<1>7. PunchesUsed' /\ PacketOwn' /\ ForeignNeedsOverlap' /\ NamedAsPage'
  BY <1>1, <1>2, <1>3, <1>4
     DEF IInv, PunchesUsed, Punching, PacketOwn, Own, ForeignNeedsOverlap, Foreign, NamedAsPage, TypeOK
<1>8. QueuesOwn'
  BY <1>1, <1>2, <1>4 DEF IInv, QueuesOwn
<1>9. BuffersOwn'
  BY <1>1, <1>2, <1>3, <1>4, <1>5 DEF IInv, BuffersOwn, Own
<1>10. QED
  BY <1>3, <1>6, <1>7, <1>8, <1>9 DEF IInv

-----------------------------------------------------------------------------
LEMMA CheckActiveStep ==
  ASSUME IInv, CheckActive, NoteOverlap PROVE IInv'
<1> DEFINE s == audio.slot
<1>1. TypeOK /\ audio.pc = "check" /\ s \in Slots
  <2>1. TypeOK /\ audio.pc = "check" /\ s < N
    BY DEF IInv, CheckActive
  <2>2. s \in 0 .. N
    BY <2>1 DEF TypeOK
  <2>3. QED
    BY <2>1, <2>2, SlotAssumption DEF Slots
<1>2. /\ UNCHANGED <<id, os, pcm, dec, mixbuf, network, stream, opBody, arrived, traffic, played>>
      /\ mixed' = [u \in Slots |-> Nothing]
      /\ ring' = ring \/ ring' = [ring EXCEPT ![s] = <<>>]
      /\ active' = active \/ active' = [active EXCEPT ![s] = TRUE]
      /\ audio' = [audio EXCEPT !.slot = @ + 1] \/ audio' = [audio EXCEPT !.pc = "read"]
  BY DEF CheckActive
<1>3. OverlapNoted' /\ reused' \in [Slots -> BOOLEAN] /\ \A u \in Slots : reused[u] => reused'[u]
  BY <1>1, Noted
<1>4. \A u \in Slots : ring'[u] = ring[u] \/ ring'[u] = <<>>
  BY <1>1, <1>2 DEF TypeOK
<1>5. TypeOK'
  <2>1. ring' \in [Slots -> Seq(Blocks)] /\ \A u \in Slots : Len(ring'[u]) <= RingBlocks
    <3>1. <<>> \in Seq(Blocks) /\ Len(<<>>) <= RingBlocks
      BY SlotAssumption
    <3>2. ring' \in [Slots -> Seq(Blocks)]
      BY <1>1, <1>2, <3>1 DEF TypeOK
    <3>3. QED
      BY <1>1, <1>4, <3>1, <3>2 DEF TypeOK
  <2>2. audio' \in [pc : {"check", "read"}, slot : 0 .. N]
    <3>1. s + 1 \in 0 .. N
      BY <1>1, SlotAssumption DEF Slots
    <3>2. QED
      BY <1>1, <1>2, <3>1 DEF TypeOK
  <2>6. audio'.pc = "read" => audio'.slot \in Slots
    BY <1>1, <1>2 DEF TypeOK
  <2>3. active' \in [Slots -> BOOLEAN]
    BY <1>1, <1>2 DEF TypeOK
  <2>4. mixed' \in [Slots -> [id : Serials \cup {0}, block : Blocks]]
    BY <1>2, BlockFacts DEF Nothing
  <2>5. QED
    BY <1>1, <1>2, <1>3, <2>1, <2>2, <2>3, <2>4, <2>6 DEF TypeOK
<1>6. PunchesUsed' /\ NamedAsPage' /\ QueuesOwn' /\ PacketOwn'
  BY <1>1, <1>2, <1>3 DEF IInv, PunchesUsed, Punching, NamedAsPage, QueuesOwn, PacketOwn, Own, TypeOK
<1>7. BuffersOwn'
  <2>1. \A u \in Slots : \A i \in 1 .. Len(ring'[u]) :
          i \in 1 .. Len(ring[u]) /\ ring'[u][i] = ring[u][i]
    BY <1>4
  <2>2. QED
    BY <1>2, <1>3, <2>1 DEF IInv, BuffersOwn, Own
<1>8. ForeignNeedsOverlap'
  BY <1>2 DEF ForeignNeedsOverlap, Foreign, Nothing
<1>9. QED
  BY <1>3, <1>5, <1>6, <1>7, <1>8 DEF IInv

LEMMA ReadRingStep ==
  ASSUME IInv, ReadRing, NoteOverlap PROVE IInv'
<1> DEFINE s == audio.slot
           head == IF ring[s] = <<>> THEN mixbuf[s] ELSE Head(ring[s])
           rest == IF ring[s] = <<>> THEN ring[s] ELSE Tail(ring[s])
<1>1. TypeOK /\ audio.pc = "read" /\ s \in Slots
  BY DEF IInv, ReadRing, TypeOK
<1>2. /\ mixbuf' = [mixbuf EXCEPT ![s] = head]
      /\ ring' = [ring EXCEPT ![s] = rest]
      /\ audio' = [pc |-> "check", slot |-> s + 1]
      /\ UNCHANGED <<id, os, active, pcm, dec, network, stream, opBody, mixed,
                     arrived, traffic, played>>
  BY DEF ReadRing
<1>3. OverlapNoted' /\ reused' \in [Slots -> BOOLEAN] /\ \A u \in Slots : reused[u] => reused'[u]
  BY <1>1, Noted
<1>4. /\ rest \in Seq(Blocks) /\ Len(rest) <= RingBlocks /\ head \in Blocks
      /\ head = mixbuf[s] \/ (1 \in 1 .. Len(ring[s]) /\ head = ring[s][1])
      /\ \A i \in 1 .. Len(rest) : \E j \in 1 .. Len(ring[s]) : rest[i] = ring[s][j]
  <2>1. ring[s] \in Seq(Blocks) /\ Len(ring[s]) <= RingBlocks /\ mixbuf[s] \in Blocks
    BY <1>1 DEF TypeOK
  <2>2. CASE ring[s] = <<>>
    BY <2>1, <2>2
  <2>3. CASE ring[s] # <<>>
    <3> DEFINE q == ring[s]
    <3>1. /\ Len(q) \in Nat \ {0} /\ Head(q) = q[1] /\ q[1] \in Blocks
          /\ Tail(q) \in Seq(Blocks) /\ Len(Tail(q)) = Len(q) - 1
          /\ \A i \in 1 .. Len(q) - 1 : Tail(q)[i] = q[i + 1]
      BY <2>1, <2>3
    <3>2. head = q[1] /\ rest = Tail(q)
      BY <2>3, <3>1
    <3> HIDE DEF head, rest, q
    <3>3. q = ring[s]
      BY DEF q
    <3>4. \A i \in 1 .. Len(rest) : i + 1 \in 1 .. Len(q) /\ rest[i] = q[i + 1]
      BY <3>1, <3>2
    <3>5. Len(rest) <= RingBlocks /\ 1 \in 1 .. Len(q)
      BY <2>1, <3>1, <3>2, <3>3, SlotAssumption
    <3>6. QED
      BY <3>1, <3>2, <3>3, <3>4, <3>5
  <2>4. QED
    BY <2>2, <2>3
<1> HIDE DEF head, rest
<1>5. /\ mixbuf'[s] = head /\ ring'[s] = rest
      /\ \A u \in Slots \ {s} : mixbuf'[u] = mixbuf[u] /\ ring'[u] = ring[u]
  BY <1>1, <1>2 DEF TypeOK
<1>6. TypeOK'
  <2>1. ring' \in [Slots -> Seq(Blocks)] /\ \A u \in Slots : Len(ring'[u]) <= RingBlocks
    BY <1>1, <1>2, <1>4, <1>5 DEF TypeOK
  <2>2. mixbuf' \in [Slots -> Blocks]
    BY <1>1, <1>2, <1>4 DEF TypeOK
  <2>3. /\ audio' \in [pc : {"check", "read"}, slot : 0 .. N]
        /\ audio'.pc = "read" => audio'.slot \in Slots
    BY <1>1, <1>2, SlotAssumption DEF Slots
  <2>4. QED
    BY <1>1, <1>2, <1>3, <2>1, <2>2, <2>3 DEF TypeOK
<1>7. PunchesUsed' /\ NamedAsPage' /\ QueuesOwn' /\ PacketOwn' /\ ForeignNeedsOverlap'
  BY <1>1, <1>2, <1>3
     DEF IInv, PunchesUsed, Punching, NamedAsPage, QueuesOwn, PacketOwn, Own, TypeOK,
         ForeignNeedsOverlap, Foreign
<1>8. BuffersOwn'
  <2>1. ASSUME ~ reused[s], ~ (network.pc = "clear" /\ network.slot = s)
        PROVE  Own(s, head) /\ \A i \in 1 .. Len(rest) : Own(s, rest[i])
    <3>1. Own(s, mixbuf[s]) /\ \A j \in 1 .. Len(ring[s]) : Own(s, ring[s][j])
      BY <1>1, <2>1 DEF IInv, BuffersOwn
    <3>2. QED
      BY <1>4, <3>1
  <2>2. QED
    BY <1>2, <1>3, <1>5, <2>1 DEF IInv, BuffersOwn, Own
<1>9. QED
  BY <1>3, <1>6, <1>7, <1>8 DEF IInv

(* A non-empty set of numbers up to MaxPages has a highest. *)
LEMMA HighestIn ==
  ASSUME NEW S, S \subseteq 0 .. MaxPages, S # {}
  PROVE  Highest(S) \in S
<1> DEFINE T == {MaxPages - n : n \in S}
           R == OpToRel(<, Nat)
<1>1. T \subseteq Nat /\ T # {}
  <2>1. \A n \in S : MaxPages - n \in Nat
    BY BoundAssumption
  <2>2. QED
    BY <2>1
<1>2. IsWellFoundedOn(R, Nat)
  BY NatLessThanWellFounded
<1>3. PICK x \in T : \A y \in T : <<y, x>> \notin R
  <2> HIDE DEF T, R
  <2>1. QED
    BY <1>1, <1>2, WFMin
<1>4. PICK n \in S : x = MaxPages - n
  OBVIOUS
<1>5. \A m \in S : m <= n
  <2> SUFFICES ASSUME NEW m \in S, ~ m <= n PROVE FALSE
    OBVIOUS
  <2>1. m \in 0 .. MaxPages /\ n \in 0 .. MaxPages
    OBVIOUS
  <2>2. MaxPages - m \in Nat /\ x \in Nat /\ MaxPages - m < x
    BY <1>4, <2>1, BoundAssumption
  <2>3. MaxPages - m \in T
    OBVIOUS
  <2>4. <<MaxPages - m, x>> \in R
    BY <2>2 DEF OpToRel
  <2>5. QED
    BY <1>3, <2>3, <2>4
<1>6. QED
  BY <1>5 DEF Highest

(* What is mixed of a slot in use is of the stream it is named after. *)
LEMMA MixStep ==
  ASSUME IInv, Mix, NoteOverlap PROVE IInv'
<1> DEFINE now == [s \in Slots |-> IF id[s] = 0 THEN Nothing
                                   ELSE [id |-> id[s], block |-> mixbuf[s]]]
<1>1. TypeOK
  BY DEF IInv
<1>2. /\ mixed' = now
      /\ played' = [q \in Serials |-> Highest(Numbers(now, q) \cup {played[q]})]
      /\ audio' = [pc |-> "check", slot |-> 0]
      /\ UNCHANGED <<id, os, active, ring, pcm, dec, mixbuf, network, stream, opBody,
                     arrived, traffic>>
  BY DEF Mix
<1>3. OverlapNoted' /\ reused' \in [Slots -> BOOLEAN] /\ \A u \in Slots : reused[u] => reused'[u]
  BY <1>1, Noted
<1>4. /\ now \in [Slots -> [id : Serials \cup {0}, block : Blocks]]
      /\ \A s \in Slots : \/ id[s] = 0 /\ now[s] = Nothing
                          \/ /\ id[s] # 0 /\ now[s].id = id[s] /\ now[s].block = mixbuf[s]
  BY <1>1, BlockFacts DEF TypeOK, Nothing
<1> HIDE DEF now
<1>5. played' \in [Serials -> 0 .. MaxPages]
  <2>1. ASSUME NEW q \in Serials
        PROVE  Highest(Numbers(now, q) \cup {played[q]}) \in 0 .. MaxPages
    <3>1. played[q] \in 0 .. MaxPages
      BY <1>1 DEF TypeOK
    <3>2. Numbers(now, q) \subseteq 0 .. MaxPages
      BY <1>4, BlockFacts DEF Numbers
    <3> DEFINE S == Numbers(now, q) \cup {played[q]}
    <3>3. S \subseteq 0 .. MaxPages /\ S # {}
      BY <3>1, <3>2
    <3> HIDE DEF S
    <3>4. Highest(S) \in S
      BY <3>3, HighestIn
    <3>5. QED
      BY <3>3, <3>4 DEF S
  <2>2. QED
    BY <1>2, <2>1
<1>6. TypeOK'
  <2>1. /\ audio' \in [pc : {"check", "read"}, slot : 0 .. N]
        /\ audio'.pc = "read" => audio'.slot \in Slots
    BY <1>2, SlotAssumption
  <2>2. QED
    BY <1>1, <1>2, <1>3, <1>4, <1>5, <2>1 DEF TypeOK
<1>7. PunchesUsed' /\ NamedAsPage' /\ QueuesOwn' /\ PacketOwn'
  BY <1>1, <1>2, <1>3 DEF IInv, PunchesUsed, Punching, NamedAsPage, QueuesOwn, PacketOwn, Own, TypeOK
<1>8. BuffersOwn'
  BY <1>2, <1>3 DEF IInv, BuffersOwn, Own
<1>9. ForeignNeedsOverlap'
  <2> SUFFICES ASSUME NEW s \in Slots, ~ reused'[s] PROVE ~ Foreign(mixed'[s])
    BY DEF ForeignNeedsOverlap
  <2>1. CASE id[s] = 0
    BY <1>2, <1>4, <2>1 DEF Foreign, Nothing
  <2>2. CASE id[s] # 0
    <3>1. ~ (network.pc = "clear" /\ network.slot = s)
      BY <2>2 DEF IInv, NamedAsPage
    <3>2. Own(s, mixbuf[s])
      BY <1>3, <3>1 DEF IInv, BuffersOwn
    <3>3. QED
      BY <1>2, <1>4, <2>2, <3>2 DEF Foreign, Own
  <2>3. QED
    BY <2>1, <2>2
<1>10. QED
  BY <1>3, <1>6, <1>7, <1>8, <1>9 DEF IInv

-----------------------------------------------------------------------------
LEMMA StutterStep ==
  ASSUME IInv, UNCHANGED vars PROVE IInv'
<1>1. TypeOK'
  BY DEF IInv, TypeOK, vars
<1>2. OverlapNoted' /\ PunchesUsed' /\ NamedAsPage'
  BY DEF IInv, OverlapNoted, PunchesUsed, NamedAsPage, Punching, Changing, vars
<1>3. QueuesOwn' /\ PacketOwn' /\ BuffersOwn' /\ ForeignNeedsOverlap'
  BY DEF IInv, QueuesOwn, PacketOwn, BuffersOwn, ForeignNeedsOverlap, Foreign, Own, vars
<1>4. QED
  BY <1>1, <1>2, <1>3 DEF IInv

(* The inductive invariant holds of every reachable state, whatever the     *)
(* interleaving of the three threads.                                       *)
THEOREM Inductive == Spec => []IInv
<1>1. IInv /\ [Next]_vars => IInv'
  <2> SUFFICES ASSUME IInv, [Next]_vars PROVE IInv'
    OBVIOUS
  <2>1. CASE Arrival /\ NoteOverlap
    BY <2>1, ReceivePageStep DEF Arrival
  <2>2. CASE StartCheck /\ NoteOverlap
    BY <2>2, StartCheckStep
  <2>3. CASE NetworkStep /\ NoteOverlap
    BY <2>3, InitStreamStep, PageInStep, CheckSlotStep, ClearBuffersStep, FlushRingStep
       DEF NetworkStep
  <2>4. CASE StreamStep /\ NoteOverlap
    BY <2>4, VisitStep, PacketOutStep, DecodeStep, DecodeFailsStep, WriteRingStep
       DEF StreamStep
  <2>5. CASE AudioStep /\ NoteOverlap
    BY <2>5, CheckActiveStep, ReadRingStep, MixStep DEF AudioStep
  <2>6. CASE UNCHANGED vars
    BY <2>6, StutterStep
  <2>7. QED
    BY <2>1, <2>2, <2>3, <2>4, <2>5, <2>6 DEF Next
<1>2. QED
  BY InitIInv, <1>1, PTL DEF Spec

(* Type correctness: whatever the threads do to a ring, it never holds more *)
(* than it has room for.                                                    *)
THEOREM TypeCorrect == Spec => []TypeOK
<1>1. IInv => TypeOK
  BY DEF IInv
<1>2. QED
  BY Inductive, <1>1, PTL

(* However pages, timeouts, reuse of slots, decoding and callbacks          *)
(* interleave: without a reset or takeover under a punch, what is mixed in  *)
(* the name of a stream is of that stream.                                  *)
THEOREM MixesOwnBlocks == Spec => []ForeignNeedsOverlap
<1>1. IInv => ForeignNeedsOverlap
  BY DEF IInv
<1>2. QED
  BY Inductive, <1>1, PTL

-----------------------------------------------------------------------------
(* The order of the blocks of a stream, on top of IInv.  What a slot holds  *)
(* of its stream is a line - mixbuf, ring, what was decoded last, the       *)
(* packet in hand, the queue - and every step moves blocks along it and     *)
(* drops some; what was played and what other slots still hold of the       *)
(* stream is older, for a page is always newer than all there is.           *)

(* Of two blocks of stream q the first arrived no later. *)
Behind(q, a, b) == a.q = q /\ b.q = q => a.n <= b.n

Before(q, A, B) == \A a \in A, b \in B : Behind(q, a, b)

Elems(line) == {line[i] : i \in 1 .. Len(line)}

Sorted(q, line) ==
  \A i, j \in 1 .. Len(line) : i < j => Behind(q, line[i], line[j])

(* The line of a slot. *)
Line(q, mix, blocks, now, op, packets) ==
  /\ Before(q, {mix}, Elems(blocks) \cup {now, op} \cup Elems(packets))
  /\ Before(q, Elems(blocks), {now, op} \cup Elems(packets))
  /\ Before(q, {now}, {op} \cup Elems(packets))
  /\ Before(q, {op}, Elems(packets))
  /\ Sorted(q, blocks) /\ Sorted(q, packets)

InHand(s) ==
  IF stream.pc = "decode" /\ stream.slot = s THEN stream.op ELSE Silence

(* Until a slot taken over is initialized its queue is not of its stream.   *)
Packets(s) ==
  IF network.pc = "init" /\ network.slot = s THEN <<>> ELSE os[s].queue

LineOf(s) == Line(id[s], mixbuf[s], ring[s], dec[s], InHand(s), Packets(s))

Ahead(s) == {mixbuf[s], dec[s], InHand(s)} \cup Elems(ring[s]) \cup Elems(Packets(s))

Held(s) == {mixbuf[s], dec[s], InHand(s)} \cup Elems(ring[s]) \cup Elems(os[s].queue)

(* What was played of the stream of a slot, and other slots still hold.     *)
Past(s) == {Block(id[s], played[id[s]])} \cup UNION {Held(u) : u \in Slots \ {s}}

-----------------------------------------------------------------------------
(* The inductive invariant, on top of that of ReceiverProofs.               *)
NamedOnce == \A s, t \in Slots : id[s] # 0 /\ id[s] = id[t] => s = t

PageIsLast ==
  network.pc \in {"init", "pagein"} =>
    id[network.slot] = network.page.q /\ network.page.n = arrived[network.page.q]

PcmDecoded == pcm = dec

AllArrived ==
  /\ \A q \in Serials : played[q] <= arrived[q]
  /\ \A s \in Slots : \A b \in Held(s) : b.q \in Serials => b.n <= arrived[b.q]

Lined(s) ==
  id[s] # 0 /\ ~ reused[s] => LineOf(s) /\ Before(id[s], Past(s), Ahead(s))

InOrder == \A s \in Slots : Lined(s)

OInv == NamedOnce /\ PageIsLast /\ PcmDecoded /\ AllArrived /\ InOrder

-----------------------------------------------------------------------------
(* Lines. *)
Packet == Blocks \cup {Gap}

LEMMA PacketFacts ==
  /\ Silence \in Packet /\ Torn \in Packet /\ Gap \in Packet
  /\ \A b \in Packet : b.n \in Int
  /\ \A b \in {Silence, Torn, Gap} : b.q \notin Serials
<1>1. Silence.q = 0 /\ Torn.q = -1 /\ Gap.q = 0 /\ Gap.n = -1
  BY DEF Silence, Torn, Gap, Block
<1>2. \A b \in Blocks : b.n \in Int
  BY BlockFacts, BoundAssumption
<1>3. QED
  BY <1>1, <1>2, BlockFacts, SerialFacts DEF Packet

LEMMA ElemsEmpty == Elems(<<>>) = {} /\ \A q : Sorted(q, <<>>)
BY DEF Elems, Sorted

LEMMA ElemsTail ==
  ASSUME NEW S, NEW line \in Seq(S), line # <<>>, NEW q
  PROVE  /\ Head(line) \in Elems(line) /\ Elems(Tail(line)) \subseteq Elems(line)
         /\ Sorted(q, line) => /\ Sorted(q, Tail(line))
                               /\ Before(q, {Head(line)}, Elems(Tail(line)))
<1>1. /\ Len(line) \in Nat \ {0} /\ Head(line) = line[1] /\ 1 \in 1 .. Len(line)
      /\ Len(Tail(line)) = Len(line) - 1
      /\ \A i \in 1 .. Len(line) - 1 : Tail(line)[i] = line[i + 1]
  OBVIOUS
<1>2. \A i \in 1 .. Len(Tail(line)) :
        /\ i + 1 \in 1 .. Len(line) /\ Tail(line)[i] = line[i + 1] /\ 1 < i + 1
        /\ \A j \in 1 .. Len(Tail(line)) : i < j => i + 1 < j + 1
  BY <1>1
<1>3. Head(line) \in Elems(line)
  BY <1>1 DEF Elems
<1>4. Elems(Tail(line)) \subseteq Elems(line)
  BY <1>2 DEF Elems
<1>5. ASSUME Sorted(q, line) PROVE Sorted(q, Tail(line))
  BY <1>2, <1>5 DEF Sorted
<1>6. ASSUME Sorted(q, line) PROVE Before(q, {Head(line)}, Elems(Tail(line)))
  BY <1>1, <1>2, <1>6 DEF Sorted, Before, Elems
<1>7. QED
  BY <1>3, <1>4, <1>5, <1>6

LEMMA ElemsAppend ==
  ASSUME NEW S, NEW line \in Seq(S), NEW b \in S, NEW q, NEW more, more = Append(line, b)
  PROVE  /\ Elems(more) = Elems(line) \cup {b}
         /\ Sorted(q, line) /\ Before(q, Elems(line), {b}) => Sorted(q, more)
<1>1. /\ Len(line) \in Nat /\ Len(more) = Len(line) + 1 /\ more[Len(line) + 1] = b
      /\ \A i \in 1 .. Len(line) : more[i] = line[i]
  OBVIOUS
<1>2. \A i \in 1 .. Len(more) : i \in 1 .. Len(line) \/ i = Len(line) + 1
  BY <1>1
<1>3. \A i \in 1 .. Len(line) + 1 : i \in 1 .. Len(more)
  BY <1>1
<1>4. Elems(more) = Elems(line) \cup {b}
  BY <1>1, <1>2, <1>3 DEF Elems
<1>5. ASSUME Sorted(q, line), Before(q, Elems(line), {b}) PROVE Sorted(q, more)
  <2> SUFFICES ASSUME NEW i \in 1 .. Len(more), NEW j \in 1 .. Len(more), i < j
               PROVE  Behind(q, more[i], more[j])
    BY DEF Sorted
  <2>1. i \in 1 .. Len(line)
    BY <1>1, <1>2
  <2>2. CASE j \in 1 .. Len(line)
    BY <1>1, <1>5, <2>1, <2>2 DEF Sorted
  <2>3. CASE j = Len(line) + 1
    BY <1>1, <1>5, <2>1, <2>3 DEF Before, Elems
  <2>4. QED
    BY <1>2, <2>2, <2>3
<1>6. QED
  BY <1>4, <1>5

(* Dropping, replacing by blocks of no stream, and moving along keep a line. *)
LEMMA LineReads ==
  ASSUME NEW q, NEW S, NEW mix, NEW blocks \in Seq(S), NEW now, NEW op, NEW packets,
         Line(q, mix, blocks, now, op, packets), blocks # <<>>
  PROVE  Line(q, Head(blocks), Tail(blocks), now, op, packets)
<1>1. /\ Head(blocks) \in Elems(blocks) /\ Elems(Tail(blocks)) \subseteq Elems(blocks)
      /\ Sorted(q, Tail(blocks)) /\ Before(q, {Head(blocks)}, Elems(Tail(blocks)))
  BY ElemsTail DEF Line
<1>2. QED
  BY <1>1 DEF Line, Before

LEMMA LineFlushed ==
  ASSUME NEW q, NEW mix, NEW blocks, NEW now, NEW op, NEW packets,
         Line(q, mix, blocks, now, op, packets)
  PROVE  Line(q, mix, <<>>, now, op, packets)
BY ElemsEmpty DEF Line, Before

LEMMA LineWritten ==
  ASSUME NEW q, NEW mix, NEW blocks \in Seq(Blocks), NEW now \in Blocks, NEW op, NEW packets,
         Line(q, mix, blocks, now, op, packets), NEW more, more = Append(blocks, now)
  PROVE  Line(q, mix, more, now, op, packets)
<1>1. Behind(q, now, now)
  BY PacketFacts DEF Behind, Packet
<1>2. Before(q, Elems(blocks), {now})
  BY DEF Line, Before
<1>3. Elems(more) = Elems(blocks) \cup {now} /\ Sorted(q, more)
  BY <1>2, ElemsAppend DEF Line
<1>4. QED
  BY <1>1, <1>3 DEF Line, Before

LEMMA LineDecoded ==
  ASSUME NEW q \in Serials, NEW mix, NEW blocks, NEW now, NEW op, NEW packets, NEW block,
         Line(q, mix, blocks, now, op, packets), block \in {now, op, Torn, Silence}
  PROVE  Line(q, mix, blocks, block, Silence, packets)
<1>1. Silence.q # q /\ Torn.q # q
  BY PacketFacts
<1>2. QED
  BY <1>1 DEF Line, Before, Behind

LEMMA LineTaken ==
  ASSUME NEW q \in Serials, NEW S, NEW mix, NEW blocks, NEW now, NEW packets \in Seq(S),
         Line(q, mix, blocks, now, Silence, packets), packets # <<>>
  PROVE  Line(q, mix, blocks, now, Head(packets), Tail(packets))
<1>1. /\ Head(packets) \in Elems(packets) /\ Elems(Tail(packets)) \subseteq Elems(packets)
      /\ Sorted(q, Tail(packets)) /\ Before(q, {Head(packets)}, Elems(Tail(packets)))
  BY ElemsTail DEF Line
<1>2. QED
  BY <1>1 DEF Line, Before

LEMMA LinePagedIn ==
  ASSUME NEW q \in Serials, NEW mix, NEW blocks, NEW now, NEW op, NEW packets \in Seq(Packet),
         NEW page \in Packet,
         Line(q, mix, blocks, now, op, packets),
         Before(q, {mix, now, op} \cup Elems(blocks) \cup Elems(packets), {page}),
         NEW more, more = Append(packets, page)
  PROVE  Line(q, mix, blocks, now, op, more)
<1>1. Before(q, Elems(packets), {page})
  BY DEF Before
<1>2. Elems(more) = Elems(packets) \cup {page} /\ Sorted(q, more)
  BY <1>1, ElemsAppend DEF Line
<1>3. QED
  BY <1>2 DEF Line, Before

(* Nothing of stream q is in line. *)
LEMMA LineBlank ==
  ASSUME NEW q, NEW mix, NEW blocks, NEW now, NEW op, NEW packets,
         \A b \in {mix, now, op} \cup Elems(blocks) \cup Elems(packets) : b.q # q
  PROVE  Line(q, mix, blocks, now, op, packets)
BY DEF Line, Before, Behind, Sorted, Elems

-----------------------------------------------------------------------------
(* Steps. *)
(* A step that leaves what slot s holds alone. *)
Kept(s) ==
  /\ id'[s] = id[s] /\ mixbuf'[s] = mixbuf[s] /\ ring'[s] = ring[s] /\ dec'[s] = dec[s]
  /\ os'[s] = os[s] /\ InHand(s)' = InHand(s) /\ Packets(s)' = Packets(s)

LEMMA HeldTyped ==
  ASSUME TypeOK, NEW s \in Slots
  PROVE  /\ ring[s] \in Seq(Blocks) /\ os[s].queue \in Seq(Packet) /\ Packets(s) \in Seq(Packet)
         /\ mixbuf[s] \in Blocks /\ dec[s] \in Blocks /\ InHand(s) \in Packet
         /\ Ahead(s) \subseteq Held(s) /\ \A b \in Held(s) : b \in Packet
<1>1. /\ mixbuf[s] \in Blocks /\ dec[s] \in Blocks
      /\ ring[s] \in Seq(Blocks) /\ os[s].queue \in Seq(Packet)
  BY DEF TypeOK, Packet
<1>2. InHand(s) \in Packet
  BY PacketFacts DEF TypeOK, InHand, Packet
<1>3. \A b \in Elems(ring[s]) : b \in Packet
  BY <1>1 DEF Elems, Packet
<1>4. \A b \in Elems(os[s].queue) : b \in Packet
  BY <1>1 DEF Elems
<1>5. Packets(s) \in Seq(Packet) /\ Elems(Packets(s)) \subseteq Elems(os[s].queue)
  BY <1>1, ElemsEmpty DEF Packets
<1>6. \A b \in Held(s) : b \in Packet
  BY <1>1, <1>2, <1>3, <1>4 DEF Held, Packet
<1>7. QED
  BY <1>1, <1>2, <1>5, <1>6 DEF Held, Ahead

LEMMA KeptHolds ==
  ASSUME NEW s \in Slots, Kept(s)
  PROVE  /\ LineOf(s)' <=> LineOf(s)
         /\ Ahead(s)' = Ahead(s) /\ Held(s)' = Held(s)
<1>1. LineOf(s)' <=> LineOf(s)
  BY DEF Kept, LineOf
<1>2. Ahead(s)' = Ahead(s) /\ Held(s)' = Held(s)
  BY DEF Kept, Ahead, Held
<1>3. QED
  BY <1>1, <1>2

(* A step at one slot that brings in no block of a stream keeps all lines,  *)
(* if it keeps that of the slot.                                            *)
LEMMA LocalStep ==
  ASSUME IInv, OInv, TypeOK', NEW t \in Slots,
         \A s \in Slots \ {t} : Kept(s),
         \A s \in Slots : reused[s] => reused'[s],
         played' = played, \A q \in Serials : arrived[q] <= arrived'[q],
         \A b \in Held(t)' : b.q \in Serials => b \in Held(t),
         id'[t] # 0 /\ ~ reused'[t] => LineOf(t)' /\ Before(id'[t], Past(t)', Ahead(t)')
  PROVE  AllArrived' /\ InOrder'
<1>1. \A s \in Slots \ {t} : Held(s)' = Held(s)
  BY KeptHolds
<1>2. \A s \in Slots : \A b \in Held(s)' : b.q \in Serials => b \in Held(s)
  BY <1>1
<1>3. AllArrived'
  <2>1. TypeOK
    BY DEF IInv
  <2>2. \A q \in Serials : arrived[q] \in Int /\ arrived'[q] \in Int /\ played[q] \in Int
    BY <2>1 DEF TypeOK
  <2>3. \A s \in Slots : \A b \in Held(s) : b.n \in Int
    BY <2>1, HeldTyped, PacketFacts
  <2>4. \A q \in Serials : played'[q] <= arrived'[q]
    BY <2>2 DEF OInv, AllArrived
  <2>5. \A s \in Slots : \A b \in Held(s)' : b.q \in Serials => b.n <= arrived'[b.q]
    <3> SUFFICES ASSUME NEW s \in Slots, NEW b \in Held(s)', b.q \in Serials
                 PROVE  b.n <= arrived'[b.q]
      OBVIOUS
    <3>1. b \in Held(s)
      BY <1>2
    <3>2. b.n <= arrived[b.q]
      BY <3>1 DEF OInv, AllArrived
    <3>3. QED
      BY <2>2, <2>3, <3>1, <3>2
  <2>6. QED
    BY <2>4, <2>5 DEF AllArrived
<1>4. ASSUME NEW s \in Slots \ {t}, id'[s] # 0, ~ reused'[s]
      PROVE  LineOf(s)' /\ Before(id'[s], Past(s)', Ahead(s)')
  <2>1. id'[s] = id[s] /\ id[s] \in Serials
    BY <1>4 DEF Kept, IInv, TypeOK
  <2>2. LineOf(s) /\ Before(id[s], Past(s), Ahead(s))
    BY <1>4, <2>1 DEF OInv, InOrder, Lined
  <2>3. (LineOf(s)' <=> LineOf(s)) /\ Ahead(s)' = Ahead(s)
    BY KeptHolds
  <2>4. ASSUME NEW b \in Past(s)', b.q = id[s] PROVE b \in Past(s)
    <3>1. b = Block(id'[s], played'[id'[s]]) \/ \E u \in Slots \ {s} : b \in Held(u)'
      BY <2>4 DEF Past
    <3>2. CASE b = Block(id'[s], played'[id'[s]])
      BY <2>1, <3>2 DEF Past
    <3>3. CASE \E u \in Slots \ {s} : b \in Held(u)'
      BY <1>2, <2>1, <2>4, <3>3 DEF Past
    <3>4. QED
      BY <3>1, <3>2, <3>3
  <2>5. Before(id'[s], Past(s)', Ahead(s)')
    BY <2>1, <2>2, <2>3, <2>4 DEF Before, Behind
  <2>6. QED
    BY <2>2, <2>3, <2>5
<1>5. InOrder'
  <2> SUFFICES ASSUME NEW s \in Slots PROVE Lined(s)'
    BY DEF InOrder
  <2>1. QED
    BY <1>4 DEF Lined
<1>6. QED
  BY <1>3, <1>5

(* The same, when the slot keeps its id and what it has ahead only shrinks. *)
LEMMA MovedStep ==
  ASSUME IInv, OInv, TypeOK', NEW t \in Slots,
         \A s \in Slots \ {t} : Kept(s),
         \A s \in Slots : reused[s] => reused'[s],
         played' = played, \A q \in Serials : arrived[q] <= arrived'[q],
         \A b \in Held(t)' : b.q \in Serials => b \in Held(t),
         id'[t] = id[t],
         id[t] \in Serials /\ ~ reused[t] /\ LineOf(t) =>
           LineOf(t)' /\ \A b \in Ahead(t)' : b.q \in Serials => b \in Ahead(t)
  PROVE  AllArrived' /\ InOrder'
<1>1. ASSUME id'[t] # 0, ~ reused'[t]
      PROVE  LineOf(t)' /\ Before(id'[t], Past(t)', Ahead(t)')
  <2>1. id[t] \in Serials /\ ~ reused[t]
    BY <1>1 DEF IInv, TypeOK
  <2>2. LineOf(t) /\ Before(id[t], Past(t), Ahead(t))
    BY <1>1, <2>1 DEF OInv, InOrder, Lined
  <2>3. \A u \in Slots \ {t} : Held(u)' = Held(u)
    BY KeptHolds
  <2>4. \A b \in Past(t)' : b \in Past(t)
    BY <2>3 DEF Past
  <2>5. Before(id'[t], Past(t)', Ahead(t)')
    BY <2>1, <2>2, <2>4 DEF Before, Behind
  <2>6. QED
    BY <2>1, <2>2, <2>5
<1>2. QED
  BY <1>1, LocalStep

LEMMA KeptStep ==
  ASSUME IInv, OInv, TypeOK', \A s \in Slots : Kept(s),
         \A s \in Slots : reused[s] => reused'[s],
         played' = played, \A q \in Serials : arrived[q] <= arrived'[q]
  PROVE  AllArrived' /\ InOrder'
<1>1. 0 \in Slots
  BY SlotAssumption DEF Slots
<1>2. /\ Held(0)' = Held(0) /\ Ahead(0)' = Ahead(0) /\ (LineOf(0)' <=> LineOf(0))
      /\ id'[0] = id[0]
  BY <1>1, KeptHolds DEF Kept
<1>3. QED
  BY <1>1, <1>2, MovedStep

(* What stays the same with the names of the slots and the page in hand.    *)
LEMMA SameNames ==
  ASSUME OInv, id' = id, arrived' = arrived,
         network' = network \/ network'.pc \notin {"init", "pagein"}
  PROVE  NamedOnce' /\ PageIsLast'
BY DEF OInv, NamedOnce, PageIsLast

LEMMA ArrivedStays ==
  ASSUME TypeOK, arrived' = arrived
  PROVE  \A q \in Serials : arrived[q] <= arrived'[q]
BY DEF TypeOK

LEMMA VisitOrder ==
  ASSUME IInv, OInv, Visit, NoteOverlap PROVE OInv'
<1>1. TypeOK /\ TypeOK' /\ stream.pc = "visit"
  BY VisitStep DEF IInv, Visit
<1>2. /\ UNCHANGED <<id, os, ring, pcm, dec, mixbuf, network, arrived, played>>
      /\ stream' = IF id[stream.slot] # 0 THEN [stream EXCEPT !.pc = "packetout"]
                   ELSE [stream EXCEPT !.slot = NextSlot(@)]
  BY DEF Visit
<1>3. stream'.pc # "decode"
  BY <1>1, <1>2 DEF TypeOK
<1>4. \A s \in Slots : Kept(s)
  BY <1>1, <1>2, <1>3 DEF Kept, InHand, Packets
<1>5. AllArrived' /\ InOrder'
  BY <1>1, <1>2, <1>4, Noted, ArrivedStays, KeptStep
<1>6. QED
  BY <1>2, <1>5, SameNames DEF OInv, PcmDecoded

LEMMA StartCheckOrder ==
  ASSUME IInv, OInv, StartCheck, NoteOverlap PROVE OInv'
<1>1. TypeOK /\ TypeOK' /\ network.pc = "select"
  BY StartCheckStep DEF IInv, StartCheck
<1>2. /\ UNCHANGED <<id, os, ring, pcm, dec, mixbuf, stream, arrived, played>>
      /\ network' = [network EXCEPT !.pc = "check", !.slot = 0]
  BY DEF StartCheck
<1>3. network'.pc = "check"
  BY <1>1, <1>2 DEF TypeOK
<1>4. \A s \in Slots : Kept(s)
  BY <1>1, <1>2, <1>3 DEF Kept, InHand, Packets
<1>5. AllArrived' /\ InOrder'
  BY <1>1, <1>2, <1>4, Noted, ArrivedStays, KeptStep
<1>6. QED
  BY <1>2, <1>3, <1>5, SameNames DEF OInv, PcmDecoded

LEMMA StutterOrder ==
  ASSUME IInv, OInv, UNCHANGED vars PROVE OInv'
<1>1. TypeOK /\ TypeOK'
  BY StutterStep DEF IInv
<1>2. UNCHANGED <<id, os, ring, pcm, dec, mixbuf, stream, network, arrived, reused, played>>
  BY DEF vars
<1>3. \A s \in Slots : Kept(s)
  BY <1>2 DEF Kept, InHand, Packets
<1>4. AllArrived' /\ InOrder'
  BY <1>1, <1>2, <1>3, ArrivedStays, KeptStep
<1>5. QED
  BY <1>2, <1>4, SameNames DEF OInv, PcmDecoded

(* A packet is taken from the head of the queue. *)
LEMMA PacketOutOrder ==
  ASSUME IInv, OInv, PacketOut, NoteOverlap PROVE OInv'
<1>1. TypeOK /\ TypeOK' /\ stream.pc = "packetout"
  BY PacketOutStep DEF IInv, PacketOut
<1>t. PICK t \in Slots : t = stream.slot
  BY <1>1 DEF TypeOK
<1>2. UNCHANGED <<id, ring, pcm, dec, mixbuf, network, arrived, played>>
  BY DEF PacketOut
<1>3. NamedOnce' /\ PageIsLast' /\ PcmDecoded'
  BY <1>2, SameNames DEF OInv, PcmDecoded
<1>4. CASE os[t].queue = <<>>
  <2>1. /\ stream' = [stream EXCEPT !.pc = "visit", !.slot = NextSlot(@)]
        /\ os' = os
    BY <1>t, <1>4 DEF PacketOut
  <2>2. stream'.pc # "decode"
    BY <1>1, <2>1 DEF TypeOK
  <2>3. \A s \in Slots : Kept(s)
    BY <1>1, <1>2, <2>1, <2>2 DEF Kept, InHand, Packets
  <2>4. QED
    BY <1>1, <1>2, <1>3, <2>3, Noted, ArrivedStays, KeptStep DEF OInv
<1>5. CASE os[t].queue # <<>>
  <2> DEFINE packets == os[t].queue
  <2>1. /\ stream' = [stream EXCEPT !.pc = "decode", !.op = Head(packets)]
        /\ os' = [os EXCEPT ![t].queue = Tail(packets)]
    BY <1>t, <1>5 DEF PacketOut
  <2>2. /\ packets \in Seq(Packet) /\ packets # <<>>
        /\ Head(packets) \in Elems(packets) /\ Elems(Tail(packets)) \subseteq Elems(packets)
    BY <1>1, <1>5, HeldTyped, ElemsTail
  <2>3. /\ os'[t].queue = Tail(packets) /\ \A s \in Slots \ {t} : os'[s] = os[s]
        /\ stream'.pc = "decode" /\ stream'.slot = t /\ stream'.op = Head(packets)
    BY <1>t, <1>1, <2>1 DEF TypeOK
  <2> HIDE DEF packets
  <2>4. \A s \in Slots \ {t} : Kept(s)
    BY <1>t, <1>1, <1>2, <2>3 DEF Kept, InHand, Packets
  <2>5. /\ InHand(t) = Silence /\ InHand(t)' = Head(packets)
        /\ Held(t)' = {mixbuf[t], dec[t], Head(packets)} \cup Elems(ring[t]) \cup Elems(Tail(packets))
    BY <1>t, <1>1, <1>2, <2>3 DEF InHand, Held
  <2>6. \A b \in Held(t)' : b.q \in Serials => b \in Held(t)
    BY <2>2, <2>5 DEF Held, packets
  <2>7. ASSUME id[t] \in Serials, ~ reused[t], LineOf(t)
        PROVE  LineOf(t)' /\ \A b \in Ahead(t)' : b.q \in Serials => b \in Ahead(t)
    <3>1. ~ (network.pc = "init" /\ network.slot = t)
      BY <1>t, <1>1, <2>7 DEF IInv, OverlapNoted, Punching, Changing
    <3>2. Packets(t) = packets /\ Packets(t)' = Tail(packets)
      BY <1>2, <2>3, <3>1 DEF Packets, packets
    <3>3. Line(id[t], mixbuf[t], ring[t], dec[t], Silence, packets)
      BY <2>5, <2>7, <3>2 DEF LineOf
    <3>4. Line(id[t], mixbuf[t], ring[t], dec[t], Head(packets), Tail(packets))
      BY <2>2, <2>7, <3>3, LineTaken
    <3>5. LineOf(t)'
      BY <1>2, <2>5, <3>2, <3>4 DEF LineOf
    <3>6. \A b \in Ahead(t)' : b \in Ahead(t)
      BY <1>2, <2>2, <2>5, <3>2 DEF Ahead
    <3>7. QED
      BY <3>5, <3>6
  <2>8. AllArrived' /\ InOrder'
    BY <1>1, <1>2, <2>4, <2>6, <2>7, Noted, ArrivedStays, MovedStep
  <2>9. QED
    BY <1>3, <2>8 DEF OInv
<1>6. QED
  BY <1>4, <1>5

(* What is decoded takes the place of the packet and of what was before. *)
LEMMA DecodeOrder ==
  ASSUME IInv, OInv, Decode, NoteOverlap PROVE OInv'
<1>1. TypeOK /\ TypeOK' /\ stream.pc = "decode"
  BY DecodeStep DEF IInv, Decode
<1>t. PICK t \in Slots : t = stream.slot
  BY <1>1 DEF TypeOK
<1>2. /\ UNCHANGED <<id, os, ring, mixbuf, network, arrived, played>>
      /\ stream' = [stream EXCEPT !.pc = "write", !.op = Silence]
  BY DEF Decode
<1>3. PICK block \in Decoded(t) :
        pcm' = [pcm EXCEPT ![t] = block] /\ dec' = [dec EXCEPT ![t] = block]
  BY <1>t DEF Decode
<1>4. block \in {dec[t], stream.op, Torn}
  <2>1. CASE stream.op = Gap
    BY <2>1, Zenon DEF Decoded
  <2>2. CASE stream.op # Gap
    <3>1. block \in {stream.op, Torn}
      BY <2>2, Zenon DEF Decoded
    <3>2. QED
      BY <3>1
  <2>3. QED
    BY <2>1, <2>2
<1>5. /\ dec'[t] = block /\ \A s \in Slots \ {t} : dec'[s] = dec[s]
      /\ stream'.pc = "write"
  BY <1>1, <1>2, <1>3 DEF TypeOK
<1>6. /\ InHand(t) = stream.op /\ InHand(t)' = Silence
      /\ Packets(t)' = Packets(t) /\ \A s \in Slots \ {t} : Kept(s)
  BY <1>1, <1>t, <1>2, <1>5 DEF InHand, Packets, Kept
<1>7. \A b \in {block, Silence} : b.q \in Serials => b \in {dec[t], InHand(t)}
  BY <1>4, <1>6, PacketFacts
<1>8. \A b \in Held(t)' : b.q \in Serials => b \in Held(t)
  BY <1>2, <1>5, <1>6, <1>7 DEF Held
<1>9. ASSUME id[t] \in Serials, LineOf(t)
      PROVE  LineOf(t)' /\ \A b \in Ahead(t)' : b.q \in Serials => b \in Ahead(t)
  <2>1. Line(id[t], mixbuf[t], ring[t], block, Silence, Packets(t))
    BY <1>4, <1>6, <1>9, LineDecoded DEF LineOf
  <2>2. LineOf(t)'
    BY <1>2, <1>5, <1>6, <2>1 DEF LineOf
  <2>3. QED
    BY <1>2, <1>5, <1>6, <1>7, <2>2 DEF Ahead
<1>10. AllArrived' /\ InOrder'
  BY <1>1, <1>2, <1>6, <1>8, <1>9, Noted, ArrivedStays, MovedStep
<1>11. QED
  BY <1>2, <1>3, <1>10, SameNames DEF OInv, PcmDecoded

LEMMA DecodeFailsOrder ==
  ASSUME IInv, OInv, DecodeFails, NoteOverlap PROVE OInv'
<1>1. TypeOK /\ TypeOK' /\ stream.pc = "decode"
  BY DecodeFailsStep DEF IInv, DecodeFails
<1>t. PICK t \in Slots : t = stream.slot
  BY <1>1 DEF TypeOK
<1>2. /\ UNCHANGED <<id, os, ring, pcm, dec, mixbuf, network, arrived, played>>
      /\ stream'.pc = "visit"
  BY DEF DecodeFails
<1>3. /\ InHand(t)' = Silence /\ Silence.q \notin Serials
      /\ Packets(t)' = Packets(t) /\ \A s \in Slots \ {t} : Kept(s)
  BY <1>1, <1>t, <1>2, PacketFacts DEF InHand, Packets, Kept
<1>4. \A b \in Held(t)' : b.q \in Serials => b \in Held(t)
  BY <1>2, <1>3 DEF Held
<1>5. ASSUME id[t] \in Serials, LineOf(t)
      PROVE  LineOf(t)' /\ \A b \in Ahead(t)' : b.q \in Serials => b \in Ahead(t)
  <2>1. Line(id[t], mixbuf[t], ring[t], dec[t], Silence, Packets(t))
    BY <1>5, LineDecoded DEF LineOf
  <2>2. LineOf(t)'
    BY <1>2, <1>3, <2>1 DEF LineOf
  <2>3. QED
    BY <1>2, <1>3, <2>2 DEF Ahead
<1>6. AllArrived' /\ InOrder'
  BY <1>1, <1>2, <1>3, <1>4, <1>5, Noted, ArrivedStays, MovedStep
<1>7. QED
  BY <1>2, <1>6, SameNames DEF OInv, PcmDecoded

(* The block written is the one decoded last. *)
LEMMA WriteRingOrder ==
  ASSUME IInv, OInv, WriteRing, NoteOverlap PROVE OInv'
<1>1. TypeOK /\ TypeOK' /\ stream.pc = "write"
  BY WriteRingStep DEF IInv, WriteRing
<1>t. PICK t \in Slots : t = stream.slot
  BY <1>1 DEF TypeOK
<1>2. /\ UNCHANGED <<id, os, pcm, dec, mixbuf, network, arrived, played>>
      /\ stream' = [stream EXCEPT !.pc = "visit", !.slot = NextSlot(@)]
      /\ ring' = [ring EXCEPT ![t] = Push(@, pcm[t])]
  BY <1>t DEF WriteRing
<1>3. dec[t] = pcm[t] /\ dec[t] \in Blocks /\ ring[t] \in Seq(Blocks)
  BY <1>1 DEF OInv, PcmDecoded, TypeOK
<1>4. /\ ring'[t] = Push(ring[t], dec[t]) /\ \A s \in Slots \ {t} : ring'[s] = ring[s]
      /\ stream'.pc = "visit"
  BY <1>1, <1>2, <1>3 DEF TypeOK
<1>5. ring'[t] = ring[t] \/ ring'[t] = Append(ring[t], dec[t])
  BY <1>4 DEF Push
<1>6. /\ InHand(t)' = InHand(t) /\ Packets(t)' = Packets(t)
      /\ \A s \in Slots \ {t} : Kept(s)
  BY <1>1, <1>2, <1>4 DEF InHand, Packets, Kept
<1>7. Elems(ring'[t]) \subseteq Elems(ring[t]) \cup {dec[t]}
  BY <1>3, <1>5, ElemsAppend
<1>8. \A b \in Held(t)' : b \in Held(t)
  BY <1>2, <1>6, <1>7 DEF Held
<1>9. ASSUME LineOf(t)
      PROVE  LineOf(t)' /\ \A b \in Ahead(t)' : b.q \in Serials => b \in Ahead(t)
  <2>1. Line(id[t], mixbuf[t], ring'[t], dec[t], InHand(t), Packets(t))
    BY <1>3, <1>5, <1>9, LineWritten DEF LineOf
  <2>2. LineOf(t)'
    BY <1>2, <1>6, <2>1 DEF LineOf
  <2>3. QED
    BY <1>2, <1>6, <1>7, <2>2 DEF Ahead
<1>10. AllArrived' /\ InOrder'
  BY <1>1, <1>2, <1>6, <1>8, <1>9, Noted, ArrivedStays, MovedStep
<1>11. QED
  BY <1>2, <1>10, SameNames DEF OInv, PcmDecoded

-----------------------------------------------------------------------------
(* The stream of a slot taken over starts with an empty queue. *)
LEMMA InitStreamOrder ==
  ASSUME IInv, OInv, InitStream, NoteOverlap PROVE OInv'
<1>1. TypeOK /\ TypeOK' /\ network.pc = "init"
  BY InitStreamStep DEF IInv, InitStream
<1>t. PICK t \in Slots : t = network.slot
  BY <1>1 DEF IInv, NamedAsPage
<1>2. /\ UNCHANGED <<id, ring, pcm, dec, mixbuf, stream, arrived, played>>
      /\ os' = [os EXCEPT ![t] = InitOs(network.page.q, @)]
      /\ network' = [network EXCEPT !.pc = "pagein"]
  BY <1>t DEF InitStream
<1>3. /\ os'[t].queue = <<>> /\ \A s \in Slots \ {t} : os'[s] = os[s]
      /\ network'.pc = "pagein" /\ network'.slot = t /\ network'.page = network.page
  BY <1>1, <1>t, <1>2 DEF TypeOK, InitOs, FreshOs
<1>4. /\ Packets(t) = <<>> /\ Packets(t)' = <<>> /\ InHand(t)' = InHand(t)
      /\ \A s \in Slots \ {t} : Kept(s)
  BY <1>1, <1>t, <1>2, <1>3 DEF Packets, InHand, Kept
<1>5. \A b \in Held(t)' : b \in Held(t)
  BY <1>2, <1>3, <1>4, ElemsEmpty DEF Held
<1>6. (LineOf(t)' <=> LineOf(t)) /\ Ahead(t)' = Ahead(t)
  BY <1>2, <1>4 DEF LineOf, Ahead
<1>7. AllArrived' /\ InOrder'
  BY <1>1, <1>2, <1>4, <1>5, <1>6, Noted, ArrivedStays, MovedStep
<1>8. NamedOnce' /\ PageIsLast'
  BY <1>1, <1>t, <1>2, <1>3 DEF OInv, NamedOnce, PageIsLast
<1>9. QED
  BY <1>2, <1>7, <1>8 DEF OInv, PcmDecoded

(* A slot that is freed, cleared and flushed has no order to keep. *)
LEMMA CheckSlotOrder ==
  ASSUME IInv, OInv, CheckSlot, NoteOverlap PROVE OInv'
<1>1. TypeOK /\ TypeOK' /\ network.pc = "check"
  BY CheckSlotStep DEF IInv, CheckSlot
<1>2. UNCHANGED <<os, ring, pcm, dec, mixbuf, stream, arrived, played>>
  BY DEF CheckSlot
<1>3. /\ network'.pc \in {"select", "check", "clear"}
      /\ id' = id \/ \E t \in Slots : id' = [id EXCEPT ![t] = 0]
  <2>1. CASE network.slot = N /\ network' = Waiting /\ id' = id
    BY <2>1 DEF Waiting
  <2>2. CASE id' = id /\ network' = [network EXCEPT !.slot = @ + 1]
    BY <1>1, <2>2 DEF TypeOK
  <2>3. CASE /\ network.slot < N /\ id' = [id EXCEPT ![network.slot] = 0]
             /\ network' = [network EXCEPT !.pc = "clear"]
    <3>1. network.slot \in Slots
      BY <1>1, <2>3, SlotAssumption DEF TypeOK, Slots
    <3>2. network'.pc = "clear"
      BY <1>1, <2>3 DEF TypeOK
    <3>3. QED
      BY <2>3, <3>1, <3>2
  <2>4. QED
    BY <2>1, <2>2, <2>3 DEF CheckSlot
<1>4. \A s \in Slots : id'[s] = id[s] => Kept(s)
  BY <1>1, <1>2, <1>3 DEF Kept, InHand, Packets
<1>5. PcmDecoded' /\ PageIsLast'
  BY <1>2, <1>3 DEF OInv, PcmDecoded, PageIsLast
<1>6. CASE id' = id
  BY <1>1, <1>2, <1>4, <1>5, <1>6, Noted, ArrivedStays, KeptStep DEF OInv, NamedOnce
<1>7. CASE \E t \in Slots : id' = [id EXCEPT ![t] = 0]
  <2>1. PICK t \in Slots : id' = [id EXCEPT ![t] = 0]
    BY <1>7
  <2>2. id'[t] = 0 /\ \A s \in Slots \ {t} : id'[s] = id[s]
    BY <1>1, <2>1 DEF TypeOK
  <2>3. NamedOnce'
    BY <2>2 DEF OInv, NamedOnce
  <2>4. InHand(t)' = InHand(t)
    BY <1>2 DEF InHand
  <2>5. Held(t)' = Held(t)
    BY <1>2, <2>4 DEF Held
  <2>6. AllArrived' /\ InOrder'
    BY <1>1, <1>2, <1>4, <2>2, <2>5, Noted, ArrivedStays, LocalStep
  <2>7. QED
    BY <1>5, <2>3, <2>6 DEF OInv
<1>8. QED
  BY <1>3, <1>6, <1>7

LEMMA ClearBuffersOrder ==
  ASSUME IInv, OInv, ClearBuffers, NoteOverlap PROVE OInv'
<1>1. TypeOK /\ TypeOK' /\ network.pc = "clear"
  BY ClearBuffersStep DEF IInv, ClearBuffers
<1>t. PICK t \in Slots : t = network.slot /\ id[t] = 0
  BY <1>1 DEF IInv, NamedAsPage
<1>2. /\ UNCHANGED <<id, os, stream, arrived, played>>
      /\ ring' = [ring EXCEPT ![t] = [i \in DOMAIN @ |-> Silence]]
      /\ pcm' = [pcm EXCEPT ![t] = Silence] /\ dec' = [dec EXCEPT ![t] = Silence]
      /\ mixbuf' = [mixbuf EXCEPT ![t] = Silence]
      /\ network' = [network EXCEPT !.pc = "flush"]
  BY <1>t DEF ClearBuffers
<1>3. /\ ring'[t] = [i \in DOMAIN ring[t] |-> Silence] /\ ring[t] \in Seq(Blocks)
      /\ dec'[t] = Silence /\ mixbuf'[t] = Silence
      /\ \A s \in Slots \ {t} : ring'[s] = ring[s] /\ dec'[s] = dec[s] /\ mixbuf'[s] = mixbuf[s]
      /\ network'.pc = "flush" /\ network'.slot = t
  BY <1>1, <1>t, <1>2 DEF TypeOK
<1>4. \A s \in Slots \ {t} : Kept(s)
  BY <1>1, <1>t, <1>2, <1>3 DEF Kept, InHand, Packets
<1>5. Elems(ring'[t]) \subseteq {Silence}
  <2>1. ring'[t] \in Seq(Blocks) /\ Len(ring'[t]) = Len(ring[t]) /\ DOMAIN ring[t] = 1 .. Len(ring[t])
    BY <1>3, BlockFacts
  <2>2. \A i \in 1 .. Len(ring'[t]) : ring'[t][i] = Silence
    BY <1>3, <2>1
  <2>3. QED
    BY <2>2 DEF Elems
<1>6. InHand(t)' = InHand(t)
  BY <1>2 DEF InHand
<1>7. \A b \in Held(t)' : b.q \in Serials => b \in Held(t)
  BY <1>2, <1>3, <1>5, <1>6, PacketFacts DEF Held
<1>8. AllArrived' /\ InOrder'
  BY <1>1, <1>t, <1>2, <1>4, <1>7, Noted, ArrivedStays, LocalStep
<1>9. PcmDecoded'
  BY <1>2 DEF OInv, PcmDecoded
<1>10. QED
  BY <1>2, <1>3, <1>8, <1>9, SameNames DEF OInv

LEMMA FlushRingOrder ==
  ASSUME IInv, OInv, FlushRing, NoteOverlap PROVE OInv'
<1>1. TypeOK /\ TypeOK' /\ network.pc = "flush"
  BY FlushRingStep DEF IInv, FlushRing
<1>t. PICK t \in Slots : t = network.slot /\ id[t] = 0
  BY <1>1 DEF IInv, NamedAsPage
<1>2. /\ UNCHANGED <<id, os, pcm, dec, mixbuf, stream, arrived, played>>
      /\ ring' = [ring EXCEPT ![t] = <<>>]
      /\ network' = [network EXCEPT !.pc = "check", !.slot = @ + 1]
  BY <1>t DEF FlushRing
<1>3. /\ ring'[t] = <<>> /\ \A s \in Slots \ {t} : ring'[s] = ring[s]
      /\ network'.pc = "check"
  BY <1>1, <1>t, <1>2 DEF TypeOK
<1>4. \A s \in Slots \ {t} : Kept(s)
  BY <1>1, <1>t, <1>2, <1>3 DEF Kept, InHand, Packets
<1>5. InHand(t)' = InHand(t)
  BY <1>2 DEF InHand
<1>6. \A b \in Held(t)' : b \in Held(t)
  BY <1>2, <1>3, <1>5, ElemsEmpty DEF Held
<1>7. AllArrived' /\ InOrder'
  BY <1>1, <1>t, <1>2, <1>4, <1>6, Noted, ArrivedStays, LocalStep
<1>8. QED
  BY <1>2, <1>3, <1>7, SameNames DEF OInv, PcmDecoded

-----------------------------------------------------------------------------
(* The first read of a slot drops what its ring holds. *)
LEMMA CheckActiveOrder ==
  ASSUME IInv, OInv, CheckActive, NoteOverlap PROVE OInv'
<1>1. TypeOK /\ TypeOK' /\ audio.pc = "check" /\ audio.slot < N
  BY CheckActiveStep DEF IInv, CheckActive
<1>t. PICK t \in Slots : t = audio.slot
  BY <1>1, SlotAssumption DEF TypeOK, Slots
<1>2. /\ UNCHANGED <<id, os, pcm, dec, mixbuf, stream, network, arrived, played>>
      /\ ring' = ring \/ ring' = [ring EXCEPT ![t] = <<>>]
  BY <1>t DEF CheckActive
<1>3. /\ ring'[t] = ring[t] \/ ring'[t] = <<>>
      /\ \A s \in Slots \ {t} : ring'[s] = ring[s]
  BY <1>1, <1>2 DEF TypeOK
<1>4. /\ InHand(t)' = InHand(t) /\ Packets(t)' = Packets(t)
      /\ \A s \in Slots \ {t} : Kept(s)
  BY <1>2, <1>3 DEF Kept, InHand, Packets
<1>5. Elems(ring'[t]) \subseteq Elems(ring[t])
  BY <1>3, ElemsEmpty
<1>6. \A b \in Held(t)' : b \in Held(t)
  BY <1>2, <1>4, <1>5 DEF Held
<1>7. ASSUME LineOf(t)
      PROVE  LineOf(t)' /\ \A b \in Ahead(t)' : b.q \in Serials => b \in Ahead(t)
  <2>1. Line(id[t], mixbuf[t], ring'[t], dec[t], InHand(t), Packets(t))
    BY <1>3, <1>7, LineFlushed DEF LineOf
  <2>2. LineOf(t)'
    BY <1>2, <1>4, <2>1 DEF LineOf
  <2>3. QED
    BY <1>2, <1>4, <1>5, <2>2 DEF Ahead
<1>8. AllArrived' /\ InOrder'
  BY <1>1, <1>2, <1>4, <1>6, <1>7, Noted, ArrivedStays, MovedStep
<1>9. QED
  BY <1>2, <1>8, SameNames DEF OInv, PcmDecoded

(* What is read from the ring takes the place of the block mixed before. *)
LEMMA ReadRingOrder ==
  ASSUME IInv, OInv, ReadRing, NoteOverlap PROVE OInv'
<1>1. TypeOK /\ TypeOK' /\ audio.pc = "read" /\ audio.slot \in Slots
  BY ReadRingStep DEF IInv, ReadRing, TypeOK
<1>t. PICK t \in Slots : t = audio.slot
  BY <1>1
<1>2. /\ UNCHANGED <<id, os, pcm, dec, stream, network, arrived, played>>
      /\ mixbuf' = [mixbuf EXCEPT ![t] = IF ring[t] = <<>> THEN @ ELSE Head(ring[t])]
      /\ ring' = [ring EXCEPT ![t] = IF @ = <<>> THEN @ ELSE Tail(@)]
  BY <1>t DEF ReadRing
<1>3. CASE ring[t] = <<>>
  <2>1. mixbuf' = mixbuf /\ ring' = ring
    BY <1>1, <1>2, <1>3 DEF TypeOK
  <2>2. \A s \in Slots : Kept(s)
    BY <1>2, <2>1 DEF Kept, InHand, Packets
  <2>3. AllArrived' /\ InOrder'
    BY <1>1, <1>2, <2>2, Noted, ArrivedStays, KeptStep
  <2>4. QED
    BY <1>2, <2>3, SameNames DEF OInv, PcmDecoded
<1>4. CASE ring[t] # <<>>
  <2> DEFINE blocks == ring[t]
  <2>1. /\ mixbuf'[t] = Head(blocks) /\ ring'[t] = Tail(blocks)
        /\ \A s \in Slots \ {t} : mixbuf'[s] = mixbuf[s] /\ ring'[s] = ring[s]
    BY <1>1, <1>2, <1>4 DEF TypeOK
  <2>2. /\ blocks \in Seq(Blocks) /\ blocks # <<>>
        /\ Head(blocks) \in Elems(blocks) /\ Elems(Tail(blocks)) \subseteq Elems(blocks)
    BY <1>1, <1>4, HeldTyped, ElemsTail
  <2>3. /\ InHand(t)' = InHand(t) /\ Packets(t)' = Packets(t)
        /\ \A s \in Slots \ {t} : Kept(s)
    BY <1>2, <2>1 DEF Kept, InHand, Packets
  <2>4. \A b \in Held(t)' : b \in Held(t)
    BY <1>2, <2>1, <2>2, <2>3 DEF Held
  <2>5. ASSUME LineOf(t)
        PROVE  LineOf(t)' /\ \A b \in Ahead(t)' : b.q \in Serials => b \in Ahead(t)
    <3>1. Line(id[t], Head(blocks), Tail(blocks), dec[t], InHand(t), Packets(t))
      BY <2>2, <2>5, LineReads DEF LineOf
    <3>2. LineOf(t)'
      BY <1>2, <2>1, <2>3, <3>1 DEF LineOf
    <3>3. QED
      BY <1>2, <2>1, <2>2, <2>3, <3>2 DEF Ahead
  <2>6. AllArrived' /\ InOrder'
    BY <1>1, <1>2, <2>3, <2>4, <2>5, Noted, ArrivedStays, MovedStep
  <2>7. QED
    BY <1>2, <2>6, SameNames DEF OInv, PcmDecoded
<1>5. QED
  BY <1>3, <1>4

-----------------------------------------------------------------------------
(* find_stream finds a stream that has a slot. *)
LEMMA FirstFinds ==
  ASSUME NEW q, First(q) = {}
  PROVE  \A s \in Slots : id[s] # q
<1> SUFFICES ASSUME NEW s \in Slots, id[s] = q PROVE FALSE
  OBVIOUS
<1> DEFINE T == {u \in Slots : id[u] = q}
           R == OpToRel(<, Nat)
<1>1. T \subseteq Nat /\ T # {}
  BY SlotAssumption DEF Slots
<1>2. PICK x \in T : \A y \in T : <<y, x>> \notin R
  <2>1. IsWellFoundedOn(R, Nat)
    BY NatLessThanWellFounded
  <2> HIDE DEF T, R
  <2>2. QED
    BY <1>1, <2>1, WFMin
<1>3. \A u \in Slots : id[u] = q => x <= u
  <2> SUFFICES ASSUME NEW u \in Slots, id[u] = q, ~ x <= u PROVE FALSE
    OBVIOUS
  <2>1. u \in Nat /\ x \in Nat /\ u < x
    BY SlotAssumption DEF Slots
  <2>2. <<u, x>> \in R
    BY <2>1 DEF OpToRel
  <2>3. QED
    BY <1>2, <2>2
<1>4. x \in First(q)
  BY <1>3 DEF First
<1>5. QED
  BY <1>4

(* A new page is the last of its stream; the slot a new stream takes holds  *)
(* nothing of it.                                                           *)
LEMMA ReceivePageOrder ==
  ASSUME IInv, OInv, NEW q \in Serials, ReceivePage(q), NoteOverlap PROVE OInv'
<1>1. TypeOK /\ TypeOK' /\ network.pc = "select"
  BY ReceivePageStep DEF IInv, ReceivePage
<1>2. UNCHANGED <<os, ring, pcm, dec, mixbuf, stream, played>>
  BY DEF ReceivePage
<1>3. arrived' = [arrived EXCEPT ![q] = arrived[q] + 1]
  BY DEF ReceivePage
<1>4. \A p \in Serials : arrived[p] <= arrived'[p]
  <2>1. \A p \in Serials : arrived[p] \in Int
    BY <1>1 DEF TypeOK
  <2>2. /\ arrived'[q] = arrived[q] + 1
        /\ \A p \in Serials \ {q} : arrived'[p] = arrived[p]
    BY <1>1, <1>3, <2>1, BoundAssumption DEF TypeOK
  <2>3. QED
    BY <1>3, <2>1, <2>2, BoundAssumption
<1>5. /\ Block(q, arrived'[q]).q = q /\ Block(q, arrived'[q]).n = arrived'[q]
      /\ \A s \in Slots : InHand(s)' = InHand(s)
      /\ PcmDecoded' /\ q # 0
  BY <1>2, SerialFacts DEF OInv, PcmDecoded, Block, InHand
<1>6. CASE \E s \in First(q) :
             /\ network' = [pc |-> "pagein", slot |-> s, page |-> Block(q, arrived'[q])]
             /\ UNCHANGED id
  <2>1. PICK s \in First(q) :
          network' = [pc |-> "pagein", slot |-> s, page |-> Block(q, arrived'[q])]
    BY <1>6
  <2>2. id[s] = q /\ id' = id
    BY <1>6 DEF First
  <2>3. NamedOnce' /\ PageIsLast'
    BY <1>5, <2>1, <2>2 DEF OInv, NamedOnce, PageIsLast
  <2>4. \A u \in Slots : Kept(u)
    BY <1>1, <1>2, <1>5, <2>1, <2>2 DEF Kept, Packets
  <2>5. AllArrived' /\ InOrder'
    BY <1>1, <1>2, <1>4, <2>4, Noted, KeptStep
  <2>6. QED
    BY <1>5, <2>3, <2>5 DEF OInv
<1>7. CASE /\ First(q) = {}
           /\ \E s \in First(0) :
                /\ network' = [pc |-> "init", slot |-> s, page |-> Block(q, arrived'[q])]
                /\ id' = [id EXCEPT ![s] = q]
  <2>1. PICK t \in First(0) :
          /\ network' = [pc |-> "init", slot |-> t, page |-> Block(q, arrived'[q])]
          /\ id' = [id EXCEPT ![t] = q]
    BY <1>7
  <2>2. t \in Slots /\ id[t] = 0 /\ id'[t] = q /\ \A s \in Slots \ {t} : id'[s] = id[s]
    BY <1>1, <2>1 DEF First, TypeOK
  <2>3. NamedOnce'
    <3>1. \A s \in Slots : id[s] # q
      BY <1>7, FirstFinds
    <3>2. QED
      BY <2>2, <3>1 DEF OInv, NamedOnce
  <2>4. PageIsLast'
    BY <1>5, <2>1, <2>2 DEF PageIsLast
  <2>5. \A s \in Slots \ {t} : Kept(s)
    BY <1>1, <1>2, <1>5, <2>1, <2>2 DEF Kept, Packets
  <2>6. \A b \in Held(t)' : b \in Held(t)
    BY <1>2, <1>5, <2>2 DEF Held
  <2>7. ASSUME ~ reused'[t] PROVE \A b \in Ahead(t)' : b.q # q
    <3>1. ~ reused[t]
      BY <1>1, <2>2, <2>7, Noted
    <3>2. /\ Own(t, dec[t]) /\ Own(t, mixbuf[t])
          /\ \A i \in 1 .. Len(ring[t]) : Own(t, ring[t][i])
      <4>1. network.pc # "clear" /\ BuffersOwn
        BY <1>1 DEF IInv
      <4>2. QED
        BY <2>2, <3>1, <4>1 DEF BuffersOwn
    <3>3. \A i \in 1 .. Len(ring[t]) : ring[t][i] \in {Silence, Torn}
      <4> DEFINE blocks == ring[t]
      <4>0. blocks \in Seq(Blocks)
        BY <1>1, <2>2 DEF TypeOK
      <4> HIDE DEF blocks
      <4>1. \A i \in 1 .. Len(blocks) : blocks[i] \in Blocks
        BY <4>0
      <4> USE DEF blocks
      <4>2. QED
        BY <1>1, <2>2, <3>2, <4>1, FreeOwn
    <3>4. dec[t] \in {Silence, Torn} /\ mixbuf[t] \in {Silence, Torn}
      BY <1>1, <2>2, <3>2, FreeOwn DEF TypeOK
    <3>5. InHand(t) = Silence
      BY <2>2, <3>1 DEF InHand, IInv, PunchesUsed, Punching
    <3>6. Packets(t)' = <<>>
      BY <2>1 DEF Packets
    <3>7. Ahead(t)' \subseteq {Silence, Torn}
      BY <1>2, <1>5, <2>2, <3>3, <3>4, <3>5, <3>6, ElemsEmpty DEF Ahead, Elems
    <3>8. QED
      BY <3>7, PacketFacts
  <2>8. ASSUME ~ reused'[t]
        PROVE  LineOf(t)' /\ Before(id'[t], Past(t)', Ahead(t)')
    <3>1. \A b \in Ahead(t)' : b.q # id'[t]
      BY <2>2, <2>7, <2>8
    <3>2. LineOf(t)'
      BY <3>1, LineBlank DEF LineOf, Ahead
    <3>3. Before(id'[t], Past(t)', Ahead(t)')
      BY <3>1 DEF Before, Behind
    <3>4. QED
      BY <3>2, <3>3
  <2>9. AllArrived' /\ InOrder'
    BY <1>1, <1>2, <1>4, <2>2, <2>5, <2>6, <2>8, Noted, LocalStep
  <2>10. QED
    BY <1>5, <2>3, <2>4, <2>9 DEF OInv
<1>8. QED
  BY <1>6, <1>7 DEF ReceivePage

-----------------------------------------------------------------------------
(* What ogg_stream_pagein adds to a queue. *)
LEMMA QueuedIn ==
  ASSUME NEW queue \in Seq(Packet), NEW page \in Packet, NEW more,
         more = queue \o <<page>> \/ more = queue \o <<Gap, page>>
  PROVE  /\ Elems(more) \subseteq Elems(queue) \cup {Gap, page}
         /\ \A q \in Serials : \A mix, blocks, now, op :
              /\ Line(q, mix, blocks, now, op, queue)
              /\ Before(q, {mix, now, op} \cup Elems(blocks) \cup Elems(queue), {page})
              => Line(q, mix, blocks, now, op, more)
<1>1. Gap \in Packet /\ \A q \in Serials : Gap.q # q
  BY PacketFacts
<1>2. PICK base \in Seq(Packet) :
        (base = queue \/ base = Append(queue, Gap)) /\ more = Append(base, page)
  <2>1. CASE more = queue \o <<page>>
    <3>1. more = Append(queue, page)
      BY <2>1
    <3>2. QED
      BY <3>1
  <2>2. CASE more = queue \o <<Gap, page>>
    <3>1. Append(queue, Gap) \in Seq(Packet) /\ more = Append(Append(queue, Gap), page)
      BY <1>1, <2>2
    <3>2. QED
      BY <3>1
  <2>3. QED
    BY <2>1, <2>2
<1>3. Elems(base) \subseteq Elems(queue) \cup {Gap} /\ Elems(more) = Elems(base) \cup {page}
  BY <1>1, <1>2, ElemsAppend
<1>4. ASSUME NEW q \in Serials, NEW mix, NEW blocks, NEW now, NEW op,
             Line(q, mix, blocks, now, op, queue),
             Before(q, {mix, now, op} \cup Elems(blocks) \cup Elems(queue), {page})
      PROVE  Line(q, mix, blocks, now, op, more)
  <2>1. Before(q, {mix, now, op} \cup Elems(blocks) \cup Elems(queue), {Gap})
    BY <1>1 DEF Before, Behind
  <2>2. Line(q, mix, blocks, now, op, base)
    BY <1>1, <1>2, <1>4, <2>1, LinePagedIn
  <2>3. Before(q, {mix, now, op} \cup Elems(blocks) \cup Elems(base), {page})
    BY <1>1, <1>3, <1>4 DEF Before, Behind
  <2>4. QED
    BY <1>2, <2>2, <2>3, LinePagedIn
<1>5. QED
  BY <1>3, <1>4

(* A page paged in is newer than all that is held or was played. *)
LEMMA PageInOrder ==
  ASSUME IInv, OInv, PageIn, NoteOverlap PROVE OInv'
<1>1. TypeOK /\ TypeOK' /\ network.pc = "pagein"
  BY PageInStep DEF IInv, PageIn
<1>t. PICK t \in Slots : t = network.slot
  BY <1>1 DEF IInv, NamedAsPage
<1>p. PICK page \in Blocks : page = network.page
  BY <1>1 DEF TypeOK
<1>2. /\ UNCHANGED <<id, ring, pcm, dec, mixbuf, stream, arrived, played>>
      /\ network' = Waiting
  BY <1>t, <1>p DEF PageIn
<1>h. PICK hole \in BOOLEAN :
        os' = [os EXCEPT ![t] = IF os[t].serial = page.q THEN PagedIn(@, page, hole) ELSE @]
  BY <1>t, <1>p DEF PageIn
<1>3. page.q \in Serials /\ id[t] = page.q /\ page.n = arrived[page.q]
  BY <1>1, <1>t, <1>p DEF IInv, NamedAsPage, OInv, PageIsLast
<1>4. os[t].serial = page.q
  BY <1>1, <1>t, <1>3, SerialFacts DEF IInv, QueuesOwn
<1>5. network'.pc = "select"
  BY <1>2 DEF Waiting
<1>6. /\ \/ os'[t].queue = os[t].queue \o <<page>>
         \/ os'[t].queue = os[t].queue \o <<Gap, page>>
      /\ \A s \in Slots \ {t} : os'[s] = os[s]
  BY <1>1, <1>h, <1>4 DEF TypeOK, PagedIn
<1>7. page \in Packet /\ os[t].queue \in Seq(Packet)
  BY <1>1, HeldTyped DEF Packet
<1>8. Elems(os'[t].queue) \subseteq Elems(os[t].queue) \cup {Gap, page}
  <2> DEFINE queue == os[t].queue
             more == os'[t].queue
  <2>1. /\ queue \in Seq(Packet)
        /\ more = queue \o <<page>> \/ more = queue \o <<Gap, page>>
    BY <1>6, <1>7
  <2> HIDE DEF queue, more
  <2>2. Elems(more) \subseteq Elems(queue) \cup {Gap, page}
    BY <1>7, <2>1, QueuedIn
  <2>3. QED
    BY <2>2 DEF queue, more
<1>9. /\ Packets(t) = os[t].queue /\ Packets(t)' = os'[t].queue /\ InHand(t)' = InHand(t)
      /\ \A s \in Slots \ {t} : Kept(s)
  <2>1. \A s \in Slots : InHand(s)' = InHand(s)
    BY <1>2 DEF InHand
  <2>2. \A s \in Slots : Packets(s) = os[s].queue /\ Packets(s)' = os'[s].queue
    BY <1>1, <1>5 DEF Packets
  <2>3. QED
    BY <1>2, <1>6, <2>1, <2>2 DEF Kept
<1>10. /\ \A s \in Slots \ {t} : Held(s)' = Held(s)
       /\ Held(t)' \subseteq Held(t) \cup {Gap, page}
       /\ Ahead(t)' \subseteq Ahead(t) \cup {Gap, page}
  <2>1. \A s \in Slots \ {t} : Held(s)' = Held(s)
    BY <1>9, KeptHolds
  <2>2. Held(t)' \subseteq Held(t) \cup {Gap, page}
    BY <1>2, <1>8, <1>9 DEF Held
  <2>3. Ahead(t)' \subseteq Ahead(t) \cup {Gap, page}
    BY <1>2, <1>8, <1>9 DEF Ahead
  <2>4. QED
    BY <2>1, <2>2, <2>3
<1>11. Gap.q \notin Serials
  BY PacketFacts
<1>12. \A s \in Slots : \A b \in Held(s)' : b.q \in Serials => b \in Held(s) \/ (s = t /\ b = page)
  BY <1>10, <1>11
<1>13. \A s \in Slots : \A b \in Held(s) : b.q = page.q => b.n <= page.n
  BY <1>3 DEF OInv, AllArrived
<1>14. NamedOnce' /\ PageIsLast' /\ PcmDecoded'
  BY <1>2, <1>5, SameNames DEF OInv, PcmDecoded
<1>15. AllArrived'
  <2>1. page.n <= page.n
    BY <1>7, PacketFacts
  <2>2. QED
    BY <1>2, <1>3, <1>12, <2>1 DEF OInv, AllArrived
<1>16. ASSUME ~ reused'[t] PROVE LineOf(t)' /\ Before(id'[t], Past(t)', Ahead(t)')
  <2>1. LineOf(t) /\ Before(id[t], Past(t), Ahead(t))
    BY <1>1, <1>3, <1>16, Noted, SerialFacts DEF OInv, InOrder, Lined
  <2>2. Before(page.q, {mixbuf[t], dec[t], InHand(t)} \cup Elems(ring[t]) \cup Elems(os[t].queue),
               {page})
    BY <1>13 DEF Before, Behind, Held
  <2>3. LineOf(t)'
    <3> DEFINE queue == os[t].queue
               more == os'[t].queue
    <3>1. /\ queue \in Seq(Packet)
          /\ more = queue \o <<page>> \/ more = queue \o <<Gap, page>>
      BY <1>6, <1>7
    <3>2. Line(page.q, mixbuf[t], ring[t], dec[t], InHand(t), queue)
      BY <1>3, <1>9, <2>1 DEF LineOf
    <3>3. Before(page.q, {mixbuf[t], dec[t], InHand(t)} \cup Elems(ring[t]) \cup Elems(queue), {page})
      BY <2>2
    <3> HIDE DEF queue, more
    <3>4. Line(page.q, mixbuf[t], ring[t], dec[t], InHand(t), more)
      <4>1. \A q \in Serials : \A mix, blocks, now, op :
              /\ Line(q, mix, blocks, now, op, queue)
              /\ Before(q, {mix, now, op} \cup Elems(blocks) \cup Elems(queue), {page})
              => Line(q, mix, blocks, now, op, more)
        BY <1>7, <3>1, QueuedIn
      <4>2. QED
        BY <1>3, <3>2, <3>3, <4>1, Zenon
    <3>5. QED
      BY <1>2, <1>3, <1>9, <3>4 DEF LineOf, more
  <2>4. Past(t)' = Past(t)
    BY <1>2, <1>10 DEF Past
  <2>5. \A b \in Past(t) : b.q = page.q => b.n <= page.n
    <3>1. played[page.q] <= page.n
      BY <1>3 DEF OInv, AllArrived
    <3>2. Block(id[t], played[id[t]]).n <= page.n
      BY <1>3, <3>1 DEF Block
    <3>3. QED
      BY <1>13, <3>2 DEF Past
  <2>6. Before(id'[t], Past(t)', Ahead(t)')
    BY <1>2, <1>3, <1>10, <1>11, <2>1, <2>4, <2>5 DEF Before, Behind
  <2>7. QED
    BY <2>3, <2>6
<1>17. ASSUME NEW s \in Slots \ {t}, id'[s] # 0, ~ reused'[s]
       PROVE  LineOf(s)' /\ Before(id'[s], Past(s)', Ahead(s)')
  <2>1. id'[s] = id[s] /\ id[s] \in Serials /\ id[s] # page.q
    BY <1>1, <1>2, <1>3, <1>17 DEF OInv, NamedOnce, TypeOK
  <2>2. LineOf(s) /\ Before(id[s], Past(s), Ahead(s))
    BY <1>1, <1>17, <2>1, Noted DEF OInv, InOrder, Lined
  <2>3. (LineOf(s)' <=> LineOf(s)) /\ Ahead(s)' = Ahead(s)
    BY <1>9, KeptHolds
  <2>4. \A b \in Past(s)' : b.q = id[s] => b \in Past(s)
    BY <1>2, <1>12, <2>1 DEF Past
  <2>5. Before(id'[s], Past(s)', Ahead(s)')
    BY <2>1, <2>2, <2>3, <2>4 DEF Before, Behind
  <2>6. QED
    BY <2>2, <2>3, <2>5
<1>18. InOrder'
  BY <1>16, <1>17 DEF InOrder, Lined
<1>19. QED
  BY <1>14, <1>15, <1>18 DEF OInv

-----------------------------------------------------------------------------
(* What counts as played after mixing was so before or is in a mixbuf. *)
LEMMA PlayedIsMixed ==
  ASSUME TypeOK, Mix, NEW q \in Serials
  PROVE  \/ played'[q] = played[q]
         \/ \E u \in Slots : mixbuf[u].q = q /\ played'[q] = mixbuf[u].n
<1> DEFINE now == [s \in Slots |-> IF id[s] = 0 THEN Nothing
                                   ELSE [id |-> id[s], block |-> mixbuf[s]]]
           S == Numbers(now, q) \cup {played[q]}
<1>1. played'[q] = Highest(S)
  BY DEF Mix
<1>2. \A n \in Numbers(now, q) : \E u \in Slots : mixbuf[u].q = q /\ n = mixbuf[u].n
  BY PacketFacts DEF Numbers, Nothing
<1>3. S \subseteq 0 .. MaxPages /\ S # {}
  <2>1. played[q] \in 0 .. MaxPages /\ \A u \in Slots : mixbuf[u].n \in 0 .. MaxPages
    BY BlockFacts DEF TypeOK
  <2>2. QED
    BY <1>2, <2>1
<1> HIDE DEF now, S
<1>4. Highest(S) \in S
  BY <1>3, HighestIn
<1>5. QED
  BY <1>1, <1>2, <1>4 DEF S

(* Of what a slot has ahead, mixbuf is first, and what others hold is older. *)
LEMMA MixOrder ==
  ASSUME IInv, OInv, Mix, NoteOverlap PROVE OInv'
<1>1. TypeOK /\ TypeOK'
  BY MixStep DEF IInv
<1>2. UNCHANGED <<id, os, ring, pcm, dec, mixbuf, stream, network, arrived>>
  BY DEF Mix
<1>3. \A s \in Slots : Kept(s)
  BY <1>2 DEF Kept, InHand, Packets
<1>4. \A s \in Slots : /\ Held(s)' = Held(s) /\ Ahead(s)' = Ahead(s)
                       /\ LineOf(s)' <=> LineOf(s)
  BY <1>3, KeptHolds
<1>5. AllArrived'
  <2>1. \A q \in Serials : played'[q] <= arrived[q]
    <3> SUFFICES ASSUME NEW q \in Serials PROVE played'[q] <= arrived[q]
      OBVIOUS
    <3>1. CASE played'[q] = played[q]
      BY <3>1 DEF OInv, AllArrived
    <3>2. CASE \E u \in Slots : mixbuf[u].q = q /\ played'[q] = mixbuf[u].n
      BY <3>2 DEF OInv, AllArrived, Held
    <3>3. QED
      BY <1>1, <3>1, <3>2, PlayedIsMixed
  <2>2. QED
    BY <1>2, <1>4, <2>1 DEF OInv, AllArrived
<1>6. ASSUME NEW s \in Slots, id[s] # 0, ~ reused'[s]
      PROVE  LineOf(s)' /\ Before(id'[s], Past(s)', Ahead(s)')
  <2> DEFINE q == id[s]
  <2>1. q \in Serials /\ LineOf(s) /\ Before(q, Past(s), Ahead(s))
    BY <1>1, <1>6, Noted DEF TypeOK, OInv, InOrder, Lined
  <2>2. mixbuf[s] \in Packet /\ mixbuf[s].n \in Int
    BY <1>1, HeldTyped, PacketFacts DEF Packet
  <2>3. Before(q, {mixbuf[s]}, Ahead(s))
    BY <2>1, <2>2 DEF LineOf, Line, Ahead, Before, Behind
  <2>4. \A u \in Slots : mixbuf[u] \in Past(s) \cup {mixbuf[s]}
    BY DEF Past, Held
  <2>5. \A b \in Ahead(s) : b.q = q => played'[q] <= b.n
    <3> SUFFICES ASSUME NEW b \in Ahead(s), b.q = q PROVE played'[q] <= b.n
      OBVIOUS
    <3>1. CASE played'[q] = played[q]
      <4>1. Block(q, played[q]) \in Past(s)
        BY DEF Past
      <4>2. Behind(q, Block(q, played[q]), b)
        BY <2>1, <4>1 DEF Before
      <4>3. QED
        BY <3>1, <4>2 DEF Behind, Block
    <3>2. CASE \E u \in Slots : mixbuf[u].q = q /\ played'[q] = mixbuf[u].n
      BY <2>1, <2>3, <2>4, <3>2 DEF Before, Behind
    <3>3. QED
      BY <1>1, <2>1, <3>1, <3>2, PlayedIsMixed
  <2>6. \A b \in Past(s)' : b = Block(q, played'[q]) \/ b \in Past(s)
    BY <1>2, <1>4 DEF Past
  <2>7. Block(q, played'[q]).n = played'[q]
    BY DEF Block
  <2>8. Before(id'[s], Past(s)', Ahead(s)')
    BY <1>2, <1>4, <2>1, <2>5, <2>6, <2>7 DEF Before, Behind
  <2>9. QED
    BY <1>4, <2>1, <2>8
<1>7. InOrder'
  BY <1>2, <1>6 DEF InOrder, Lined
<1>8. QED
  BY <1>2, <1>5, <1>7, SameNames DEF OInv, PcmDecoded

LEMMA InitOInv == Init => OInv
<1> SUFFICES ASSUME Init PROVE OInv
  OBVIOUS
<1>1. NamedOnce /\ PageIsLast /\ PcmDecoded /\ InOrder
  BY DEF Init, NamedOnce, PageIsLast, PcmDecoded, InOrder, Lined, Waiting
<1>2. \A s \in Slots : Held(s) \subseteq {Silence}
  BY ElemsEmpty DEF Init, Held, InHand, FreshOs
<1>3. AllArrived
  BY <1>2, PacketFacts DEF AllArrived, Init
<1>4. QED
  BY <1>1, <1>3 DEF OInv

-----------------------------------------------------------------------------
(* In every reachable state what each slot not reused under a punch holds   *)
(* of its stream is a line in the order it arrived, and what was played    *)
(* or is left in other slots is no newer.                                   *)
THEOREM OrderInductive == Spec => []OInv
<1>1. IInv /\ OInv /\ [Next]_vars => OInv'
  <2> SUFFICES ASSUME IInv, OInv, [Next]_vars PROVE OInv'
    OBVIOUS
  <2>1. CASE Arrival /\ NoteOverlap
    BY <2>1, ReceivePageOrder DEF Arrival
  <2>2. CASE StartCheck /\ NoteOverlap
    BY <2>2, StartCheckOrder
  <2>3. CASE NetworkStep /\ NoteOverlap
    BY <2>3, InitStreamOrder, PageInOrder, CheckSlotOrder, ClearBuffersOrder, FlushRingOrder
       DEF NetworkStep
  <2>4. CASE StreamStep /\ NoteOverlap
    BY <2>4, VisitOrder, PacketOutOrder, DecodeOrder, DecodeFailsOrder, WriteRingOrder
       DEF StreamStep
  <2>5. CASE AudioStep /\ NoteOverlap
    BY <2>5, CheckActiveOrder, ReadRingOrder, MixOrder DEF AudioStep
  <2>6. CASE UNCHANGED vars
    BY <2>6, StutterOrder
  <2>7. QED
    BY <2>1, <2>2, <2>3, <2>4, <2>5, <2>6 DEF Next
<1>2. QED
  BY InitOInv, Inductive, <1>1, PTL DEF Spec

(* The blocks of a stream are mixed in the order they arrived - through     *)
(* lost pages, gaps, full rings, underruns, resets and a return of the      *)
(* stream to another slot - unless the slot was reset or taken over while   *)
(* the stream thread was punching it.                                       *)
THEOREM MixesInOrder == Spec => MixedInOrder
<1> DEFINE InOrderNow ==
      \A s \in Slots, q \in Serials :
        mixed' # mixed /\ mixed'[s].block.q = q =>
          mixed'[s].block.n >= played[q] \/ reused[s]
<1>1. ASSUME IInv, OInv, [Next]_vars PROVE [InOrderNow]_vars
  <2> SUFFICES ASSUME NEW s \in Slots, NEW q \in Serials,
                      mixed' # mixed, mixed'[s].block.q = q, ~ reused[s]
               PROVE  mixed'[s].block.n >= played[q]
    OBVIOUS
  <2>1. TypeOK
    BY <1>1 DEF IInv
  <2>2. CASE Mix
    <3>1. id[s] # 0 /\ mixed'[s].block = mixbuf[s] /\ mixbuf[s].q = q
      BY <2>2, PacketFacts DEF Mix, Nothing
    <3>2. Own(s, mixbuf[s])
      <4>1. ~ (network.pc = "clear" /\ network.slot = s)
        BY <1>1, <3>1 DEF IInv, NamedAsPage
      <4>2. QED
        BY <1>1, <4>1 DEF IInv, BuffersOwn
    <3>3. id[s] = q
      BY <3>1, <3>2, PacketFacts DEF Own
    <3>4. Before(q, Past(s), Ahead(s))
      BY <1>1, <3>1, <3>3 DEF OInv, InOrder, Lined
    <3>5. Block(q, played[q]) \in Past(s) /\ mixbuf[s] \in Ahead(s)
      BY <3>3 DEF Past, Ahead
    <3>6. Behind(q, Block(q, played[q]), mixbuf[s])
      BY <3>4, <3>5 DEF Before
    <3>7. played[q] <= mixbuf[s].n
      BY <3>1, <3>6 DEF Behind, Block
    <3>8. mixbuf[s].n \in Int /\ played[q] \in Int
      BY <2>1, BlockFacts, BoundAssumption DEF TypeOK
    <3>9. QED
      BY <3>1, <3>7, <3>8
  <2>3. CASE CheckActive
    BY <2>3, PacketFacts DEF CheckActive, Nothing
  <2>4. CASE UNCHANGED mixed
    BY <2>4
  <2>5. Mix \/ CheckActive \/ UNCHANGED mixed
    BY <1>1
       DEF Next, Arrival, ReceivePage, StartCheck, NetworkStep, InitStream, PageIn, CheckSlot,
           ClearBuffers, FlushRing, StreamStep, Visit, PacketOut, Decode, DecodeFails,
           WriteRing, AudioStep, ReadRing, vars
  <2>6. QED
    BY <2>2, <2>3, <2>4, <2>5
<1>2. QED
  BY Inductive, OrderInductive, <1>1, PTL DEF Spec, MixedInOrder
=============================================================================
