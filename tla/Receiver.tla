------------------------------- MODULE Receiver -------------------------------
(***************************************************************************)
(* The three threads of gsp-opus-rx-ogg.c around the stream slots:         *)
(*   - the network thread assigns slots, feeds pages to a slot's           *)
(*     ogg_stream_state and resets slots of lost streams;                  *)
(*   - the stream thread visits the slots in turn and moves a packet, once *)
(*     decoded and resampled, into the ring of the slot (punchPacket);     *)
(*   - the audio callback reads a block from the ring of every slot in use *)
(*     into the slot's mixbuf and then mixes the mixbufs (mixAudio).       *)
(* page_mutex guards the ogg_stream_state in pagein and packetout,         *)
(* packet_mutex the ring in read and write; id, active, ogg_stream_init    *)
(* and everything resetStream touches are guarded by nothing.              *)
(*                                                                         *)
(* A page holds one packet and a packet decodes to one block: what a block *)
(* is matters here only as "the n-th of stream q to arrive".  UDP may lose, *)
(* reorder and repeat pages, and nothing in the program puts them back in  *)
(* order: a page that is not the successor of the one before, whichever of *)
(* these happened, leaves a hole and is played when it came.  When slots   *)
(* are taken and which streams are lost is the subject of StreamTable:     *)
(* here a page may come whenever the network thread waits, and so may the  *)
(* timeout.                                                                *)
(***************************************************************************)
EXTENDS Integers, Sequences

CONSTANTS
  N,          (* N_STREAM_STRUCTURES                                       *)
  Serials,    (* serials of the senders, at most N and not 0               *)
  RingBlocks, (* blocks that fit the ring of a slot                        *)
  MaxPages,   (* bound on the pages of a stream                            *)
  MaxTraffic  (* bound on the pages received                               *)

ASSUME SlotAssumption == N \in Nat \ {0} /\ RingBlocks \in Nat \ {0}
ASSUME BoundAssumption == MaxPages \in Nat /\ MaxTraffic \in Nat
ASSUME SerialAssumption == Serials \subseteq Nat \ {0}

VARIABLES
  id, os, active, ring, pcm, dec, mixbuf,  (* per slot                     *)
  network,    (* network thread: [pc, slot, page]                          *)
  stream,     (* stream thread: [pc, slot, op]                             *)
  opBody,     (* where op.packet points: "own", "shared" with os, "moved"  *)
  audio,      (* audio callback: [pc, slot]                                *)
  mixed,      (* history: what a callback has just mixed of each slot      *)
  arrived,    (* pages received so far, per serial                         *)
  traffic,    (* pages received so far, of all serials                     *)
  reused,     (* history: a reset or takeover of the slot met a punch      *)
  played      (* history: highest block number mixed, per serial           *)

vars == <<id, os, active, ring, pcm, dec, mixbuf, network, stream, opBody,
          audio, mixed, arrived, traffic, reused, played>>

-----------------------------------------------------------------------------
Slots == 0 .. N - 1
Block(q, n) == [q |-> q, n |-> n]
Silence == Block(0, 0)
Torn == Block(-1, 0)   (* decoded from memory that was overwritten          *)
Gap == Block(0, -1)    (* ogg_stream_packetout returned -1                  *)
Waiting == [pc |-> "select", slot |-> 0, page |-> Silence]
Nothing == [id |-> 0, block |-> Silence]

FreshOs(q) == [serial |-> q, queue |-> <<>>]

Blocks == {Silence, Torn} \cup {Block(q, n) : q \in Serials, n \in 1 .. MaxPages}

Punching(s) == stream.pc # "visit" /\ stream.slot = s
Changing(s) == network.pc \in {"init", "clear", "flush"} /\ network.slot = s

(* Every step notes whether it leaves a slot being punched and changed.     *)
NoteOverlap == reused' = [s \in Slots |-> reused[s] \/ (Punching(s)' /\ Changing(s)')]

-----------------------------------------------------------------------------
(* Mutated forms of operators below: bugs the properties have to notice.    *)
NextSlotSkipsLast(s) == (s + 1) % (IF N = 1 THEN 1 ELSE N - 1)

PagedInFront(state, page, hole) == [state EXCEPT !.queue = <<page>> \o @]

InitKeepsQueue(q, state) == [state EXCEPT !.serial = q]

PushUnbounded(queue, block) == Append(queue, block)

-----------------------------------------------------------------------------
Init ==
  /\ id = [s \in Slots |-> 0]
  /\ os = [s \in Slots |-> FreshOs(0)]
  /\ active = [s \in Slots |-> FALSE]
  /\ ring = [s \in Slots |-> <<>>]
  /\ pcm = [s \in Slots |-> Silence]
  /\ dec = [s \in Slots |-> Silence]
  /\ mixbuf = [s \in Slots |-> Silence]
  /\ network = Waiting
  /\ stream = [pc |-> "visit", slot |-> 0, op |-> Silence]
  /\ opBody = "own"
  /\ audio = [pc |-> "check", slot |-> 0]
  /\ mixed = [s \in Slots |-> Nothing]
  /\ arrived = [q \in Serials |-> 0]
  /\ traffic = 0
  /\ reused = [s \in Slots |-> FALSE]
  /\ played = [q \in Serials |-> 0]

-----------------------------------------------------------------------------
(* Network thread. *)
First(serial) ==
  {s \in Slots : id[s] = serial /\ \A u \in Slots : id[u] = serial => s <= u}

(* A page is received and its slot looked up; a new stream's is named.      *)
ReceivePage(q) ==
  /\ network.pc = "select"
  /\ arrived[q] < MaxPages
  /\ arrived' = [arrived EXCEPT ![q] = @ + 1]
  /\ traffic < MaxTraffic /\ traffic' = traffic + 1
  /\ \/ \E s \in First(q) :
          /\ network' = [pc |-> "pagein", slot |-> s, page |-> Block(q, arrived'[q])]
          /\ UNCHANGED id
     \/ /\ First(q) = {}
        /\ \E s \in First(0) :
             /\ network' = [pc |-> "init", slot |-> s, page |-> Block(q, arrived'[q])]
             /\ id' = [id EXCEPT ![s] = q]
  /\ UNCHANGED <<os, active, ring, pcm, dec, mixbuf, stream, opBody, audio, mixed, played>>

InitOs(q, state) == FreshOs(q)

(* ogg_stream_init gives the slot new memory and drops the packets of the   *)
(* stream before; a packet still held by the stream thread stays as it is.  *)
InitStream ==
  LET s == network.slot
  IN /\ network.pc = "init"
     /\ os' = [os EXCEPT ![s] = InitOs(network.page.q, @)]
     /\ opBody' = IF stream.slot = s THEN "own" ELSE opBody
     /\ network' = [network EXCEPT !.pc = "pagein"]
     /\ UNCHANGED <<id, active, ring, pcm, dec, mixbuf, stream, audio, mixed, arrived, traffic, played>>

(* ogg_stream_pagein takes whatever page comes; one whose number is not the *)
(* successor of the last one's (pages were lost, this one is late, or a     *)
(* repetition; in a new ogg_stream_state: any but the first of its stream)  *)
(* leaves a hole before its packet.                                         *)
PagedIn(state, page, hole) ==
  [state EXCEPT !.queue = @ \o (IF hole THEN <<Gap, page>> ELSE <<page>>)]

(* pagein moves the body it returned packets of, so it overwrites the one   *)
(* the stream thread may still be decoding.                                 *)
PageIn ==
  LET s == network.slot
  IN /\ network.pc = "pagein"
     /\ \E hole \in BOOLEAN :
          os' = [os EXCEPT ![s] = IF os[s].serial = network.page.q
                                  THEN PagedIn(@, network.page, hole) ELSE @]
     /\ opBody' = IF stream.slot = s /\ opBody = "shared" THEN "moved" ELSE opBody
     /\ network' = Waiting
     /\ UNCHANGED <<id, active, ring, pcm, dec, mixbuf, stream, audio, mixed, arrived, traffic, played>>

(* The timeout: checkStreams goes through the slots and resets those in     *)
(* use; all of them are lost then (KilledTogether of StreamTable).          *)
StartCheck ==
  /\ network.pc = "select"
  /\ \E s \in Slots : id[s] # 0
  /\ network' = [network EXCEPT !.pc = "check", !.slot = 0]
  /\ UNCHANGED <<id, os, active, ring, pcm, dec, mixbuf, stream, opBody, audio,
                 mixed, arrived, traffic, played>>

CheckSlot ==
  /\ network.pc = "check"
  /\ \/ /\ network.slot = N
        /\ network' = Waiting
        /\ UNCHANGED id
     \/ /\ network.slot < N
        /\ id[network.slot] = 0
        /\ network' = [network EXCEPT !.slot = @ + 1]
        /\ UNCHANGED id
     \/ /\ network.slot < N
        /\ id[network.slot] # 0
        /\ id' = [id EXCEPT ![network.slot] = 0]
        /\ network' = [network EXCEPT !.pc = "clear"]
  /\ UNCHANGED <<os, active, ring, pcm, dec, mixbuf, stream, opBody, audio,
                 mixed, arrived, traffic, played>>

(* The memsets of resetStream and the reset of the decoder. *)
ClearBuffers ==
  LET s == network.slot
  IN /\ network.pc = "clear"
     /\ ring' = [ring EXCEPT ![s] = [i \in DOMAIN @ |-> Silence]]
     /\ pcm' = [pcm EXCEPT ![s] = Silence]
     /\ mixbuf' = [mixbuf EXCEPT ![s] = Silence]
     /\ dec' = [dec EXCEPT ![s] = Silence]
     /\ network' = [network EXCEPT !.pc = "flush"]
     /\ UNCHANGED <<id, os, active, stream, opBody, audio, mixed, arrived, traffic, played>>

FlushRing ==
  /\ network.pc = "flush"
  /\ ring' = [ring EXCEPT ![network.slot] = <<>>]
  /\ network' = [network EXCEPT !.pc = "check", !.slot = @ + 1]
  /\ UNCHANGED <<id, os, active, pcm, dec, mixbuf, stream, opBody, audio, mixed,
                 arrived, traffic, played>>

-----------------------------------------------------------------------------
(* Stream thread. *)
NextSlot(s) == (s + 1) % N

Visit ==
  /\ stream.pc = "visit"
  /\ stream' = IF id[stream.slot] # 0 THEN [stream EXCEPT !.pc = "packetout"]
               ELSE [stream EXCEPT !.slot = NextSlot(@)]
  /\ UNCHANGED <<id, os, active, ring, pcm, dec, mixbuf, network, opBody, audio,
                 mixed, arrived, traffic, played>>

PacketOut ==
  LET s == stream.slot
  IN /\ stream.pc = "packetout"
     /\ \/ /\ os[s].queue = <<>>
           /\ stream' = [stream EXCEPT !.pc = "visit", !.slot = NextSlot(@)]
           /\ UNCHANGED <<os, opBody>>
        \/ /\ os[s].queue # <<>>
           /\ stream' = [stream EXCEPT !.pc = "decode", !.op = Head(os[s].queue)]
           /\ os' = [os EXCEPT ![s].queue = Tail(@)]
           /\ opBody' = "shared"
     /\ UNCHANGED <<id, active, ring, pcm, dec, mixbuf, network, audio, mixed,
                    arrived, traffic, played>>

(* What opus_decode_float and src_process leave in resamplerPCM: a gap is   *)
(* concealed by what was decoded last.                                      *)
Decoded(s) ==
  IF stream.op = Gap THEN {dec[s]}
  ELSE {stream.op} \cup (IF opBody = "moved" THEN {Torn} ELSE {})

Decode ==
  LET s == stream.slot
  IN /\ stream.pc = "decode"
     /\ \E block \in Decoded(s) :
          /\ pcm' = [pcm EXCEPT ![s] = block]
          /\ dec' = [dec EXCEPT ![s] = block]
     /\ stream' = [stream EXCEPT !.pc = "write", !.op = Silence]
     /\ opBody' = "own"
     /\ UNCHANGED <<id, os, active, ring, mixbuf, network, audio, mixed, arrived, traffic, played>>

(* opus_decode_float may reject what was overwritten; nothing is written.   *)
DecodeFails ==
  /\ stream.pc = "decode"
  /\ stream.op # Gap /\ opBody = "moved"
  /\ stream' = [pc |-> "visit", slot |-> NextSlot(stream.slot), op |-> Silence]
  /\ opBody' = "own"
  /\ UNCHANGED <<id, os, active, ring, pcm, dec, mixbuf, network, audio, mixed,
                 arrived, traffic, played>>

(* PaUtil_WriteRingBuffer drops what does not fit. *)
Push(queue, block) ==
  IF Len(queue) < RingBlocks THEN Append(queue, block) ELSE queue

WriteRing ==
  LET s == stream.slot
  IN /\ stream.pc = "write"
     /\ ring' = [ring EXCEPT ![s] = Push(@, pcm[s])]
     /\ stream' = [stream EXCEPT !.pc = "visit", !.slot = NextSlot(@)]
     /\ UNCHANGED <<id, os, active, pcm, dec, mixbuf, network, opBody, audio,
                    mixed, arrived, traffic, played>>

-----------------------------------------------------------------------------
(* Audio callback. *)
(* A callback goes through the slots; one in use that was never read before *)
(* is flushed first.                                                        *)
CheckActive ==
  LET s == audio.slot
  IN /\ audio.pc = "check" /\ s < N
     /\ \/ /\ id[s] = 0
           /\ audio' = [audio EXCEPT !.slot = @ + 1]
           /\ UNCHANGED <<active, ring>>
        \/ /\ id[s] # 0
           /\ audio' = [audio EXCEPT !.pc = "read"]
           /\ ring' = IF active[s] THEN ring ELSE [ring EXCEPT ![s] = <<>>]
           /\ active' = [active EXCEPT ![s] = TRUE]
     /\ mixed' = [u \in Slots |-> Nothing]
     /\ UNCHANGED <<id, os, pcm, dec, mixbuf, network, stream, opBody, arrived, traffic, played>>

(* With nothing to read, mixbuf keeps the block of the callback before.     *)
ReadRing ==
  LET s == audio.slot
  IN /\ audio.pc = "read"
     /\ mixbuf' = [mixbuf EXCEPT ![s] = IF ring[s] = <<>> THEN @ ELSE Head(ring[s])]
     /\ ring' = [ring EXCEPT ![s] = IF @ = <<>> THEN @ ELSE Tail(@)]
     /\ audio' = [pc |-> "check", slot |-> s + 1]
     /\ UNCHANGED <<id, os, active, pcm, dec, network, stream, opBody, mixed,
                    arrived, traffic, played>>

(* Block numbers of a stream among what is mixed, and the highest of a set.  *)
Numbers(now, q) == {now[s].block.n : s \in {u \in Slots : now[u].block.q = q}}
Highest(S) == CHOOSE n \in S : \A m \in S : m <= n

(* The slots' ids are looked at again while mixing. *)
Mix ==
  LET now == [s \in Slots |-> IF id[s] = 0 THEN Nothing
                              ELSE [id |-> id[s], block |-> mixbuf[s]]]
  IN /\ audio.pc = "check" /\ audio.slot = N
     /\ mixed' = now
     /\ played' = [q \in Serials |-> Highest(Numbers(now, q) \cup {played[q]})]
     /\ audio' = [pc |-> "check", slot |-> 0]
     /\ UNCHANGED <<id, os, active, ring, pcm, dec, mixbuf, network, stream, opBody, arrived, traffic>>

-----------------------------------------------------------------------------
Arrival == \E q \in Serials : ReceivePage(q)
NetworkStep == InitStream \/ PageIn \/ CheckSlot \/ ClearBuffers \/ FlushRing
StreamStep == Visit \/ PacketOut \/ Decode \/ DecodeFails \/ WriteRing
AudioStep == CheckActive \/ ReadRing \/ Mix

Next == /\ Arrival \/ StartCheck \/ NetworkStep \/ StreamStep \/ AudioStep
        /\ NoteOverlap

Spec == Init /\ [][Next]_vars

(* Each thread keeps running and PortAudio keeps calling back; no page and  *)
(* no timeout has to come.                                                  *)
FairSpec == /\ Spec
            /\ WF_vars(NetworkStep /\ NoteOverlap)
            /\ WF_vars(StreamStep /\ NoteOverlap)
            /\ WF_vars(AudioStep /\ NoteOverlap)

-----------------------------------------------------------------------------
(* Type invariant: rings never hold more than they have room for, whatever  *)
(* the threads do to them.                                                  *)
TypeOK ==
  /\ id \in [Slots -> Serials \cup {0}]
  /\ os \in [Slots -> [serial : Serials \cup {0}, queue : Seq(Blocks \cup {Gap})]]
  /\ ring \in [Slots -> Seq(Blocks)]
  /\ \A s \in Slots : Len(ring[s]) <= RingBlocks
  /\ active \in [Slots -> BOOLEAN]
  /\ pcm \in [Slots -> Blocks] /\ dec \in [Slots -> Blocks]
  /\ mixbuf \in [Slots -> Blocks]
  /\ network \in [pc : {"select", "init", "pagein", "check", "clear", "flush"},
                  slot : 0 .. N, page : Blocks]
  /\ stream \in [pc : {"visit", "packetout", "decode", "write"},
                 slot : Slots, op : Blocks \cup {Gap}]
  /\ opBody \in {"own", "shared", "moved"}
  /\ audio \in [pc : {"check", "read"}, slot : 0 .. N]
  /\ audio.pc = "read" => audio.slot \in Slots
  /\ mixed \in [Slots -> [id : Serials \cup {0}, block : Blocks]]
  /\ arrived \in [Serials -> 0 .. MaxPages] /\ traffic \in 0 .. MaxTraffic
  /\ reused \in [Slots -> BOOLEAN]
  /\ played \in [Serials -> 0 .. MaxPages]

Foreign(m) == m.block \notin {Silence, Torn} /\ m.block.q # m.id

(* A block of one stream is mixed in the name of another only in a slot     *)
(* that was reset or taken over while the stream thread was punching it:    *)
(* without that overlap the unlocked resetStream and the reuse of slots are *)
(* harmless.                                                                *)
ForeignNeedsOverlap == \A s \in Slots : Foreign(mixed[s]) => reused[s]

(* Strengthening: what the pipeline of a slot holds, step by step, is of    *)
(* the stream the slot is named after, unless such an overlap happened.     *)
Own(s, block) == block \in {Silence, Torn} \/ block.q = id[s]

OverlapNoted == \A s \in Slots : Punching(s) /\ Changing(s) => reused[s]

PunchesUsed == \A s \in Slots : Punching(s) => id[s] # 0 \/ reused[s]

(* The network thread names a slot after the page it holds and frees it     *)
(* before it clears it.                                                     *)
NamedAsPage ==
  LET s == network.slot
  IN /\ network.pc # "check" => s \in Slots
     /\ network.pc = "init" => id[s] = network.page.q
     /\ network.pc \in {"init", "pagein"} => network.page.q \in Serials
     /\ network.pc \in {"clear", "flush"} => id[s] = 0

QueuesOwn ==
  \A s \in Slots :
    /\ \A i \in 1 .. Len(os[s].queue) :
         os[s].queue[i] = Gap \/ os[s].queue[i].q = os[s].serial
    /\ id[s] # 0 /\ ~ (network.pc = "init" /\ network.slot = s) => os[s].serial = id[s]

PacketOwn ==
  LET s == stream.slot
  IN stream.pc = "decode" => reused[s] \/ stream.op = Gap \/ Own(s, stream.op)

BuffersOwn ==
  \A s \in Slots :
    \/ reused[s]
    \/ network.pc = "clear" /\ network.slot = s
    \/ /\ Own(s, pcm[s]) /\ Own(s, dec[s]) /\ Own(s, mixbuf[s])
       /\ \A i \in 1 .. Len(ring[s]) : Own(s, ring[s][i])

(* The inductive invariant behind the theorems of ReceiverProofs. *)
IInv ==
  /\ TypeOK /\ OverlapNoted /\ PunchesUsed /\ NamedAsPage /\ QueuesOwn /\ PacketOwn
  /\ BuffersOwn /\ ForeignNeedsOverlap

(* The blocks of a stream are mixed in the order their pages arrived:       *)
(* holes and underruns, which mix the last block again, full rings, resets  *)
(* and a return of the stream, to another slot too, never bring an older    *)
(* block back, unless such an overlap put it into the slot's ring.  What    *)
(* the network reordered or repeated stays so: the order of sending is no   *)
(* matter of this code.                                                     *)
MixedInOrder ==
  [][\A s \in Slots, q \in Serials :
       mixed' # mixed /\ mixed'[s].block.q = q =>
         mixed'[s].block.n >= played[q] \/ reused[s]]_vars

(* When nothing more arrives, every packet accepted for a slot in use is    *)
(* decoded and every block in its ring is read.                             *)
Drained ==
  <>[](\A s \in Slots : id[s] # 0 => os[s].queue = <<>> /\ ring[s] = <<>>)

=============================================================================
