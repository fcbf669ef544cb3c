------------------------------- MODULE SlotRing -------------------------------
(***************************************************************************)
(* The ring buffer of one slot of the receiver, as gsp-opus-rx-ogg.c uses  *)
(* it: the stream thread writes and the audio callback reads under         *)
(* packet_mutex, but the network thread flushes it in resetStream, and the *)
(* callback before its first read, without.  A step is one load or store   *)
(* of an index; threads that race may see the two loads of a call, and the *)
(* two stores of a flush, in either order.                                 *)
(***************************************************************************)
EXTENDS Integers

CONSTANTS
  BufferSize,   (* ringBufSize                                             *)
  MaxWrite,     (* largest output_frames_gen of the resampler              *)
  ReadCount     (* FRAMES_PER_BUFFER_PAOUT                                 *)

ASSUME SizeAssumption ==
  BufferSize \in Nat \ {0} /\ MaxWrite \in Nat /\ ReadCount \in Nat \ {0}

VARIABLES
  index,        (* writeIndex and readIndex                                *)
  call,         (* per thread: where its call stands, and its locals       *)
  flush,        (* per thread: indices its flush has yet to set to 0       *)
  mutex,        (* packet_mutex: the thread that holds it, or NoOne        *)
  inUse,        (* id is not 0                                             *)
  active,       (* the callback has flushed for its first read             *)
  crashed,      (* a memcpy got a negative size                            *)
  overlap       (* history: a flush met a call, and nothing repaired it    *)

vars == <<index, call, flush, mutex, inUse, active, crashed, overlap>>

-----------------------------------------------------------------------------
Callers == {"stream", "audio"}
Flushers == {"network", "audio"}
Ends == {"write", "read"}
NoOne == "no one"
Unseen == -1

Own(t) == IF t = "stream" THEN "write" ELSE "read"
Asked(t) == IF t = "stream" THEN 0 .. MaxWrite ELSE {ReadCount}

Idle == [pc |-> "idle", seen |-> [e \in Ends |-> Unseen], count |-> 0, own |-> 0]

(* Mutated forms of operators below: bugs the properties have to notice.    *)
bigMaskMissing(x) == x

ClampToAsked(elementCount, available) == elementCount

bigMask(x) == x % (2 * BufferSize)

ReadAvailable(at) == bigMask(at["write"] - at["read"])

Available(t, at) ==
  IF t = "stream" THEN BufferSize - ReadAvailable(at) ELSE ReadAvailable(at)

Clamp(elementCount, available) ==
  IF elementCount > available THEN available ELSE elementCount

(* A call that has loaded an index, and a flush that has stored only one.   *)
Inside(t) == call[t].pc = "advance" \/ call[t].pc = "store" \/ call[t].seen # Idle.seen
Half(f) == flush[f] # {} /\ flush[f] # Ends

-----------------------------------------------------------------------------
Init ==
  /\ index = [e \in Ends |-> 0]
  /\ call = [t \in Callers |-> Idle]
  /\ flush = [f \in Flushers |-> {}]
  /\ mutex = NoOne
  /\ inUse = FALSE /\ active = FALSE /\ crashed = FALSE /\ overlap = FALSE

(* The thread looks at the id and goes on to its call.                      *)
Begin(t) ==
  /\ call[t].pc = "idle" /\ inUse
  /\ IF t = "audio" /\ ~ active
     THEN /\ call' = [call EXCEPT ![t].pc = "flush"]
          /\ flush' = [flush EXCEPT !["audio"] = Ends]
     ELSE /\ call' = [call EXCEPT ![t].pc = "lock"]
          /\ UNCHANGED flush
  /\ UNCHANGED <<index, mutex, inUse, active, crashed, overlap>>

Lock(t) ==
  /\ call[t].pc = "lock" /\ mutex = NoOne
  /\ mutex' = t
  /\ call' = [call EXCEPT ![t].pc = "load"]
  /\ UNCHANGED <<index, flush, inUse, active, crashed, overlap>>

Load(t, e) ==
  /\ call[t].pc = "load" /\ call[t].seen[e] = Unseen
  /\ call' = [call EXCEPT ![t].seen[e] = index[e]]
  /\ overlap' = (overlap \/ \E f \in Flushers : Half(f))
  /\ UNCHANGED <<index, flush, mutex, inUse, active, crashed>>

(* The regions of the call, and the memcpy into or out of them.             *)
Copy(t) ==
  /\ call[t].pc = "load" /\ \A e \in Ends : call[t].seen[e] # Unseen
  /\ \E n \in Asked(t) :
       LET count == Clamp(n, Available(t, call[t].seen))
       IN /\ crashed' = (count < 0)
          /\ call' = [call EXCEPT ![t].pc = "advance", ![t].count = count]
  /\ UNCHANGED <<index, flush, mutex, inUse, active, overlap>>

(* The advance loads the thread's own index once more, then stores it.      *)
LoadOwn(t) ==
  /\ call[t].pc = "advance"
  /\ call' = [call EXCEPT ![t].pc = "store", ![t].own = index[Own(t)]]
  /\ UNCHANGED <<index, flush, mutex, inUse, active, crashed, overlap>>

StoreAndUnlock(t) ==
  /\ call[t].pc = "store"
  /\ index' = [index EXCEPT ![Own(t)] = bigMask(call[t].own + call[t].count)]
  /\ call' = [call EXCEPT ![t] = Idle]
  /\ mutex' = NoOne
  /\ UNCHANGED <<flush, inUse, active, crashed, overlap>>

(* One store of PaUtil_FlushRingBuffer.                                     *)
FlushStore(f, e) ==
  /\ e \in flush[f]
  /\ index' = [index EXCEPT ![e] = 0]
  /\ flush' = [flush EXCEPT ![f] = @ \ {e}]
  /\ overlap' = ((\E t \in Callers : Inside(t)) \/ (overlap /\ \E d \in Ends : index'[d] # 0))
  /\ UNCHANGED <<call, mutex, inUse, active, crashed>>

FirstFlushDone ==
  /\ call["audio"].pc = "flush" /\ flush["audio"] = {}
  /\ active' = TRUE
  /\ call' = [call EXCEPT !["audio"].pc = "lock"]
  /\ UNCHANGED <<index, flush, mutex, inUse, crashed, overlap>>

(* resetStream clears the id and flushes; then the slot may be taken.       *)
Reset ==
  /\ inUse /\ flush["network"] = {}
  /\ inUse' = FALSE
  /\ flush' = [flush EXCEPT !["network"] = Ends]
  /\ UNCHANGED <<index, call, mutex, active, crashed, overlap>>

Take ==
  /\ ~ inUse /\ flush["network"] = {}
  /\ inUse' = TRUE
  /\ UNCHANGED <<index, call, flush, mutex, active, crashed, overlap>>

CallStep(t) ==
  \/ Begin(t) \/ Lock(t) \/ Copy(t) \/ LoadOwn(t) \/ StoreAndUnlock(t)
  \/ \E e \in Ends : Load(t, e)

FlushStep(f) == \E e \in Ends : FlushStore(f, e)

Next ==
  /\ ~ crashed
  /\ \/ \E t \in Callers : CallStep(t)
     \/ \E f \in Flushers : FlushStep(f)
     \/ FirstFlushDone
     \/ Reset \/ Take

Spec == Init /\ [][Next]_vars

(* The threads run; who gets the mutex is left open.                        *)
FairSpec ==
  /\ Spec
  /\ \A t \in Callers : WF_vars(~ crashed /\ CallStep(t))
  /\ \A f \in Flushers : WF_vars(~ crashed /\ FlushStep(f))
  /\ WF_vars(~ crashed /\ FirstFlushDone)

-----------------------------------------------------------------------------
Indices == 0 .. 2 * BufferSize - 1

Calls == [pc : {"idle", "flush", "lock", "load", "advance", "store"},
          seen : [Ends -> Indices \cup {Unseen}], count : Int, own : Indices]

(* Type invariant: the indices stay in the doubled range, and who is inside *)
(* a call holds the mutex.                                                  *)
TypeOK ==
  /\ index \in [Ends -> Indices]
  /\ call \in [Callers -> Calls]
  /\ flush \in [Flushers -> SUBSET Ends]
  /\ mutex \in Callers \cup {NoOne}
  /\ inUse \in BOOLEAN /\ active \in BOOLEAN
  /\ crashed \in BOOLEAN /\ overlap \in BOOLEAN
  /\ \A t \in Callers : call[t].pc \in {"load", "advance", "store"} <=> mutex = t

Sane == ReadAvailable(index) <= BufferSize

(* The ring never seems to hold more than fits, and no copy gets a negative *)
(* size, unless a flush met a call: flushing without the mutex is harmless  *)
(* as long as the other two threads are outside of their calls, also when   *)
(* one waits for the mutex or the two flushes meet each other.              *)
SaneUnlessOverlap ==
  ~ overlap => /\ ~ crashed
               /\ (\A f \in Flushers : ~ Half(f)) => Sane

(* Strengthening: only a call that has begun has loaded anything, and the   *)
(* callback leaves its flush only when it is done.                          *)
CallsOpen ==
  /\ \A t \in Callers :
       call[t].pc \notin {"load", "advance", "store"} => call[t].seen = Idle.seen
  /\ call["audio"].pc # "flush" => flush["audio"] = {}

(* What a call has loaded is still so, and it fits the ring.                *)
Current(t) ==
  /\ \A e \in Ends : call[t].seen[e] \in {Unseen, index[e]}
  /\ call[t].pc \in {"advance", "store"} =>
       call[t].count \in 0 .. Available(t, index)
  /\ call[t].pc = "store" => call[t].own = index[Own(t)]

(* Without an overlap a half flush stands alone and has its index at 0.     *)
Apart ==
  ~ overlap => /\ \A f \in Flushers : Half(f) =>
                    /\ \A e \in Ends \ flush[f] : index[e] = 0
                    /\ \A t \in Callers : ~ Inside(t)
               /\ \A t \in Callers : Inside(t) => Current(t)

(* The inductive invariant behind the theorems of SlotRingProofs. *)
IInv == TypeOK /\ CallsOpen /\ Apart /\ SaneUnlessOverlap

(* The damage does not last: while a stream has the slot, the callback's    *)
(* reads bring the ring back to at most what fits, unless a write came      *)
(* first and crashed.                                                       *)
Recovers == <>[]inUse => <>[](Sane \/ crashed)
=============================================================================
