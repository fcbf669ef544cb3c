---------------------------- MODULE SlotRingProofs ----------------------------
(***************************************************************************)
(* For every ring size and all call sizes: the indices of a slot's ring    *)
(* stay in their range whatever interleaves, and flushing outside of the   *)
(* mutex does no harm unless a flush meets a call.                         *)
(***************************************************************************)
EXTENDS SlotRing, TLAPS

-----------------------------------------------------------------------------
(* The mask gives an index, for any argument.                              *)
LEMMA MaskedIsIndex == \A x \in Int : bigMask(x) \in Indices
BY SizeAssumption, SMT DEF bigMask, Indices

(* The mask over the arguments that an undisturbed ring gives it.          *)
LEMMA BigMask ==
  \A x \in -(2 * BufferSize) .. 4 * BufferSize - 1 :
    bigMask(x) = IF x < 0 THEN x + 2 * BufferSize
                 ELSE IF x < 2 * BufferSize THEN x
                 ELSE x - 2 * BufferSize
<1>1. \A x \in -(2 * BufferSize) .. -1 :
        x % (2 * BufferSize) = x + 2 * BufferSize
  BY SizeAssumption, SMT
<1>2. \A x \in 0 .. 2 * BufferSize - 1 : x % (2 * BufferSize) = x
  BY SizeAssumption, SMT
<1>3. \A x \in 2 * BufferSize .. 4 * BufferSize - 1 :
        x % (2 * BufferSize) = x - 2 * BufferSize
  BY SizeAssumption, SMT
<1>4. QED
  BY <1>1, <1>2, <1>3, SizeAssumption DEF bigMask

LEMMA Between ==
  ASSUME NEW a \in Indices, NEW b \in Indices
  PROVE  bigMask(a - b) = IF a < b THEN a - b + 2 * BufferSize ELSE a - b
<1>1. a - b \in -(2 * BufferSize) .. 4 * BufferSize - 1
  BY SizeAssumption DEF Indices
<1>2. QED
  BY <1>1, BigMask, SizeAssumption DEF Indices

(* A call's own index moved on by what fits leaves the ring as full, or as  *)
(* empty, as it may be.                                                    *)
LEMMA AdvanceKeepsSane ==
  ASSUME NEW at \in [Ends -> Indices], NEW to \in [Ends -> Indices],
         NEW t \in Callers, NEW n \in Int,
         ReadAvailable(at) <= BufferSize,
         0 <= n, n <= Available(t, at),
         to = [at EXCEPT ![Own(t)] = bigMask(at[Own(t)] + n)]
  PROVE  ReadAvailable(to) <= BufferSize
<1> DEFINE write == at["write"]
           read == at["read"]
<1>1. write \in Indices /\ read \in Indices
  BY DEF Ends
<1>2. ReadAvailable(at) = IF write < read THEN write - read + 2 * BufferSize
                          ELSE write - read
  BY <1>1, Between DEF ReadAvailable
<1>3. n <= BufferSize
  BY <1>1, <1>2, SizeAssumption DEF Available, Indices
<1>4. CASE t = "stream"
  <2>1. Own(t) = "write" /\ Available(t, at) = BufferSize - ReadAvailable(at)
    BY <1>4 DEF Own, Available
  <2>2. to["read"] = read /\ to["write"] = bigMask(write + n)
    BY <2>1 DEF Ends
  <2>3. write + n \in -(2 * BufferSize) .. 4 * BufferSize - 1
    BY <1>1, <1>3, SizeAssumption DEF Indices
  <2>4. to["write"] = IF write + n < 2 * BufferSize THEN write + n
                      ELSE write + n - 2 * BufferSize
    BY <2>2, <2>3, BigMask, <1>1, SizeAssumption DEF Indices
  <2>5. to["write"] \in Indices /\ to["read"] \in Indices
    BY DEF Ends
  <2>6. ReadAvailable(to) = IF to["write"] < read
                            THEN to["write"] - read + 2 * BufferSize
                            ELSE to["write"] - read
    BY <2>2, <2>5, Between DEF ReadAvailable
  <2>7. QED
    BY <1>1, <1>2, <1>3, <2>1, <2>4, <2>6, SizeAssumption DEF Indices
<1>5. CASE t = "audio"
  <2>1. Own(t) = "read" /\ Available(t, at) = ReadAvailable(at)
    BY <1>5 DEF Own, Available
  <2>2. to["write"] = write /\ to["read"] = bigMask(read + n)
    BY <2>1 DEF Ends
  <2>3. read + n \in -(2 * BufferSize) .. 4 * BufferSize - 1
    BY <1>1, <1>3, SizeAssumption DEF Indices
  <2>4. to["read"] = IF read + n < 2 * BufferSize THEN read + n
                     ELSE read + n - 2 * BufferSize
    BY <2>2, <2>3, BigMask, <1>1, SizeAssumption DEF Indices
  <2>5. to["write"] \in Indices /\ to["read"] \in Indices
    BY DEF Ends
  <2>6. ReadAvailable(to) = IF write < to["read"]
                            THEN write - to["read"] + 2 * BufferSize
                            ELSE write - to["read"]
    BY <2>2, <2>5, Between DEF ReadAvailable
  <2>7. QED
    BY <1>1, <1>2, <1>3, <2>1, <2>4, <2>6, SizeAssumption DEF Indices
<1>6. QED
  BY <1>4, <1>5 DEF Callers

-----------------------------------------------------------------------------
(* A thread outside of its calls. *)
LEMMA IdleCall == /\ Idle \in Calls
                  /\ Idle.pc = "idle"
                  /\ \A e \in Ends : Idle.seen[e] = Unseen
<1>1. 0 \in Indices /\ Unseen \in Indices \cup {Unseen}
  BY SizeAssumption DEF Indices
<1>2. QED
  BY <1>1 DEF Idle, Calls

LEMMA InitIInv == Init => IInv
<1> SUFFICES ASSUME Init PROVE IInv
  OBVIOUS
<1>1. TypeOK
  <2>1. index \in [Ends -> Indices]
    BY SizeAssumption DEF Init, Indices
  <2>2. call \in [Callers -> Calls]
    BY IdleCall DEF Init
  <2>3. QED
    BY <2>1, <2>2, IdleCall DEF Init, TypeOK, NoOne, Callers
<1>2. CallsOpen
  BY DEF Init, CallsOpen, Idle, Callers, Flushers
<1>3. Apart
  BY DEF Init, Apart, Half, Inside, Idle
<1>4. ReadAvailable(index) = 0
  BY BigMask, SizeAssumption DEF Init, ReadAvailable, Ends
<1>5. SaneUnlessOverlap
  BY <1>4, SizeAssumption DEF Init, SaneUnlessOverlap, Sane
<1>6. QED
  BY <1>1, <1>2, <1>3, <1>5 DEF IInv

-----------------------------------------------------------------------------
(* The type invariant and CallsOpen, action by action.                     *)
LEMMA TypeStep == TypeOK /\ CallsOpen /\ [Next]_vars => TypeOK' /\ CallsOpen'
<1> SUFFICES ASSUME TypeOK, CallsOpen, [Next]_vars PROVE TypeOK' /\ CallsOpen'
  OBVIOUS
<1> USE DEF TypeOK, CallsOpen
<1>1. ASSUME NEW t \in Callers, Begin(t) PROVE TypeOK' /\ CallsOpen'
  <2>1. t = "audio" \/ t = "stream"
    BY DEF Callers
  <2>2. CASE t = "audio" /\ ~ active
    <3>1. /\ call' = [call EXCEPT !["audio"].pc = "flush"]
          /\ flush' = [flush EXCEPT !["audio"] = Ends]
          /\ call["audio"].pc = "idle"
          /\ UNCHANGED <<index, mutex, inUse, active, crashed, overlap>>
      BY <1>1, <2>2 DEF Begin
    <3>2. flush' \in [Flushers -> SUBSET Ends]
      BY <3>1
    <3>3. call' \in [Callers -> Calls] /\ call'["audio"].pc = "flush"
      BY <3>1 DEF Callers, Calls
    <3>4. /\ call'["stream"] = call["stream"]
          /\ call'["audio"].seen = call["audio"].seen
          /\ call["audio"].seen = Idle.seen
      BY <3>1 DEF Callers, Calls
    <3>5. TypeOK'
      BY <3>1, <3>2, <3>3, <3>4 DEF Callers, NoOne
    <3>6. CallsOpen'
      BY <3>3, <3>4 DEF Callers
    <3>7. QED
      BY <3>5, <3>6
  <2>3. CASE ~ (t = "audio" /\ ~ active)
    <3>1. /\ call[t].pc = "idle"
          /\ call' = [call EXCEPT ![t].pc = "lock"]
          /\ UNCHANGED <<index, flush, mutex, inUse, active, crashed, overlap>>
      BY <1>1, <2>3 DEF Begin
    <3>2. QED
      BY <2>1, <3>1 DEF Callers, Calls, NoOne
  <2>4. QED
    BY <2>2, <2>3
<1>2. ASSUME NEW t \in Callers, Lock(t) PROVE TypeOK' /\ CallsOpen'
  BY <1>2 DEF Lock, Callers, Calls, NoOne
<1>3. ASSUME NEW t \in Callers, NEW e \in Ends, Load(t, e)
      PROVE  TypeOK' /\ CallsOpen'
  BY <1>3 DEF Load, Callers, Calls, Half
<1>4. ASSUME NEW t \in Callers, Copy(t) PROVE TypeOK' /\ CallsOpen'
  BY <1>4 DEF Copy, Callers, Calls
<1>5. ASSUME NEW t \in Callers, LoadOwn(t) PROVE TypeOK' /\ CallsOpen'
  BY <1>5 DEF LoadOwn, Callers, Calls, Own, Ends
<1>6. ASSUME NEW t \in Callers, StoreAndUnlock(t) PROVE TypeOK' /\ CallsOpen'
  <2>1. call[t].own + call[t].count \in Int /\ Own(t) \in Ends
    BY DEF Callers, Calls, Indices, Own, Ends
  <2>2. index' \in [Ends -> Indices]
    BY <1>6, <2>1, MaskedIsIndex DEF StoreAndUnlock
  <2>3. call' \in [Callers -> Calls] /\ call'[t] = Idle
    BY <1>6, IdleCall DEF StoreAndUnlock
  <2>4. QED
    BY <1>6, <2>2, <2>3, IdleCall DEF StoreAndUnlock, Callers, NoOne
<1>7. ASSUME NEW f \in Flushers, NEW e \in Ends, FlushStore(f, e)
      PROVE  TypeOK' /\ CallsOpen'
  <2>1. 0 \in Indices
    BY SizeAssumption DEF Indices
  <2>2. index' \in [Ends -> Indices] /\ flush' \in [Flushers -> SUBSET Ends]
    BY <1>7, <2>1 DEF FlushStore
  <2>3. flush["audio"] = {} => flush'["audio"] = {}
    BY <1>7 DEF FlushStore, Flushers
  <2>4. overlap' \in BOOLEAN
    BY <1>7 DEF FlushStore
  <2>5. QED
    BY <1>7, <2>2, <2>3, <2>4 DEF FlushStore
<1>8. CASE FirstFlushDone
  BY <1>8 DEF FirstFlushDone, Callers, Calls, NoOne
<1>9. CASE Reset
  BY <1>9 DEF Reset, Flushers
<1>10. CASE Take
  BY <1>10 DEF Take
<1>11. CASE UNCHANGED vars
  BY <1>11 DEF vars
<1>12. QED
  BY <1>1, <1>2, <1>3, <1>4, <1>5, <1>6, <1>7, <1>8, <1>9, <1>10, <1>11
     DEF Next, CallStep, FlushStep

-----------------------------------------------------------------------------
(* Two callers are never inside at once.                                    *)
LEMMA OneInside ==
  ASSUME TypeOK, CallsOpen, NEW t \in Callers, NEW u \in Callers,
         mutex = t, Inside(u)
  PROVE  u = t
BY DEF TypeOK, CallsOpen, Inside

(* What Apart says of a state and of the one after.                         *)
LEMMA ApartStep ==
  TypeOK /\ CallsOpen /\ Apart /\ SaneUnlessOverlap /\ [Next]_vars
    => Apart' /\ SaneUnlessOverlap'
<1> SUFFICES ASSUME TypeOK, CallsOpen, Apart, SaneUnlessOverlap, [Next]_vars,
                    TypeOK', CallsOpen', ~ overlap'
             PROVE  /\ \A f \in Flushers : Half(f)' =>
                          /\ \A e \in Ends \ flush'[f] : index'[e] = 0
                          /\ \A t \in Callers : ~ Inside(t)'
                    /\ \A t \in Callers : Inside(t)' => Current(t)'
                    /\ ~ crashed'
                    /\ (\A f \in Flushers : ~ Half(f)') => Sane'
  BY TypeStep DEF Apart, SaneUnlessOverlap
<1> DEFINE Goal == /\ \A f \in Flushers : Half(f)' =>
                          /\ \A e \in Ends \ flush'[f] : index'[e] = 0
                          /\ \A t \in Callers : ~ Inside(t)'
                   /\ \A t \in Callers : Inside(t)' => Current(t)'
                   /\ ~ crashed'
                   /\ (\A f \in Flushers : ~ Half(f)') => Sane'
(* Steps that leave the indices alone.                                      *)
<1>0. ASSUME index' = index, ~ overlap, ~ crashed',
             \A f \in Flushers : (Half(f)' <=> Half(f)) /\ (Half(f) => flush'[f] = flush[f]),
             \A u \in Callers : Inside(u)' => Current(u)' /\ \A f \in Flushers : ~ Half(f)
      PROVE  Goal
  BY <1>0 DEF Apart, SaneUnlessOverlap, Sane
<1>1. ASSUME NEW t \in Callers, Begin(t), ~ crashed PROVE Goal
  <2>1. \A u \in Callers : Inside(u)' => Inside(u) /\ call'[u] = call[u]
    BY <1>1 DEF Begin, TypeOK, CallsOpen, Calls, Inside
  <2>2. \A f \in Flushers : (Half(f)' <=> Half(f)) /\ (Half(f) => flush'[f] = flush[f])
    BY <1>1 DEF Begin, TypeOK, CallsOpen, Half, Callers, Flushers
  <2>3. index' = index /\ ~ overlap /\ ~ crashed'
    BY <1>1 DEF Begin
  <2>4. QED
    BY <2>1, <2>2, <2>3, <1>0 DEF Apart, Current
<1>2. ASSUME NEW t \in Callers, Lock(t), ~ crashed PROVE Goal
  <2>1. \A u \in Callers : Inside(u)' => Inside(u) /\ call'[u] = call[u]
    BY <1>2 DEF Lock, TypeOK, CallsOpen, Calls, Inside
  <2>2. index' = index /\ flush' = flush /\ ~ overlap /\ ~ crashed'
    BY <1>2 DEF Lock
  <2>3. QED
    BY <2>1, <2>2, <1>0 DEF Apart, Current, Half
<1>3. ASSUME NEW t \in Callers, NEW e \in Ends, Load(t, e), ~ crashed PROVE Goal
  <2>1. index' = index /\ flush' = flush /\ ~ overlap /\ ~ crashed'
    BY <1>3 DEF Load
  <2>2. \A f \in Flushers : ~ Half(f)
    BY <1>3 DEF Load
  <2>3. ASSUME NEW u \in Callers, Inside(u)' PROVE Current(u)'
    <3>1. CASE u # t
      BY <1>3, <2>1, <2>3, <3>1 DEF Load, Apart, Inside, Current, TypeOK, Calls
    <3>2. CASE u = t
      <4>1. /\ call'[t].pc = "load"
            /\ call'[t].seen = [call[t].seen EXCEPT ![e] = index[e]]
        BY <1>3 DEF Load, TypeOK, Calls
      <4>2. \A d \in Ends : call[t].seen[d] \in {Unseen, index[d]}
        <5>1. CASE Inside(t)
          BY <2>1, <5>1 DEF Apart, Current
        <5>2. CASE ~ Inside(t)
          BY <5>2, IdleCall DEF Inside
        <5>3. QED
          BY <5>1, <5>2
      <4>3. QED
        BY <2>1, <3>2, <4>1, <4>2 DEF Current, TypeOK, Calls
    <3>3. QED
      BY <3>1, <3>2
  <2>4. QED
    BY <2>1, <2>2, <2>3, <1>0 DEF Half
<1>4. ASSUME NEW t \in Callers, Copy(t), ~ crashed PROVE Goal
  <2>1. index' = index /\ flush' = flush /\ ~ overlap
    BY <1>4 DEF Copy
  <2>2. Inside(t)
    BY <1>4, IdleCall DEF Copy, Inside, Ends
  <2>3. (\A f \in Flushers : ~ Half(f)) /\ Current(t)
    BY <2>1, <2>2 DEF Apart
  <2>4. Available(t, index) \in 0 .. BufferSize /\ Available(t, call[t].seen) = Available(t, index)
    <3>1. call[t].seen["write"] = index["write"] /\ call[t].seen["read"] = index["read"]
      BY <1>4, <2>3 DEF Copy, Current, Ends
    <3>2. ReadAvailable(index) \in 0 .. BufferSize
      BY <2>1, <2>3, MaskedIsIndex, SizeAssumption
         DEF SaneUnlessOverlap, Sane, ReadAvailable, TypeOK, Ends, Indices
    <3>3. QED
      BY <3>1, <3>2, SizeAssumption DEF Available, ReadAvailable
  <2>5. PICK n \in Asked(t) :
          LET count == Clamp(n, Available(t, call[t].seen))
          IN /\ crashed' = (count < 0)
             /\ call' = [call EXCEPT ![t].pc = "advance", ![t].count = count]
    BY <1>4 DEF Copy
  <2>6. Clamp(n, Available(t, index)) \in 0 .. Available(t, index)
    BY <2>4, <2>5, SizeAssumption DEF Clamp, Asked
  <2>7. ~ crashed'
    <3>1. ~ (Clamp(n, Available(t, call[t].seen)) < 0)
      BY <2>4, <2>6
    <3>2. crashed' = (Clamp(n, Available(t, call[t].seen)) < 0)
      BY <2>5, Zenon
    <3>3. QED
      BY <3>1, <3>2
  <2>8. /\ call'[t].pc = "advance" /\ call'[t].seen = call[t].seen
        /\ call'[t].count \in 0 .. Available(t, index)
        /\ \A u \in Callers \ {t} : call'[u] = call[u]
    BY <2>4, <2>5, <2>6 DEF TypeOK, Calls
  <2>9. \A u \in Callers : Inside(u)' => Current(u)'
    BY <2>1, <2>3, <2>8 DEF Apart, Inside, Current
  <2>10. QED
    BY <2>1, <2>3, <2>7, <2>9, <1>0 DEF Half
<1>5. ASSUME NEW t \in Callers, LoadOwn(t), ~ crashed PROVE Goal
  <2>1. index' = index /\ flush' = flush /\ ~ overlap /\ ~ crashed'
    BY <1>5 DEF LoadOwn
  <2>2. (\A f \in Flushers : ~ Half(f)) /\ Current(t)
    BY <1>5, <2>1 DEF Apart, Inside, LoadOwn
  <2>3. /\ call'[t].pc = "store" /\ call'[t].seen = call[t].seen
        /\ call'[t].count = call[t].count /\ call'[t].own = index[Own(t)]
        /\ \A u \in Callers \ {t} : call'[u] = call[u]
        /\ call[t].pc = "advance"
    BY <1>5 DEF LoadOwn, TypeOK, Calls
  <2>4. \A u \in Callers : Inside(u)' => Current(u)'
    BY <2>1, <2>2, <2>3 DEF Apart, Inside, Current
  <2>5. QED
    BY <2>1, <2>2, <2>4, <1>0 DEF Half
<1>6. ASSUME NEW t \in Callers, StoreAndUnlock(t), ~ crashed PROVE Goal
  <2>1. flush' = flush /\ ~ overlap /\ ~ crashed' /\ call[t].pc = "store"
    BY <1>6 DEF StoreAndUnlock
  <2>2. (\A f \in Flushers : ~ Half(f)) /\ Current(t)
    BY <2>1 DEF Apart, Inside
  <2>3. \A u \in Callers : ~ Inside(u)'
    <3>1. call' = [call EXCEPT ![t] = Idle] /\ mutex = t
      BY <1>6 DEF StoreAndUnlock, TypeOK
    <3>2. \A u \in Callers : Inside(u) => u = t
      BY <3>1, OneInside
    <3>3. call'[t] = Idle /\ \A u \in Callers \ {t} : call'[u] = call[u]
      BY <3>1 DEF TypeOK
    <3>4. QED
      BY <3>2, <3>3, IdleCall DEF Inside
  <2>4. Sane'
    <3>1. index' = [index EXCEPT ![Own(t)] = bigMask(index[Own(t)] + call[t].count)]
      BY <1>6, <2>1, <2>2 DEF StoreAndUnlock, Current
    <3>2. call[t].count \in Int /\ 0 <= call[t].count
          /\ call[t].count <= Available(t, index)
      BY <2>1, <2>2 DEF Current
    <3>3. ReadAvailable(index) <= BufferSize
      BY <2>1, <2>2 DEF SaneUnlessOverlap, Sane
    <3>4. ReadAvailable(index') <= BufferSize
      BY <3>1, <3>2, <3>3, AdvanceKeepsSane DEF TypeOK
    <3>5. QED
      BY <3>4 DEF Sane
  <2>5. QED
    BY <2>1, <2>2, <2>3, <2>4 DEF Half
<1>7. ASSUME NEW f \in Flushers, NEW e \in Ends, FlushStore(f, e), ~ crashed
      PROVE  Goal
  <2>1. /\ \A t \in Callers : ~ Inside(t)
        /\ overlap => \A d \in Ends : index'[d] = 0
        /\ call' = call /\ ~ crashed'
        /\ e \in flush[f]
        /\ index' = [index EXCEPT ![e] = 0]
        /\ flush' = [flush EXCEPT ![f] = flush[f] \ {e}]
    BY <1>7 DEF FlushStore
  <2>2. \A t \in Callers : ~ Inside(t)'
    BY <2>1 DEF Inside
  <2>3. /\ index'[e] = 0 /\ flush'[f] = flush[f] \ {e}
        /\ \A d \in Ends \ {e} : index'[d] = index[d]
        /\ \A g \in Flushers \ {f} : flush'[g] = flush[g]
    BY <2>1 DEF TypeOK
  <2>4. ASSUME NEW g \in Flushers, Half(g)', NEW d \in Ends \ flush'[g]
        PROVE  index'[d] = 0
    <3>1. CASE overlap
      BY <2>1, <3>1
    <3>2. CASE ~ overlap /\ g = f
      <4>1. flush'[f] # {} /\ flush[f] \subseteq Ends
        BY <2>4, <3>2 DEF Half, TypeOK
      <4>2. d = e
        BY <2>1, <2>3, <2>4, <3>2, <4>1 DEF Ends
      <4>3. QED
        BY <2>3, <4>2
    <3>3. CASE ~ overlap /\ g # f
      <4>1. Half(g) /\ d \notin flush[g]
        BY <2>3, <2>4, <3>3 DEF Half
      <4>2. index[d] = 0
        BY <3>3, <4>1, <2>4 DEF Apart
      <4>3. QED
        BY <2>3, <4>2
    <3>4. QED
      BY <3>1, <3>2, <3>3
  <2>5. ASSUME \A g \in Flushers : ~ Half(g)' PROVE Sane'
    <3>1. \A d \in Ends : index'[d] = 0
      <4>1. CASE overlap
        BY <2>1, <4>1
      <4>2. CASE ~ overlap
        <5>1. flush'[f] = {}
          BY <2>3, <2>5 DEF Half
        <5>2. flush[f] = {e} /\ Half(f)
          BY <2>1, <2>3, <5>1 DEF Half, Ends
        <5>3. \A d \in Ends \ {e} : index[d] = 0
          BY <4>2, <5>2 DEF Apart
        <5>4. QED
          BY <2>3, <5>3
      <4>3. QED
        BY <4>1, <4>2
    <3>2. index'["write"] - index'["read"] = 0
      BY <3>1 DEF Ends
    <3>3. bigMask(0) = 0
      BY BigMask, SizeAssumption
    <3>4. QED
      BY <3>2, <3>3, SizeAssumption DEF Sane, ReadAvailable
  <2>6. QED
    BY <2>1, <2>2, <2>4, <2>5
<1>8. ASSUME FirstFlushDone, ~ crashed PROVE Goal
  <2>1. \A u \in Callers : Inside(u)' => Inside(u) /\ call'[u] = call[u]
    BY <1>8 DEF FirstFlushDone, TypeOK, CallsOpen, Calls, Inside
  <2>2. index' = index /\ flush' = flush /\ ~ overlap /\ ~ crashed'
    BY <1>8 DEF FirstFlushDone
  <2>3. QED
    BY <2>1, <2>2, <1>0 DEF Apart, Current, Half
<1>9. ASSUME Reset, ~ crashed PROVE Goal
  <2>1. index' = index /\ call' = call /\ ~ overlap /\ ~ crashed'
    BY <1>9 DEF Reset
  <2>2. \A f \in Flushers : (Half(f)' <=> Half(f)) /\ (Half(f) => flush'[f] = flush[f])
    BY <1>9 DEF Reset, TypeOK, Half, Flushers
  <2>3. QED
    BY <2>1, <2>2, <1>0 DEF Apart, Current, Inside
<1>10. ASSUME Take, ~ crashed PROVE Goal
  <2>1. UNCHANGED <<index, call, flush, overlap>> /\ ~ overlap /\ ~ crashed'
    BY <1>10 DEF Take
  <2>2. QED
    BY <2>1, <1>0 DEF Apart, Current, Inside, Half
<1>11. CASE UNCHANGED vars
  <2>1. UNCHANGED <<index, call, flush, overlap>> /\ ~ overlap /\ ~ crashed'
    BY <1>11 DEF vars, SaneUnlessOverlap
  <2>2. QED
    BY <2>1, <1>0 DEF Apart, Current, Inside, Half
<1>12. QED
  BY <1>1, <1>2, <1>3, <1>4, <1>5, <1>6, <1>7, <1>8, <1>9, <1>10, <1>11
     DEF Next, CallStep, FlushStep

-----------------------------------------------------------------------------
(* The inductive invariant: whatever the sizes, and however the three       *)
(* threads of the receiver interleave around a slot's ring.                 *)
THEOREM Inductive == Spec => []IInv
<1>1. IInv /\ [Next]_vars => IInv'
  BY TypeStep, ApartStep DEF IInv
<1>2. QED
  BY InitIInv, <1>1, PTL DEF Spec

(* The indices never leave the doubled range, and only the holder of        *)
(* packet_mutex is inside a call.                                           *)
THEOREM TypeCorrect == Spec => []TypeOK
<1>1. IInv => TypeOK
  BY DEF IInv
<1>2. QED
  BY Inductive, <1>1, PTL

(* A flush without the mutex harms nothing unless it meets a call: only     *)
(* then may the ring seem to hold more than fits, or a copy have a negative *)
(* size.                                                                    *)
THEOREM HarmNeedsOverlap == Spec => []SaneUnlessOverlap
<1>1. IInv => SaneUnlessOverlap
  BY DEF IInv
<1>2. QED
  BY Inductive, <1>1, PTL
=============================================================================
