--------------------------- MODULE StreamTableProofs ---------------------------
(***************************************************************************)
(* For every number of slots and senders and every timeout: the slots of   *)
(* the receiver keep distinct serials and demultiplex the stream they are  *)
(* named after, a moving average holds page times of one stream only, and  *)
(* streams are killed all together or not at all.                          *)
(***************************************************************************)
EXTENDS StreamTable, TLAPS

(* What the averages of slots in use were made of. *)
OwnAverage ==
  \A s \in Slots :
    /\ ratio[s] = "tuned" => established[s]
    /\ id[s] # 0 => IF established[s] THEN heard[s] = MaElements
                                      ELSE heard[s] = elementPtr[s]

(* The inductive invariant: what a slot in use holds. *)
IInv == TypeOK /\ UniqueIds /\ OsMatches /\ AgeCoversIdle

(* Serials the 16 bits of ops do not turn into the mark of a free slot. *)
NonZeroSerials == \A q \in Serials : Ops(q) # 0

(* With such serials also what a slot on offer holds. *)
FreshInv == IInv /\ FreeSlotsFresh /\ OwnAverage

-----------------------------------------------------------------------------
(* A serial cut to 16 bits is one of the values of id. *)
LEMMA OpsRange == \A q \in Serials : Ops(q) \in 0 .. SerialMod - 1
BY TableAssumption, SerialAssumption DEF Ops

(* Each range of the type invariant holds its initial value. *)
LEMMA ZeroRanges ==
  /\ 0 \in 0 .. SerialMod - 1
  /\ 0 \in 0 .. MaElements - 1
  /\ 0 \in 0 .. MaElements /\ 1 \in 0 .. MaElements
  /\ 0 \in 0 .. MaxAge /\ MaxAge \in 0 .. MaxAge
BY TableAssumption, ClockAssumption

(* An age that grows stays in range. *)
LEMMA OlderAge == \A a \in 0 .. MaxAge : Older(a) \in 0 .. MaxAge /\ a <= Older(a)
BY ClockAssumption DEF Older

(* Of two ages that grow, the smaller stays the smaller. *)
LEMMA OlderMonotone ==
  \A a, b \in 0 .. MaxAge : a <= b => Older(a) <= Older(b)
BY ClockAssumption DEF Older

(* The table as initStreams leaves it. *)
LEMMA InitIInv == Init => IInv
<1> SUFFICES ASSUME Init PROVE IInv
  OBVIOUS
<1>1. TypeOK
  BY ZeroRanges DEF Init, TypeOK
<1>2. UniqueIds /\ OsMatches /\ AgeCoversIdle
  BY DEF Init, UniqueIds, OsMatches, AgeCoversIdle
<1>3. QED
  BY <1>1, <1>2 DEF IInv

(* The delivery of a page keeps the slot well-typed. *)
LEMMA DeliverTypes ==
  ASSUME TypeOK, NEW s \in Slots, NEW q \in Serials, Deliver(s, q)
  PROVE  /\ age' \in [Slots -> 0 .. MaxAge]
         /\ timed' \in [Slots -> BOOLEAN]
         /\ elementPtr' \in [Slots -> 0 .. MaElements - 1]
         /\ established' \in [Slots -> BOOLEAN]
         /\ ratio' \in [Slots -> {"unity", "tuned"}]
         /\ idle' = 0 /\ idle' \in 0 .. MaxAge
         /\ rc' \in {0, -1}
         /\ crashed' = crashed /\ talking' = talking
<1>1. age' \in [Slots -> 0 .. MaxAge]
  BY ZeroRanges DEF TypeOK, Deliver
<1>2. /\ timed' = [timed EXCEPT ![s] = TRUE]
      /\ \E outcome \in Outcomes(established'[s]) : ratio' = [ratio EXCEPT ![s] = outcome]
      /\ \/ /\ elementPtr' = [elementPtr EXCEPT ![s] = (elementPtr[s] + 1) % MaElements]
            /\ established' = [established EXCEPT ![s] = established[s] \/ elementPtr'[s] = 0]
         \/ UNCHANGED <<elementPtr, established>>
  BY DEF Deliver, movingAveragePageTime
<1>3. (elementPtr[s] + 1) % MaElements \in 0 .. MaElements - 1
  BY ClockAssumption DEF TypeOK
<1>4. timed' \in [Slots -> BOOLEAN] /\ ratio' \in [Slots -> {"unity", "tuned"}]
  BY <1>2 DEF TypeOK, Outcomes
<1>5. elementPtr' \in [Slots -> 0 .. MaElements - 1]
  BY <1>2, <1>3 DEF TypeOK
<1>6. established' \in [Slots -> BOOLEAN]
  BY <1>2 DEF TypeOK
<1>7. QED
  BY <1>1, <1>4, <1>5, <1>6, ZeroRanges DEF Deliver

(* A page of a serial that has a slot changes no id. *)
LEMMA KnownStep ==
  ASSUME IInv, NEW q \in Serials, PageOfKnownSerial(q)
  PROVE  IInv'
<1>1. PICK s \in find_stream(Ops(q)) :
        /\ heard' = [heard EXCEPT ![s] = IF @ < MaElements THEN @ + 1 ELSE @]
        /\ UNCHANGED <<id, osSerial>>
        /\ Deliver(s, q)
  BY DEF PageOfKnownSerial
<1>2. s \in Slots
  BY DEF find_stream
<1>3. heard' \in [Slots -> 0 .. MaElements]
  BY <1>1, <1>2, ClockAssumption DEF IInv, TypeOK
<1>4. TypeOK /\ Deliver(s, q) /\ UNCHANGED <<id, osSerial>>
  BY <1>1 DEF IInv
<1>5. TypeOK'
  BY <1>2, <1>3, <1>4, DeliverTypes DEF TypeOK
<1>6. UniqueIds' /\ OsMatches'
  BY <1>4 DEF IInv, UniqueIds, OsMatches
<1>7. idle' = 0
  BY <1>4 DEF Deliver
<1>8. AgeCoversIdle'
  BY <1>5, <1>7, ClockAssumption DEF AgeCoversIdle, TypeOK
<1>9. QED
  BY <1>5, <1>6, <1>8 DEF IInv

(* A new serial is in no slot yet, so naming one after it keeps ids unique. *)
LEMMA NewStep ==
  ASSUME IInv, NEW q \in Serials, PageOfNewSerial(q)
  PROVE  IInv'
<1>1. PICK s \in find_stream(0) :
        /\ Take(s, q)
        /\ heard' = [heard EXCEPT ![s] = 1]
        /\ Deliver(s, q)
  BY DEF PageOfNewSerial
<1>2. s \in Slots
  BY DEF find_stream
<1>3. /\ id' = [id EXCEPT ![s] = Ops(q)]
      /\ osSerial' = [osSerial EXCEPT ![s] = Ops(q)]
      /\ TypeOK /\ Deliver(s, q)
  BY <1>1 DEF Take, IInv
<1>4. /\ id' \in [Slots -> 0 .. SerialMod - 1]
      /\ osSerial' \in [Slots -> 0 .. SerialMod - 1]
      /\ heard' \in [Slots -> 0 .. MaElements]
  BY <1>1, <1>2, <1>3, OpsRange, ZeroRanges DEF TypeOK
<1>5. TypeOK'
  BY <1>2, <1>3, <1>4, DeliverTypes DEF TypeOK
<1>6. \A t \in Slots : id[t] # Ops(q)
  BY DEF PageOfNewSerial, NoStream
<1>7. UniqueIds'
  BY <1>2, <1>3, <1>6 DEF IInv, UniqueIds, TypeOK
<1>8. OsMatches'
  BY <1>2, <1>3 DEF IInv, OsMatches, TypeOK
<1>9. idle' = 0
  BY <1>3 DEF Deliver
<1>10. AgeCoversIdle'
  BY <1>5, <1>9, ClockAssumption DEF AgeCoversIdle, TypeOK
<1>11. QED
  BY <1>5, <1>7, <1>8, <1>10 DEF IInv

(* The timeout: ages of streams in use have reached it. *)
LEMMA CheckFreesAll ==
  ASSUME IInv, checkStreams
  PROVE  id' = [s \in Slots |-> 0]
<1> DEFINE lost == {s \in Slots : id[s] # 0 /\ TooOld(s)}
<1>1. id' = [s \in Slots |-> IF s \in lost THEN 0 ELSE id[s]]
  BY DEF checkStreams, resetStream
<1>2. \A s \in Slots : id[s] # 0 => TooOld(s)
  BY ClockAssumption DEF IInv, TypeOK, AgeCoversIdle, checkStreams, TooOld
<1>3. \A s \in Slots : id'[s] = 0
  BY <1>1, <1>2
<1>4. QED
  BY <1>1, <1>3

(* checkStreams leaves the ids that remain unique. *)
LEMMA CheckStep ==
  ASSUME IInv, checkStreams
  PROVE  IInv'
<1> DEFINE lost == {s \in Slots : id[s] # 0 /\ TooOld(s)}
<1>1. /\ resetStream(lost) /\ ma_reset(lost)
      /\ idle' = 0
      /\ UNCHANGED <<osSerial, heard, rc, crashed, talking>>
  BY DEF checkStreams
<1>2. id' = [s \in Slots |-> 0]
  BY CheckFreesAll
<1> HIDE DEF lost
<1>3. /\ age' \in [Slots -> 0 .. MaxAge]
      /\ ratio' \in [Slots -> {"unity", "tuned"}]
      /\ timed' \in [Slots -> BOOLEAN]
  BY <1>1, ZeroRanges DEF resetStream, IInv, TypeOK
<1>4. /\ elementPtr' \in [Slots -> 0 .. MaElements - 1]
      /\ established' \in [Slots -> BOOLEAN]
  BY <1>1, ZeroRanges DEF ma_reset, IInv, TypeOK
<1>5. TypeOK'
  BY <1>1, <1>2, <1>3, <1>4, ZeroRanges DEF IInv, TypeOK
<1>6. UniqueIds' /\ OsMatches' /\ AgeCoversIdle'
  BY <1>2 DEF UniqueIds, OsMatches, AgeCoversIdle
<1>7. QED
  BY <1>5, <1>6 DEF IInv

(* Time passes alike for the slots and for select. *)
LEMMA TickStep ==
  ASSUME IInv, Tick
  PROVE  IInv'
<1>1. /\ age' = [s \in Slots |-> Older(age[s])]
      /\ idle' = Older(idle)
      /\ UNCHANGED <<id, osSerial, timed, elementPtr, established, ratio, heard,
                     rc, crashed, talking>>
  BY DEF Tick
<1>2. TypeOK
  BY DEF IInv
<1>3. age' \in [Slots -> 0 .. MaxAge] /\ idle' \in 0 .. MaxAge
  BY <1>1, <1>2, OlderAge DEF TypeOK
<1>4. TypeOK'
  BY <1>1, <1>2, <1>3 DEF TypeOK
<1>5. UniqueIds' /\ OsMatches'
  BY <1>1 DEF IInv, UniqueIds, OsMatches
<1>6. AgeCoversIdle'
  <2> SUFFICES ASSUME NEW s \in Slots, id[s] # 0
               PROVE  Older(idle) <= Older(age[s])
    BY <1>1 DEF AgeCoversIdle
  <2>1. idle <= age[s] /\ idle \in 0 .. MaxAge /\ age[s] \in 0 .. MaxAge
    BY <1>2, ClockAssumption DEF IInv, AgeCoversIdle, TypeOK
  <2>2. QED
    BY <2>1, OlderMonotone
<1>7. QED
  BY <1>4, <1>5, <1>6 DEF IInv

(* Steps that change no slot. *)
LEMMA OtherStep ==
  ASSUME IInv, UNCHANGED <<slot, idle, rc>>,
         crashed' \in BOOLEAN, talking' \subseteq Serials
  PROVE  IInv'
<1>1. TypeOK'
  BY DEF IInv, TypeOK, slot
<1>2. UniqueIds' /\ OsMatches' /\ AgeCoversIdle'
  BY DEF IInv, UniqueIds, OsMatches, AgeCoversIdle, slot
<1>3. QED
  BY <1>1, <1>2 DEF IInv

-----------------------------------------------------------------------------
(* Every step preserves the inductive invariant. *)
LEMMA NextIInv == IInv /\ [Next]_vars => IInv'
<1> SUFFICES ASSUME IInv, [Next]_vars PROVE IInv'
  OBVIOUS
<1>1. CASE \E q \in Serials : PageOfKnownSerial(q)
  BY <1>1, KnownStep
<1>2. CASE \E q \in Serials : PageOfNewSerial(q)
  BY <1>2, NewStep
<1>3. CASE \E q \in Serials : PageOfSerialTooMany(q)
  BY <1>3, OtherStep DEF PageOfSerialTooMany, IInv, TypeOK
<1>4. CASE \E q \in Serials : StartSender(q)
  BY <1>4, OtherStep DEF StartSender, IInv, TypeOK
<1>5. CASE \E q \in Serials : StopSender(q)
  BY <1>5, OtherStep DEF StopSender, IInv, TypeOK
<1>6. CASE checkStreams
  BY <1>6, CheckStep
<1>7. CASE Tick
  BY <1>7, TickStep
<1>8. CASE UNCHANGED vars
  BY <1>8, OtherStep DEF vars, IInv, TypeOK
<1>9. QED
  BY <1>1, <1>2, <1>3, <1>4, <1>5, <1>6, <1>7, <1>8 DEF Next

(* The inductive invariant holds of every reachable table, whatever its size. *)
THEOREM Inductive == Spec => []IInv
BY InitIInv, NextIInv, PTL DEF Spec

(* Type correctness of the table, for every size of it. *)
THEOREM TypeCorrect == Spec => []TypeOK
<1>1. IInv => TypeOK
  BY DEF IInv
<1>2. QED
  BY Inductive, <1>1, PTL

(* No serial is ever served by two slots of the table. *)
THEOREM OneSlotPerSerial == Spec => []UniqueIds
<1>1. IInv => UniqueIds
  BY DEF IInv
<1>2. QED
  BY Inductive, <1>1, PTL

(* Every slot in use demultiplexes the serial it is named after. *)
THEOREM SlotDemultiplexesItsSerial == Spec => []OsMatches
<1>1. IInv => OsMatches
  BY DEF IInv
<1>2. QED
  BY Inductive, <1>1, PTL

(* checkStreams frees every slot or none: only the timeout of select, which *)
(* needs a second without any datagram, leads to it.                        *)
THEOREM FreesAllOrNone == Spec => KilledTogether
<1> DEFINE Together == (\E s \in Slots : id[s] # 0 /\ id'[s] = 0)
                          => \A s \in Slots : id'[s] = 0
<1>1. ASSUME IInv, [Next]_vars, NEW s \in Slots, id[s] # 0, id'[s] = 0
      PROVE  \A t \in Slots : id'[t] = 0
  <2>1. CASE checkStreams
    BY <1>1, <2>1, CheckFreesAll
  <2>2. CASE \E q \in Serials : PageOfNewSerial(q)
    <3>1. PICK q \in Serials : PageOfNewSerial(q)
      BY <2>2
    <3>2. PICK t \in find_stream(0) : id' = [id EXCEPT ![t] = Ops(q)]
      BY <3>1 DEF PageOfNewSerial, Take
    <3>3. id[t] = 0
      BY DEF find_stream
    <3>4. QED
      BY <1>1, <3>2, <3>3 DEF IInv, TypeOK
  <2>3. CASE id' = id
    BY <1>1, <2>3
  <2>4. QED
    BY <1>1, <2>1, <2>2, <2>3
       DEF Next, vars, slot, PageOfKnownSerial, PageOfSerialTooMany,
           StartSender, StopSender, Tick
<1>2. IInv /\ [Next]_vars => [Together]_vars
  BY <1>1
<1>3. QED
  BY Inductive, <1>2, PTL DEF Spec, KilledTogether

(* The stream state that ogg_stream_pagein is given was initialized with the *)
(* serial of the page, if that serial has 16 bits only: no page is refused.  *)
THEOREM PagesAreTaken == Spec => PagesTaken
<1> DEFINE Taken ==
      \A q \in Serials :
        (PageOfKnownSerial(q) \/ PageOfNewSerial(q)) /\ q = Ops(q) /\ q # 0 => rc' = 0
<1>1. ASSUME IInv, NEW q \in Serials, q = Ops(q), q # 0, PageOfKnownSerial(q)
      PROVE  rc' = 0
  <2>1. PICK s \in find_stream(Ops(q)) : osSerial' = osSerial /\ Deliver(s, q)
    BY <1>1 DEF PageOfKnownSerial
  <2>2. s \in Slots /\ id[s] = q
    BY <1>1, <2>1 DEF find_stream
  <2>3. osSerial'[s] = q
    BY <1>1, <2>1, <2>2 DEF IInv, OsMatches
  <2>4. QED
    BY <1>1, <2>1, <2>3 DEF Deliver
<1>2. ASSUME IInv, NEW q \in Serials, q = Ops(q), q # 0, PageOfNewSerial(q)
      PROVE  rc' = 0
  <2>1. PICK s \in find_stream(0) :
          osSerial' = [osSerial EXCEPT ![s] = Ops(q)] /\ Deliver(s, q)
    BY <1>2 DEF PageOfNewSerial, Take
  <2>2. osSerial'[s] = q
    BY <1>2, <2>1 DEF IInv, TypeOK, find_stream
  <2>3. QED
    BY <1>2, <2>1, <2>2 DEF Deliver
<1>3. IInv /\ [Next]_vars => [Taken]_vars
  BY <1>1, <1>2
<1>4. QED
  BY Inductive, <1>3, PTL DEF Spec, PagesTaken

-----------------------------------------------------------------------------
(* The average wraps around once it holds MaElements page times. *)
LEMMA Wrap ==
  \A p \in 0 .. MaElements - 1 :
    (p + 1) % MaElements = IF p + 1 = MaElements THEN 0 ELSE p + 1
<1>1. \A x \in 0 .. MaElements - 1 : x % MaElements = x
  BY ClockAssumption, SMT
<1>2. MaElements % MaElements = 0
  BY ClockAssumption, SMT
<1>3. \A p \in 0 .. MaElements - 1 :
        p + 1 = MaElements \/ p + 1 \in 0 .. MaElements - 1
  BY ClockAssumption
<1>4. QED
  BY <1>1, <1>2, <1>3

(* A page delivered to a slot in use, or just taken, extends its average. *)
LEMMA PageExtendsAverage ==
  ASSUME TypeOK, OwnAverage, FreeSlotsFresh,
         NEW s \in Slots, NEW q \in Serials, Deliver(s, q),
         heard' \in [Slots -> 0 .. MaElements],
         \/ id[s] # 0 /\ heard'[s] = IF heard[s] < MaElements THEN heard[s] + 1 ELSE heard[s]
         \/ id[s] = 0 /\ heard'[s] = 1,
         \A t \in Slots : t # s => id'[t] = id[t] /\ heard'[t] = heard[t],
         id'[s] # 0
  PROVE  OwnAverage' /\ FreeSlotsFresh'
<1> DEFINE p == elementPtr[s]
<1>1. /\ timed' = [timed EXCEPT ![s] = TRUE]
      /\ \E outcome \in Outcomes(established'[s]) : ratio' = [ratio EXCEPT ![s] = outcome]
      /\ \/ /\ elementPtr' = [elementPtr EXCEPT ![s] = (p + 1) % MaElements]
            /\ established' = [established EXCEPT ![s] = established[s] \/ elementPtr'[s] = 0]
         \/ established[s] /\ UNCHANGED <<elementPtr, established>>
  BY DEF Deliver, movingAveragePageTime
<1>2. \A t \in Slots : t # s =>
        /\ timed'[t] = timed[t] /\ ratio'[t] = ratio[t]
        /\ elementPtr'[t] = elementPtr[t] /\ established'[t] = established[t]
  BY <1>1 DEF TypeOK
<1>3. p \in 0 .. MaElements - 1 /\ heard[s] \in 0 .. MaElements
  BY DEF TypeOK
<1>4. (p + 1) % MaElements = IF p + 1 = MaElements THEN 0 ELSE p + 1
  BY <1>3, Wrap
<1>5. CASE established[s]
  <2>1. established'[s]
    BY <1>1, <1>5 DEF TypeOK
  <2>2. id[s] # 0 /\ heard[s] = MaElements
    BY <1>5 DEF OwnAverage, FreeSlotsFresh
  <2>3. heard'[s] = MaElements
    BY <2>2, ClockAssumption
  <2>4. OwnAverage'
    BY <1>2, <2>1, <2>3 DEF OwnAverage
  <2>5. FreeSlotsFresh'
    BY <1>2 DEF FreeSlotsFresh
  <2>6. QED
    BY <2>4, <2>5
<1>6. CASE ~ established[s]
  <2>1. elementPtr'[s] = (p + 1) % MaElements
    BY <1>1, <1>6 DEF TypeOK
  <2>2. established'[s] <=> elementPtr'[s] = 0
    BY <1>1, <1>6 DEF TypeOK
  <2>3. heard'[s] = p + 1
    <3>1. CASE id[s] # 0
      <4>1. heard[s] = p
        BY <1>6, <3>1 DEF OwnAverage
      <4>2. QED
        BY <1>3, <3>1, <4>1, ClockAssumption
    <3>2. CASE id[s] = 0
      <4>1. p = 0
        BY <3>2 DEF FreeSlotsFresh
      <4>2. QED
        BY <3>2, <4>1
    <3>3. QED
      BY <3>1, <3>2
  <2>4. IF established'[s] THEN heard'[s] = MaElements ELSE heard'[s] = elementPtr'[s]
    BY <1>3, <1>4, <2>1, <2>2, <2>3, ClockAssumption
  <2>5. ratio'[s] = "tuned" => established'[s]
    BY <1>1 DEF TypeOK, Outcomes
  <2>6. OwnAverage'
    BY <1>2, <2>4, <2>5 DEF OwnAverage
  <2>7. FreeSlotsFresh'
    BY <1>2 DEF FreeSlotsFresh
  <2>8. QED
    BY <2>6, <2>7
<1>7. QED
  BY <1>5, <1>6

(* Every step preserves the invariant of free slots and of averages. *)
LEMMA NextFreshInv ==
  ASSUME NonZeroSerials
  PROVE  FreshInv /\ [Next]_vars => FreshInv'
<1> SUFFICES ASSUME FreshInv, [Next]_vars PROVE OwnAverage' /\ FreeSlotsFresh'
  BY NextIInv DEF FreshInv
<1> USE DEF FreshInv
<1>1. TypeOK /\ TypeOK'
  BY NextIInv DEF IInv
<1>2. ASSUME NEW q \in Serials, PageOfKnownSerial(q)
      PROVE  OwnAverage' /\ FreeSlotsFresh'
  <2>1. PICK s \in find_stream(Ops(q)) :
          /\ heard' = [heard EXCEPT ![s] = IF heard[s] < MaElements
                                           THEN heard[s] + 1 ELSE heard[s]]
          /\ UNCHANGED <<id, osSerial>>
          /\ Deliver(s, q)
    BY <1>2 DEF PageOfKnownSerial
  <2>2. s \in Slots /\ id[s] = Ops(q) /\ id[s] # 0
    BY DEF find_stream, NonZeroSerials
  <2>3. /\ heard'[s] = IF heard[s] < MaElements THEN heard[s] + 1 ELSE heard[s]
        /\ \A t \in Slots : t # s => id'[t] = id[t] /\ heard'[t] = heard[t]
        /\ id'[s] # 0
        /\ heard' \in [Slots -> 0 .. MaElements]
    BY <1>1, <2>1, <2>2 DEF TypeOK
  <2>4. QED
    BY <1>1, <2>1, <2>2, <2>3, PageExtendsAverage
<1>3. ASSUME NEW q \in Serials, PageOfNewSerial(q)
      PROVE  OwnAverage' /\ FreeSlotsFresh'
  <2>1. PICK s \in find_stream(0) :
          /\ id' = [id EXCEPT ![s] = Ops(q)]
          /\ heard' = [heard EXCEPT ![s] = 1]
          /\ Deliver(s, q)
    BY <1>3 DEF PageOfNewSerial, Take
  <2>2. s \in Slots /\ id[s] = 0
    BY DEF find_stream
  <2>3. /\ heard'[s] = 1
        /\ \A t \in Slots : t # s => id'[t] = id[t] /\ heard'[t] = heard[t]
        /\ id'[s] # 0
        /\ heard' \in [Slots -> 0 .. MaElements]
    BY <1>1, <2>1, <2>2 DEF TypeOK, NonZeroSerials
  <2>4. QED
    BY <1>1, <2>1, <2>2, <2>3, PageExtendsAverage
<1>4. CASE checkStreams
  <2> DEFINE lost == {s \in Slots : id[s] # 0 /\ TooOld(s)}
  <2>1. resetStream(lost) /\ ma_reset(lost)
    BY <1>4 DEF checkStreams
  <2>2. id' = [s \in Slots |-> 0]
    BY <1>4, CheckFreesAll
  <2>3. \A s \in Slots : id[s] # 0 => s \in lost
    BY <1>1, <1>4, ClockAssumption DEF IInv, AgeCoversIdle, checkStreams, TooOld, TypeOK
  <2> HIDE DEF lost
  <2>4. FreeSlotsFresh'
    BY <2>1, <2>3 DEF FreeSlotsFresh, resetStream, ma_reset
  <2>5. \A s \in Slots : ratio'[s] = "tuned" => established'[s]
    BY <2>1 DEF OwnAverage, resetStream, ma_reset
  <2>6. QED
    BY <2>2, <2>4, <2>5 DEF OwnAverage
<1>5. CASE UNCHANGED <<id, timed, elementPtr, established, ratio, heard>>
  BY <1>5 DEF OwnAverage, FreeSlotsFresh
<1>6. QED
  BY <1>2, <1>3, <1>4, <1>5
     DEF Next, vars, slot, PageOfSerialTooMany, StartSender, StopSender, Tick

(* If no serial is 0 in its low 16 bits, a slot on offer carries no trace   *)
(* of its last stream, however often slots are taken and reset.             *)
THEOREM FreeSlotsAreFresh ==
  ASSUME NonZeroSerials
  PROVE  Spec => []FreeSlotsFresh
<1>1. Init => FreshInv
  BY InitIInv DEF FreshInv, Init, FreeSlotsFresh, OwnAverage
<1>2. FreshInv /\ [Next]_vars => FreshInv'
  BY NextFreshInv
<1>3. FreshInv => FreeSlotsFresh
  BY DEF FreshInv
<1>4. QED
  BY <1>1, <1>2, <1>3, PTL DEF Spec

(* Then no stream is ever resampled by the page times of another.           *)
THEOREM AveragesAreOwn ==
  ASSUME NonZeroSerials
  PROVE  Spec => []TunedByOwnPages
<1>1. Init => FreshInv
  BY InitIInv DEF FreshInv, Init, FreeSlotsFresh, OwnAverage
<1>2. FreshInv /\ [Next]_vars => FreshInv'
  BY NextFreshInv
<1>3. FreshInv => TunedByOwnPages
  BY DEF FreshInv, OwnAverage, TunedByOwnPages
<1>4. QED
  BY <1>1, <1>2, <1>3, PTL DEF Spec
=============================================================================
