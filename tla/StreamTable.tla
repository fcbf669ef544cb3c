------------------------------ MODULE StreamTable ------------------------------
(***************************************************************************)
(* The receiver's table of N_STREAM_STRUCTURES stream slots as its network *)
(* thread keeps it (gsp-opus-rx-ogg.c): a page is looked up by the low 16  *)
(* bits of its Ogg serial, an unknown serial takes the first slot whose id *)
(* is 0, and when a whole select timeout passes without a datagram, every  *)
(* slot not heard of for a second is reset.                                *)
(*                                                                         *)
(* A step is one iteration of network_thread_function; only that thread    *)
(* writes what is modelled here.  Receiver.tla splits the iteration into   *)
(* the steps the two other threads can observe.                            *)
(*                                                                         *)
(* Time passes in ticks.  Every datagram holds one complete page: that is  *)
(* how both transmitters send ("every packet it a new page").              *)
(***************************************************************************)
EXTENDS Integers

CONSTANTS
  N,             (* N_STREAM_STRUCTURES                                    *)
  Serials,       (* Ogg serials of the senders, 32 bits wide in the page   *)
  SerialMod,     (* values of the uint16_t a serial is stored in           *)
  MaElements,    (* MA_ELEMENTS, page times in a moving average            *)
  Timeout,       (* ticks in the 1e09 ns of checkStreams                   *)
  SelectTimeout, (* ticks in the timeval given to select                   *)
  MaxAge         (* bound: ages are not counted beyond it                  *)

ASSUME TableAssumption == N \in Nat \ {0} /\ SerialMod \in Nat \ {0}

ASSUME SerialAssumption == Serials \subseteq Nat

ASSUME ClockAssumption ==
  /\ MaElements \in Nat \ {0}
  /\ Timeout \in Nat \ {0} /\ SelectTimeout \in Nat /\ MaxAge \in Nat
  /\ Timeout <= SelectTimeout /\ SelectTimeout <= MaxAge

VARIABLES
  id,            (* per slot: the serial it serves, 0 when it is free      *)
  osSerial,      (* serial its ogg_stream_state was initialized with       *)
  age,           (* ticks since lastSeen                                   *)
  timed,         (* tp holds the time of an earlier page                   *)
  elementPtr, established, ratio,     (* moving average and its outcome    *)
  heard,         (* history: pages delivered since the slot was taken      *)
  idle,          (* ticks the current select has waited                    *)
  rc,            (* what the last ogg_stream_pagein returned               *)
  crashed,       (* the NULL of find_stream was dereferenced               *)
  talking        (* serials whose sender is transmitting                   *)

slot == <<id, osSerial, age, timed, elementPtr, established, ratio, heard>>
vars == <<slot, idle, rc, crashed, talking>>

-----------------------------------------------------------------------------
Slots == 0 .. N - 1

(* uint16_t ops=ogg_page_serialno(&og) *)
Ops(q) == q % SerialMod

(* find_stream returns the first slot whose id is the serial, or NULL.      *)
find_stream(serial) ==
  {s \in Slots : id[s] = serial /\ \A t \in Slots : id[t] = serial => s <= t}

NoStream(serial) == \A s \in Slots : id[s] # serial

Older(a) == IF a < MaxAge THEN a + 1 ELSE a

-----------------------------------------------------------------------------
(* Mutated forms of operators below: bugs the properties have to notice.    *)
TooOldOffByOne(s) == age[s] > Timeout

TooOldButLast(s) == s < N - 1 /\ age[s] >= Timeout

ma_resetTotalOnly(lost) == UNCHANGED <<elementPtr, established>>

resetStreamKeepsTp(lost) ==
  /\ id' = [s \in Slots |-> IF s \in lost THEN 0 ELSE id[s]]
  /\ age' = [s \in Slots |-> IF s \in lost THEN MaxAge ELSE age[s]]
  /\ ratio' = [s \in Slots |-> IF s \in lost THEN "unity" ELSE ratio[s]]
  /\ UNCHANGED timed

TakeWithFullSerial(s, q) ==
  /\ id' = [id EXCEPT ![s] = q]
  /\ osSerial' = [osSerial EXCEPT ![s] = Ops(q)]

TakeInitOnce(s, q) ==
  /\ id' = [id EXCEPT ![s] = Ops(q)]
  /\ osSerial' = [osSerial EXCEPT ![s] = IF @ = 0 THEN Ops(q) ELSE @]

-----------------------------------------------------------------------------
(* initStreams: calloc leaves osSerial 0, which accepts no page before      *)
(* ogg_stream_init.                                                         *)
Init ==
  /\ id = [s \in Slots |-> 0]
  /\ osSerial = [s \in Slots |-> 0]
  /\ age = [s \in Slots |-> MaxAge]
  /\ timed = [s \in Slots |-> FALSE]
  /\ elementPtr = [s \in Slots |-> 0]
  /\ established = [s \in Slots |-> FALSE]
  /\ ratio = [s \in Slots |-> "unity"]
  /\ heard = [s \in Slots |-> 0]
  /\ idle = 0
  /\ rc = 0
  /\ crashed = FALSE
  /\ talking = {}

(* The ratio of an established average; it stays 1 while the average is 0.  *)
Outcomes(full) == IF full THEN {"tuned", "unity"} ELSE {"unity"}

(* movingAveragePageTime: the page time is pushed unless the average is     *)
(* established and it lies outside 10 percent of it.                        *)
movingAveragePageTime(s) ==
  /\ timed' = [timed EXCEPT ![s] = TRUE]
  /\ \/ /\ elementPtr' = [elementPtr EXCEPT ![s] = (@ + 1) % MaElements]
        /\ established' = [established EXCEPT ![s] = @ \/ elementPtr'[s] = 0]
     \/ /\ established[s]
        /\ UNCHANGED <<elementPtr, established>>
  /\ \E outcome \in Outcomes(established'[s]) : ratio' = [ratio EXCEPT ![s] = outcome]

(* The end of the iteration for a page of serial q delivered to slot s;     *)
(* ogg_stream_pagein takes only a page of exactly the serial it was         *)
(* initialized with.                                                        *)
Deliver(s, q) ==
  /\ rc' = IF osSerial'[s] # 0 /\ osSerial'[s] = q THEN 0 ELSE -1
  /\ age' = [age EXCEPT ![s] = 0]
  /\ movingAveragePageTime(s)
  /\ idle' = 0
  /\ UNCHANGED <<crashed, talking>>

PageOfKnownSerial(q) ==
  /\ q \in talking /\ ~ crashed
  /\ \E s \in find_stream(Ops(q)) :
       /\ heard' = [heard EXCEPT ![s] = IF @ < MaElements THEN @ + 1 ELSE @]
       /\ UNCHANGED <<id, osSerial>>
       /\ Deliver(s, q)

(* The slot is named and its ogg_stream_state initialized, whatever stream  *)
(* it held before.                                                          *)
Take(s, q) ==
  /\ id' = [id EXCEPT ![s] = Ops(q)]
  /\ osSerial' = [osSerial EXCEPT ![s] = Ops(q)]

PageOfNewSerial(q) ==
  /\ q \in talking /\ ~ crashed
  /\ NoStream(Ops(q))
  /\ \E s \in find_stream(0) :
       /\ Take(s, q)
       /\ heard' = [heard EXCEPT ![s] = 1]
       /\ Deliver(s, q)

(* No slot is free: oss is NULL and oss->id is stored to. *)
PageOfSerialTooMany(q) ==
  /\ q \in talking /\ ~ crashed
  /\ NoStream(Ops(q)) /\ NoStream(0)
  /\ crashed' = TRUE
  /\ UNCHANGED <<slot, idle, rc, talking>>

TooOld(s) == age[s] >= Timeout

ma_reset(lost) ==
  /\ elementPtr' = [s \in Slots |-> IF s \in lost THEN 0 ELSE elementPtr[s]]
  /\ established' = [s \in Slots |-> s \notin lost /\ established[s]]

(* resetStream, for every slot of the set. *)
resetStream(lost) ==
  /\ id' = [s \in Slots |-> IF s \in lost THEN 0 ELSE id[s]]
  /\ age' = [s \in Slots |-> IF s \in lost THEN MaxAge ELSE age[s]]
  /\ ratio' = [s \in Slots |-> IF s \in lost THEN "unity" ELSE ratio[s]]
  /\ timed' = [s \in Slots |-> s \notin lost /\ timed[s]]

(* The select ran out and recvfrom returned -1.  A select that a signal or  *)
(* a datagram with a wrong checksum ended early, after which recvfrom       *)
(* returns -1 too, is left out.                                             *)
checkStreams ==
  LET lost == {s \in Slots : id[s] # 0 /\ TooOld(s)}
  IN /\ ~ crashed
     /\ idle >= SelectTimeout
     /\ resetStream(lost)
     /\ ma_reset(lost)
     /\ idle' = 0
     /\ UNCHANGED <<osSerial, heard, rc, crashed, talking>>

Tick ==
  /\ ~ crashed
  /\ age' = [s \in Slots |-> Older(age[s])]
  /\ idle' = Older(idle)
  /\ UNCHANGED <<id, osSerial, timed, elementPtr, established, ratio, heard,
                 rc, crashed, talking>>

(* The environment: senders come and go. *)
StartSender(q) ==
  /\ q \notin talking /\ ~ crashed
  /\ talking' = talking \cup {q}
  /\ UNCHANGED <<slot, idle, rc, crashed>>

StopSender(q) ==
  /\ q \in talking /\ ~ crashed
  /\ talking' = talking \ {q}
  /\ UNCHANGED <<slot, idle, rc, crashed>>

Next ==
  \/ \E q \in Serials : \/ PageOfKnownSerial(q) \/ PageOfNewSerial(q)
                        \/ PageOfSerialTooMany(q)
                        \/ StartSender(q) \/ StopSender(q)
  \/ checkStreams
  \/ Tick

Spec == Init /\ [][Next]_vars

(* Time passes and the thread is scheduled; no sender has to send. *)
FairSpec == Spec /\ WF_vars(Tick) /\ WF_vars(checkStreams)

-----------------------------------------------------------------------------
(* Type invariant: ids stay within 16 bits, ages and the moving average     *)
(* within their bounds.                                                     *)
TypeOK ==
  /\ id \in [Slots -> 0 .. SerialMod - 1]
  /\ osSerial \in [Slots -> 0 .. SerialMod - 1]
  /\ age \in [Slots -> 0 .. MaxAge]
  /\ timed \in [Slots -> BOOLEAN]
  /\ elementPtr \in [Slots -> 0 .. MaElements - 1]
  /\ established \in [Slots -> BOOLEAN]
  /\ ratio \in [Slots -> {"unity", "tuned"}]
  /\ heard \in [Slots -> 0 .. MaElements]
  /\ idle \in 0 .. MaxAge
  /\ rc \in {0, -1}
  /\ crashed \in BOOLEAN
  /\ talking \subseteq Serials

(* However senders come, go and come back, no serial is ever served by two  *)
(* slots: a stream would be mixed twice and its pages would reach only one. *)
UniqueIds ==
  \A s, t \in Slots : id[s] # 0 /\ id[s] = id[t] => s = t

(* A slot in use demultiplexes the stream it is named after, also when an   *)
(* earlier stream left its ogg_stream_state behind.                         *)
OsMatches == \A s \in Slots : id[s] # 0 => osSerial[s] = id[s]

(* A stream is resampled by a tuned ratio only after as many of its own     *)
(* pages as the average holds: nothing of the stream that had the slot      *)
(* before is left in the average.                                           *)
TunedByOwnPages ==
  \A s \in Slots : id[s] # 0 /\ ratio[s] = "tuned" => heard[s] = MaElements

(* A slot on offer carries no trace of its last stream. *)
FreeSlotsFresh ==
  \A s \in Slots : id[s] = 0 => /\ ~ timed[s] /\ ~ established[s]
                                /\ elementPtr[s] = 0 /\ ratio[s] = "unity"

(* A stream in use was heard of no later than the select began to wait. *)
AgeCoversIdle == \A s \in Slots : id[s] # 0 => age[s] >= idle

(* Streams are only ever killed all together: checkStreams runs after a     *)
(* full second without any datagram, so it frees every slot or none.        *)
KilledTogether ==
  [][(\E s \in Slots : id[s] # 0 /\ id'[s] = 0) => \A s \in Slots : id'[s] = 0]_vars

(* The stream state a page is handed to takes it, if its serial has 16 bits *)
(* only: also in a slot that was reset, and that served others before.      *)
PagesTaken ==
  [][\A q \in Serials :
       (PageOfKnownSerial(q) \/ PageOfNewSerial(q)) /\ q = Ops(q) /\ q # 0
         => rc' = 0]_vars

(* When all senders have fallen silent for good, every slot becomes free.  *)
AllFreed ==
  <>[](talking = {} /\ ~ crashed) => <>[](\A s \in Slots : id[s] = 0)

-----------------------------------------------------------------------------
(* What a comment of the source says and the code does not do: "check to    *)
(* see if any streams are no longer transmitting. If so, kill them off".    *)
(* The NULL of find_stream is met, if at all, only while every slot serves  *)
(* a stream that was heard within the last second.                          *)
FullOnlyOfLiving ==
  crashed /\ idle < SelectTimeout => \A s \in Slots : ~ TooOld(s)
=============================================================================
