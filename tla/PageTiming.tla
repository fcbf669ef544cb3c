------------------------------ MODULE PageTiming ------------------------------
(***************************************************************************)
(* How a receiver measures the page spacing of one stream (ma.c, timef.c   *)
(* and movingAveragePageTime of gsp-opus-rx-ogg.c): the clock time between *)
(* two pages enters a moving average unless the average is established and *)
(* the time lies outside 10 percent of it; the average over the nominal    *)
(* spacing is the ratio of the resampler.                                  *)
(*                                                                         *)
(* StreamTable has this for every slot, without the arithmetic             *)
(* (AsInStreamTable).                                                      *)
(***************************************************************************)
EXTENDS Integers, Functions

CONSTANTS
  nElements,   (* MA_ELEMENTS                                              *)
  TimeMod,     (* values of a uint64_t                                     *)
  PacketTime,  (* units of time that a packet lasts (10 ms)                *)
  Offsets,     (* how much longer the receiver may find a gap than it was  *)
  Jitter,      (* deviation of a gap that an average is to stand           *)
  MaxPackets,  (* bound on the packets a sender puts into a page           *)
  MaxLost,     (* bound on the pages lost while an average is filled       *)
  MaxOff       (* bound on the gaps off their time while it has its slot   *)

(* MA_ELEMENTS is 50: of more than eleven elements one may be the 0 of the  *)
(* first page and all others off by the jitter, with the average still      *)
(* within 10 percent of every gap off by the jitter the other way; for 50   *)
(* that is a jitter of 3.7 percent of a packet.                             *)
ASSUME TimingAssumption ==
  /\ nElements \in Nat \ 0 .. 10 /\ MaxPackets \in Nat \ {0} /\ PacketTime \in Nat \ {0}
  /\ MaxLost \in Nat /\ MaxOff \in Nat /\ Jitter \in Nat
  /\ (21 * nElements - 11) * Jitter <= (nElements - 11) * PacketTime
  /\ Offsets \subseteq Int /\ 0 \in Offsets
  /\ TimeMod \in Nat
  /\ nElements * ((MaxLost + 1) * (MaxPackets * PacketTime) + Jitter) < TimeMod

VARIABLES
  packets,     (* the sender's packets in a page                           *)
  timed,       (* tp holds the time of an earlier page                     *)
  elementArray, elementPtr, elementTotal, established,       (* struct ma  *)
  ratio,       (* numerator and denominator                                *)
  lost,        (* history: pages lost while the average was filled         *)
  strayed,     (* history: a gap off by more than the jitter was taken     *)
  resized,     (* history: the sender changed its page size                *)
  offs         (* gaps off their time so far                               *)

ma == <<elementArray, elementPtr, elementTotal, established>>
history == <<lost, strayed, resized, offs>>
vars == <<packets, timed, ma, ratio, history>>

Elements == 0 .. nElements - 1
Unity == <<1, 1>>
pageTime == packets * PacketTime

-----------------------------------------------------------------------------
(* Mutated forms of operators below: bugs the properties have to notice.    *)
ma_constrainNarrow(element) ==
  \/ ~ established
  \/ /\ 100 * nElements * element <= 101 * elementTotal
     /\ 100 * nElements * element >= 99 * elementTotal

ma_pushNotSticky(element) ==
  /\ elementTotal' = elementTotal - elementArray[elementPtr] + element
  /\ elementArray' = [elementArray EXCEPT ![elementPtr] = element]
  /\ elementPtr' = (elementPtr + 1) % nElements
  /\ established' = (elementPtr' = 0)

ma_resetKeepsElements ==
  /\ elementPtr' = 0 /\ elementTotal' = 0 /\ established' = FALSE
  /\ UNCHANGED elementArray

-----------------------------------------------------------------------------
Init ==
  /\ packets \in 1 .. MaxPackets
  /\ timed = FALSE
  /\ elementArray = [e \in Elements |-> 0]
  /\ elementPtr = 0 /\ elementTotal = 0 /\ established = FALSE
  /\ ratio = Unity
  /\ lost = 0 /\ strayed = FALSE /\ resized = FALSE /\ offs = 0

(* timespec_diff and timespec_to_uint64: the conversion of a negative       *)
(* double is undefined; processors wrap it or make it 0.                    *)
Uint64(difference) ==
  {difference % TimeMod} \cup (IF difference < 0 THEN {0} ELSE {})

(* ma_avg as a fraction, and ma_constrain with its 10 percent.              *)
ma_constrain(element) ==
  \/ ~ established
  \/ /\ 10 * nElements * element <= 11 * elementTotal
     /\ 10 * nElements * element >= 9 * elementTotal

ma_push(element) ==
  /\ elementTotal' = (elementTotal - elementArray[elementPtr] + element) % TimeMod
  /\ elementArray' = [elementArray EXCEPT ![elementPtr] = element]
  /\ elementPtr' = (elementPtr + 1) % nElements
  /\ established' = (established \/ elementPtr' = 0)

(* A page arrives, by the clock so much after the one before; tp of a first *)
(* page is its own time.                                                    *)
movingAveragePageTime(difference) ==
  \E ans \in Uint64(IF timed THEN difference ELSE 0) :
    /\ IF ma_constrain(ans) THEN ma_push(ans) ELSE UNCHANGED ma
    /\ ratio' = IF ~ established' \/ elementTotal' = 0 THEN Unity
                ELSE <<pageTime * nElements, elementTotal'>>
    /\ timed' = TRUE
    /\ UNCHANGED packets

(* The next page, after so many that were lost, seen so much later than     *)
(* they take: its delay differs from that of the page before, the sender's  *)
(* card is slow or fast, or the receiver's clock was set on or back.        *)
Page(missing, off) ==
  /\ movingAveragePageTime((1 + missing) * pageTime + off)
  /\ lost' = IF timed /\ ~ established THEN lost + missing ELSE lost
  /\ strayed' = \/ strayed
                \/ timed /\ elementPtr' # elementPtr /\ off \notin -Jitter .. Jitter
  /\ offs' = IF timed /\ off # 0 THEN offs + 1 ELSE offs
  /\ UNCHANGED resized

Arrival(missing) ==
  \E off \in Offsets : (off # 0 => offs < MaxOff) /\ Page(missing, off)

(* The sender is started anew with another -g.                              *)
Resize(n) ==
  /\ n # packets
  /\ packets' = n
  /\ resized' = (resized \/ timed)
  /\ UNCHANGED <<timed, ma, ratio, lost, strayed, offs>>

ma_reset ==
  /\ elementPtr' = 0 /\ elementTotal' = 0 /\ established' = FALSE
  /\ elementArray' = [e \in Elements |-> 0]

resetStream ==
  /\ ma_reset
  /\ timed' = FALSE
  /\ ratio' = Unity
  /\ lost' = 0 /\ strayed' = FALSE /\ resized' = FALSE /\ offs' = 0
  /\ UNCHANGED packets

(* Bound: one new page size while a stream has the slot. *)
Next ==
  \/ \E missing \in 0 .. MaxLost - lost : Arrival(missing)
  \/ ~ resized /\ \E n \in 1 .. MaxPackets : Resize(n)
  \/ resetStream

Spec == Init /\ [][Next]_vars

(* The sender goes on sending, and not every page is lost. *)
FairSpec == Spec /\ WF_vars(Arrival(0))

-----------------------------------------------------------------------------
(* The total kept by adding and subtracting is the sum of the array, in     *)
(* 64 bits, whatever wrapped in between and whichever stream had the slot.  *)
TotalIsSum == elementTotal = FoldFunction(+, 0, elementArray) % TimeMod

(* While the average was filled so few pages were lost that neither they    *)
(* nor the jitter take it 10 percent off; no gap further off was taken, and *)
(* the sender has kept its page size.                                       *)
Undisturbed ==
  /\ 9 * lost * pageTime + 19 * nElements * Jitter <= nElements * pageTime
  /\ ~ strayed /\ ~ resized

(* An established average takes every gap of the sender that is off by no   *)
(* more than the jitter, so that it can follow the sender at all; else too  *)
(* many pages were lost while it was filled (more than a ninth, less what   *)
(* the jitter takes), or it took a gap further off (a larger variation of   *)
(* the delay, a clock that was set), or the sender has changed the size of  *)
(* its pages.                                                               *)
NeverStuck ==
  established /\ Undisturbed => \A off \in -Jitter .. Jitter : ma_constrain(pageTime + off)

OnTime(j) == \E missing \in 0 .. MaxLost, off \in Offsets \cap -j .. j : Page(missing, off)

(* Once the gaps are off by no more than j for good, the 0 of the first     *)
(* page, the gaps of lost pages and those further off leave the average,    *)
(* and the ratio ends within j of a page time of what the sender asks for;  *)
(* at 1, if they come exactly on time.                                      *)
Settles ==
  \A j \in 0 .. Jitter :
    <>[][OnTime(j)]_vars /\ <>[](established /\ Undisturbed) =>
      <>[](ratio[1] - ratio[2] \in -(nElements * j) .. nElements * j)

-----------------------------------------------------------------------------
Only(x) == [s \in {0} |-> x]

Table == INSTANCE StreamTable WITH
  N <- 1, Serials <- {1}, SerialMod <- 2, MaElements <- nElements,
  Timeout <- 1, SelectTimeout <- 1, MaxAge <- 1,
  id <- Only(1), osSerial <- Only(1), age <- Only(0), timed <- Only(timed),
  elementPtr <- Only(elementPtr), established <- Only(established),
  ratio <- Only(IF ratio = Unity THEN "unity" ELSE "tuned"), heard <- Only(0),
  idle <- 0, rc <- 0, crashed <- FALSE, talking <- {1}

(* The page times of StreamTable, which has no arithmetic, are an           *)
(* abstraction of these: a page and a reset are its own steps.              *)
AsInStreamTable ==
  [][\/ Table!movingAveragePageTime(0)
     \/ Table!ma_reset({0}) /\ timed' = FALSE /\ ratio' = Unity
     \/ \E n \in 1 .. MaxPackets : Resize(n)]_vars
=============================================================================
