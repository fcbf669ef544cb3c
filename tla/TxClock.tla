-------------------------------- MODULE TxClock --------------------------------
(***************************************************************************)
(* When a transmitter starts and what position its pages carry: paCallback *)
(* of gsp-opus-tx-net.c and of gsp-opus-tx-ogg.c (the two differ in that   *)
(* tx-ogg has one destination, there from the start).  A transmitter waits *)
(* for the second boundary after its first callback, takes the seconds     *)
(* since midnight as its position, and from there on counts the buffers of *)
(* its sound card; it reads the clock no more.                             *)
(*                                                                         *)
(* Time is counted in audio buffers.  In each tick of the clock one        *)
(* callback of every transmitter is due; the card may be slow, or the      *)
(* callback missed (an input overflow, a machine too busy), or the card    *)
(* fast, or the callback late, and a further one is due.  The positions    *)
(* are in buffers as well, so SAMPLE_RATE is PerSecond and framesPerBuffer *)
(* is 1: what part of a buffer a callback comes after the boundary is left *)
(* out, and to that part of a buffer "the same moment" is to be read.      *)
(*                                                                         *)
(* Assumed: the machines agree on the clock and on local time, and it is   *)
(* changed (to and from daylight saving) at a second's boundary only.      *)
(***************************************************************************)
EXTENDS Integers, FiniteSets

CONSTANTS
  Senders,     (* transmitters                                             *)
  Dests,       (* destinations a transmitter may have                      *)
  PerSecond,   (* callbacks in a second                                    *)
  DaySeconds,  (* seconds in a day                                         *)
  Offsets,     (* seconds that local time may be ahead of the clock        *)
  PageSize,    (* arg_pagesize                                             *)
  PageLimit,   (* packets that fit on a page of libogg, however large      *)
  MaxTicks,    (* bound on time                                            *)
  MaxBehind,   (* bounds on the callbacks that a transmitter has made less *)
  MaxAhead     (* or more than there were ticks                            *)

ASSUME ClockAssumption == /\ PerSecond \in Nat \ {0}
                          /\ DaySeconds \in Nat \ {0}
                          /\ Offsets \subseteq Nat
                          /\ MaxTicks \in Nat /\ MaxBehind \in Nat /\ MaxAhead \in Nat

(* libogg ends a page after 4096 bytes, but not before four packets, and    *)
(* after 255 segments.  The sender's -g is to ask for no more than fit; for *)
(* more, pages would fall behind for good.                                  *)
ASSUME PageAssumption ==
  PageSize \in Nat \ {0} /\ PageLimit \in Nat /\ PageSize <= PageLimit

VARIABLES
  now,         (* ticks since some midnight                                *)
  offset,      (* seconds that local time is ahead                         *)
  due,         (* transmitters whose callback of this tick is yet to come  *)
  ssm, running, ssmSamples,   (* per transmitter; running is               *)
                              (* paCallbackRunning                         *)
  listed,      (* per transmitter: destinations in its list                *)
  page,        (* per transmitter and destination: [pagesize; pending,     *)
               (* packets in its ogg stream; begun, the b_o_s of that;     *)
               (* history: position, that of the last page, 0 if none]     *)
  behind,      (* history: ticks less callbacks, since it started and in   *)
               (* the second it is to start in                             *)
  midnight     (* history: tick its local day began at, when it started    *)

clock == <<ssm, running, ssmSamples, behind, midnight>>
vars == <<now, offset, due, clock, listed, page>>

-----------------------------------------------------------------------------
(* Mutated forms of operators below: bugs the properties have to notice.    *)
PassedBoundaryOrNot(x, callbackTime) == callbackTime >= ssm[x]

StartPositionOfCapture(x, callbackTime) == ssm[x] * PerSecond

CountPacketsOneMore(x) == [d \in Dests |-> (page[x][d].pagesize + 1) % (PageSize + 1)]

(* One pagesize for all, which each destination counts up. *)
OneCountForAll(x) ==
  [d \in Dests |-> (page[x][d].pagesize + Cardinality(listed[x])) % PageSize]

-----------------------------------------------------------------------------
DayTicks == DaySeconds * PerSecond

localNow == now + offset * PerSecond

(* getSecondsSinceMidnight of localtime_r *)
SecondsSinceMidnight == (localNow \div PerSecond) % DaySeconds

Midnight == now - (localNow % DayTicks)

NoPage == [pagesize |-> 0, pending |-> 0, begun |-> FALSE, position |-> 0]

Init ==
  /\ now = 0
  /\ offset \in Offsets
  /\ due = Senders
  /\ ssm = [x \in Senders |-> 0]
  /\ running = [x \in Senders |-> FALSE]
  /\ ssmSamples = [x \in Senders |-> 0]
  /\ listed = [x \in Senders |-> {}]
  /\ page = [x \in Senders |-> [d \in Dests |-> NoPage]]
  /\ behind = [x \in Senders |-> 0]
  /\ midnight = [x \in Senders |-> 0]

(* "first time around we grab Seconds Since Midnight"; the first second of  *)
(* a day does not count as grabbed.                                         *)
FirstCallback(x) ==
  /\ x \in due /\ ~ running[x]
  /\ ssm[x] = 0
  /\ ssm' = [ssm EXCEPT ![x] = SecondsSinceMidnight]
  /\ due' = due \ {x}
  /\ UNCHANGED <<now, offset, running, ssmSamples, behind, midnight, listed, page>>

PassedBoundary(x, callbackTime) == callbackTime > ssm[x]

WaitingCallback(x) ==
  /\ x \in due /\ ~ running[x]
  /\ ssm[x] # 0
  /\ ~ PassedBoundary(x, SecondsSinceMidnight)
  /\ due' = due \ {x}
  /\ UNCHANGED <<now, offset, clock, listed, page>>

(* pagesize, which is counted for each destination *)
CountPacket(x) == [d \in Dests |-> (page[x][d].pagesize + 1) % PageSize]

(* One page of what an ogg stream holds up to these samples.  The first one *)
(* has its first packet only, as if that were a header, and position 0.     *)
ogg_stream_flush(e, samples, fits) ==
  LET left == IF ~ e.begun THEN e.pending - 1
              ELSE IF e.pending <= fits THEN 0 ELSE e.pending - fits
  IN [e EXCEPT !.begun = TRUE, !.pending = left,
               !.position = IF e.begun THEN samples - left ELSE 0]

ogg_stream_packetin(x, d) ==
  [page[x][d] EXCEPT !.pagesize = CountPacket(x)[d], !.pending = @ + 1]

(* One packet for every destination; a page when pagesize comes round to 0. *)
TransmitAll(x, samples) ==
  \E fits \in [Dests -> PageLimit .. PageLimit + PageSize - 1] :
    /\ ssmSamples' = [ssmSamples EXCEPT ![x] = samples]
    /\ page' = [page EXCEPT ![x] =
                  [d \in Dests |->
                     LET e == ogg_stream_packetin(x, d)
                     IN IF d \notin listed[x] THEN @[d]
                        ELSE IF e.pagesize = 0 THEN ogg_stream_flush(e, samples, fits[d])
                        ELSE e]]

StartPosition(x, callbackTime) == callbackTime * PerSecond

(* "have we passed a boundary?": the same callback starts to transmit.      *)
StartingCallback(x) ==
  /\ x \in due /\ ~ running[x]
  /\ ssm[x] # 0
  /\ PassedBoundary(x, SecondsSinceMidnight)
  /\ running' = [running EXCEPT ![x] = TRUE]
  /\ ssm' = [ssm EXCEPT ![x] = SecondsSinceMidnight]
  /\ TransmitAll(x, StartPosition(x, SecondsSinceMidnight) + 1)
  /\ midnight' = [midnight EXCEPT ![x] = Midnight]
  /\ due' = due \ {x}
  /\ UNCHANGED <<now, offset, behind, listed>>

RunningCallback(x) ==
  /\ x \in due /\ running[x]
  /\ TransmitAll(x, ssmSamples[x] + 1)
  /\ due' = due \ {x}
  /\ UNCHANGED <<now, offset, ssm, running, behind, midnight, listed>>

Callback(x) == FirstCallback(x) \/ WaitingCallback(x)
               \/ StartingCallback(x) \/ RunningCallback(x)

(* A callback that is missed, or a tick that the card is slow by.           *)
MissCallback(x) ==
  /\ x \in due
  /\ running[x] => behind[x] < MaxBehind
  /\ due' = due \ {x}
  /\ behind' = [behind EXCEPT ![x] = @ + 1]
  /\ UNCHANGED <<now, offset, ssm, running, ssmSamples, midnight, listed, page>>

(* One that was late, or that the card is ahead by.                         *)
FurtherCallback(x) ==
  /\ x \notin due
  /\ behind[x] > -MaxAhead
  /\ due' = due \cup {x}
  /\ behind' = [behind EXCEPT ![x] = @ - 1]
  /\ UNCHANGED <<now, offset, ssm, running, ssmSamples, midnight, listed, page>>

(* SEND and STOP, as the callback finds the list (see TxDestList): a new    *)
(* element begins its first page.                                           *)
control_send(x, d) ==
  /\ d \notin listed[x]
  /\ listed' = [listed EXCEPT ![x] = @ \cup {d}]
  /\ page' = [page EXCEPT ![x][d] = NoPage]
  /\ UNCHANGED <<now, offset, due, clock>>

control_stop(x, d) ==
  /\ d \in listed[x]
  /\ listed' = [listed EXCEPT ![x] = @ \ {d}]
  /\ page' = [page EXCEPT ![x][d] = NoPage]
  /\ UNCHANGED <<now, offset, due, clock>>

(* The transmitter is ended and started again. *)
Restart(x) ==
  /\ ssm' = [ssm EXCEPT ![x] = 0]
  /\ running' = [running EXCEPT ![x] = FALSE]
  /\ ssmSamples' = [ssmSamples EXCEPT ![x] = 0]
  /\ behind' = [behind EXCEPT ![x] = 0]
  /\ midnight' = [midnight EXCEPT ![x] = 0]
  /\ listed' = [listed EXCEPT ![x] = {}]
  /\ page' = [page EXCEPT ![x] = [d \in Dests |-> NoPage]]
  /\ UNCHANGED <<now, offset, due>>

(* Local time may be shifted when a second begins. *)
Tick ==
  /\ due = {}
  /\ now < MaxTicks
  /\ now' = now + 1
  /\ due' = Senders
  /\ offset' \in IF now' % PerSecond = 0 THEN Offsets ELSE {offset}
  /\ behind' = [x \in Senders |->
                  IF ~ running[x] /\ now' % PerSecond = 0 THEN 0 ELSE behind[x]]
  /\ UNCHANGED <<ssm, running, ssmSamples, midnight, listed, page>>

Next ==
  \/ Tick
  \/ \E x \in Senders : \/ Callback(x) \/ Restart(x)
                        \/ MissCallback(x) \/ FurtherCallback(x)
                        \/ \E d \in Dests : control_send(x, d) \/ control_stop(x, d)

Spec == Init /\ [][Next]_vars

-----------------------------------------------------------------------------
(* Type invariant. *)
Positions == 0 .. DayTicks + MaxTicks + MaxAhead

TypeOK ==
  /\ now \in 0 .. MaxTicks /\ offset \in Offsets
  /\ due \subseteq Senders
  /\ ssm \in [Senders -> 0 .. DaySeconds - 1]
  /\ running \in [Senders -> BOOLEAN]
  /\ ssmSamples \in [Senders -> Positions]
  /\ listed \in [Senders -> SUBSET Dests]
  /\ page \in [Senders -> [Dests -> [pagesize : 0 .. PageSize - 1,
                                     pending : 0 .. 2 * PageSize - 2,
                                     begun : BOOLEAN, position : Positions]]]
  /\ behind \in [Senders -> Int] /\ \A x \in Senders : behind[x] >= -MaxAhead
  /\ midnight \in [Senders -> 1 - DayTicks .. MaxTicks]

(* The position of a transmitter is the time of the day whose beginning it  *)
(* started by, less the callbacks that it missed or its card was slow by,   *)
(* plus those that the card was fast by, since the boundary it started at:  *)
(* neither when it was started nor what it waited for has any part in it.   *)
OnTheClock ==
  \A x \in Senders : running[x] =>
    midnight[x] + ssmSamples[x] + behind[x] = now + (IF x \in due THEN 0 ELSE 1)

(* Transmitters started independently by the same midnight (the same day,   *)
(* with no change of daylight saving between) that have made equally many   *)
(* callbacks for the ticks since give the same moment the same position.    *)
InStep ==
  \A x, y \in Senders :
    /\ running[x] /\ running[y] /\ midnight[x] = midnight[y]
    /\ behind[x] = behind[y]
    /\ (x \in due <=> y \in due)
    => ssmSamples[x] = ssmSamples[y]

(* After its first, which has position 0, the pages a destination is sent   *)
(* carry the positions of their last packets, each PageSize after the one   *)
(* before, whenever the destination was added.  The packets that the first  *)
(* page left behind come with the second, or, where so many do not fit,     *)
(* with some later one.                                                     *)
PagesContiguous ==
  [][\A x \in Senders, d \in Dests :
       LET last == page[x][d].position
           new == page'[x][d].position
           late == IF 2 * PageSize - 1 <= PageLimit THEN 0 ELSE PageSize - 1
       IN last # 0 /\ new \notin {0, last} => new - last \in PageSize .. PageSize + late]_vars

(* Strengthening: a transmitter that is to start in this second has made no *)
(* callback in it, one that has not started has counted nothing, and the    *)
(* last page a listed destination got is as old as its packets since.       *)
StartPending ==
  \A x \in Senders : ~ running[x] /\ ssm[x] # 0 /\ PassedBoundary(x, SecondsSinceMidnight) =>
    behind[x] = (localNow % PerSecond) + (IF x \in due THEN 0 ELSE 1)

Uncounted == \A x \in Senders : ~ running[x] => ssmSamples[x] = 0

(* Less than a page's packets are left over from the pages before.          *)
PageCounted(e) ==
  /\ e.pending - e.pagesize \in 0 .. PageSize - 1
  /\ ~ e.begun => e.pending = e.pagesize /\ e.position = 0
  /\ e.position # 0 /\ 2 * PageSize - 1 <= PageLimit => e.pending = e.pagesize

PagesCounted ==
  \A x \in Senders, d \in Dests :
    /\ PageCounted(page[x][d])
    /\ page[x][d].pending <= ssmSamples[x]
    /\ page[x][d].position # 0 =>
         /\ running[x] /\ d \in listed[x]
         /\ page[x][d].position + page[x][d].pending = ssmSamples[x]

(* The inductive invariant behind the theorems of TransmitterProofs. *)
IInv == TypeOK /\ OnTheClock /\ StartPending /\ Uncounted /\ PagesCounted

-----------------------------------------------------------------------------
(* "second time around the callback - have we passed a boundary?": when the *)
(* second is no longer the one grabbed, the transmitter starts.             *)
StartsPastBoundary ==
  [][\A x \in Senders :
       Callback(x) /\ ~ running[x] /\ ssm[x] # 0 /\ SecondsSinceMidnight # ssm[x]
         => running'[x]]_vars
=============================================================================
