---------------------------- MODULE TxDestListProofs ----------------------------
(***************************************************************************)
(* Theorems about the transmitter's list of destinations, for any number   *)
(* of elements, destinations and commands.                                 *)
(*                                                                         *)
(* What makes the list safe to walk is its shape (Shape): it holds no      *)
(* element, one, or two, because control_getLastTxDest finds the last      *)
(* element only of a list of one.  A callback during which nothing was     *)
(* unlinked stands on a listed element and has served all that was listed  *)
(* when it began but the elements still ahead of it (Walking), and none of *)
(* those (Serving).                                                        *)
(***************************************************************************)
EXTENDS TxDestList, TLAPS

Listed == {a \in Addrs : life[a] = "listed"}

(* The head and the element after it are all there is. *)
Shape ==
  /\ Listed = {txDestList, IF txDestList = NULL THEN NULL ELSE next[txDestList]} \ {NULL}
  /\ txDestList # NULL =>
       /\ prior[txDestList] = NULL
       /\ next[txDestList] # txDestList
       /\ next[txDestList] # NULL => /\ next[next[txDestList]] = NULL
                                     /\ prior[next[txDestList]] = txDestList

(* What the control thread is in the middle of. *)
Commanding ==
  /\ control.pc = "link" => /\ control.td \in Addrs
                            /\ life[control.td] = "building"
                            /\ next[control.td] = NULL /\ prior[control.td] = NULL
  /\ control.pc = "clear" => control.td \in Addrs /\ life[control.td] = "unlinked"
  /\ control.pc = "free" => control.td \in Addrs /\ life[control.td] = "cleared"

Walking ==
  /\ callback = "idle" <=> iterator = NULL
  /\ callback # "idle" /\ ~ overlap =>
       /\ life[iterator] = "listed"
       /\ callback = "advance" => iterator \in served
       /\ atStart \subseteq served \cup {iterator, next[iterator]}

(* What was served lies behind the callback. *)
Serving ==
  callback # "idle" /\ ~ overlap =>
    /\ iterator = txDestList => served \subseteq {txDestList}
    /\ callback = "transmit" => iterator \notin served

(* The inductive invariant. *)
IInv == TypeOK /\ Shape /\ Commanding /\ Walking /\ Serving

-----------------------------------------------------------------------------
(* The walk from the head reaches the listed elements and no other. *)
LEMMA ChainIsListed ==
  ASSUME TypeOK, Shape
  PROVE  Chain = Listed
<1> USE PointerAssumption
<1> DEFINE second == IF txDestList = NULL THEN NULL ELSE next[txDestList]
<1>1. Chain \subseteq Listed
  <2> SUFFICES ASSUME NEW b \in Chain PROVE b \in Listed
    OBVIOUS
  <2>1. Listed \in SUBSET Addrs
    BY DEF Listed
  <2>2. txDestList \in Listed \cup {NULL}
    BY DEF Shape
  <2>3. \A a \in Listed : next[a] \in Listed \cup {NULL}
    <3> SUFFICES ASSUME NEW a \in Listed PROVE next[a] \in Listed \cup {NULL}
      OBVIOUS
    <3>1. a \in {txDestList, second} /\ a # NULL
      BY DEF Shape
    <3>2. CASE a = txDestList
      BY <3>1, <3>2 DEF Shape
    <3>3. CASE a # txDestList
      BY <3>1, <3>3 DEF Shape
    <3> QED BY <3>2, <3>3
  <2> QED BY <2>1, <2>2, <2>3 DEF Chain, ReachedFrom
<1>2. Listed \subseteq Chain
  <2> SUFFICES ASSUME NEW b \in Listed,
                      NEW S \in SUBSET Addrs,
                      txDestList \in S \cup {NULL},
                      \A a \in S : next[a] \in S \cup {NULL}
               PROVE  b \in S
    BY DEF Chain, ReachedFrom, Listed
  <2>1. b \in {txDestList, second} /\ b # NULL
    BY DEF Shape
  <2> QED BY <2>1
<1> QED BY <1>1, <1>2

(* The empty list satisfies the inductive invariant. *)
LEMMA InitIInv == Init => IInv
<1> SUFFICES ASSUME Init PROVE IInv
  OBVIOUS
<1> USE PointerAssumption, BoundAssumption DEF Init, Idle
<1>1. TypeOK
  <2>1. txDestList \in Addrs \cup {NULL} /\ iterator \in Addrs \cup {NULL}
    OBVIOUS
  <2>2. next \in [Addrs -> Addrs \cup {NULL}] /\ prior \in [Addrs -> Pointers]
    BY DEF Pointers
  <2>3. dest \in [Addrs -> Dests]
    OBVIOUS
  <2>4. life \in [Addrs -> {"free", "building", "listed", "lost", "unlinked", "cleared"}]
    OBVIOUS
  <2>5. control \in [pc : {"idle", "link", "clear", "free"}, td : Addrs \cup {NULL}]
    OBVIOUS
  <2>6. sends \in 0 .. MaxSends
    OBVIOUS
  <2>8. overlap \in BOOLEAN /\ crashed \in BOOLEAN
    OBVIOUS
  <2>7. callback \in {"idle", "transmit", "advance"}
        /\ atStart \subseteq Addrs /\ served \subseteq Addrs
    OBVIOUS
  <2> QED BY <2>1, <2>2, <2>3, <2>4, <2>5, <2>6, <2>7, <2>8 DEF TypeOK
<1>2. Shape
  BY DEF Shape, Listed
<1>3. Commanding
  BY DEF Commanding
<1>4. Walking /\ Serving
  BY DEF Walking, Serving
<1> QED BY <1>1, <1>2, <1>3, <1>4 DEF IInv

-----------------------------------------------------------------------------
(* One lemma per action of the control thread. *)
LEMMA SendStep ==
  ASSUME IInv, NEW d \in Dests, control_send(d)
  PROVE  IInv'
<1> USE PointerAssumption, BoundAssumption DEF control_send, zeroedNext
<1> PICK td \in Addrs : /\ life[td] = "free"
                        /\ life' = [life EXCEPT ![td] = "building"]
                        /\ next' = [next EXCEPT ![td] = NULL]
                        /\ prior' = [prior EXCEPT ![td] = NULL]
                        /\ dest' = [dest EXCEPT ![td] = d]
                        /\ control' = [pc |-> "link", td |-> td]
  OBVIOUS
<1>1. TypeOK'
  BY DEF IInv, TypeOK, Pointers, walk
<1>2. Listed' = Listed /\ td \notin Listed
  BY DEF IInv, TypeOK, Listed
<1>3. \A a \in Listed : next'[a] = next[a] /\ prior'[a] = prior[a]
  BY <1>2 DEF IInv, TypeOK, Listed
<1>4. Shape'
  <2>1. CASE txDestList = NULL
    BY <1>2, <2>1 DEF IInv, Shape
  <2>2. CASE txDestList # NULL
    <3>1. txDestList \in Listed /\ next[txDestList] \in Listed \cup {NULL}
      BY <2>2 DEF IInv, Shape
    <3> QED BY <1>2, <1>3, <2>2, <3>1 DEF IInv, Shape
  <2> QED BY <2>1, <2>2
<1>5. Commanding'
  BY DEF IInv, TypeOK, Commanding
<1>6. Walking'
  <2>1. CASE callback # "idle" /\ ~ overlap
    <3>1. life[iterator] = "listed" /\ iterator \in Addrs
      BY <2>1, PointerAssumption DEF IInv, TypeOK, Walking
    <3>2. life'[iterator] = "listed" /\ next'[iterator] = next[iterator]
      BY <3>1 DEF IInv, TypeOK
    <3> QED BY <2>1, <3>2 DEF IInv, Walking, walk
  <2>2. CASE ~ (callback # "idle" /\ ~ overlap)
    BY <2>2 DEF IInv, Walking, walk
  <2> QED BY <2>1, <2>2
<1>7. Serving'
  BY DEF IInv, Serving, walk
<1> QED BY <1>1, <1>4, <1>5, <1>6, <1>7 DEF IInv

(* control_addTxDestToEnd appends or loses the element. *)
LEMMA LinkStep ==
  ASSUME IInv, Link
  PROVE  IInv'
<1> USE PointerAssumption, BoundAssumption DEF Link, Idle
<1> DEFINE td == control.td
<1>1. td \in Addrs /\ life[td] = "building" /\ next[td] = NULL /\ prior[td] = NULL
  BY DEF IInv, Commanding
<1>2. td \notin Listed
  BY <1>1 DEF Listed
<1>3. CASE txDestList = NULL
  <2>1. txDestList' = td /\ life' = [life EXCEPT ![td] = "listed"]
        /\ next' = next /\ prior' = prior
    BY <1>3
  <2>2. TypeOK'
    BY <1>1, <2>1 DEF IInv, TypeOK, Pointers, walk
  <2>3. Listed = {} /\ Listed' = {td}
    BY <1>1, <1>3, <2>1 DEF IInv, TypeOK, Shape, Listed
  <2>4. Shape'
    BY <1>1, <2>1, <2>3 DEF Shape
  <2>5. Commanding'
    BY <1>3 DEF Commanding
  <2>6. Walking'
    BY <1>1, <2>1, <2>3 DEF IInv, TypeOK, Walking, walk
  <2>7. callback = "idle" \/ overlap
    BY <2>3 DEF IInv, TypeOK, Walking, Listed
  <2>8. Serving'
    BY <2>7 DEF Serving, walk
  <2> QED BY <2>2, <2>4, <2>5, <2>6, <2>8 DEF IInv
<1>4. CASE txDestList # NULL /\ next[txDestList] = NULL
  <2> DEFINE last == txDestList
  <2>1. /\ last \in Addrs /\ life[last] = "listed" /\ prior[last] = NULL
        /\ Listed = {last} /\ last # td /\ last # Wild
    BY <1>1, <1>4 DEF IInv, TypeOK, Shape, Listed
  <2>2. /\ txDestList' = txDestList
        /\ life' = [life EXCEPT ![td] = "listed"]
        /\ next' = [next EXCEPT ![last] = td]
        /\ prior' = [prior EXCEPT ![td] = last]
    BY <1>4, <2>1 DEF control_getLastTxDest
  <2>3. TypeOK'
    BY <1>1, <2>1, <2>2 DEF IInv, TypeOK, Pointers, walk
  <2>4. Listed' = {last, td}
    BY <1>1, <2>1, <2>2 DEF IInv, TypeOK, Listed
  <2>5. next'[last] = td /\ next'[td] = NULL /\ prior'[td] = last /\ prior'[last] = NULL
    BY <1>1, <2>1, <2>2 DEF IInv, TypeOK
  <2>6. Shape'
    BY <1>1, <2>1, <2>2, <2>4, <2>5 DEF Shape
  <2>7. Commanding'
    BY <1>4 DEF Commanding
  <2>8. Walking'
    <3>1. CASE callback # "idle" /\ ~ overlap
      <4>1. iterator = last
        BY <2>1, <3>1 DEF IInv, TypeOK, Walking, Listed
      <4>2. next[iterator] = NULL /\ next'[iterator] = td
        BY <1>4, <2>5, <4>1
      <4>3. life'[iterator] = "listed"
        BY <1>1, <2>1, <2>2, <4>1 DEF IInv, TypeOK
      <4>4. atStart \subseteq served \cup {iterator, td}
        BY <3>1, <4>2 DEF IInv, TypeOK, Walking
      <4> QED BY <3>1, <4>2, <4>3, <4>4 DEF IInv, Walking, walk
    <3>2. CASE ~ (callback # "idle" /\ ~ overlap)
      BY <3>2 DEF IInv, Walking, walk
    <3> QED BY <3>1, <3>2
  <2>9. Serving'
    BY <2>2 DEF IInv, Serving, walk
  <2> QED BY <2>3, <2>6, <2>7, <2>8, <2>9 DEF IInv
<1>5. CASE txDestList # NULL /\ next[txDestList] # NULL
  <2>1. /\ txDestList' = txDestList /\ next' = next
        /\ life' = [life EXCEPT ![td] = "lost"]
        /\ prior' = [prior EXCEPT ![td] = Wild]
    BY <1>5 DEF control_getLastTxDest
  <2>2. TypeOK'
    BY <1>1, <2>1 DEF IInv, TypeOK, Pointers, walk
  <2>3. Listed' = Listed
    BY <1>1, <2>1 DEF IInv, TypeOK, Listed
  <2>4. \A a \in Listed : prior'[a] = prior[a] /\ life'[a] = life[a]
    BY <1>2, <2>1 DEF IInv, TypeOK, Listed
  <2>5. txDestList \in Listed /\ next[txDestList] \in Listed
    BY <1>5 DEF IInv, Shape
  <2>6. Shape'
    BY <1>5, <2>1, <2>3, <2>4, <2>5 DEF IInv, Shape
  <2>7. Commanding'
    BY <1>5 DEF Commanding
  <2>8. Walking'
    BY <1>1, <2>1, <2>3, <2>4 DEF IInv, TypeOK, Walking, walk, Listed
  <2>9. Serving'
    BY <2>1 DEF IInv, Serving, walk
  <2> QED BY <2>2, <2>6, <2>7, <2>8, <2>9 DEF IInv
<1> QED BY <1>3, <1>4, <1>5

(* control_removeTxDest unlinks the element before it touches it. *)
LEMMA StopStep ==
  ASSUME IInv, NEW d \in Dests, control_stop(d)
  PROVE  IInv'
<1> USE PointerAssumption
<1> PICK td \in control_getTxDestByDest(d) :
           /\ Unlink(td)
           /\ life' = [life EXCEPT ![td] = "unlinked"]
           /\ control' = [pc |-> "clear", td |-> td]
  BY DEF control_stop
<1>1. /\ UNCHANGED <<dest, sends, iterator, callback, atStart, served, crashed>>
      /\ overlap' = (overlap \/ callback # "idle")
  BY DEF control_stop
<1>2. td \in Listed /\ td \in Addrs
  BY ChainIsListed DEF IInv, control_getTxDestByDest, Listed
<1>3. Listed' = Listed \ {td}
  BY <1>2 DEF IInv, TypeOK, Listed
<1>4. txDestList # NULL /\ txDestList \in Addrs
  BY <1>2 DEF IInv, TypeOK, Shape
<1>5. TypeOK'
  <2>1. prior[td] \in Addrs \cup {NULL} /\ next[td] \in Addrs \cup {NULL}
    BY <1>2, <1>4 DEF IInv, TypeOK, Shape
  <2>2. txDestList' \in Addrs \cup {NULL}
    BY <1>4, <2>1 DEF Unlink
  <2>3. next' \in [Addrs -> Addrs \cup {NULL}]
    BY <2>1 DEF IInv, TypeOK, Unlink
  <2>4. prior' \in [Addrs -> Pointers]
    BY <2>1 DEF IInv, TypeOK, Unlink, Pointers
  <2>5. life' \in [Addrs -> {"free", "building", "listed", "lost", "unlinked", "cleared"}]
    BY <1>2 DEF IInv, TypeOK
  <2>6. control' \in [pc : {"idle", "link", "clear", "free"}, td : Addrs \cup {NULL}]
    BY <1>2
  <2>7. overlap' \in BOOLEAN
    BY <1>1 DEF IInv, TypeOK
  <2> QED BY <1>1, <2>2, <2>3, <2>4, <2>5, <2>6, <2>7 DEF IInv, TypeOK
<1>6. Shape'
  <2>1. CASE td = txDestList
    <3> DEFINE second == next[td]
    <3>1. prior[td] = NULL /\ second # td
      BY <1>4, <2>1 DEF IInv, Shape
    <3>2. txDestList' = second /\ next' = next
          /\ prior' = IF second = NULL THEN prior ELSE [prior EXCEPT ![second] = NULL]
      BY <3>1 DEF Unlink
    <3>3. Listed' = {second} \ {NULL}
      BY <1>3, <1>4, <2>1, <3>1 DEF IInv, Shape
    <3>4. CASE second = NULL
      BY <3>2, <3>3, <3>4 DEF Shape
    <3>5. CASE second # NULL
      <4>1. next[second] = NULL /\ second \in Addrs
        BY <1>2, <1>4, <2>1, <3>5 DEF IInv, TypeOK, Shape
      <4>2. prior'[second] = NULL /\ next'[second] = NULL
        BY <3>2, <3>5, <4>1 DEF IInv, TypeOK
      <4> QED BY <3>2, <3>3, <3>5, <4>1, <4>2 DEF Shape
    <3> QED BY <3>4, <3>5
  <2>2. CASE td # txDestList
    <3>1. td = next[txDestList] /\ prior[td] = txDestList /\ next[td] = NULL
          /\ prior[txDestList] = NULL
      BY <1>2, <1>4, <2>2 DEF IInv, Shape
    <3>2. txDestList' = txDestList /\ next' = [next EXCEPT ![txDestList] = NULL]
          /\ prior' = prior
      BY <1>4, <3>1 DEF Unlink
    <3>3. Listed' = {txDestList}
      BY <1>3, <1>4, <2>2, <3>1 DEF IInv, Shape
    <3>4. next'[txDestList] = NULL /\ prior'[txDestList] = NULL
      BY <1>4, <3>1, <3>2 DEF IInv, TypeOK
    <3> QED BY <1>4, <3>2, <3>3, <3>4 DEF Shape
  <2> QED BY <2>1, <2>2
<1>7. Commanding'
  <2>1. life'[td] = "unlinked"
    BY <1>2 DEF IInv, TypeOK
  <2> QED BY <1>2, <2>1 DEF Commanding
<1>8. Walking' /\ Serving'
  BY <1>1 DEF IInv, TypeOK, Walking, Serving
<1> QED BY <1>5, <1>6, <1>7, <1>8 DEF IInv

(* Freeing an unlinked element disturbs no listed one. *)
LEMMA TearDownStep ==
  ASSUME IInv, ClearStream \/ FreeElement
  PROVE  IInv'
<1> USE PointerAssumption DEF ClearStream, FreeElement, Idle
<1> DEFINE td == control.td
<1>1. td \in Addrs /\ td \notin Listed
  BY DEF IInv, Commanding, Listed
<1>2. /\ UNCHANGED <<txDestList, next, prior, dest, sends, walk, crashed>>
      /\ \E memory \in {"cleared", "free"} : life' = [life EXCEPT ![td] = memory]
  OBVIOUS
<1>3. Listed' = Listed
  BY <1>1, <1>2 DEF IInv, TypeOK, Listed
<1>4. TypeOK'
  <2>1. life' \in [Addrs -> {"free", "building", "listed", "lost", "unlinked", "cleared"}]
    BY <1>1, <1>2 DEF IInv, TypeOK
  <2>2. control' \in [pc : {"idle", "link", "clear", "free"}, td : Addrs \cup {NULL}]
    BY DEF IInv, TypeOK
  <2> QED BY <1>2, <2>1, <2>2 DEF IInv, TypeOK, walk
<1>5. Shape'
  BY <1>2, <1>3 DEF IInv, Shape
<1>6. Commanding'
  BY <1>1 DEF IInv, TypeOK, Commanding
<1>7. Walking'
  <2>1. \A a \in Addrs : life[a] = "listed" => life'[a] = "listed"
    BY <1>1, <1>2 DEF IInv, TypeOK, Listed
  <2>2. iterator \in Addrs \cup {NULL}
    BY DEF IInv, TypeOK
  <2> QED BY <1>2, <2>1, <2>2 DEF IInv, Walking, walk
<1>8. Serving'
  BY <1>2 DEF IInv, Serving, walk
<1> QED BY <1>4, <1>5, <1>6, <1>7, <1>8 DEF IInv

-----------------------------------------------------------------------------
(* One lemma per action of the callback. *)
LEMMA BeginStep ==
  ASSUME IInv, BeginCallback
  PROVE  IInv'
<1> USE PointerAssumption DEF BeginCallback
<1>1. Listed' = Listed
  BY DEF list, Listed
<1>2. atStart' = Listed
  BY ChainIsListed DEF IInv
<1>3. txDestList \in Addrs /\ life[txDestList] = "listed"
  BY DEF IInv, TypeOK, Shape, Listed
<1>4. TypeOK'
  BY <1>2, <1>3 DEF IInv, TypeOK, list, Listed
<1>5. Shape' /\ Commanding'
  BY <1>1 DEF IInv, Shape, Commanding, list
<1>6. Walking' /\ Serving'
  BY <1>2, <1>3 DEF IInv, Shape, Walking, Serving, list
<1> QED BY <1>4, <1>5, <1>6 DEF IInv

(* Transmitting changes no pointer. *)
LEMMA TransmitStep ==
  ASSUME IInv, Transmit
  PROVE  IInv'
<1> USE PointerAssumption DEF Transmit
<1>1. iterator \in Addrs
  BY DEF IInv, TypeOK, Walking
<1>2. TypeOK'
  BY <1>1 DEF IInv, TypeOK, list
<1>3. Shape' /\ Commanding'
  BY DEF IInv, Shape, Commanding, list, Listed
<1>4. Walking' /\ Serving'
  BY DEF IInv, Walking, Serving, list
<1> QED BY <1>2, <1>3, <1>4 DEF IInv

(* The callback goes to the next element or ends. *)
LEMMA AdvanceStep ==
  ASSUME IInv, Advance
  PROVE  IInv'
<1> USE PointerAssumption DEF Advance
<1>1. iterator \in Addrs /\ next[iterator] \in Addrs \cup {NULL}
  BY DEF IInv, TypeOK, Walking
<1>2. TypeOK'
  BY <1>1 DEF IInv, TypeOK, list
<1>3. Shape' /\ Commanding'
  BY DEF IInv, Shape, Commanding, list, Listed
<1>4. Walking'
  <2>1. CASE next[iterator] = NULL
    BY <2>1 DEF Walking
  <2>2. CASE next[iterator] # NULL /\ overlap
    BY <2>2 DEF Walking
  <2>3. CASE next[iterator] # NULL /\ ~ overlap
    <3>1. life[iterator] = "listed" /\ iterator \in served
          /\ atStart \subseteq served \cup {iterator, next[iterator]}
      BY <2>3 DEF IInv, Walking
    <3>2. life[next[iterator]] = "listed"
      BY <1>1, <2>3, <3>1 DEF IInv, TypeOK, Shape, Listed
    <3> QED BY <2>3, <3>1, <3>2 DEF Walking, list
  <2> QED BY <2>1, <2>2, <2>3
<1>5. Serving'
  <2>1. CASE next[iterator] = NULL \/ overlap
    BY <2>1 DEF Serving
  <2>2. CASE next[iterator] # NULL /\ ~ overlap
    <3>1. iterator = txDestList /\ next[txDestList] # txDestList
      BY <1>1, <2>2 DEF IInv, TypeOK, Walking, Shape, Listed
    <3>2. served \subseteq {txDestList}
      BY <2>2, <3>1 DEF IInv, Serving
    <3> QED BY <2>2, <3>1, <3>2 DEF Serving, list
  <2> QED BY <2>1, <2>2
<1> QED BY <1>2, <1>3, <1>4, <1>5 DEF IInv

(* A crash leaves all pointers as they are. *)
LEMMA CrashStep ==
  ASSUME IInv, LinkCrashes \/ CallbackCrashes \/ UNCHANGED vars
  PROVE  IInv'
<1>1. UNCHANGED <<list, walk>> /\ crashed' \in BOOLEAN
  BY DEF LinkCrashes, CallbackCrashes, IInv, TypeOK, vars
<1> QED BY <1>1 DEF IInv, TypeOK, Shape, Commanding, Walking, Serving, list, walk, Listed

-----------------------------------------------------------------------------
(* The inductive invariant holds of every reachable list, whatever the      *)
(* number of addresses, destinations and commands.                          *)
THEOREM Inductive == Spec => []IInv
<1>1. IInv /\ [Next]_vars => IInv'
  <2> SUFFICES ASSUME IInv, [Next]_vars PROVE IInv'
    OBVIOUS
  <2>1. ASSUME NEW d \in Dests, control_send(d) PROVE IInv'
    BY <2>1, SendStep
  <2>2. ASSUME NEW d \in Dests, control_stop(d) PROVE IInv'
    BY <2>2, StopStep
  <2>3. CASE Link
    BY <2>3, LinkStep
  <2>4. CASE ClearStream \/ FreeElement
    BY <2>4, TearDownStep
  <2>5. CASE BeginCallback
    BY <2>5, BeginStep
  <2>6. CASE Transmit
    BY <2>6, TransmitStep
  <2>7. CASE Advance
    BY <2>7, AdvanceStep
  <2>8. CASE LinkCrashes \/ CallbackCrashes \/ UNCHANGED vars
    BY <2>8, CrashStep
  <2> QED BY <2>1, <2>2, <2>3, <2>4, <2>5, <2>6, <2>7, <2>8
          DEF Next, ControlStep, CallbackStep
<1> QED BY InitIInv, <1>1, PTL DEF Spec

(* The wild pointer that control_getLastTxDest returns for the third of the *)
(* list, and through which control_addTxDestToEnd stores, gets neither into *)
(* the head nor into a next nor into the callback's iterator.               *)
THEOREM TypeCorrect == Spec => []TypeOK
<1>1. IInv => TypeOK
  BY DEF IInv
<1> QED BY Inductive, <1>1, PTL

(* After any sequence of SEND and STOP the list is a doubly linked list of  *)
(* the elements added and not removed: at most two of them.                 *)
THEOREM ListIsSound == Spec => []ListSound
<1>1. IInv => ListSound
  <2> SUFFICES ASSUME IInv PROVE ListSound
    OBVIOUS
  <2>1. Chain = Listed
    BY ChainIsListed DEF IInv
  <2> SUFFICES ASSUME NEW a \in Listed
               PROVE  /\ prior[a] = NULL <=> a = txDestList
                      /\ next[a] # NULL => prior[next[a]] = a
                      /\ prior[a] # NULL => next[prior[a]] = a
    BY <2>1 DEF ListSound, Listed
  <2>2. txDestList # NULL /\ a # NULL
    BY PointerAssumption DEF IInv, Shape, Listed
  <2>3. CASE a = txDestList
    BY <2>2, <2>3 DEF IInv, Shape
  <2>4. CASE a # txDestList
    BY <2>2, <2>4 DEF IInv, Shape
  <2> QED BY <2>3, <2>4
<1> QED BY Inductive, <1>1, PTL

(* The callback stands on an element that is no longer listed only if a     *)
(* STOP came during that callback.                                          *)
THEOREM DanglesOnlyOnOverlap == Spec => []DanglingNeedsOverlap
<1>1. IInv => DanglingNeedsOverlap
  BY DEF IInv, Walking, DanglingNeedsOverlap
<1> QED BY Inductive, <1>1, PTL

(* A callback during which nothing was removed transmits to every           *)
(* destination that was listed when it began.                               *)
THEOREM ServesAllListed == Spec => ServesAll
<1> DEFINE A == callback # "idle" /\ callback' = "idle" /\ ~ overlap
                => atStart \subseteq served
<1>1. IInv /\ [Next]_vars => [A]_vars
  <2> SUFFICES ASSUME IInv, Next, callback # "idle", callback' = "idle", ~ overlap
               PROVE  atStart \subseteq served
    OBVIOUS
  <2>1. Advance
    BY DEF Next, ControlStep, CallbackStep, control_send, control_stop, Link,
           LinkCrashes, ClearStream, FreeElement, BeginCallback, Transmit,
           CallbackCrashes, walk
  <2>2. next[iterator] = NULL /\ callback = "advance"
    BY <2>1 DEF Advance
  <2>3. iterator \in served /\ atStart \subseteq served \cup {iterator, NULL}
    BY <2>2 DEF IInv, Walking
  <2> QED BY <2>3, PointerAssumption DEF IInv, TypeOK
<1>2. Spec => [][A]_vars
  BY Inductive, <1>1, PTL DEF Spec
<1> QED BY <1>2 DEF ServesAll

(* A callback during which nothing was removed transmits to no destination  *)
(* twice, whatever is added meanwhile: each gets one packet, as TxClock     *)
(* counts them.                                                             *)
THEOREM ServesOnce ==
  Spec => [][callback = "transmit" /\ callback' = "advance" /\ ~ overlap
               => iterator \notin served]_vars
<1>1. IInv => (callback = "transmit" /\ ~ overlap => iterator \notin served)
  BY DEF IInv, Serving
<1> QED BY Inductive, <1>1, PTL DEF Spec
=============================================================================
