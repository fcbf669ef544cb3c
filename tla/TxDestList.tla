------------------------------- MODULE TxDestList -------------------------------
(***************************************************************************)
(* The destinations of gsp-opus-tx-net: a doubly linked list the control   *)
(* thread (control.c) appends to on SEND and removes from on STOP, while   *)
(* the PortAudio callback walks it and transmits to each element.  Nothing *)
(* locks the list.                                                         *)
(*                                                                         *)
(* A step is what one thread does between two accesses the other can       *)
(* observe: the callback reads txDestList, next and the contents of the    *)
(* element it is at, so each write to those by the control thread is a     *)
(* step, and so is each visit of an element by the callback.               *)
(*                                                                         *)
(* An element is the address calloc returned; free makes the address       *)
(* available again and leaves the contents, so a pointer kept across       *)
(* a free may find the old element, a half-built new one, or nothing.      *)
(* The store that control_addTxDestToEnd makes through a pointer that is   *)
(* no element's either crashes or is assumed to hit memory of no use; the  *)
(* next of a freed element is assumed to stay until calloc hands it out.   *)
(* What is transmitted, and when the callback starts to, is in TxClock.    *)
(***************************************************************************)
EXTENDS Integers

CONSTANTS
  Addrs,      (* bound: addresses calloc may return for a struct txDest    *)
  Dests,      (* destinations named in SEND and STOP                       *)
  NULL,
  Wild,       (* a pointer to memory that is no struct txDest              *)
  MaxSends    (* bound on the SEND commands                                *)

ASSUME PointerAssumption == NULL \notin Addrs /\ Wild \notin Addrs /\ NULL # Wild
ASSUME BoundAssumption == MaxSends \in Nat

VARIABLES
  txDestList,          (* head of the list                                 *)
  next, prior, dest,   (* fields, per address                              *)
  life,                (* per address: what its memory holds               *)
  control,             (* control thread: [pc, td]                         *)
  iterator,            (* callback: txDestList_iterator                    *)
  callback,            (* callback: "idle", "transmit" or "advance"        *)
  crashed,
  sends,               (* SEND commands so far                             *)
  overlap,             (* history: an element was unlinked in this callback*)
  atStart, served      (* history: elements listed when the callback began,*)
                       (* and those it transmitted to                      *)

list == <<txDestList, next, prior, dest, life, control, sends>>
walk == <<iterator, callback, overlap, atStart, served>>
vars == <<list, walk, crashed>>

-----------------------------------------------------------------------------
Pointers == Addrs \cup {NULL, Wild}
Idle == [pc |-> "idle", td |-> NULL]

(* The elements a walk along next visits that begins at pointer p: those    *)
(* in every set that has p and the next of each of its elements.            *)
ReachedFrom(p) ==
  {b \in Addrs : \A S \in SUBSET Addrs :
     p \in S \cup {NULL} /\ (\A a \in S : next[a] \in S \cup {NULL}) => b \in S}

Chain == ReachedFrom(txDestList)

(* The first element for d from the head on, if there is one. *)
control_getTxDestByDest(d) ==
  LET matching == {a \in Chain : dest[a] = d}
  IN {a \in matching : matching \subseteq {a} \cup ReachedFrom(next[a])}

-----------------------------------------------------------------------------
(* Mutated forms of operators below: bugs the properties have to notice.    *)
uninitializedNext(td) == [next EXCEPT ![td] = Wild]

leftoverNext(td) == next

lastIsFirst(first) == {first}

UnlinkKeepsPrior(td) ==
  /\ txDestList' = IF prior[td] = NULL THEN next[td] ELSE txDestList
  /\ next' = IF prior[td] = NULL THEN next ELSE [next EXCEPT ![prior[td]] = next[td]]
  /\ prior' = prior

UnlinkOnlyFirst(td) ==
  /\ txDestList' = IF prior[td] = NULL THEN next[td] ELSE txDestList
  /\ prior' = IF next[td] = NULL THEN prior ELSE [prior EXCEPT ![next[td]] = prior[td]]
  /\ next' = next

-----------------------------------------------------------------------------
Init ==
  /\ txDestList = NULL
  /\ next = [a \in Addrs |-> NULL]
  /\ prior = [a \in Addrs |-> NULL]
  /\ \E d \in Dests : dest = [a \in Addrs |-> d]
  /\ life = [a \in Addrs |-> "free"]
  /\ control = Idle
  /\ sends = 0
  /\ iterator = NULL
  /\ callback = "idle"
  /\ overlap = FALSE
  /\ atStart = {} /\ served = {}
  /\ crashed = FALSE

-----------------------------------------------------------------------------
(* Control thread. *)
(* control_send: calloc gives a zeroed element, which is then filled in.    *)
zeroedNext(td) == [next EXCEPT ![td] = NULL]

control_send(d) ==
  /\ control.pc = "idle" /\ ~ crashed
  /\ sends < MaxSends
  /\ sends' = sends + 1
  /\ \E td \in Addrs :
       /\ life[td] = "free"
       /\ life' = [life EXCEPT ![td] = "building"]
       /\ next' = zeroedNext(td)
       /\ prior' = [prior EXCEPT ![td] = NULL]
       /\ dest' = [dest EXCEPT ![td] = d]
       /\ control' = [pc |-> "link", td |-> td]
  /\ UNCHANGED <<txDestList, walk, crashed>>

(* control_getLastTxDest: "first++" goes to the memory behind the first     *)
(* element, not to the next one, so it finds the last element only when     *)
(* that is the first; otherwise it reads what is no element and ends at     *)
(* some word that happens to be 0.                                          *)
control_getLastTxDest(first) == IF next[first] = NULL THEN {first} ELSE {Wild}

(* The end of control_addTxDestToEnd.  With a wild last element it stores   *)
(* td through it: assumed to hit a word that nothing else reads, as the     *)
(* word was 0; what another victim does then is not modelled.               *)
Link ==
  LET td == control.td
  IN /\ control.pc = "link" /\ ~ crashed
     /\ IF txDestList = NULL
        THEN /\ txDestList' = td
             /\ life' = [life EXCEPT ![td] = "listed"]
             /\ UNCHANGED <<next, prior>>
        ELSE \E last \in control_getLastTxDest(txDestList) :
               /\ prior' = [prior EXCEPT ![td] = last]
               /\ next' = IF last = Wild THEN next ELSE [next EXCEPT ![last] = td]
               /\ life' = [life EXCEPT ![td] = IF last = Wild THEN "lost" ELSE "listed"]
               /\ UNCHANGED txDestList
     /\ control' = Idle
     /\ UNCHANGED <<dest, sends, walk, crashed>>

(* Reading from there on, or that store, may also end the program. *)
LinkCrashes ==
  /\ control.pc = "link" /\ ~ crashed
  /\ txDestList # NULL /\ Wild \in control_getLastTxDest(txDestList)
  /\ crashed' = TRUE
  /\ UNCHANGED <<list, walk>>

(* The four cases of control_removeTxDest; the fields of td itself stay.    *)
Unlink(td) ==
  LET before == prior[td]
      after == next[td]
  IN /\ txDestList' = IF before = NULL THEN after ELSE txDestList
     /\ next' = IF before = NULL THEN next ELSE [next EXCEPT ![before] = after]
     /\ prior' = IF after = NULL THEN prior ELSE [prior EXCEPT ![after] = before]

(* control_stop; nothing happens when no element has the destination.       *)
control_stop(d) ==
  /\ control.pc = "idle" /\ ~ crashed
  /\ \E td \in control_getTxDestByDest(d) :
       /\ Unlink(td)
       /\ life' = [life EXCEPT ![td] = "unlinked"]
       /\ control' = [pc |-> "clear", td |-> td]
  /\ overlap' = (overlap \/ callback # "idle")
  /\ UNCHANGED <<dest, sends, iterator, callback, atStart, served, crashed>>

(* ogg_stream_clear: libogg refuses a cleared stream without a crash.       *)
ClearStream ==
  /\ control.pc = "clear" /\ ~ crashed
  /\ life' = [life EXCEPT ![control.td] = "cleared"]
  /\ control' = [control EXCEPT !.pc = "free"]
  /\ UNCHANGED <<txDestList, next, prior, dest, sends, walk, crashed>>

(* opus_encoder_destroy and the three frees. *)
FreeElement ==
  /\ control.pc = "free" /\ ~ crashed
  /\ life' = [life EXCEPT ![control.td] = "free"]
  /\ control' = Idle
  /\ UNCHANGED <<txDestList, next, prior, dest, sends, walk, crashed>>

-----------------------------------------------------------------------------
(* PortAudio callback, once it is running. *)
BeginCallback ==
  /\ callback = "idle" /\ ~ crashed
  /\ txDestList # NULL
  /\ iterator' = txDestList
  /\ callback' = "transmit"
  /\ overlap' = FALSE
  /\ atStart' = Chain
  /\ served' = {}
  /\ UNCHANGED <<list, crashed>>

(* The encoder, the stream and the buffers of this memory are gone. *)
Dangling(a) == life[a] \in {"free", "building"}

Transmit ==
  /\ callback = "transmit" /\ ~ crashed
  /\ callback' = "advance"
  /\ served' = IF life[iterator] = "listed" THEN served \cup {iterator} ELSE served
  /\ UNCHANGED <<list, iterator, overlap, atStart, crashed>>

Advance ==
  /\ callback = "advance" /\ ~ crashed
  /\ iterator' = next[iterator]
  /\ IF next[iterator] # NULL
     THEN /\ callback' = "transmit"
          /\ UNCHANGED <<overlap, atStart, served>>
     ELSE /\ callback' = "idle"
          /\ overlap' = FALSE /\ atStart' = {} /\ served' = {}
  /\ UNCHANGED <<list, crashed>>

(* Memory that was freed may be gone or overwritten. *)
CallbackCrashes ==
  /\ callback # "idle" /\ ~ crashed
  /\ Dangling(iterator)
  /\ crashed' = TRUE
  /\ UNCHANGED <<list, walk>>

-----------------------------------------------------------------------------
ControlStep == Link \/ LinkCrashes \/ ClearStream \/ FreeElement
CallbackStep == BeginCallback \/ Transmit \/ Advance \/ CallbackCrashes

Next ==
  \/ \E d \in Dests : control_send(d) \/ control_stop(d)
  \/ ControlStep
  \/ CallbackStep

Spec == Init /\ [][Next]_vars

(* A callback that PortAudio has begun runs on; no command has to come.     *)
FairSpec == Spec /\ WF_vars(Transmit \/ Advance)

-----------------------------------------------------------------------------
(* Type invariant.  The pointers that the callback and a STOP follow, the   *)
(* head, next and the iterator, are an element's address or NULL.  It is    *)
(* prior that may be wild, and only control_addTxDestToEnd follows that.    *)
TypeOK ==
  /\ txDestList \in Addrs \cup {NULL}
  /\ next \in [Addrs -> Addrs \cup {NULL}]
  /\ prior \in [Addrs -> Pointers]
  /\ dest \in [Addrs -> Dests]
  /\ life \in [Addrs -> {"free", "building", "listed", "lost", "unlinked", "cleared"}]
  /\ control \in [pc : {"idle", "link", "clear", "free"}, td : Addrs \cup {NULL}]
  /\ iterator \in Addrs \cup {NULL}
  /\ callback \in {"idle", "transmit", "advance"}
  /\ crashed \in BOOLEAN /\ overlap \in BOOLEAN
  /\ sends \in 0 .. MaxSends
  /\ atStart \subseteq Addrs /\ served \subseteq Addrs

(* The list is a doubly linked list, whatever SEND and STOP did to it: the  *)
(* elements added and not removed are those reached from the head, the two  *)
(* links of neighbours agree, and the links end at both ends.               *)
ListSound ==
  /\ Chain = {a \in Addrs : life[a] = "listed"}
  /\ \A a \in Chain : /\ prior[a] = NULL <=> a = txDestList
                      /\ next[a] # NULL => prior[next[a]] = a
                      /\ prior[a] # NULL => next[prior[a]] = a

(* The callback is at an element that is no longer listed only when a STOP  *)
(* came while this very callback was walking the list: an element is out of *)
(* the list before any part of it is torn down, and into it only complete.  *)
DanglingNeedsOverlap ==
  callback # "idle" /\ life[iterator] # "listed" => overlap

(* A callback during which nothing was removed transmits to every element   *)
(* that was listed when it began, whatever is added meanwhile.              *)
ServesAll ==
  [][callback # "idle" /\ callback' = "idle" /\ ~ overlap => atStart \subseteq served]_vars

(* A callback always gets to the end of the list, through removals and      *)
(* addresses used again.                                                    *)
CallbackEnds == callback # "idle" ~> callback = "idle" \/ crashed

-----------------------------------------------------------------------------
(* "creating Dest element ... for linked list": every SEND, once done, has  *)
(* its destination in the list.                                             *)
SentIsListed == \A a \in Addrs : life[a] # "lost"
=============================================================================
