----------------------------- MODULE BoundedFifo -----------------------------
(***************************************************************************)
(* What PaUtilRingBuffer promises one writing and one reading thread: a    *)
(* FIFO of at most Capacity elements.  A write stores as much of what it   *)
(* is given as there was room for when it was called, a read returns as    *)
(* much of what it asks for as there was to read when it was called, and   *)
(* both report how much that was (pa_ringbuffer.h: "Returns room           *)
(* available to be written or elementCount, whichever is smaller").        *)
(*                                                                         *)
(* A call takes effect in one step, its End action.  The k-th element      *)
(* accepted is the number k: nothing depends on what an element is.        *)
(***************************************************************************)
EXTENDS Integers, Sequences

CONSTANTS
  Capacity,     (* elements the buffer holds                               *)
  MaxWrite,     (* largest number of elements offered by one write         *)
  ReadCount,    (* number of elements asked for by every read              *)
  MaxElements   (* bound on the elements ever accepted                     *)

VARIABLES
  queue,        (* accepted and not yet read, oldest first                 *)
  accepted,     (* number of elements accepted so far                      *)
  putting,      (* elements the write in progress will store, or None      *)
  getting,      (* elements the read in progress will return, or None      *)
  got           (* what the last finished read returned                    *)

fifoVars == <<queue, accepted, putting, getting, got>>

None == -1

Least(m, n) == IF m <= n THEN m ELSE n

Init ==
  /\ queue = <<>>
  /\ accepted = 0
  /\ putting = None
  /\ getting = None
  /\ got = <<>>

BeginPut(n) ==
  /\ putting = None
  /\ accepted + n <= MaxElements
  /\ putting' = Least(n, Capacity - Len(queue))
  /\ UNCHANGED <<queue, accepted, getting, got>>

EndPut ==
  /\ putting # None
  /\ queue' = queue \o [i \in 1 .. putting |-> accepted + i]
  /\ accepted' = accepted + putting
  /\ putting' = None
  /\ UNCHANGED <<getting, got>>

BeginGet ==
  /\ getting = None
  /\ getting' = Least(ReadCount, Len(queue))
  /\ got' = <<>>
  /\ UNCHANGED <<queue, accepted, putting>>

EndGet ==
  /\ getting # None
  /\ got' = SubSeq(queue, 1, getting)
  /\ queue' = SubSeq(queue, getting + 1, Len(queue))
  /\ getting' = None
  /\ UNCHANGED <<accepted, putting>>

(* Allowed only between calls; forgets what was not read. *)
Flush ==
  /\ putting = None /\ getting = None
  /\ queue' = <<>>
  /\ UNCHANGED <<accepted, putting, getting, got>>

Next ==
  \/ \E n \in 0 .. MaxWrite : BeginPut(n)
  \/ EndPut \/ BeginGet \/ EndGet
  \/ Flush

Spec == Init /\ [][Next]_fifoVars
=============================================================================
