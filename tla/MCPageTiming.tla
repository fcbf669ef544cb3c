----------------------------- MODULE MCPageTiming -----------------------------
(* TLC instance of PageTiming: see MCPageTiming.cfg for the bounds. *)
EXTENDS PageTiming

(* A step back by more than a page, a gap cut by a fifth, one more and one  *)
(* less than the jitter allows, a gap longer by a half.                     *)
MCOffsets == {-500, -50, -1, 0, 1, 120}
=============================================================================
