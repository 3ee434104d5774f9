---------------------------- MODULE MCRttMinima ----------------------------
(***************************************************************************)
(* Small windows with the order relations of the real ones.  For           *)
(* poll_period <= 73 s the local period window is the largest:             *)
(*   16 s: shift 100, offset 64, plocal_span 480;                          *)
(*    1 s: shift 1500, offset 1024, plocal_span 7680.                      *)
(* "slow" and "fast" have that shape, and the shift window of "fast" is    *)
(* larger, by more than one stamp, than all that a history sized for       *)
(* "slow" holds: after a reload from "slow" to "fast" it has to grow.      *)
(* Above 73 s the shift window, never below 100, is the largest, as in     *)
(* "rare":                                                                 *)
(*  128 s: shift 100, offset 8, plocal_span 60.                            *)
(***************************************************************************)
EXTENDS RttMinima

CommonConfs == {"fast", "slow"}

CommonWindows ==
  [fast |-> [shift_win |-> 6, offset_win |-> 3, plocal_span |-> 8, h_win |-> 28],
   slow |-> [shift_win |-> 2, offset_win |-> 2, plocal_span |-> 4, h_win |-> 12]]

RareConfs == {"rare"}

RareWindows ==
  [rare |-> [shift_win |-> 4, offset_win |-> 2, plocal_span |-> 3, h_win |-> 16]]
=============================================================================
