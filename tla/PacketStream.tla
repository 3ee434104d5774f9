---------------------------- MODULE PacketStream ----------------------------
(***************************************************************************)
(* What the raw data queue promises to the data processing thread: packets *)
(* are numbered in the order pcap_loop captured them, and each is handed   *)
(* over exactly once, in that order.                                       *)
(***************************************************************************)
EXTENDS Naturals

VARIABLES
  captured,   \* packets put in so far
  delivered,  \* packets handed over so far
  pkt         \* number of the last packet handed over

streamVars == <<captured, delivered, pkt>>

StreamInit == captured = 0 /\ delivered = 0 /\ pkt = 0

Put == captured' = captured + 1 /\ UNCHANGED <<delivered, pkt>>

Get ==
  /\ delivered < captured
  /\ delivered' = delivered + 1
  /\ pkt' = delivered'
  /\ UNCHANGED captured

StreamSpec == StreamInit /\ [][Put \/ Get]_streamVars
=============================================================================
