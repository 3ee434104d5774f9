------------------------------ MODULE StampPath ------------------------------
(***************************************************************************)
(* From packets to the synchronisation algorithm: the stamp queue composed *)
(* with the vetting process_stamp (radclock/pthread_dataproc.c) applies to *)
(* every stamp the queue hands over, before RADalgo_bidir sees it.  The    *)
(* servertrust word is 0 from start to end in this version of the daemon,  *)
(* so every server is trusted.                                             *)
(***************************************************************************)
EXTENDS StampQueue

CONSTANTS
  Known,    \* the servers of the configuration
  MinRTT    \* smallest credible RTT in counter ticks (120 in the code)

ASSUME StampPathAssumption == Known \subseteq Servers /\ MinRTT \in Nat

VARIABLES
  laststamp,  \* per server, Ta of the last stamp received, sane or not
  n_stamps,   \* per server, has the algorithm already been given a stamp?
  input,      \* the last stamp given to the algorithm
  lastInput   \* history: per server, Ta of the last stamp given to it

pathVars == <<vars, laststamp, n_stamps, input, lastInput>>

\* The counter and server timestamps of a stamp could come from a real exchange.
Plausible(stamp) ==
  /\ stamp.Ta <= stamp.Tf
  /\ stamp.causal
  /\ stamp.Tf - stamp.Ta >= MinRTT

\* Mutant: stamps that overlap the previous one are rejected, as they once were.
insane_bidir_stampOverlap(stamp) ==
  \/ popped # NoStamp /\ popped.srv = stamp.srv /\ stamp.Ta <= popped.Tf
  \/ ~Plausible(stamp)

insane_bidir_stamp(stamp) ==
  \/ stamp.Ta <= laststamp[stamp.srv]
  \/ ~Plausible(stamp)

\* serverIPtoID fails for a server that is not configured; the very first stamp
\* of a server is not tested; laststamp is recorded whatever the verdict.
Vet(stamp) ==
  IF stamp.srv \notin Known
  THEN UNCHANGED <<laststamp, n_stamps, input, lastInput>>
  ELSE /\ laststamp' = [laststamp EXCEPT ![stamp.srv] = stamp.Ta]
       /\ IF n_stamps[stamp.srv] /\ insane_bidir_stamp(stamp)
          THEN UNCHANGED <<n_stamps, input, lastInput>>
          ELSE /\ n_stamps' = [n_stamps EXCEPT ![stamp.srv] = TRUE]
               /\ input' = stamp
               /\ lastInput' = [lastInput EXCEPT ![stamp.srv] = stamp.Ta]

PathInit ==
  /\ Init
  /\ laststamp = [s \in Known |-> 0]
  /\ n_stamps = [s \in Known |-> FALSE]
  /\ input = NoStamp
  /\ lastInput = [s \in Known |-> 0]

\* process_stamp: get_next_stamp, then the tests on the stamp it returned, if any.
process_stamp ==
  /\ Next
  /\ IF popped' # popped
     THEN Vet(popped')
     ELSE UNCHANGED <<laststamp, n_stamps, input, lastInput>>

PathSpec == PathInit /\ [][process_stamp]_pathVars

-----------------------------------------------------------------------------
\* Type invariant of the vetting state.
PathTypeOK ==
  /\ TypeOK
  /\ laststamp \in [Known -> 0..MaxVcount]
  /\ n_stamps \in [Known -> BOOLEAN]
  /\ input \in Elements \cup {NoStamp}
  /\ lastInput \in [Known -> 0..MaxVcount]

\* The algorithm's input from one server is strictly increasing in Ta: the
\* "strict increment of counter" insane_bidir_stamp (pthread_dataproc.c:583) is
\* there to guarantee, across every stamp the algorithm has been given.
AlgoInputInOrder ==
  [][input' # input => input'.Ta > lastInput[input'.srv]]_pathVars

\* The order test costs no data when packets come in capture order: a plausible
\* stamp of a configured server always reaches the algorithm.
PlausibleStampAccepted ==
  [][popped' # popped /\ popped'.srv \in Known /\ Plausible(popped')
       => input' = popped']_pathVars
=============================================================================
