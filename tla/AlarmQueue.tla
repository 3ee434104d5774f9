----------------------------- MODULE AlarmQueue -----------------------------
(***************************************************************************)
(* What radclock/FIFO.c promises for the alarms of the sending grid: from  *)
(* its creation to its destruction, a queue of at most Capacity server     *)
(* IDs.  Insertion always succeeds, at the price of the oldest entry when  *)
(* the queue is full; entries come out oldest first; none is lost          *)
(* otherwise.                                                              *)
(***************************************************************************)
EXTENDS Naturals, Sequences

CONSTANTS Values, Capacity

VARIABLES
  up,     \* the queue exists
  queue,  \* entries, oldest first
  got     \* the last entry handed to TRIGGER, while the queue exists

QueueInit == ~up /\ queue = << >> /\ got \in Values

QueueMake == ~up /\ up' /\ queue' = << >> /\ UNCHANGED got

QueuePut(v) ==
  /\ up /\ UNCHANGED <<up, got>>
  /\ queue' = Append(IF Len(queue) = Capacity THEN Tail(queue) ELSE queue, v)

QueueGet ==
  /\ up /\ queue # << >> /\ UNCHANGED up
  /\ got' = Head(queue) /\ queue' = Tail(queue)

QueueDestroy == up /\ ~up' /\ queue' = << >> /\ UNCHANGED got

QueueAbsent == ~up /\ ~up' /\ got' \in Values /\ UNCHANGED queue

QueueNext ==
  QueueMake \/ (\E v \in Values : QueuePut(v)) \/ QueueGet \/ QueueDestroy \/ QueueAbsent

QueueSpec == QueueInit /\ [][QueueNext]_<<up, queue, got>>
=============================================================================
