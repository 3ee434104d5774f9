----------------------------- MODULE StampQueue -----------------------------
(***************************************************************************)
(* The stamp queue of radclock/create_stamp.c.  The data processing thread *)
(* (PROC) takes captured NTP packets one at a time; a client request and   *)
(* the server's reply to it carry the same id and are paired here into a   *)
(* bidirectional stamp (Ta, Tb, Te, Tf).  Ta and Tf are raw counter values *)
(* of this host, 0 meaning "not there yet", as in the code.                *)
(*                                                                         *)
(* The linked list is a set of elements with their insertion rank, pos:    *)
(* the code only inserts at the head, so the head is the largest rank and  *)
(* the tail (q->end) the smallest.                                         *)
(***************************************************************************)
EXTENDS Naturals, FiniteSets

CONSTANTS
  Ids,            \* values of the NTP transmit/originate timestamp: stamp->id
  Servers,        \* server addresses a request can be sent to
  NoServer,       \* the blank server_ipaddr of a server halfstamp
  MAX_STQ_SIZE,   \* capacity of the queue (20 in the code)
  MaxVcount,      \* bound: raw counter values are 1..MaxVcount
  FreedIntact,    \* TRUE: a freed queue element still reads as it was
  Chronological,  \* TRUE: packets are processed in capture order, a request
                  \* before its replies
  Repeats         \* TRUE: the same request may be captured several times

ASSUME StampQueueAssumption ==
  /\ MAX_STQ_SIZE \in Nat /\ MAX_STQ_SIZE >= 2
  /\ MaxVcount \in Nat
  /\ NoServer \notin Servers
  /\ FreedIntact \in BOOLEAN
  /\ Chronological \in BOOLEAN /\ Repeats \in BOOLEAN

VARIABLES
  q,        \* the elements of the queue
  npkt,     \* packets taken so far: gives the rank of an inserted element
  seen,     \* raw counter values of the packets taken so far
  asked,    \* ids a request has been sent with
  popped,   \* the last stamp handed to process_stamp
  lastTa    \* history: per server, Ta of the last stamp handed over

vars == <<q, npkt, seen, asked, popped, lastTa>>

Vcounts == 1..MaxVcount

Elements == [id : Ids, srv : Servers \cup {NoServer}, Ta : 0..MaxVcount,
             Tf : 0..MaxVcount, causal : BOOLEAN, pos : Nat]

NoStamp == [id |-> NoServer]

c_halfstamp(e) == e.Ta # 0 /\ e.Tf = 0

s_halfstamp(e) == e.Ta = 0 /\ e.Tf # 0

\* Mutant: a server halfstamp passes for a fullstamp.
fullstampTfOnly(e) == e.Tf # 0

fullstamp(e) == e.Ta # 0 /\ e.Tf # 0

-----------------------------------------------------------------------------
(* Removal of the oldest fullstamp and cleaning of dangerous halfstamps.   *)
(* qf is the queue when the routine is called; it scans from the tail to   *)
(* the head and frees elements as it goes.                                 *)

\* The fullstamp with the smallest Ta.
Oldest(qf, full) ==
  fullstamp(full) /\ \A e \in qf : fullstamp(e) => full.Ta <= e.Ta

\* Mutant: stale requests are not cleaned out.
dangerousRepliesOnly(e, full) == s_halfstamp(e) /\ e.Tf < full.Tf

\* Mutant: the result of strcmp on the server address is taken the wrong way.
dangerousOtherServer(e, full) ==
  \/ s_halfstamp(e) /\ e.Tf < full.Tf
  \/ c_halfstamp(e) /\ e.Ta < full.Ta /\ e.srv # full.srv

\* Mutant: stale replies are not cleaned out.
dangerousRequestsOnly(e, full) == c_halfstamp(e) /\ e.Ta < full.Ta /\ e.srv = full.srv

\* A halfstamp older than the fullstamp: by Tf for a reply, by Ta and only if
\* sent to the same server for a request.
dangerous(e, full) ==
  \/ s_halfstamp(e) /\ e.Tf < full.Tf
  \/ c_halfstamp(e) /\ e.Ta < full.Ta /\ e.srv = full.srv

\* Elements the scan reaches after it has freed *full_st, and whose fate depends
\* on a field of *full_st: whether they are removed is up to what the freed
\* memory holds by then.
Undecided(qf, full) ==
  IF FreedIntact
  THEN {}
  ELSE {e \in qf : /\ e.pos > full.pos
                   /\ s_halfstamp(e) \/ (c_halfstamp(e) /\ e.Ta < full.Ta)}

get_fullstamp_from_queue_andclean(qf) ==
  \E full \in qf :
    /\ Oldest(qf, full)
    /\ \E removed \in SUBSET Undecided(qf, full) :
         q' = {e \in qf \ {full} : IF e \in Undecided(qf, full)
                                  THEN e \notin removed
                                  ELSE ~dangerous(e, full)}
    /\ popped' = full
    /\ lastTa' = [lastTa EXCEPT ![full.srv] = full.Ta]

-----------------------------------------------------------------------------
(* Insertion.  A packet whose id is not queued makes a new element at the  *)
(* head, after the tail has been trimmed off a queue at capacity.          *)

\* Mutant: a full queue keeps its tail.
TrimmedNever == q

Trimmed ==
  IF Cardinality(q) = MAX_STQ_SIZE
  THEN {e \in q : \E f \in q : f.pos < e.pos}
  ELSE q

\* Mutant: the new element goes behind the tail.
InsertAtTail(e) ==
  /\ q' = Trimmed \cup {[e EXCEPT !.pos = 0]}
  /\ UNCHANGED <<popped, lastTa>>

InsertAtHead(e) ==
  /\ q' = Trimmed \cup {e}
  /\ UNCHANGED <<popped, lastTa>>

\* The element calloc makes for a new id, at the head.
Blank(id) ==
  [id |-> id, srv |-> NoServer, Ta |-> 0, Tf |-> 0, causal |-> FALSE, pos |-> npkt']

\* The counter value v of the next packet taken.
Take(v) ==
  /\ v \in Vcounts \ seen
  /\ Chronological => \A u \in seen : u < v
  /\ seen' = seen \cup {v}
  /\ npkt' = npkt + 1

\* Is there a queued element this client request (Ta) or reply (Tf) repeats?
Duplicate(id, field) == \E e \in q : e.id = id /\ e[field] # 0

\* The fields a request, resp. a reply, fills in.
WithRequest(e, srv, v) ==
  [id |-> e.id, srv |-> srv, Ta |-> v, Tf |-> e.Tf, causal |-> e.causal, pos |-> e.pos]

WithReply(e, ok, v) ==
  [id |-> e.id, srv |-> e.srv, Ta |-> e.Ta, Tf |-> v, causal |-> ok, pos |-> e.pos]

\* A client request to srv is taken: duplicates are dropped, a server halfstamp
\* with its id is completed and a stamp handed over, otherwise it is queued.
push_client_halfstamp(id, srv, v) ==
  /\ Take(v)
  /\ Repeats \/ id \notin asked
  /\ asked' = asked \cup {id}
  /\ \/ Duplicate(id, "Ta") /\ UNCHANGED <<q, popped, lastTa>>
     \/ /\ ~Duplicate(id, "Ta")
        /\ \E e \in q :
             /\ e.id = id
             /\ get_fullstamp_from_queue_andclean((q \ {e}) \cup {WithRequest(e, srv, v)})
     \/ /\ \A e \in q : e.id # id
        /\ InsertAtHead(WithRequest(Blank(id), srv, v))

\* A server reply is taken; ok says whether its own timestamps are non zero
\* and in order (Tb <= Te).
push_server_halfstamp(id, ok, v) ==
  /\ Take(v)
  /\ Chronological => id \in asked
  /\ UNCHANGED asked
  /\ \/ Duplicate(id, "Tf") /\ UNCHANGED <<q, popped, lastTa>>
     \/ /\ ~Duplicate(id, "Tf")
        /\ \E e \in q :
             /\ e.id = id
             /\ get_fullstamp_from_queue_andclean((q \ {e}) \cup {WithReply(e, ok, v)})
     \/ /\ \A e \in q : e.id # id
        /\ InsertAtHead(WithReply(Blank(id), ok, v))

\* A request leaves the host but its packet is not captured.
MissedRequest(id) ==
  /\ id \notin asked
  /\ asked' = asked \cup {id}
  /\ UNCHANGED <<q, npkt, seen, popped, lastTa>>

-----------------------------------------------------------------------------
Init ==
  /\ q = {}
  /\ npkt = 0
  /\ seen = {}
  /\ asked = {}
  /\ popped = NoStamp
  /\ lastTa = [s \in Servers |-> 0]

\* One packet that passes update_stamp_queue's checks (the others leave the
\* queue alone), or a request that is never captured.
Next ==
  \/ \E id \in Ids, srv \in Servers, v \in Vcounts : push_client_halfstamp(id, srv, v)
  \/ \E id \in Ids, ok \in BOOLEAN, v \in Vcounts : push_server_halfstamp(id, ok, v)
  \/ \E id \in Ids : MissedRequest(id)

Spec == Init /\ [][Next]_vars

-----------------------------------------------------------------------------
\* Type invariant: the queue never outgrows MAX_STQ_SIZE, keeps one element per
\* id, and never keeps a completed stamp between two packets (the match that
\* completes it also removes it, so get_network_stamp never needs to look for
\* a second one).
TypeOK ==
  /\ q \subseteq Elements
  /\ IsFiniteSet(q) /\ Cardinality(q) <= MAX_STQ_SIZE
  /\ \A e \in q : \/ c_halfstamp(e) /\ e.srv \in Servers
                  \/ s_halfstamp(e) /\ e.srv = NoServer
  /\ \A e, f \in q : e.id = f.id => e = f
  /\ npkt \in Nat
  /\ seen \subseteq Vcounts
  /\ asked \subseteq Ids
  /\ popped \in Elements \cup {NoStamp}
  /\ lastTa \in [Servers -> 0..MaxVcount]

\* "fullstamps should never be removed out of order.  Here stamp order is defined
\* by the outgoing raw stamp Ta" (create_stamp.c:839), for the stamps of one
\* server: a stamp handed to process_stamp was sent after the previous one.
RemovedInOrder ==
  [][popped' # popped => popped'.Ta > lastTa[popped'.srv]]_vars

\* What get_fullstamp_from_queue_andclean leaves behind can never come out of
\* order: a queued request is newer than every stamp its server has delivered.
NoStaleRequest ==
  \A e \in q : c_halfstamp(e) => e.Ta > lastTa[e.srv]

\* In capture order, what the cleaning scan relies on: every counter value in the
\* queue has been seen, an older request lies nearer the tail (so the scan meets
\* it while *full_st is still there), and a queued id has been asked for.
QueuedInSendOrder ==
  /\ \A e \in q : /\ e.pos <= npkt
                  /\ e.id \in asked
                  /\ c_halfstamp(e) => e.Ta \in seen
  /\ \A e, f \in q : c_halfstamp(e) /\ c_halfstamp(f) =>
       /\ e.Ta < f.Ta => e.pos < f.pos
       /\ e.Ta = f.Ta => e = f
  /\ \A s \in Servers : lastTa[s] \in seen \cup {0}

\* A reply is paired with the request it answers: the stamp handed over has both
\* timestamps, spans a positive time and names the server that was asked.
PairedCausally ==
  popped # NoStamp => /\ 0 < popped.Ta /\ popped.Ta < popped.Tf
                      /\ popped.srv \in Servers
                      /\ popped.id \in asked

\* Server halfstamps "are cleaned safely in reasonable time by comparison on Tf
\* against the fullstamp" (create_stamp.c:851): none that lies behind the stamp
\* handed over and is older than it stays queued, whatever freed memory holds.
OldRepliesCleaned ==
  [][popped' # popped =>
       \A e \in q' : s_halfstamp(e) /\ e.pos < popped'.pos => e.Tf > popped'.Tf]_vars
=============================================================================
