-------------------------- MODULE StampQueue_proofs --------------------------
(***************************************************************************)
(* Theorems about the stamp queue, for every set of ids and servers, every *)
(* capacity of at least two and every range of the raw counter.            *)
(***************************************************************************)
EXTENDS StampQueue, FiniteSetTheorems, WellFoundedInduction, TLAPS

\* A queue at capacity has a tail: among finitely many (indeed any) elements some
\* one has the smallest rank.  q->end in insertandmatch_halfstamp.
LEMMA TailExists ==
  ASSUME NEW Q, Q # {}, \A e \in Q : e.pos \in Nat
  PROVE  \E e \in Q : \A f \in Q : ~(f.pos < e.pos)
<1> DEFINE ranks == {e.pos : e \in Q}
<1>1. ranks \subseteq Nat /\ ranks # {}
  OBVIOUS
<1>2. \E x \in ranks : \A y \in ranks : ~(<<y, x>> \in OpToRel(<, Nat))
  BY <1>1, NatLessThanWellFounded, WFMin
<1>3. \E x \in ranks : \A y \in ranks : ~(y < x)
  BY <1>1, <1>2 DEF OpToRel
<1> QED
  BY <1>3

\* Trimming makes room: after it the queue holds fewer than MAX_STQ_SIZE elements.
LEMMA TrimmedFits ==
  ASSUME TypeOK
  PROVE  /\ Trimmed \subseteq q
         /\ IsFiniteSet(Trimmed)
         /\ Cardinality(Trimmed) < MAX_STQ_SIZE
<1> USE StampQueueAssumption
<1>1. Trimmed \subseteq q
  BY DEF Trimmed
<1>2. /\ IsFiniteSet(Trimmed) /\ Cardinality(Trimmed) <= Cardinality(q)
      /\ Cardinality(q) = Cardinality(Trimmed) => q = Trimmed
  BY <1>1, FS_Subset DEF TypeOK
<1>3. Cardinality(q) \in Nat /\ Cardinality(Trimmed) \in Nat
  BY <1>2, FS_CardinalityType DEF TypeOK
<1>4. CASE Cardinality(q) = MAX_STQ_SIZE
  <2>1. q # {}
    BY <1>4, FS_EmptySet
  <2>2. PICK e \in q : \A f \in q : ~(f.pos < e.pos)
    BY <2>1, TailExists DEF TypeOK, Elements
  <2>3. e \notin Trimmed
    BY <1>4, <2>2 DEF Trimmed
  <2> QED
    BY <1>1, <1>2, <1>3, <1>4, <2>2, <2>3
<1>5. CASE Cardinality(q) # MAX_STQ_SIZE
  BY <1>2, <1>3, <1>5 DEF TypeOK, Trimmed
<1> QED
  BY <1>1, <1>2, <1>4, <1>5

-----------------------------------------------------------------------------
\* Insertion at the head keeps the typing of the queue.
LEMMA InsertTyped ==
  ASSUME TypeOK, NEW e \in Elements, InsertAtHead(e),
         \/ c_halfstamp(e) /\ e.srv \in Servers
         \/ s_halfstamp(e) /\ e.srv = NoServer,
         \A f \in q : f.id # e.id,
         npkt' \in Nat, seen' \subseteq Vcounts, asked' \subseteq Ids
  PROVE  TypeOK'
<1> USE StampQueueAssumption
<1>1. Trimmed \subseteq q /\ IsFiniteSet(Trimmed) /\ Cardinality(Trimmed) < MAX_STQ_SIZE
  BY TrimmedFits
<1>2. q' = Trimmed \cup {e} /\ popped' = popped /\ lastTa' = lastTa
  BY DEF InsertAtHead
<1>3. Cardinality(Trimmed) \in Nat
  BY <1>1, FS_CardinalityType
<1>4. IsFiniteSet(q') /\ Cardinality(q') <= MAX_STQ_SIZE
  <2>1. /\ IsFiniteSet(Trimmed \cup {e})
        /\ Cardinality(Trimmed \cup {e}) =
             IF e \in Trimmed THEN Cardinality(Trimmed) ELSE Cardinality(Trimmed) + 1
    BY <1>1, FS_AddElement
  <2>2. e \notin Trimmed
    BY <1>1
  <2> QED
    BY <1>1, <1>2, <1>3, <2>1, <2>2
<1> QED
  BY <1>1, <1>2, <1>4 DEF TypeOK, c_halfstamp, s_halfstamp

\* Completing the queued element e into the stamp s hands s over, and leaves a
\* part of the rest of the queue in which nothing older than s survives, except
\* what the scan met after freeing the element of s.
LEMMA PopStep ==
  ASSUME TypeOK, NEW e \in q, NEW s \in Elements, fullstamp(s), s.id = e.id,
         get_fullstamp_from_queue_andclean((q \ {e}) \cup {s})
  PROVE  /\ popped' = s
         /\ lastTa' = [lastTa EXCEPT ![s.srv] = s.Ta]
         /\ q' \subseteq q \ {e}
         /\ \A g \in q' : g \in Undecided((q \ {e}) \cup {s}, s) \/ ~dangerous(g, s)
<1> DEFINE qf == (q \ {e}) \cup {s}
<1>1. PICK full \in qf :
        /\ Oldest(qf, full)
        /\ \E removed \in SUBSET Undecided(qf, full) :
             q' = {g \in qf \ {full} : IF g \in Undecided(qf, full)
                                      THEN g \notin removed
                                      ELSE ~dangerous(g, full)}
        /\ popped' = full
        /\ lastTa' = [lastTa EXCEPT ![full.srv] = full.Ta]
  BY DEF get_fullstamp_from_queue_andclean
<1>2. \A g \in q : ~fullstamp(g)
  BY DEF TypeOK, fullstamp, c_halfstamp, s_halfstamp
<1>3. full = s
  BY <1>1, <1>2 DEF Oldest
<1>4. q' \subseteq qf \ {s}
  BY <1>1, <1>3
<1>5. \A g \in q' : g \in Undecided(qf, s) \/ ~dangerous(g, s)
  BY <1>1, <1>3
<1> QED
  BY <1>1, <1>3, <1>4, <1>5

\* Handing a stamp over keeps the typing of the queue.
LEMMA PopTyped ==
  ASSUME TypeOK, NEW e \in q, NEW s \in Elements, fullstamp(s), s.id = e.id,
         get_fullstamp_from_queue_andclean((q \ {e}) \cup {s}),
         npkt' \in Nat, seen' \subseteq Vcounts, asked' \subseteq Ids
  PROVE  TypeOK'
<1> USE StampQueueAssumption
<1>1. /\ popped' = s
      /\ lastTa' = [lastTa EXCEPT ![s.srv] = s.Ta]
      /\ q' \subseteq q
  BY PopStep
<1>2. IsFiniteSet(q') /\ Cardinality(q') <= Cardinality(q)
  BY <1>1, FS_Subset DEF TypeOK
<1>3. Cardinality(q) \in Nat /\ Cardinality(q') \in Nat
  BY <1>2, FS_CardinalityType DEF TypeOK
<1>4. Cardinality(q') <= MAX_STQ_SIZE
  BY <1>2, <1>3 DEF TypeOK
<1>5. lastTa' \in [Servers -> 0..MaxVcount]
  BY <1>1 DEF TypeOK, Elements
<1> QED
  BY <1>1, <1>2, <1>4, <1>5 DEF TypeOK, c_halfstamp, s_halfstamp

\* Every step keeps the typing invariant.
LEMMA TypeStep == TypeOK /\ [Next]_vars => TypeOK'
<1> SUFFICES ASSUME TypeOK, [Next]_vars PROVE TypeOK'
  OBVIOUS
<1> USE StampQueueAssumption
<1>1. ASSUME NEW id \in Ids, NEW srv \in Servers, NEW v \in Vcounts,
             push_client_halfstamp(id, srv, v)
      PROVE  TypeOK'
  <2>1. npkt' \in Nat /\ seen' \subseteq Vcounts /\ asked' \subseteq Ids
    BY <1>1 DEF push_client_halfstamp, Take, TypeOK
  <2>2. CASE Duplicate(id, "Ta") /\ UNCHANGED <<q, popped, lastTa>>
    BY <2>1, <2>2 DEF TypeOK, c_halfstamp, s_halfstamp
  <2>3. CASE /\ ~Duplicate(id, "Ta")
             /\ \E e \in q :
                  /\ e.id = id
                  /\ get_fullstamp_from_queue_andclean((q \ {e}) \cup {WithRequest(e, srv, v)})
    <3>1. PICK e \in q :
                  /\ e.id = id
                  /\ get_fullstamp_from_queue_andclean((q \ {e}) \cup {WithRequest(e, srv, v)})
      BY <2>3
    <3>2. e \in Elements /\ s_halfstamp(e)
      BY <2>3, <3>1 DEF Duplicate, TypeOK, c_halfstamp
    <3> DEFINE s == WithRequest(e, srv, v)
    <3>3. s \in Elements /\ fullstamp(s) /\ s.id = e.id
      BY <3>2 DEF Elements, fullstamp, s_halfstamp, Vcounts, WithRequest
    <3> QED
      BY <2>1, <3>1, <3>3, PopTyped
  <2>4. CASE /\ \A e \in q : e.id # id
             /\ InsertAtHead(WithRequest(Blank(id), srv, v))
    <3> DEFINE n == WithRequest(Blank(id), srv, v)
    <3>1. n \in Elements /\ c_halfstamp(n) /\ n.srv \in Servers /\ n.id = id
      BY <2>1 DEF Elements, c_halfstamp, Vcounts, WithRequest, Blank
    <3> QED
      BY <2>1, <2>4, <3>1, InsertTyped
  <2> QED
    BY <1>1, <2>2, <2>3, <2>4 DEF push_client_halfstamp
<1>2. ASSUME NEW id \in Ids, NEW ok \in BOOLEAN, NEW v \in Vcounts,
             push_server_halfstamp(id, ok, v)
      PROVE  TypeOK'
  <2>1. npkt' \in Nat /\ seen' \subseteq Vcounts /\ asked' \subseteq Ids
    BY <1>2 DEF push_server_halfstamp, Take, TypeOK
  <2>2. CASE Duplicate(id, "Tf") /\ UNCHANGED <<q, popped, lastTa>>
    BY <2>1, <2>2 DEF TypeOK, c_halfstamp, s_halfstamp
  <2>3. CASE /\ ~Duplicate(id, "Tf")
             /\ \E e \in q :
                  /\ e.id = id
                  /\ get_fullstamp_from_queue_andclean((q \ {e}) \cup {WithReply(e, ok, v)})
    <3>1. PICK e \in q :
                  /\ e.id = id
                  /\ get_fullstamp_from_queue_andclean((q \ {e}) \cup {WithReply(e, ok, v)})
      BY <2>3
    <3>2. e \in Elements /\ c_halfstamp(e)
      BY <2>3, <3>1 DEF Duplicate, TypeOK, s_halfstamp
    <3> DEFINE s == WithReply(e, ok, v)
    <3>3. s \in Elements /\ fullstamp(s) /\ s.id = e.id
      BY <3>2 DEF Elements, fullstamp, c_halfstamp, Vcounts, WithReply
    <3> QED
      BY <2>1, <3>1, <3>3, PopTyped
  <2>4. CASE /\ \A e \in q : e.id # id
             /\ InsertAtHead(WithReply(Blank(id), ok, v))
    <3> DEFINE n == WithReply(Blank(id), ok, v)
    <3>1. n \in Elements /\ s_halfstamp(n) /\ n.srv = NoServer /\ n.id = id
      BY <2>1 DEF Elements, s_halfstamp, Vcounts, WithReply, Blank
    <3> QED
      BY <2>1, <2>4, <3>1, InsertTyped
  <2> QED
    BY <1>2, <2>2, <2>3, <2>4 DEF push_server_halfstamp
<1>3. ASSUME NEW id \in Ids, MissedRequest(id)
      PROVE  TypeOK'
  BY <1>3 DEF MissedRequest, TypeOK, c_halfstamp, s_halfstamp
<1>4. CASE UNCHANGED vars
  BY <1>4 DEF vars, TypeOK, c_halfstamp, s_halfstamp
<1> QED
  BY <1>1, <1>2, <1>3, <1>4 DEF Next

\* The typing invariant holds in every reachable state: in particular the queue
\* never exceeds MAX_STQ_SIZE and a completed stamp never stays in it, whatever
\* the order, loss or duplication of packets.
THEOREM TypeCorrect == Spec => []TypeOK
<1>1. Init => TypeOK
  BY StampQueueAssumption, FS_EmptySet DEF Init, TypeOK
<1> QED
  BY <1>1, TypeStep, PTL DEF Spec

-----------------------------------------------------------------------------
(* Order.  The inductive invariant adds to the typing what is known of the *)
(* queue when packets come in capture order: a request is newer than what  *)
(* its server has delivered (NoStaleRequest), which is kept only because   *)
(* older requests lie nearer the tail (QueuedInSendOrder).                 *)

IInv == TypeOK /\ NoStaleRequest /\ QueuedInSendOrder

\* Inserting a packet just captured keeps the order facts.
LEMMA InsertOrdered ==
  ASSUME IInv, NEW e \in Elements, InsertAtHead(e),
         npkt' = npkt + 1, seen \subseteq seen', asked \subseteq asked',
         e.pos = npkt', e.id \in asked',
         c_halfstamp(e) => /\ e.srv \in Servers
                           /\ e.Ta \in seen'
                           /\ \A u \in seen : u < e.Ta
  PROVE  NoStaleRequest' /\ QueuedInSendOrder'
<1> USE StampQueueAssumption
<1>1. Trimmed \subseteq q
  BY DEF Trimmed
<1>2. q' = Trimmed \cup {e} /\ lastTa' = lastTa
  BY DEF InsertAtHead
<1>3. c_halfstamp(e) => e.Ta > lastTa[e.srv]
  BY DEF IInv, QueuedInSendOrder, TypeOK, Elements, c_halfstamp
<1>4. NoStaleRequest'
  BY <1>1, <1>2, <1>3 DEF IInv, NoStaleRequest, c_halfstamp
<1>5. \A f \in q : f.pos < e.pos /\ (c_halfstamp(f) /\ c_halfstamp(e) => f.Ta < e.Ta)
  BY DEF IInv, QueuedInSendOrder, TypeOK, Elements
<1>6. \A f \in q' : f.pos <= npkt' /\ f.id \in asked' /\ (c_halfstamp(f) => f.Ta \in seen')
  BY <1>1, <1>2 DEF IInv, QueuedInSendOrder, TypeOK, Elements
<1>7. \A f, g \in q' : c_halfstamp(f) /\ c_halfstamp(g) =>
        (f.Ta < g.Ta => f.pos < g.pos) /\ (f.Ta = g.Ta => f = g)
  BY <1>1, <1>2, <1>5 DEF IInv, QueuedInSendOrder, TypeOK, Elements
<1> QED
  BY <1>2, <1>4, <1>6, <1>7 DEF IInv, QueuedInSendOrder, c_halfstamp

\* Handing over the stamp s made of the queued element e keeps the order facts,
\* and s is newer than everything its server delivered before.  Either e was a
\* request and s its answer, or e was a reply and s.Ta has just been captured.
LEMMA PopOrdered ==
  ASSUME IInv, NEW e \in q, NEW s \in Elements, fullstamp(s), s.id = e.id,
         s.pos = e.pos, s.srv \in Servers,
         get_fullstamp_from_queue_andclean((q \ {e}) \cup {s}),
         npkt' = npkt + 1, seen \subseteq seen', asked \subseteq asked',
         s.Ta \in seen',
         \/ c_halfstamp(e) /\ s.Ta = e.Ta /\ s.srv = e.srv
         \/ FreedIntact /\ \A u \in seen : u < s.Ta
  PROVE  /\ popped' = s /\ s.Ta > lastTa[s.srv]
         /\ NoStaleRequest' /\ QueuedInSendOrder'
<1> USE StampQueueAssumption
<1>1. /\ popped' = s
      /\ lastTa' = [lastTa EXCEPT ![s.srv] = s.Ta]
      /\ q' \subseteq q \ {e}
      /\ \A g \in q' : g \in Undecided((q \ {e}) \cup {s}, s) \/ ~dangerous(g, s)
  BY PopStep DEF IInv
<1>2. s.Ta > lastTa[s.srv]
  BY DEF IInv, NoStaleRequest, QueuedInSendOrder, TypeOK, Elements, fullstamp
<1>3. \A g \in q' : c_halfstamp(g) /\ g.srv = s.srv => g.Ta > s.Ta
  <2> SUFFICES ASSUME NEW g \in q', c_halfstamp(g), g.srv = s.srv
               PROVE  g.Ta > s.Ta
    OBVIOUS
  <2>1. g \in q /\ g # e /\ g.Ta \in Nat /\ s.Ta \in Nat /\ g.pos \in Nat /\ s.pos \in Nat
    BY <1>1 DEF IInv, TypeOK, Elements
  <2>2. CASE c_halfstamp(e) /\ s.Ta = e.Ta /\ s.srv = e.srv
    <3>1. g.Ta < s.Ta => g.pos < s.pos
      BY <2>1, <2>2 DEF IInv, QueuedInSendOrder
    <3>2. g.Ta # s.Ta
      BY <2>1, <2>2 DEF IInv, QueuedInSendOrder
    <3>3. g.Ta < s.Ta => g \notin Undecided((q \ {e}) \cup {s}, s)
      BY <2>1, <3>1 DEF Undecided
    <3>4. ~(g.Ta < s.Ta)
      <4> SUFFICES ASSUME g.Ta < s.Ta PROVE FALSE
        OBVIOUS
      <4>1. dangerous(g, s)
        BY DEF dangerous
      <4> QED
        BY <1>1, <3>3, <4>1
    <3> QED
      BY <2>1, <3>2, <3>4
  <2>3. CASE FreedIntact /\ \A u \in seen : u < s.Ta
    <3>1. g.Ta < s.Ta
      BY <2>1, <2>3 DEF IInv, QueuedInSendOrder
    <3> QED
      BY <1>1, <2>3, <3>1 DEF dangerous, Undecided
  <2> QED
    BY <2>2, <2>3
<1>4. NoStaleRequest'
  <2> SUFFICES ASSUME NEW g \in q', c_halfstamp(g)
               PROVE  g.Ta > lastTa'[g.srv]
    BY DEF NoStaleRequest, c_halfstamp
  <2>1. g \in q /\ g.srv \in Servers
    BY <1>1 DEF IInv, TypeOK, c_halfstamp, s_halfstamp
  <2> QED
    BY <1>1, <1>3, <2>1 DEF IInv, TypeOK, NoStaleRequest
<1>5. \A r \in Servers : lastTa'[r] \in seen' \cup {0}
  BY <1>1 DEF IInv, TypeOK, QueuedInSendOrder
<1>6. \A f \in q' : f.pos <= npkt' /\ f.id \in asked' /\ (c_halfstamp(f) => f.Ta \in seen')
  BY <1>1 DEF IInv, QueuedInSendOrder, TypeOK, Elements
<1> QED
  BY <1>1, <1>2, <1>4, <1>5, <1>6 DEF IInv, QueuedInSendOrder, c_halfstamp

\* One step from a state satisfying the inductive invariant keeps it, and hands
\* over no stamp older than the last one of its server.
LEMMA OrderStep ==
  ASSUME Chronological, FreedIntact \/ ~Repeats, IInv, [Next]_vars
  PROVE  /\ IInv'
         /\ popped' # popped => popped'.Ta > lastTa[popped'.srv]
<1> DEFINE Goal == /\ NoStaleRequest' /\ QueuedInSendOrder'
                   /\ popped' # popped => popped'.Ta > lastTa[popped'.srv]
<1> USE StampQueueAssumption
<1>0. TypeOK'
  BY TypeStep DEF IInv
<1>1. ASSUME NEW id \in Ids, NEW srv \in Servers, NEW v \in Vcounts,
             push_client_halfstamp(id, srv, v)
      PROVE  Goal
  <2>1. /\ npkt' = npkt + 1 /\ seen' = seen \cup {v} /\ asked' = asked \cup {id}
        /\ \A u \in seen : u < v
        /\ Repeats \/ id \notin asked
    BY <1>1 DEF push_client_halfstamp, Take
  <2>2. CASE Duplicate(id, "Ta") /\ UNCHANGED <<q, popped, lastTa>>
    BY <2>1, <2>2 DEF IInv, TypeOK, Elements, NoStaleRequest, QueuedInSendOrder, c_halfstamp
  <2>3. CASE /\ ~Duplicate(id, "Ta")
             /\ \E e \in q :
                  /\ e.id = id
                  /\ get_fullstamp_from_queue_andclean((q \ {e}) \cup {WithRequest(e, srv, v)})
    <3>1. PICK e \in q :
                  /\ e.id = id
                  /\ get_fullstamp_from_queue_andclean((q \ {e}) \cup {WithRequest(e, srv, v)})
      BY <2>3
    <3>2. e \in Elements /\ s_halfstamp(e)
      BY <2>3, <3>1 DEF Duplicate, IInv, TypeOK, c_halfstamp
    <3>3. FreedIntact
      BY <2>1, <3>1 DEF IInv, QueuedInSendOrder
    <3> DEFINE s == WithRequest(e, srv, v)
    <3>4. /\ s \in Elements /\ fullstamp(s) /\ s.id = e.id /\ s.pos = e.pos
          /\ s.srv \in Servers /\ s.Ta = v
      BY <3>2 DEF Elements, fullstamp, s_halfstamp, Vcounts, WithRequest
    <3> HIDE DEF s
    <3>5. get_fullstamp_from_queue_andclean((q \ {e}) \cup {s})
      BY <3>1 DEF s
    <3> QED
      BY <2>1, <3>3, <3>4, <3>5, PopOrdered
  <2>4. CASE /\ \A e \in q : e.id # id
             /\ InsertAtHead(WithRequest(Blank(id), srv, v))
    <3> DEFINE n == WithRequest(Blank(id), srv, v)
    <3>1. /\ n \in Elements /\ n.srv \in Servers /\ n.id = id /\ n.pos = npkt' /\ n.Ta = v
      BY <2>1 DEF Elements, IInv, TypeOK, Vcounts, WithRequest, Blank
    <3>2. popped' = popped
      BY <2>4 DEF InsertAtHead
    <3> HIDE DEF n
    <3>3. InsertAtHead(n)
      BY <2>4 DEF n
    <3> QED
      BY <2>1, <3>1, <3>2, <3>3, InsertOrdered
  <2> QED
    BY <1>1, <2>2, <2>3, <2>4 DEF push_client_halfstamp
<1>2. ASSUME NEW id \in Ids, NEW ok \in BOOLEAN, NEW v \in Vcounts,
             push_server_halfstamp(id, ok, v)
      PROVE  Goal
  <2>1. /\ npkt' = npkt + 1 /\ seen' = seen \cup {v} /\ asked' = asked /\ id \in asked
    BY <1>2 DEF push_server_halfstamp, Take
  <2>2. CASE Duplicate(id, "Tf") /\ UNCHANGED <<q, popped, lastTa>>
    BY <2>1, <2>2 DEF IInv, TypeOK, Elements, NoStaleRequest, QueuedInSendOrder, c_halfstamp
  <2>3. CASE /\ ~Duplicate(id, "Tf")
             /\ \E e \in q :
                  /\ e.id = id
                  /\ get_fullstamp_from_queue_andclean((q \ {e}) \cup {WithReply(e, ok, v)})
    <3>1. PICK e \in q :
                  /\ e.id = id
                  /\ get_fullstamp_from_queue_andclean((q \ {e}) \cup {WithReply(e, ok, v)})
      BY <2>3
    <3>2. e \in Elements /\ c_halfstamp(e) /\ e.srv \in Servers /\ e.Ta \in seen
      BY <2>3, <3>1 DEF Duplicate, IInv, TypeOK, s_halfstamp, QueuedInSendOrder
    <3> DEFINE s == WithReply(e, ok, v)
    <3>3. /\ s \in Elements /\ fullstamp(s) /\ s.id = e.id /\ s.pos = e.pos
          /\ s.srv = e.srv /\ s.Ta = e.Ta
      BY <3>2 DEF Elements, fullstamp, c_halfstamp, Vcounts, WithReply
    <3> HIDE DEF s
    <3>4. get_fullstamp_from_queue_andclean((q \ {e}) \cup {s})
      BY <3>1 DEF s
    <3> QED
      BY <2>1, <3>2, <3>3, <3>4, PopOrdered
  <2>4. CASE /\ \A e \in q : e.id # id
             /\ InsertAtHead(WithReply(Blank(id), ok, v))
    <3> DEFINE n == WithReply(Blank(id), ok, v)
    <3>1. n \in Elements /\ ~c_halfstamp(n) /\ n.id = id /\ n.pos = npkt'
      BY <2>1 DEF Elements, IInv, TypeOK, Vcounts, WithReply, Blank, c_halfstamp
    <3>2. popped' = popped
      BY <2>4 DEF InsertAtHead
    <3> HIDE DEF n
    <3>3. InsertAtHead(n)
      BY <2>4 DEF n
    <3> QED
      BY <2>1, <3>1, <3>2, <3>3, InsertOrdered
  <2> QED
    BY <1>2, <2>2, <2>3, <2>4 DEF push_server_halfstamp
<1>3. ASSUME NEW id \in Ids, MissedRequest(id)
      PROVE  Goal
  BY <1>3 DEF MissedRequest, IInv, NoStaleRequest, QueuedInSendOrder, c_halfstamp
<1>4. ASSUME UNCHANGED vars
      PROVE  Goal
  BY <1>4 DEF vars, IInv, NoStaleRequest, QueuedInSendOrder, c_halfstamp
<1>5. Goal
  BY <1>1, <1>2, <1>3, <1>4 DEF Next
<1> QED
  BY <1>0, <1>5 DEF IInv

\* In capture order, what is left in the queue can never come out of order.
THEOREM NoStaleRequestEver ==
  ASSUME Chronological, FreedIntact \/ ~Repeats
  PROVE  Spec => []NoStaleRequest
<1>1. Init => IInv
  BY StampQueueAssumption, FS_EmptySet
     DEF Init, IInv, TypeOK, NoStaleRequest, QueuedInSendOrder
<1>2. IInv /\ [Next]_vars => IInv'
  BY OrderStep
<1>3. IInv => NoStaleRequest
  BY DEF IInv
<1> QED
  BY <1>1, <1>2, <1>3, PTL DEF Spec

\* In capture order, the stamps of one server are handed to process_stamp in the
\* order their requests were sent: "fullstamps should never be removed out of
\* order" (create_stamp.c:839).
THEOREM StampsInOrder ==
  ASSUME Chronological, FreedIntact \/ ~Repeats
  PROVE  Spec => RemovedInOrder
<1>1. Init => IInv
  BY StampQueueAssumption, FS_EmptySet
     DEF Init, IInv, TypeOK, NoStaleRequest, QueuedInSendOrder
<1>2. IInv /\ [Next]_vars => IInv'
  BY OrderStep
<1>3. IInv /\ [Next]_vars => [popped' # popped => popped'.Ta > lastTa[popped'.srv]]_vars
  BY OrderStep
<1> QED
  BY <1>1, <1>2, <1>3, PTL DEF Spec, RemovedInOrder
=============================================================================
