------------------------- MODULE RawDataQueue_proofs -------------------------
(***************************************************************************)
(* Theorems about the raw data queue on a machine that keeps MAIN's stores *)
(* in program order, for any number of packets.                            *)
(***************************************************************************)
EXTENDS RawDataQueue, TLAPS

\* The number of bundles linked in: what rdb_start holds, given where MAIN is.
Linked ==
  IF mainPc = "capture" \/ (mainPc = "store" /\ "start" \notin stores)
  THEN captured
  ELSE captured - 1

\* Where MAIN is in insert_rdb_in_list, and what it still has to store.
MainInv ==
  /\ rdb_start = Linked
  /\ mainPc # "capture" => captured > 0
  /\ mainPc # "store" => stores = {}
  /\ mainPc = "store" => oldStart = captured - 1
  /\ "next" \in stores => "start" \in stores /\ captured > 1
  /\ mainPc = "store" /\ "next" \notin stores /\ captured > 1 => next[oldStart] = captured
  /\ "end" \in stores => captured = 1
  /\ rdb_end = NULL <=>
       \/ captured = 0
       \/ captured = 1 /\ (mainPc = "lock" \/ "end" \in stores)

\* The list: allocated bundles run from the end to the last captured packet, and
\* each one linked in points to its successor.
ListInv ==
  /\ rdb_end <= rdb_start
  /\ \A b \in Bundles : b \in alive <=> rdb_end <= b /\ b <= captured
  /\ \A b \in Bundles : rdb_end <= b /\ b < rdb_start => next[b] = b + 1

\* Where PROC is in free_and_cherrypick, and what it has handed over.
ProcInv ==
  /\ procPc \in {"scan", "advance", "return"} => rdb = rdb_end /\ rdb # NULL
  /\ procPc = "advance" => rdb < rdb_start /\ delivered = rdb
  /\ procPc \in {"lock", "free"} =>
       /\ rdb_tofree = rdb_end /\ rdb_end # NULL
       /\ rdb = rdb_end + 1 /\ rdb_end < rdb_start
       /\ delivered = rdb_end
  /\ pkt = delivered
  /\ \A b \in Bundles : b \in read <=> b <= delivered
  /\ rdb_end = NULL => delivered = 0
  /\ rdb_end # NULL => delivered = rdb_end \/ delivered = rdb_end - 1

IInv == TypeOK /\ MainInv /\ ListInv /\ ProcInv

USE RawDataAssumption DEF NULL, Bundles

\* The empty queue.
LEMMA InitInv == Init => IInv
BY DEF Init, IInv, TypeOK, MainInv, Linked, ListInv, ProcInv, Nobody

\* MAIN's steps keep the invariant: a bundle is linked to before it is announced,
\* and announced as the start before it is announced as the end.
LEMMA StepMain ==
  ASSUME InOrderStores, IInv, fill_rawdata_pcap \/ insert_rdb_in_list
  PROVE  IInv'
<1> USE DEF IInv
<1>1. CASE fill_rawdata_pcap
  <2> USE <1>1 DEF fill_rawdata_pcap, procVars
  <2>1. TypeOK'
    BY DEF TypeOK, Nobody
  <2>2. MainInv'
    BY DEF TypeOK, MainInv, Linked
  <2>3. ListInv'
    BY DEF TypeOK, MainInv, Linked, ListInv
  <2>4. ProcInv'
    BY DEF TypeOK, MainInv, Linked, ProcInv
  <2> QED
    BY <2>1, <2>2, <2>3, <2>4
<1>2. CASE InsertLock
  <2> USE <1>2 DEF InsertLock, procVars, listVars
  <2>1. TypeOK'
    BY DEF TypeOK, Nobody
  <2>2. MainInv'
    BY DEF TypeOK, MainInv, Linked
  <2>3. ListInv' /\ ProcInv'
    BY DEF TypeOK, MainInv, Linked, ListInv, ProcInv
  <2> QED
    BY <2>1, <2>2, <2>3
<1>3. CASE StoreNext
  <2> USE <1>3 DEF StoreNext, MayStore, procVars
  <2>1. TypeOK'
    BY DEF TypeOK, MainInv
  <2>2. MainInv'
    BY DEF TypeOK, MainInv, Linked
  <2>3. ListInv' /\ ProcInv'
    BY DEF TypeOK, MainInv, Linked, ListInv, ProcInv
  <2> QED
    BY <2>1, <2>2, <2>3
<1>4. CASE StoreStart
  <2> USE <1>4 DEF StoreStart, MayStore, procVars
  <2>1. TypeOK'
    BY DEF TypeOK, MainInv
  <2>2. MainInv'
    BY DEF TypeOK, MainInv, Linked
  <2>3. ListInv' /\ ProcInv'
    BY DEF TypeOK, MainInv, Linked, ListInv, ProcInv
  <2> QED
    BY <2>1, <2>2, <2>3
<1>5. CASE StoreEnd
  <2> USE <1>5 DEF StoreEnd, MayStore, procVars
  <2>1. TypeOK'
    BY DEF TypeOK, MainInv
  <2>2. MainInv'
    BY DEF TypeOK, MainInv, Linked
  <2>3. ListInv' /\ ProcInv'
    BY DEF TypeOK, MainInv, Linked, ListInv, ProcInv
  <2> QED
    BY <2>1, <2>2, <2>3
<1>6. CASE InsertUnlock
  <2> USE <1>6 DEF InsertUnlock, procVars, listVars
  <2>1. TypeOK'
    BY DEF TypeOK, MainInv, Nobody
  <2>2. MainInv'
    BY DEF TypeOK, MainInv, Linked
  <2>3. ListInv' /\ ProcInv'
    BY DEF TypeOK, MainInv, Linked, ListInv, ProcInv
  <2> QED
    BY <2>1, <2>2, <2>3
<1> QED
  BY <1>1, <1>2, <1>3, <1>4, <1>5, <1>6 DEF insert_rdb_in_list

\* PROC's steps keep the invariant: it only frees a bundle that is not the start,
\* so that MAIN never writes to freed memory, and the successor it moves to has
\* been linked.
LEMMA StepProc ==
  ASSUME IInv, free_and_cherrypick
  PROVE  IInv'
<1> USE DEF IInv
<1>1. CASE PickEnd
  BY <1>1 DEF PickEnd, TypeOK, MainInv, Linked, ListInv, ProcInv, mainVars, listVars
<1>2. CASE ScanTest
  <2> USE <1>2 DEF ScanTest, mainVars, listVars
  <2>1. TypeOK' /\ MainInv' /\ ListInv'
    BY DEF TypeOK, MainInv, Linked, ListInv
  <2>2. ProcInv'
    BY DEF TypeOK, ListInv, ProcInv
  <2> QED
    BY <2>1, <2>2
<1>3. CASE ScanAdvance
  <2> USE <1>3 DEF ScanAdvance, mainVars, listVars
  <2>1. TypeOK' /\ MainInv' /\ ListInv'
    BY DEF TypeOK, MainInv, Linked, ListInv, ProcInv
  <2>2. ProcInv'
    BY DEF TypeOK, ListInv, ProcInv
  <2> QED
    BY <2>1, <2>2
<1>4. CASE FreeLock
  <2> USE <1>4 DEF FreeLock, mainVars, listVars
  <2>1. TypeOK' /\ MainInv' /\ ListInv'
    BY DEF TypeOK, MainInv, Linked, ListInv, Nobody
  <2>2. ProcInv'
    BY DEF TypeOK, ListInv, ProcInv
  <2> QED
    BY <2>1, <2>2
<1>5. CASE FreeRead
  <2> USE <1>5 DEF FreeRead, mainVars
  <2>1. TypeOK'
    BY DEF TypeOK, ProcInv, Nobody
  <2>2. MainInv'
    BY DEF TypeOK, MainInv, Linked, ProcInv
  <2>3. ListInv'
    BY DEF TypeOK, ListInv, ProcInv, MainInv, Linked
  <2>4. ProcInv'
    BY DEF TypeOK, ListInv, ProcInv
  <2> QED
    BY <2>1, <2>2, <2>3, <2>4
<1>6. CASE deliver_rawdata_pcap
  <2> USE <1>6 DEF deliver_rawdata_pcap, mainVars
  <2>1. TypeOK'
    <3>1. CASE rdb \in read
      BY <3>1 DEF TypeOK
    <3>2. CASE rdb \notin read
      <4>1. rdb \in Bundles
        BY DEF TypeOK, ProcInv
      <4>2. read' = read \cup {rdb}
        BY <3>2
      <4>3. read' \subseteq Bundles
        BY <4>1, <4>2 DEF TypeOK
      <4>4. delivered' \in Nat /\ pkt' \in Bundles \cup {NULL}
        BY <3>2, <4>1 DEF TypeOK
      <4> QED
        BY <4>3, <4>4 DEF TypeOK
    <3> QED
      BY <3>1, <3>2
  <2>2. MainInv' /\ ListInv'
    BY DEF MainInv, Linked, ListInv
  <2>3. ProcInv'
    BY DEF TypeOK, ListInv, ProcInv
  <2> QED
    BY <2>1, <2>2, <2>3
<1> QED
  BY <1>1, <1>2, <1>3, <1>4, <1>5, <1>6 DEF free_and_cherrypick

\* Every step keeps the invariant.
LEMMA StepInv ==
  ASSUME InOrderStores
  PROVE  IInv /\ [Next]_vars => IInv'
<1> SUFFICES ASSUME IInv, [Next]_vars PROVE IInv'
  OBVIOUS
<1>1. CASE UNCHANGED vars
  BY <1>1 DEF vars, IInv, TypeOK, MainInv, Linked, ListInv, ProcInv
<1> QED
  BY <1>1, StepMain, StepProc DEF Next

-----------------------------------------------------------------------------
\* Types and mutual exclusion on rdb_mutex hold in every reachable state.
THEOREM TypeCorrect ==
  ASSUME InOrderStores
  PROVE  Spec => []TypeOK
<1>1. IInv => TypeOK
  BY DEF IInv
<1> QED
  BY <1>1, InitInv, StepInv, PTL DEF Spec

\* The lock-free scan of free_and_cherrypick never follows a NULL or freed pointer,
\* and insert_rdb_in_list never writes to a freed bundle ("there is no safety
\* net", rawdata.c:308).
THEOREM MemorySafe ==
  ASSUME InOrderStores
  PROVE  Spec => []NoBadAccess
<1>1. IInv => NoBadAccess
  BY DEF IInv, TypeOK, MainInv, Linked, ListInv, ProcInv, NoBadAccess
<1> QED
  BY <1>1, InitInv, StepInv, PTL DEF Spec

\* A bundle that has been handed over is freed by the next scan that passes it.
THEOREM NoLeak ==
  ASSUME InOrderStores
  PROVE  Spec => []ReadBundlesFreed
<1>1. IInv => ReadBundlesFreed
  BY DEF IInv, TypeOK, MainInv, Linked, ListInv, ProcInv, ReadBundlesFreed
<1> QED
  BY <1>1, InitInv, StepInv, PTL DEF Spec

\* The queue implements PacketStream: PROC gets each captured packet exactly once
\* and in capture order, which is what the stamp queue takes for granted.
THEOREM ImplementsPacketStream ==
  ASSUME InOrderStores
  PROVE  Spec => PacketsInOrder
<1>1. Init => Stream!StreamInit
  BY DEF Init, Stream!StreamInit
<1>2. IInv /\ [Next]_vars => [Stream!Put \/ Stream!Get]_<<captured, delivered, pkt>>
  <2> SUFFICES ASSUME IInv, [Next]_vars
               PROVE  [Stream!Put \/ Stream!Get]_<<captured, delivered, pkt>>
    OBVIOUS
  <2>1. CASE fill_rawdata_pcap
    BY <2>1 DEF fill_rawdata_pcap, procVars, Stream!Put
  <2>2. CASE insert_rdb_in_list
    BY <2>2 DEF insert_rdb_in_list, InsertLock, StoreNext, StoreStart, StoreEnd,
                InsertUnlock, MayStore, procVars
  <2>3. CASE PickEnd \/ ScanTest \/ ScanAdvance \/ FreeLock \/ FreeRead
    BY <2>3 DEF PickEnd, ScanTest, ScanAdvance, FreeLock, FreeRead, mainVars
  <2>4. CASE deliver_rawdata_pcap
    BY <2>4 DEF deliver_rawdata_pcap, mainVars, IInv, TypeOK, MainInv, Linked, ListInv,
                ProcInv, Stream!Get
  <2>5. CASE UNCHANGED vars
    BY <2>5 DEF vars
  <2> QED
    BY <2>1, <2>2, <2>3, <2>4, <2>5 DEF Next, free_and_cherrypick
<1> QED
  BY <1>1, <1>2, InitInv, StepInv, PTL
     DEF Spec, PacketsInOrder, Stream!StreamSpec, Stream!streamVars
==============================================================================
