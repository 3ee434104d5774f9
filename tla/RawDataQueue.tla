---------------------------- MODULE RawDataQueue ----------------------------
(***************************************************************************)
(* The raw data queue of radclock/rawdata.c: a singly linked list of raw   *)
(* data bundles.  MAIN inserts at the head (insert_rdb_in_list, from the   *)
(* pcap_loop callback fill_rawdata_pcap) under rdb_mutex.  PROC scans it   *)
(* from the end (free_and_cherrypick, from deliver_rawdata_pcap) without   *)
(* the mutex, taking it only around each free.                             *)
(*                                                                         *)
(* One step is one access to shared memory, or one lock or unlock.  The    *)
(* bundle of the k-th captured packet is the number k, 0 is NULL.          *)
(***************************************************************************)
EXTENDS Naturals

CONSTANTS
  MaxPackets,   \* bound: packets captured
  InOrderStores \* TRUE: MAIN's stores become visible in program order (TSO);
                \* FALSE: in any order until rdb_mutex is released

ASSUME RawDataAssumption == MaxPackets \in Nat /\ InOrderStores \in BOOLEAN

NULL == 0

Bundles == 1..MaxPackets

VARIABLES
  rdb_start,   \* head of the list: the newest bundle
  rdb_end,     \* tail of the list: the oldest bundle
  next,        \* bundle -> the next one toward the head
  read,        \* bundles already handed over: rdb->read
  alive,       \* bundles malloc'ed and not yet freed
  rdb_mutex,   \* holder of the mutex
  mainPc,      \* MAIN: outside, about to lock, or storing under the mutex
  stores,      \* MAIN: stores not yet visible
  oldStart,    \* MAIN: rdb_start as loaded after locking
  captured,    \* packets captured so far; the last one is being inserted
  procPc,      \* PROC: place in free_and_cherrypick
  rdb,         \* PROC: local pointer
  rdb_tofree,  \* PROC: local pointer
  delivered,   \* history: how many packets have been handed over
  pkt          \* history: the last packet handed over

mainVars == <<mainPc, stores, oldStart, captured>>
procVars == <<procPc, rdb, rdb_tofree, delivered, pkt>>
listVars == <<rdb_start, rdb_end, next, read, alive>>
vars == <<rdb_start, rdb_end, next, read, alive, rdb_mutex, mainPc, stores,
          oldStart, captured, procPc, rdb, rdb_tofree, delivered, pkt>>

Nobody == "nobody"

-----------------------------------------------------------------------------
(* MAIN *)

\* fill_rawdata_pcap: the bundle is made, filled and cleared of next and read.
fill_rawdata_pcap ==
  /\ mainPc = "capture" /\ captured < MaxPackets
  /\ captured' = captured + 1
  /\ alive' = alive \cup {captured'}
  /\ next' = [next EXCEPT ![captured'] = NULL]
  /\ mainPc' = "lock"
  /\ UNCHANGED <<rdb_start, rdb_end, read, rdb_mutex, stores, oldStart>>
  /\ UNCHANGED procVars

\* Mutant: the test for an empty list is missing.
InsertLockUntested ==
  /\ mainPc = "lock" /\ rdb_mutex = Nobody
  /\ rdb_mutex' = "MAIN"
  /\ oldStart' = rdb_start
  /\ stores' = {"start", "next"} \cup (IF rdb_end = NULL THEN {"end"} ELSE {})
  /\ mainPc' = "store"
  /\ UNCHANGED <<captured, listVars, procVars>>

\* insert_rdb_in_list, on entry: which stores it will make depends on what it
\* loads once it holds the mutex.
InsertLock ==
  /\ mainPc = "lock" /\ rdb_mutex = Nobody
  /\ rdb_mutex' = "MAIN"
  /\ oldStart' = rdb_start
  /\ stores' = {"start"} \cup (IF rdb_start # NULL THEN {"next"} ELSE {})
                         \cup (IF rdb_end = NULL THEN {"end"} ELSE {})
  /\ mainPc' = "store"
  /\ UNCHANGED <<captured, listVars, procVars>>

\* In program order, next comes before start and start before end.
MayStore(field) ==
  /\ mainPc = "store" /\ field \in stores
  /\ InOrderStores => /\ field \in {"start", "end"} => "next" \notin stores
                      /\ field = "end" => "start" \notin stores
  /\ stores' = stores \ {field}
  /\ UNCHANGED <<mainPc, oldStart, captured, rdb_mutex, read, alive, procVars>>

StoreNext ==
  /\ MayStore("next")
  /\ next' = [next EXCEPT ![oldStart] = captured]
  /\ UNCHANGED <<rdb_start, rdb_end>>

StoreStart ==
  /\ MayStore("start")
  /\ rdb_start' = captured
  /\ UNCHANGED <<next, rdb_end>>

StoreEnd ==
  /\ MayStore("end")
  /\ rdb_end' = captured
  /\ UNCHANGED <<next, rdb_start>>

InsertUnlock ==
  /\ mainPc = "store" /\ stores = {}
  /\ rdb_mutex' = Nobody
  /\ mainPc' = "capture"
  /\ UNCHANGED <<stores, oldStart, captured, listVars, procVars>>

-----------------------------------------------------------------------------
(* PROC: free_and_cherrypick, then the copy made by deliver_rawdata_pcap.  *)

PickEnd ==
  /\ procPc = "enter"
  /\ rdb' = rdb_end
  /\ procPc' = IF rdb_end = NULL THEN "enter" ELSE "scan"
  /\ UNCHANGED <<rdb_tofree, delivered, pkt, rdb_mutex, listVars, mainVars>>

\* Mutant: the scan stops at a bundle already read.
ScanTestStops ==
  /\ procPc = "scan"
  /\ procPc' = "return"
  /\ UNCHANGED <<rdb, rdb_tofree, delivered, pkt, rdb_mutex, listVars, mainVars>>

\* The loop condition and the read flag: only PROC ever changes the latter.
ScanTest ==
  /\ procPc = "scan"
  /\ procPc' = IF rdb # rdb_start /\ rdb \in read THEN "advance" ELSE "return"
  /\ UNCHANGED <<rdb, rdb_tofree, delivered, pkt, rdb_mutex, listVars, mainVars>>

ScanAdvance ==
  /\ procPc = "advance"
  /\ rdb_tofree' = rdb
  /\ rdb' = next[rdb]
  /\ procPc' = "lock"
  /\ UNCHANGED <<delivered, pkt, rdb_mutex, listVars, mainVars>>

\* Mutant: PROC does not wait for the mutex.
FreeLockTaken ==
  /\ procPc = "lock"
  /\ rdb_mutex' = "PROC"
  /\ procPc' = "free"
  /\ UNCHANGED <<rdb, rdb_tofree, delivered, pkt, listVars, mainVars>>

FreeLock ==
  /\ procPc = "lock" /\ rdb_mutex = Nobody
  /\ rdb_mutex' = "PROC"
  /\ procPc' = "free"
  /\ UNCHANGED <<rdb, rdb_tofree, delivered, pkt, listVars, mainVars>>

\* Mutant: the bundle is unlinked but never freed.
FreeReadLeaks ==
  /\ procPc = "free"
  /\ rdb_end' = rdb
  /\ next' = [next EXCEPT ![rdb_tofree] = NULL]
  /\ rdb_tofree' = NULL
  /\ rdb_mutex' = Nobody
  /\ procPc' = "scan"
  /\ UNCHANGED <<rdb_start, read, alive, rdb, delivered, pkt, mainVars>>

\* The new end, the free and the unlock: no other thread looks in between.
FreeRead ==
  /\ procPc = "free"
  /\ rdb_end' = rdb
  /\ next' = [next EXCEPT ![rdb_tofree] = NULL]
  /\ alive' = alive \ {rdb_tofree}
  /\ rdb_tofree' = NULL
  /\ rdb_mutex' = Nobody
  /\ procPc' = "scan"
  /\ UNCHANGED <<rdb_start, read, rdb, delivered, pkt, mainVars>>

\* Mutant: a bundle already read is handed over again.
deliver_rawdata_pcapTwice ==
  /\ procPc = "return"
  /\ read' = read \cup {rdb} /\ delivered' = delivered + 1 /\ pkt' = rdb
  /\ rdb' = NULL
  /\ procPc' = "enter"
  /\ UNCHANGED <<rdb_tofree, rdb_start, rdb_end, next, alive, rdb_mutex, mainVars>>

\* A bundle already read (the last of the list) is returned as NULL, an unread
\* one is copied for the stamp queue and marked read.
deliver_rawdata_pcap ==
  /\ procPc = "return"
  /\ IF rdb \in read
     THEN UNCHANGED <<read, delivered, pkt>>
     ELSE read' = read \cup {rdb} /\ delivered' = delivered + 1 /\ pkt' = rdb
  /\ rdb' = NULL
  /\ procPc' = "enter"
  /\ UNCHANGED <<rdb_tofree, rdb_start, rdb_end, next, alive, rdb_mutex, mainVars>>

-----------------------------------------------------------------------------
Init ==
  /\ rdb_start = NULL /\ rdb_end = NULL
  /\ next = [b \in Bundles |-> NULL]
  /\ read = {} /\ alive = {}
  /\ rdb_mutex = Nobody
  /\ mainPc = "capture" /\ stores = {} /\ oldStart = NULL /\ captured = 0
  /\ procPc = "enter" /\ rdb = NULL /\ rdb_tofree = NULL
  /\ delivered = 0 /\ pkt = 0

insert_rdb_in_list == InsertLock \/ StoreNext \/ StoreStart \/ StoreEnd \/ InsertUnlock

free_and_cherrypick ==
  PickEnd \/ ScanTest \/ ScanAdvance \/ FreeLock \/ FreeRead \/ deliver_rawdata_pcap

Next == fill_rawdata_pcap \/ insert_rdb_in_list \/ free_and_cherrypick

Spec == Init /\ [][Next]_vars

\* Both threads run: MAIN finishes an insertion it has begun, and PROC comes back
\* to the queue again and again (the trigger grid wakes it up for ever).
FairSpec == Spec /\ WF_vars(insert_rdb_in_list) /\ WF_vars(free_and_cherrypick)

-----------------------------------------------------------------------------
\* Type invariant; the mutex is held exactly by the thread that is between its
\* lock and its unlock.
TypeOK ==
  /\ rdb_start \in Bundles \cup {NULL} /\ rdb_end \in Bundles \cup {NULL}
  /\ next \in [Bundles -> Bundles \cup {NULL}]
  /\ read \subseteq Bundles /\ alive \subseteq Bundles
  /\ rdb_mutex \in {Nobody, "MAIN", "PROC"}
  /\ mainPc \in {"capture", "lock", "store"}
  /\ stores \subseteq {"next", "start", "end"}
  /\ oldStart \in Bundles \cup {NULL}
  /\ captured \in 0..MaxPackets
  /\ procPc \in {"enter", "scan", "advance", "lock", "free", "return"}
  /\ rdb \in Bundles \cup {NULL} /\ rdb_tofree \in Bundles \cup {NULL}
  /\ delivered \in Nat /\ pkt \in Bundles \cup {NULL}
  /\ rdb_mutex = "MAIN" <=> mainPc = "store"
  /\ rdb_mutex = "PROC" <=> procPc = "free"

\* "Here, rdb should NEVER be NULL. If we sef fault here, blame the guy who wrote
\* that" (rawdata.c:364), and it is never a freed bundle either: every bundle
\* PROC or MAIN is about to dereference is allocated.
NoBadAccess ==
  /\ procPc \in {"scan", "advance", "return"} => rdb \in alive
  /\ procPc \in {"lock", "free"} => rdb_tofree \in alive
  /\ "next" \in stores => oldStart \in alive

\* What the queue does is what PacketStream promises: PROC gets every captured
\* packet once, in capture order.
Stream == INSTANCE PacketStream
PacketsInOrder == Stream!StreamSpec

\* free_and_cherrypick frees what has been handed over: when PROC leaves it, the
\* last bundle handed over is the only read one still allocated.
ReadBundlesFreed ==
  procPc = "enter" => read \cap alive \subseteq {pkt}

\* Every captured packet is eventually handed to the stamp queue.
AllDelivered == \A k \in Bundles : captured = k ~> delivered >= k
=============================================================================
