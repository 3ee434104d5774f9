------------------------ MODULE SharedMemory_proofs ------------------------
(***************************************************************************)
(* The typing of the shared memory segment, its daemon and its readers,    *)
(* for any number of readers, fields and updates, in both builds.          *)
(***************************************************************************)
EXTENDS SharedMemory, TLAPS

USE SharedMemoryAssumption

\* A zeroed segment is well typed.
LEMMA ZeroBuffers ==
  [k \in Kinds |-> [b \in {1, 2} |-> [f \in Fields |-> 0]]]
    \in Buffers
<1>1. [f \in Fields |-> 0] \in [Fields -> Nat]
  OBVIOUS
<1>2. [b \in {1, 2} |-> [f \in Fields |-> 0]] \in [{1, 2} -> [Fields -> Nat]]
  BY <1>1
<1> QED
  BY <1>2 DEF Buffers

\* Copying a field keeps the buffers well typed.
LEMMA StoredTyped ==
  ASSUME buf \in Buffers, NEW k, NEW b, NEW f, NEW v \in Nat
  PROVE  Stored(k, b, f, v) \in Buffers
<1> DEFINE value(kk, bb, ff) == IF kk = k /\ bb = b /\ ff = f THEN v ELSE buf[kk][bb][ff]
<1>1. \A kk \in Kinds, bb \in {1, 2}, ff \in Fields : value(kk, bb, ff) \in Nat
  BY DEF Buffers
<1> HIDE DEF value
<1>2. \A kk \in Kinds, bb \in {1, 2} : [ff \in Fields |-> value(kk, bb, ff)] \in [Fields -> Nat]
  BY <1>1
<1>3. \A kk \in Kinds : [bb \in {1, 2} |-> [ff \in Fields |-> value(kk, bb, ff)]]
                          \in [{1, 2} -> [Fields -> Nat]]
  BY <1>2
<1>4. [kk \in Kinds |-> [bb \in {1, 2} |-> [ff \in Fields |-> value(kk, bb, ff)]]] \in Buffers
  BY <1>3 DEF Buffers
<1> QED
  BY <1>4 DEF value, Stored

\* A field read at any offset is a number.
LEMMA AtTyped ==
  ASSUME buf \in Buffers, NEW k \in Kinds, NEW b \in 0..2, NEW f \in Fields
  PROVE  At(k, b, f) \in Nat
<1>1. CASE b = 0
  BY <1>1 DEF At, Junk
<1>2. CASE b # 0
  <2>1. b \in {1, 2}
    BY <1>2
  <2> QED
    BY <1>2, <2>1 DEF At, Buffers
<1> QED
  BY <1>1, <1>2

\* The initial state is well typed.
LEMMA TypeInit == Init => TypeOK
<1> SUFFICES ASSUME Init PROVE TypeOK
  OBVIOUS
<1>1. buf \in Buffers
  BY ZeroBuffers DEF Init
<1>2. got \in [Readers -> [Fields -> Nat]]
  <2>1. [f \in Fields |-> 0] \in [Fields -> Nat]
    OBVIOUS
  <2> QED
    BY <2>1 DEF Init
<1>3. off \in [Kinds -> 0..2] /\ off_old \in [Kinds -> 0..2]
  BY DEF Init
<1>4. kind \in [Readers -> Kinds]
  BY DEF Init, Kinds
<1>5. pending \subseteq Kinds \X Fields
  BY DEF Init
<1>6. todo \in [Readers -> SUBSET Fields]
  BY DEF Init
<1> QED
  BY <1>1, <1>2, <1>3, <1>4, <1>5, <1>6 DEF Init, TypeOK

\* Every writer's step keeps the typing.
LEMMA TypeWriter ==
  ASSUME TypeOK, sms_init_writer \/ CallUpdate \/ update_ipc_shared_memory \/ Crash
  PROVE  TypeOK'
<1> USE DEF reader, segment, Kinds
<1> USE DEF past
<1>1. CASE sms_init_writer
  <2>1. CASE Attach
    BY <2>1 DEF Attach, TypeOK
  <2>2. ASSUME NEW k \in Kinds, NEW at, NEW then, NewOff(k, at, then),
               \/ k = "data" /\ then = "new_data_old"
               \/ k = "error" /\ then = "new_error_old"
        PROVE  TypeOK'
    BY <2>2 DEF NewOff, TypeOK
  <2>3. ASSUME NEW k \in Kinds, NEW at, NEW then \in {"new_error", "new_gen"}, NewOld(k, at, then),
               \/ k = "data" /\ at = "new_data_old"
               \/ k = "error" /\ at = "new_error_old"
        PROVE  TypeOK'
    BY <2>3 DEF NewOld, TypeOK
  <2>4. CASE NewGen
    BY <2>4 DEF NewGen, TypeOK
  <2>5. ASSUME NEW k \in Kinds, NEW at, NEW then \in {"new_gen", "idle"}, NewPair(k, at, then)
        PROVE  TypeOK'
    BY <2>5 DEF NewPair, TypeOK
  <2> QED
    BY <1>1, <2>1, <2>2, <2>3, <2>4, <2>5 DEF sms_init_writer, InitSegment
<1>2. CASE CallUpdate
  BY <1>2 DEF CallUpdate, TypeOK
<1>3. CASE Copy
  <2>1. PICK k \in Kinds, f \in Fields :
          /\ buf' = Stored(k, off_old[k], f, started)
          /\ pending' = pending \ {<<k, f>>}
    BY <1>3 DEF Copy
  <2>2. buf' \in Buffers
    BY <2>1, StoredTyped DEF TypeOK
  <2> QED
    BY <1>3, <2>1, <2>2 DEF Copy, TypeOK
<1>4. CASE ZeroGen
  BY <1>4 DEF ZeroGen, TypeOK
<1>5. ASSUME NEW k \in Kinds, NEW at, NEW then \in {"data_off_old", "error_off_old"},
             SwapOff(k, at, then)
      PROVE  TypeOK'
  BY <1>5 DEF SwapOff, TypeOK
<1>6. ASSUME NEW k \in Kinds, NEW at, NEW then \in {"error_off", "gen"},
             SwapOld(k, at, then)
      PROVE  TypeOK'
  BY <1>6 DEF SwapOld, TypeOK
<1>7. CASE StoreGen
  <2>1. gen' \in 0..UINT_MAX
    BY <1>7 DEF StoreGen, TypeOK
  <2> QED
    BY <1>7, <2>1 DEF StoreGen, TypeOK
<1>8. CASE BumpGen
  <2>1. gen' \in 0..UINT_MAX
    BY <1>8 DEF BumpGen, TypeOK
  <2> QED
    BY <1>8, <2>1 DEF BumpGen, TypeOK
<1>9. ASSUME NEW k \in Kinds, NEW at, NEW then \in {"error_off", "idle"},
             SwapPair(k, at, then)
      PROVE  TypeOK'
  BY <1>9 DEF SwapPair, TypeOK
<1>10. CASE Crash
  BY <1>10 DEF Crash, TypeOK
<1>11. CASE CopyOverHead
  BY <1>11 DEF CopyOverHead, Copying, TypeOK
<1>12. CASE CopyFaults
  BY <1>12 DEF CopyFaults, TypeOK
<1> QED
  BY <1>1, <1>2, <1>3, <1>4, <1>5, <1>6, <1>7, <1>8, <1>9, <1>10, <1>11, <1>12
     DEF update_ipc_shared_memory

\* Every reader's step keeps the typing.
LEMMA TypeReader ==
  ASSUME TypeOK, NEW r \in Readers, Call(r) \/ ReaderStep(r)
  PROVE  TypeOK'
<1> USE DEF writer, segment, past, Kinds
<1>1. CASE Call(r)
  BY <1>1 DEF Call, TypeOK
<1>2. CASE LoadGen(r)
  <2>1. [f \in Fields |-> 0] \in [Fields -> Nat]
    OBVIOUS
  <2> QED
    BY <1>2, <2>1 DEF LoadGen, TypeOK
<1>3. CASE LoadOff(r)
  BY <1>3 DEF LoadOff, TypeOK
<1>4. CASE LoadField(r)
  <2>1. PICK f \in todo[r] :
          /\ got' = [got EXCEPT ![r] = [@ EXCEPT ![f] = At(kind[r], ptr[r], f)]]
          /\ todo' = [todo EXCEPT ![r] = @ \ {f}]
    BY <1>4, Zenon DEF LoadField
  <2>2. f \in Fields /\ At(kind[r], ptr[r], f) \in Nat
    <3>1. f \in Fields /\ kind[r] \in Kinds /\ ptr[r] \in 0..2 /\ buf \in Buffers
      BY DEF TypeOK
    <3> QED
      BY <3>1, AtTyped, Zenon
  <2>3. got' \in [Readers -> [Fields -> Nat]] /\ todo' \in [Readers -> SUBSET Fields]
    BY <2>1, <2>2 DEF TypeOK
  <2> QED
    BY <1>4, <2>3 DEF LoadField, TypeOK
<1>5. ASSUME NEW place \in {"gen", "test", "test2", "done"}, Goto(r, place)
      PROVE  TypeOK'
  BY <1>5 DEF Goto, TypeOK
<1>6. CASE Test(r) \/ Test2(r)
  BY <1>5, <1>6 DEF Test, Test2
<1>7. CASE WindowOff(r)
  BY <1>7 DEF WindowOff, TypeOK
<1>8. CASE WindowField(r)
  <2>1. \A f \in Fields : At("data", ptr[r], f) \in Nat
    <3>1. "data" \in Kinds /\ ptr[r] \in 0..2 /\ buf \in Buffers
      BY DEF TypeOK
    <3> QED
      BY <3>1, AtTyped, Zenon
  <2> QED
    BY <1>8, <2>1 DEF WindowField, TypeOK
<1>9. CASE Return(r)
  <2>1. [f \in Fields |-> 0] \in [Fields -> Nat]
    OBVIOUS
  <2> QED
    BY <1>9, <2>1 DEF Return, TypeOK
<1> QED
  BY <1>1, <1>2, <1>3, <1>4, <1>6, <1>7, <1>8, <1>9 DEF ReaderStep, in_SKMwin

\* Nor by a step that changes nothing.
LEMMA TypeStutter ==
  ASSUME TypeOK, UNCHANGED vars
  PROVE  TypeOK'
BY DEF vars, TypeOK

\* The segment, the daemon and the readers keep their types in every build, across
\* crashes and when the generation wraps.
THEOREM TypeCorrect == Spec => []TypeOK
<1>1. TypeOK /\ [Next]_vars => TypeOK'
  <2> SUFFICES ASSUME TypeOK, [Next]_vars PROVE TypeOK'
    OBVIOUS
  <2>1. CASE UNCHANGED vars
    BY <2>1, TypeStutter
  <2> QED
    BY <2>1, TypeWriter, TypeReader DEF Next
<1> QED
  BY <1>1, TypeInit, PTL DEF Spec
=============================================================================
