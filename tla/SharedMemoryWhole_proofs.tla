---------------------- MODULE SharedMemoryWhole_proofs ---------------------
(***************************************************************************)
(* The shared memory segment gives its readers whole snapshots, for any    *)
(* number of readers, fields and updates, as long as the accesses are made *)
(* as they are written, the generation does not wrap and the daemon is not *)
(* killed, unless the reader holds the generation zero.                    *)
(***************************************************************************)
EXTENDS SharedMemoryReader_proofs

USE SharedMemoryAssumption

\* A writer's step: zero hides the swap from every reader, and the new generation
\* is larger than any a reader may hold.
LEMMA StepWriter ==
  ASSUME Favourable, IInv, sms_init_writer \/ CallUpdate \/ update_ipc_shared_memory \/ Crash
  PROVE  IInv'
<1> USE DEF reader, segment, past
<1>0. TypeOK' /\ TypeOK /\ GenInv /\ BufInv /\ \A r \in Readers : ReaderInv(r)
  BY TypeWriter DEF IInv
<1>1. CASE sms_init_writer
  BY <1>1, StepCreate
<1>2. CASE CallUpdate
  <2>1. GenInv'
    BY <1>2, <1>0 DEF CallUpdate, GenInv, Unready, TypeOK
  <2>2. BufInv'
    BY <1>2, <1>0 DEF CallUpdate, GenInv, Unready, BufInv, Before, Between, After, Whole
  <2>3. \A r \in Readers : ReaderInv(r)'
    BY <1>2, <1>0 DEF CallUpdate, ReaderInv, Unready
  <2> QED
    BY <1>0, <2>1, <2>2, <2>3 DEF IInv
<1>3. CASE Copy
  <2>0. PICK k \in Kinds, f \in Fields :
          /\ buf' = Stored(k, off_old[k], f, started)
          /\ pending' = pending \ {<<k, f>>}
    BY <1>3, Zenon DEF Copy
  <2>1. GenInv'
    BY <1>3, <1>0 DEF Copy, Copying, GenInv, Unready
  <2>2. BufInv'
    <3>1. \A kk \in Kinds, bb \in {1, 2}, ff \in Fields :
            buf'[kk][bb][ff] = IF kk = k /\ bb = off_old[k] /\ ff = f THEN started
                               ELSE buf[kk][bb][ff]
      BY <2>0 DEF Stored
    <3>2. wpc = "copy" /\ UNCHANGED <<wpc, off, off_old, started, published, offset_tmp>>
      BY <1>3 DEF Copy, Copying
    <3>3. \A kk \in Kinds : off[kk] \in {1, 2} /\ off_old[kk] \in {1, 2}
      BY <1>0, <3>2 DEF TypeOK, BufInv, Unready
    <3>4. \A kk \in Kinds : Before(kk) /\ off[kk] # off_old[kk] /\ Whole(kk, off[kk], published)
      BY <1>0, <3>2 DEF BufInv, Unready, Before
    <3>5. \A kk \in Kinds : Whole(kk, off[kk], published)'
      BY <3>1, <3>2, <3>3, <3>4 DEF Whole
    <3>6. \A kk \in Kinds, ff \in Fields :
            <<kk, ff>> \notin pending' => buf'[kk][off_old[kk]][ff] = started
      <4>1. ASSUME NEW kk \in Kinds, NEW ff \in Fields, <<kk, ff>> \notin pending
            PROVE  buf[kk][off_old[kk]][ff] = started
        BY <1>0, <3>2, <4>1 DEF BufInv
      <4>2. ASSUME NEW kk \in Kinds, NEW ff \in Fields, <<kk, ff>> \notin pending',
                   <<kk, ff>> \in pending
            PROVE  kk = k /\ ff = f
        BY <2>0, <4>2
      <4> QED
        BY <3>1, <3>3, <4>1, <4>2
    <3> QED
      BY <3>2, <3>3, <3>4, <3>5, <3>6 DEF BufInv, Unready, Before, Between, After
  <2>3. \A r \in Readers : ReaderInv(r)'
    BY <1>3, <1>0 DEF Copy, ReaderInv, Unready
  <2> QED
    BY <1>0, <2>1, <2>2, <2>3 DEF IInv
<1>4. CASE ZeroGen
  <2>1. GenInv'
    BY <1>4, <1>0 DEF ZeroGen, GenInv, Unready
  <2>2. BufInv'
    BY <1>4, <1>0 DEF ZeroGen, BufInv, Unready, Before, Between, After, Whole
  <2>3. \A r \in Readers : ReaderInv(r)'
    BY <1>4, <1>0 DEF ZeroGen, ReaderInv, Unready
  <2> QED
    BY <1>0, <2>1, <2>2, <2>3 DEF IInv
<1>5. ASSUME SwapOff("data", "data_off", "data_off_old") PROVE IInv'
  <2>1. GenInv'
    BY <1>5, <1>0 DEF SwapOff, GenInv, Unready
  <2>2. BufInv'
    <3>1. /\ wpc = "data_off" /\ wpc' = "data_off_old" /\ UNCHANGED <<buf, off_old, started, published>>
          /\ off'["data"] = off_old["data"] /\ off'["error"] = off["error"] /\ offset_tmp' = off["data"]
      BY <1>5, <1>0 DEF SwapOff, TypeOK, Kinds
    <3> QED
      BY <1>0, <3>1 DEF BufInv, Unready, Before, Between, After, Whole, Kinds
  <2>3. \A r \in Readers : ReaderInv(r)'
    BY <1>5, <1>0 DEF SwapOff, ReaderInv, GenInv, Unready
  <2> QED
    BY <1>0, <2>1, <2>2, <2>3 DEF IInv
<1>6. ASSUME SwapOff("error", "error_off", "error_off_old") PROVE IInv'
  <2>1. GenInv'
    BY <1>6, <1>0 DEF SwapOff, GenInv, Unready
  <2>2. BufInv'
    <3>1. /\ wpc = "error_off" /\ wpc' = "error_off_old" /\ UNCHANGED <<buf, off_old, started, published>>
          /\ off'["error"] = off_old["error"] /\ off'["data"] = off["data"] /\ offset_tmp' = off["error"]
      BY <1>6, <1>0 DEF SwapOff, TypeOK, Kinds
    <3> QED
      BY <1>0, <3>1 DEF BufInv, Unready, Before, Between, After, Whole, Kinds
  <2>3. \A r \in Readers : ReaderInv(r)'
    BY <1>6, <1>0 DEF SwapOff, ReaderInv, GenInv, Unready
  <2> QED
    BY <1>0, <2>1, <2>2, <2>3 DEF IInv
<1>7. ASSUME SwapOld("data", "data_off_old", "error_off") PROVE IInv'
  <2>1. GenInv'
    BY <1>7, <1>0 DEF SwapOld, GenInv, Unready
  <2>2. BufInv'
    <3>1. /\ wpc = "data_off_old" /\ wpc' = "error_off" /\ UNCHANGED <<buf, off, started, published>>
          /\ off_old'["data"] = offset_tmp /\ off_old'["error"] = off_old["error"]
      BY <1>7, <1>0 DEF SwapOld, TypeOK, Kinds
    <3> QED
      BY <1>0, <3>1 DEF BufInv, Unready, Before, Between, After, Whole, Kinds
  <2>3. \A r \in Readers : ReaderInv(r)'
    BY <1>7, <1>0 DEF SwapOld, ReaderInv, Unready
  <2> QED
    BY <1>0, <2>1, <2>2, <2>3 DEF IInv
<1>8. ASSUME SwapOld("error", "error_off_old", "gen") PROVE IInv'
  <2>1. GenInv'
    BY <1>8, <1>0 DEF SwapOld, GenInv, Unready
  <2>2. BufInv'
    <3>1. /\ wpc = "error_off_old" /\ wpc' = "gen" /\ UNCHANGED <<buf, off, started, published>>
          /\ off_old'["error"] = offset_tmp /\ off_old'["data"] = off_old["data"]
      BY <1>8, <1>0 DEF SwapOld, TypeOK, Kinds
    <3> QED
      BY <1>0, <3>1 DEF BufInv, Unready, Before, Between, After, Whole, Kinds
  <2>3. \A r \in Readers : ReaderInv(r)'
    BY <1>8, <1>0 DEF SwapOld, ReaderInv, Unready
  <2> QED
    BY <1>0, <2>1, <2>2, <2>3 DEF IInv
<1>9. CASE StoreGen
  <2>0. gen' = published + 2 /\ started = published + 1 /\ published \in Nat
    <3>1. started = published + 1 /\ generation = published + 1 /\ published \in Nat
      BY <1>0, <1>9 DEF StoreGen, GenInv, Unready, TypeOK
    <3>2. generation + 1 \in Nat /\ generation + 1 < UINT_MAX + 1
      BY <1>0, <3>1 DEF TypeOK, Favourable
    <3>3. gen' = (generation + 1) % (UINT_MAX + 1)
      BY <1>9, <3>1 DEF StoreGen
    <3>4. (generation + 1) % (UINT_MAX + 1) = generation + 1
      BY <3>2
    <3> QED
      BY <3>1, <3>3, <3>4
  <2>1. GenInv'
    <3>1. wpc' = "idle" /\ published' = started /\ UNCHANGED <<started, sms>>
          /\ sms \notin {"none", "wrecked"}
          /\ build' = "unoptimised"
      BY <1>0, <1>9 DEF StoreGen, GenInv, Unready
    <3> QED
      BY <2>0, <3>1 DEF GenInv, Unready
  <2>2. BufInv'
    BY <1>0, <1>9, <2>0 DEF StoreGen, BufInv, Unready, Before, Between, After, Whole
  <2>3. \A r \in Readers : ReaderInv(r)'
    <3>1. /\ gen' = published + 2 /\ published' = published + 1 /\ published \in Nat
          /\ UNCHANGED <<sms, off, reader>> /\ wpc' = "idle"
      BY <1>9, <2>0 DEF StoreGen
    <3>2. ASSUME NEW r \in Readers PROVE ReaderInv(r)'
      <4>1. ReaderInv(r) /\ rgen[r] \in Nat /\ floor[r] \in Nat
        BY <1>0 DEF TypeOK
      <4> QED
        BY <3>1, <4>1 DEF ReaderInv, Unready
    <3> QED
      BY <3>2
  <2> QED
    BY <1>0, <2>1, <2>2, <2>3 DEF IInv
<1>10. ~(BumpGen \/ Crash \/ CopyFaults \/ CopyOverHead)
  <2>1. ~BumpGen
    BY <1>0 DEF BumpGen, GenInv
  <2>2. ~Crash
    BY <1>0 DEF Crash, Favourable, TypeOK
  <2>3. ~CopyFaults
    BY <1>0 DEF CopyFaults, GenInv
  <2>4. ~CopyOverHead
    BY <1>0 DEF CopyOverHead, Copying, BufInv, Unready
  <2> QED
    BY <2>1, <2>2, <2>3, <2>4
<1>11. ASSUME NEW k, NEW at, NEW then, SwapPair(k, at, then) PROVE FALSE
  BY <1>0, <1>11 DEF SwapPair, GenInv, Unready
<1> QED
  BY <1>1, <1>2, <1>3, <1>4, <1>5, <1>6, <1>7, <1>8, <1>9, <1>10, <1>11
     DEF update_ipc_shared_memory

\* Every step keeps the invariant.
LEMMA StepInv ==
  ASSUME Favourable
  PROVE  IInv /\ [Next]_vars => IInv'
<1> SUFFICES ASSUME IInv, [Next]_vars PROVE IInv'
  OBVIOUS
<1>1. CASE UNCHANGED vars
  <2>0. TypeOK /\ GenInv /\ BufInv /\ \A r \in Readers : ReaderInv(r)
    BY DEF IInv
  <2>1. TypeOK'
    BY <1>1, <2>0, TypeStutter
  <2>2. UNCHANGED <<segment, writer, reader>>
    BY <1>1 DEF vars, segment, writer, reader
  <2>3. GenInv' /\ BufInv'
    BY <2>0, <2>2 DEF segment, writer, GenInv, BufInv, Unready, Before, Between, After, Whole
  <2>4. ASSUME NEW r \in Readers PROVE ReaderInv(r)'
    BY <2>0, <2>2 DEF segment, writer, reader, ReaderInv, Unready
  <2> QED
    BY <2>1, <2>3, <2>4 DEF IInv
<1> QED
  BY <1>1, StepWriter, StepReader DEF Next

-----------------------------------------------------------------------------
\* Every call that ends with a generation other than zero returns one update, whole, and
\* not an older one than the last that was complete when the call was made.
WholeUnlessZero ==
  \A r \in Readers : rpc[r] = "done" /\ rgen[r] # 0 =>
    \E u \in floor[r]..started : \A f \in Fields : got[r][f] = u

\* In a build whose accesses are those of the source, a call returns a mixture of two
\* updates, or one older than the last that was complete when it was made, only if it
\* has accepted the generation zero: but for that, the double buffer and the generation
\* number of update_ipc_shared_memory do what pthread_dataproc.c:89 says of them.
THEOREM WholeSnapshots ==
  ASSUME Favourable
  PROVE  Spec => [](WholeUnlessZero /\ MixedOnlyIf)
<1>1. IInv => WholeUnlessZero /\ MixedOnlyIf
  <2> SUFFICES ASSUME IInv, NEW r \in Readers, rpc[r] = "done", rgen[r] # 0
               PROVE  \E u \in floor[r]..started : \A f \in Fields : got[r][f] = u
    BY DEF WholeUnlessZero, MixedOnlyIf, IInv, GenInv
  <2>1. TypeOK /\ ReaderInv(r)
    BY DEF IInv
  <2>2. rgen[r] - 1 \in floor[r]..started
    BY <2>1 DEF TypeOK, ReaderInv
  <2>3. \A f \in Fields : got[r][f] = rgen[r] - 1
    BY <2>1 DEF ReaderInv
  <2> QED
    BY <2>2, <2>3
<1> QED
  BY <1>1, InitInv, StepInv, PTL DEF Spec
=============================================================================
