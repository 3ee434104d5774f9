--------------------- MODULE SharedMemoryWindow_proofs ---------------------
(***************************************************************************)
(* The one read of the shared memory segment made outside the loop on the  *)
(* generation is never stale.  Nothing is assumed of the build, of the     *)
(* wraps of the generation or of the number of times the daemon is killed. *)
(***************************************************************************)
EXTENDS SharedMemoryFresh_proofs

USE SharedMemoryAssumption

\* A writer's step leaves what a reader holds fresh.
LEMMA WindowWriter ==
  ASSUME WInv, sms_init_writer \/ CallUpdate \/ update_ipc_shared_memory \/ Crash
  PROVE  WInv'
<1>1. TypeOK /\ OffsetInv /\ FreshInv
  BY DEF WInv
<1>2. TypeOK' /\ OffsetInv' /\ FreshInv' /\ (Mapped => Mapped')
  BY <1>1, TypeWriter, OffsetStep, FreshStep
<1>3. /\ published <= published' /\ started <= started'
      /\ \A b \in {1, 2}, f \in Fields : buf["data"][b][f] <= buf'["data"][b][f]
  BY <1>1, FreshStep
<1>4. UNCHANGED reader
  BY DEF sms_init_writer, InitSegment, Attach, NewOff, NewOld, NewPair, NewGen, CallUpdate,
         update_ipc_shared_memory, Copy, CopyOverHead, CopyFaults, ZeroGen, SwapOff, SwapOld,
         StoreGen, BumpGen, SwapPair, Crash
<1>5. ASSUME NEW r \in Readers PROVE WindowInv(r)'
  <2>1. /\ floor[r] \in Nat /\ published \in Nat /\ published' \in Nat /\ started \in Nat
        /\ started' \in Nat /\ window[r] \in Nat /\ ptr[r] \in 0..2
    BY <1>1, <1>2 DEF TypeOK
  <2>2. \A b \in {1, 2}, f \in Fields : buf["data"][b][f] \in Nat /\ buf'["data"][b][f] \in Nat
    BY <1>1, <1>2 DEF TypeOK, Buffers, Kinds
  <2>3. WindowInv(r) /\ UNCHANGED <<rpc, rgen, ptr, window, floor>>
    BY <1>4 DEF WInv, reader
  <2>4. rpc[r] = "window" => \A f \in Fields : floor[r] <= buf'["data"][ptr[r]][f]
    BY <1>3, <2>1, <2>2, <2>3 DEF WindowInv
  <2> QED
    BY <1>2, <1>3, <2>1, <2>3, <2>4 DEF WindowInv
<1> QED
  BY <1>2, <1>5 DEF WInv

\* A reader's step: the loop ends only once the offsets of the data are set.
LEMMA WindowReader ==
  ASSUME WInv, NEW r \in Readers, Call(r) \/ ReaderStep(r)
  PROVE  WInv'
<1>1. TypeOK /\ OffsetInv /\ FreshInv /\ WindowInv(r)
  BY DEF WInv
<1>2. TypeOK'
  BY <1>1, TypeReader
<1>3. UNCHANGED <<segment, writer>>
  BY DEF ReaderStep, Call, LoadGen, LoadOff, LoadField, Test, Test2, in_SKMwin, WindowOff,
         WindowField, Return, Goto
<1>4. OffsetInv' /\ FreshInv' /\ Mapped' = Mapped
  BY <1>1, <1>3 DEF OffsetInv, FreshInv, Mapped, CopiedWhole, segment, writer
<1>5. ASSUME NEW q \in Readers, q # r PROVE WindowInv(q)'
  <2>1. /\ rpc'[q] = rpc[q] /\ rgen'[q] = rgen[q] /\ ptr'[q] = ptr[q]
        /\ window'[q] = window[q] /\ floor'[q] = floor[q]
    <3>1. CASE Call(r) \/ LoadGen(r) \/ LoadOff(r)
      BY <1>1, <1>5, <3>1 DEF Call, LoadGen, LoadOff, TypeOK
    <3>2. CASE LoadField(r)
      BY <1>1, <1>5, <3>2 DEF LoadField, TypeOK
    <3>3. CASE Test(r) \/ Test2(r)
      BY <1>1, <1>5, <3>3 DEF Test, Test2, Goto, TypeOK
    <3>4. CASE WindowOff(r) \/ WindowField(r)
      BY <1>1, <1>5, <3>4 DEF WindowOff, WindowField, TypeOK
    <3>5. CASE Return(r)
      BY <1>1, <1>5, <3>5 DEF Return, TypeOK
    <3> QED
      BY <3>1, <3>2, <3>3, <3>4, <3>5 DEF ReaderStep, in_SKMwin
  <2>2. WindowInv(q) /\ UNCHANGED <<buf, published, started>>
    BY <1>3 DEF WInv, segment, writer
  <2> QED
    BY <1>4, <2>1, <2>2 DEF WindowInv
<1>6. WindowInv(r)'
  <2>0. UNCHANGED <<buf, published, started, gen, sms, off>> /\ (gen # 0 => Mapped)
    BY <1>1, <1>3 DEF segment, writer, OffsetInv
  <2>1. CASE Call(r)
    BY <1>1, <1>4, <2>0, <2>1 DEF Call, WindowInv, TypeOK
  <2>2. CASE LoadGen(r)
    BY <1>1, <1>4, <2>0, <2>2 DEF LoadGen, WindowInv, TypeOK
  <2>3. CASE LoadOff(r)
    BY <1>1, <1>4, <2>0, <2>3 DEF LoadOff, WindowInv, TypeOK
  <2>4. CASE LoadField(r)
    <3>1. /\ rpc[r] = "field" /\ rpc'[r] \in {"test", "off", "field"}
          /\ UNCHANGED <<rgen, floor>>
      BY <1>1, <2>4 DEF LoadField, TypeOK
    <3> QED
      BY <1>1, <1>4, <2>0, <3>1 DEF WindowInv
  <2>5. CASE Test(r)
    <3>1. /\ rpc[r] = "test" /\ rpc'[r] \in {"gen", "test", "test2", "done"}
          /\ UNCHANGED <<rgen, floor>>
      BY <1>1, <2>5 DEF Test, Goto, TypeOK
    <3>2. rpc'[r] = "done" => rgen[r] # 0
      BY <1>1, <2>5 DEF Test, Goto, TypeOK
    <3> QED
      BY <1>1, <1>4, <2>0, <3>1, <3>2 DEF WindowInv
  <2>6. CASE Test2(r)
    BY <1>1, <1>4, <2>0, <2>6 DEF Test2, Goto, WindowInv, TypeOK
  <2>7. CASE WindowOff(r)
    <3>1. /\ rpc[r] = "done" /\ UNCHANGED <<floor, window, rgen>>
          /\ ptr'[r] = off["data"]
          /\ rpc'[r] = IF sms = "wrecked" THEN "killed" ELSE "window"
      BY <1>1, <2>7 DEF WindowOff, TypeOK
    <3>2. floor[r] <= published /\ (sms # "wrecked" => off["data"] # 0)
      BY <1>1, <3>1 DEF WindowInv, Mapped
    <3>3. off["data"] # 0 => \A f \in Fields : floor[r] <= buf["data"][off["data"]][f]
      <4>1. /\ floor[r] \in Nat /\ published \in Nat /\ off["data"] \in 0..2
            /\ \A b \in {1, 2}, f \in Fields : buf["data"][b][f] \in Nat
        BY <1>1 DEF TypeOK, Buffers, Kinds
      <4> QED
        BY <1>1, <3>2, <4>1 DEF FreshInv
    <3> QED
      BY <2>0, <3>1, <3>2, <3>3 DEF WindowInv
  <2>8. CASE WindowField(r)
    <3>1. PICK f \in Fields : window' = [window EXCEPT ![r] = At("data", ptr[r], f)]
      BY <2>8, Zenon DEF WindowField
    <3>2. rpc[r] = "window" /\ rpc'[r] = "windowed" /\ floor' = floor
      BY <1>1, <2>8 DEF WindowField, TypeOK
    <3>3. ptr[r] \in {1, 2} /\ floor[r] <= buf["data"][ptr[r]][f] /\ floor[r] <= published
      BY <1>1, <3>2 DEF WindowInv, TypeOK
    <3>4. window'[r] = buf["data"][ptr[r]][f] /\ window'[r] \in Nat
      BY <1>1, <1>2, <3>1, <3>3 DEF At, TypeOK
    <3>5. window'[r] \in floor[r]..started
      BY <1>1, <3>3, <3>4 DEF FreshInv, TypeOK
    <3> QED
      BY <2>0, <3>2, <3>3, <3>5 DEF WindowInv
  <2>9. CASE Return(r)
    BY <1>1, <2>9 DEF Return, WindowInv, TypeOK
  <2> QED
    BY <2>1, <2>2, <2>3, <2>4, <2>5, <2>6, <2>7, <2>8, <2>9 DEF ReaderStep, in_SKMwin
<1> QED
  BY <1>2, <1>4, <1>5, <1>6 DEF WInv

\* The phat with which radclock_elapsed and radclock_duration test the window, read outside
\* the generation's loop, is never older than the last update complete when the call was
\* made, nor taken from an uninitialised segment: in both builds, however often the
\* daemon is killed and wherever, and when the generation wraps.
THEOREM WindowAlwaysFresh == Spec => []WindowFresh
<1>1. WInv /\ [Next]_vars => WInv'
  <2> SUFFICES ASSUME WInv, [Next]_vars PROVE WInv'
    OBVIOUS
  <2>1. CASE UNCHANGED vars
    <3>0. TypeOK /\ OffsetInv /\ FreshInv /\ \A r \in Readers : WindowInv(r)
      BY DEF WInv
    <3>1. TypeOK'
      BY <2>1, <3>0, TypeStutter
    <3>2. UNCHANGED <<segment, writer>> /\ UNCHANGED <<rpc, rgen, ptr, window, floor>>
      BY <2>1 DEF vars, segment, writer, reader
    <3>3. OffsetInv' /\ FreshInv' /\ Mapped' = Mapped
      BY <3>0, <3>2 DEF OffsetInv, FreshInv, Mapped, CopiedWhole, segment, writer
    <3>4. UNCHANGED <<buf, published, started>>
      BY <3>2 DEF segment, writer
    <3>5. ASSUME NEW r \in Readers PROVE WindowInv(r)'
      BY <3>0, <3>2, <3>3, <3>4 DEF WindowInv
    <3> QED
      BY <3>1, <3>3, <3>5 DEF WInv
  <2> QED
    BY <2>1, WindowWriter, WindowReader DEF Next
<1>2. WInv => WindowFresh
  BY DEF WInv, WindowInv, WindowFresh
<1> QED
  BY <1>1, <1>2, WindowInit, PTL DEF Spec
=============================================================================
