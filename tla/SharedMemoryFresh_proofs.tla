---------------------- MODULE SharedMemoryFresh_proofs ---------------------
(***************************************************************************)
(* The invariant on which the freshness of the read outside the loop on    *)
(* the generation rests, and that the steps of the daemon keep the part of *)
(* it that is about the segment.                                           *)
(***************************************************************************)
EXTENDS SharedMemory_proofs

USE SharedMemoryAssumption

\* Both offsets of the data have been set, or the head they are in is lost.
Mapped == sms = "wrecked" \/ (off["data"] # 0 /\ off_old["data"] # 0)

\* gen is not zero before the offsets of the data are set, and they are set before an
\* update gets past its copies, for a copy to an unset offset overwrites them.
OffsetInv ==
  /\ sms = "none" => wpc = "down" /\ started = 0
  /\ wpc \in {"new_data", "new_data_old", "new_error", "new_error_old", "new_gen"} => started = 0
  /\ sms = "wrecked" \/ (off_old["data"] # 0 => off["data"] # 0)
  /\ wpc \in {"new_error", "new_error_old", "new_gen"} => Mapped
  /\ gen # 0 => Mapped
  /\ wpc = "copy" /\ (\A f \in Fields : <<"data", f>> \notin pending) => Mapped
  /\ wpc \in {"data_off", "data_off_old", "error_off", "error_off_old", "gen"} => Mapped
  /\ wpc = "data_off_old" => sms = "wrecked" \/ offset_tmp # 0

\* Data buffer b holds the latest update begun, whole.
CopiedWhole(b) == \A f \in Fields : buf["data"][b][f] = started

\* The buffer the offset leads to holds nothing older than the last complete update.
FreshInv ==
  /\ \A b \in {1, 2}, f \in Fields : buf["data"][b][f] <= started
  /\ off["data"] # 0 => \A f \in Fields : published <= buf["data"][off["data"]][f]
  /\ wpc = "copy" /\ off_old["data"] # 0 =>
       \A f \in Fields : <<"data", f>> \notin pending => buf["data"][off_old["data"]][f] = started
  /\ wpc = "data_off" /\ off_old["data"] # 0 => CopiedWhole(off_old["data"])
  /\ wpc \in {"data_off_old", "error_off", "error_off_old", "gen"} /\ off["data"] # 0 =>
       CopiedWhole(off["data"])

\* What a reader holds between the end of its loop and the end of in_SKMwin.
WindowInv(r) ==
  /\ rpc[r] \notin {"idle", "killed"} => floor[r] <= published
  /\ rpc[r] \in {"off", "field", "test", "test2", "done"} /\ rgen[r] # 0 => Mapped
  /\ rpc[r] = "done" => Mapped
  /\ rpc[r] = "window" => ptr[r] # 0 /\ \A f \in Fields : floor[r] <= buf["data"][ptr[r]][f]
  /\ rpc[r] = "windowed" => window[r] \in floor[r]..started

WInv == TypeOK /\ OffsetInv /\ FreshInv /\ \A r \in Readers : WindowInv(r)

\* Before the segment exists.
LEMMA WindowInit == Init => WInv
<1> SUFFICES ASSUME Init PROVE WInv
  OBVIOUS
<1>1. TypeOK
  BY TypeInit
<1>2. OffsetInv
  BY DEF Init, OffsetInv, Mapped, Kinds
<1>3. FreshInv
  BY DEF Init, FreshInv, Kinds
<1>4. \A r \in Readers : WindowInv(r)
  BY DEF Init, WindowInv
<1> QED
  BY <1>1, <1>2, <1>3, <1>4 DEF WInv

\* Offsets that are set stay set.
LEMMA OffsetStep ==
  ASSUME TypeOK, OffsetInv, sms_init_writer \/ CallUpdate \/ update_ipc_shared_memory \/ Crash
  PROVE  OffsetInv' /\ (Mapped => Mapped')
<1> USE DEF Mapped
<1> DEFINE Kept == OffsetInv' /\ (Mapped => Mapped')
<1>1. CASE Attach
  BY <1>1 DEF Attach, OffsetInv
<1>2. ASSUME NewOff("data", "new_data", "new_data_old") PROVE Kept
  BY <1>2 DEF NewOff, OffsetInv, TypeOK, Kinds
<1>3. ASSUME NewOff("error", "new_error", "new_error_old") PROVE Kept
  BY <1>3 DEF NewOff, OffsetInv, TypeOK, Kinds
<1>4. ASSUME NewOld("data", "new_data_old", "new_error") PROVE Kept
  BY <1>4 DEF NewOld, OffsetInv, TypeOK, Kinds
<1>5. ASSUME NewOld("error", "new_error_old", "new_gen") PROVE Kept
  BY <1>5 DEF NewOld, OffsetInv, TypeOK, Kinds
<1>6. CASE NewGen
  BY <1>6 DEF NewGen, OffsetInv
<1>7. ASSUME NewPair("data", "new_data", "new_gen") PROVE Kept
  BY <1>7 DEF NewPair, OffsetInv, TypeOK, Kinds
<1>8. ASSUME NewPair("error", "new_error", "idle") PROVE Kept
  BY <1>8 DEF NewPair, OffsetInv, TypeOK, Kinds
<1>9. CASE CallUpdate
  <2>1. \E f \in Fields : <<"data", f>> \in pending'
    BY <1>9 DEF CallUpdate, Kinds
  <2> QED
    BY <1>9, <2>1 DEF CallUpdate, OffsetInv, segment
<1>10. CASE Copy
  <2>1. PICK k \in Kinds, f \in Fields :
          off_old[k] # 0 /\ Copying(k) /\ pending' = pending \ {<<k, f>>}
    BY <1>10, Zenon DEF Copy
  <2>2. UNCHANGED <<sms, off, off_old, gen, wpc, started, offset_tmp>> /\ wpc = "copy"
    BY <1>10, <2>1 DEF Copy, Copying
  <2>3. CASE k = "data"
    BY <2>1, <2>2, <2>3 DEF OffsetInv
  <2>4. CASE k = "error"
    <3>1. \A g \in Fields : <<"data", g>> \notin pending
      BY <2>1, <2>4 DEF Copying
    <3> QED
      BY <2>2, <3>1 DEF OffsetInv
  <2> QED
    BY <2>3, <2>4 DEF Kinds
<1>11. CASE CopyOverHead
  <2>1. sms' = "wrecked" /\ UNCHANGED <<wpc, started>> /\ wpc = "copy"
    BY <1>11 DEF CopyOverHead, Copying
  <2> QED
    BY <2>1 DEF OffsetInv
<1>12. CASE CopyFaults
  BY <1>12 DEF CopyFaults, OffsetInv, segment
<1>13. CASE ZeroGen
  BY <1>13 DEF ZeroGen, OffsetInv
<1>14. ASSUME SwapOff("data", "data_off", "data_off_old") PROVE Kept
  BY <1>14 DEF SwapOff, OffsetInv, TypeOK, Kinds
<1>15. ASSUME SwapOff("error", "error_off", "error_off_old") PROVE Kept
  BY <1>15 DEF SwapOff, OffsetInv, TypeOK, Kinds
<1>16. ASSUME SwapOld("data", "data_off_old", "error_off") PROVE Kept
  BY <1>16 DEF SwapOld, OffsetInv, TypeOK, Kinds
<1>17. ASSUME SwapOld("error", "error_off_old", "gen") PROVE Kept
  BY <1>17 DEF SwapOld, OffsetInv, TypeOK, Kinds
<1>18. CASE StoreGen
  BY <1>18 DEF StoreGen, OffsetInv
<1>19. CASE BumpGen
  BY <1>19 DEF BumpGen, OffsetInv
<1>20. ASSUME SwapPair("data", "data_off", "error_off") PROVE Kept
  BY <1>20 DEF SwapPair, OffsetInv, TypeOK, Kinds
<1>21. ASSUME SwapPair("error", "error_off", "idle") PROVE Kept
  BY <1>21 DEF SwapPair, OffsetInv, TypeOK, Kinds
<1>22. CASE Crash
  BY <1>22 DEF Crash, OffsetInv, segment
<1> QED
  BY <1>1, <1>2, <1>3, <1>4, <1>5, <1>6, <1>7, <1>8, <1>9, <1>10, <1>11, <1>12, <1>13, <1>14,
     <1>15, <1>16, <1>17, <1>18, <1>19, <1>20, <1>21, <1>22
     DEF sms_init_writer, InitSegment, update_ipc_shared_memory

\* No store makes the fields of a buffer older, and the buffer the offset leads to has
\* been copied whole before the offset is stored.
LEMMA FreshStep ==
  ASSUME TypeOK, OffsetInv, FreshInv,
         sms_init_writer \/ CallUpdate \/ update_ipc_shared_memory \/ Crash
  PROVE  /\ FreshInv'
         /\ published <= published' /\ started <= started'
         /\ \A b \in {1, 2}, f \in Fields : buf["data"][b][f] <= buf'["data"][b][f]
<1> DEFINE Kept == /\ FreshInv'
                   /\ published <= published' /\ started <= started'
                   /\ \A b \in {1, 2}, f \in Fields : buf["data"][b][f] <= buf'["data"][b][f]
<1>0. /\ published \in Nat /\ started \in Nat /\ published <= started
      /\ off["data"] \in 0..2 /\ off_old["data"] \in 0..2 /\ "data" \in Kinds
      /\ off \in [Kinds -> 0..2] /\ off_old \in [Kinds -> 0..2]
      /\ \A b \in {1, 2}, f \in Fields : buf["data"][b][f] \in Nat
  BY DEF TypeOK, Buffers, Kinds
<1>1. ASSUME UNCHANGED <<buf, started, published>>, off'["data"] = off["data"],
             wpc' \notin {"copy", "data_off", "data_off_old", "error_off", "error_off_old", "gen"}
      PROVE  Kept
  BY <1>0, <1>1 DEF FreshInv
<1>2. CASE Attach \/ NewGen \/ Crash \/ CopyFaults
  <2>1. UNCHANGED <<buf, started, published, off>>
    BY <1>2 DEF Attach, NewGen, Crash, CopyFaults, segment
  <2>2. wpc' \in {"new_data", "idle", "new_error", "down"}
    BY <1>2 DEF Attach, NewGen, Crash, CopyFaults
  <2> QED
    BY <1>1, <2>1, <2>2
<1>3. ASSUME NewOff("data", "new_data", "new_data_old") \/ NewPair("data", "new_data", "new_gen")
      PROVE  Kept
  <2>1. started = 0 /\ off'["data"] = 1 /\ UNCHANGED <<buf, started, published>>
        /\ wpc' \in {"new_data_old", "new_gen"}
    BY <1>0, <1>3 DEF NewOff, NewPair, OffsetInv, Kinds
  <2> QED
    BY <1>0, <2>1 DEF FreshInv
<1>4. ASSUME NewOff("error", "new_error", "new_error_old") \/ NewPair("error", "new_error", "idle")
             \/ NewOld("data", "new_data_old", "new_error") \/ NewOld("error", "new_error_old", "new_gen")
      PROVE  Kept
  <2>1. off'["data"] = off["data"] /\ UNCHANGED <<buf, started, published>>
    BY <1>0, <1>4 DEF NewOff, NewPair, NewOld
  <2>2. wpc' \in {"new_error_old", "idle", "new_error", "new_gen"}
    BY <1>4 DEF NewOff, NewPair, NewOld
  <2> QED
    BY <1>1, <2>1, <2>2
<1>5. CASE CallUpdate
  <2>1. /\ started' = started + 1 /\ wpc' = "copy" /\ UNCHANGED <<buf, published, off, off_old>>
        /\ \A f \in Fields : <<"data", f>> \in pending'
    BY <1>5 DEF CallUpdate, segment, Kinds
  <2> QED
    BY <1>0, <2>1 DEF FreshInv
<1>6. CASE Copy
  <2>1. PICK k \in Kinds, f \in Fields :
          /\ off_old[k] # 0 /\ buf' = Stored(k, off_old[k], f, started)
          /\ pending' = pending \ {<<k, f>>} /\ Copying(k)
    BY <1>6, Zenon DEF Copy
  <2>2. UNCHANGED <<off, off_old, wpc, started, published>> /\ wpc = "copy"
    BY <1>6, <2>1 DEF Copy, Copying
  <2>3. \A b \in {1, 2}, g \in Fields :
          buf'["data"][b][g] = IF k = "data" /\ b = off_old[k] /\ g = f THEN started
                               ELSE buf["data"][b][g]
    BY <2>1 DEF Stored, Kinds
  <2>4. \A b \in {1, 2}, g \in Fields :
          buf["data"][b][g] <= buf'["data"][b][g] /\ buf'["data"][b][g] <= started
    BY <1>0, <2>3 DEF FreshInv
  <2>5. off["data"] # 0 => \A g \in Fields : published <= buf'["data"][off["data"]][g]
    BY <1>0, <2>3 DEF FreshInv
  <2>6. ASSUME off_old["data"] # 0, NEW g \in Fields, <<"data", g>> \notin pending'
        PROVE  buf'["data"][off_old["data"]][g] = started
    <3>1. off_old["data"] \in {1, 2}
      BY <1>0, <2>6
    <3>2. CASE <<"data", g>> \notin pending
      BY <2>2, <2>3, <2>6, <3>1, <3>2 DEF FreshInv
    <3>3. CASE <<"data", g>> \in pending
      <4>1. k = "data" /\ g = f
        BY <2>1, <2>6, <3>3
      <4> QED
        BY <2>3, <3>1, <4>1
    <3> QED
      BY <3>2, <3>3
  <2> QED
    BY <1>0, <2>2, <2>4, <2>5, <2>6 DEF FreshInv
<1>7. CASE CopyOverHead
  <2>1. UNCHANGED <<buf, started, published, off, off_old, wpc>> /\ wpc = "copy"
    BY <1>7 DEF CopyOverHead, Copying
  <2>2. PICK k \in Kinds : Copying(k) /\ off_old[k] = 0 /\ pending' = pending \ ({k} \X Fields)
    BY <1>7, Zenon DEF CopyOverHead
  <2>3. off_old["data"] # 0 =>
          \A f \in Fields : <<"data", f>> \notin pending' => <<"data", f>> \notin pending
    BY <2>2
  <2> QED
    BY <1>0, <2>1, <2>3 DEF FreshInv
<1>8. CASE ZeroGen \/ BumpGen
  <2>1. UNCHANGED <<buf, started, published, off, off_old>> /\ wpc' = "data_off"
        /\ wpc = "copy" /\ pending = {}
    BY <1>8 DEF ZeroGen, BumpGen
  <2> QED
    BY <1>0, <2>1 DEF FreshInv, CopiedWhole
<1>9. ASSUME SwapOff("data", "data_off", "data_off_old") \/ SwapPair("data", "data_off", "error_off")
      PROVE  Kept
  <2>1. /\ UNCHANGED <<buf, started, published>> /\ off'["data"] = off_old["data"]
        /\ wpc = "data_off" /\ wpc' \in {"data_off_old", "error_off"}
    BY <1>0, <1>9 DEF SwapOff, SwapPair
  <2> QED
    BY <1>0, <2>1 DEF FreshInv, CopiedWhole
<1>10. ASSUME SwapOff("error", "error_off", "error_off_old")
              \/ SwapOld("data", "data_off_old", "error_off") \/ SwapOld("error", "error_off_old", "gen")
       PROVE  Kept
  <2>1. /\ UNCHANGED <<buf, started, published>> /\ off'["data"] = off["data"]
        /\ wpc \in {"data_off_old", "error_off", "error_off_old"}
        /\ wpc' \in {"error_off", "error_off_old", "gen"}
    BY <1>0, <1>10 DEF SwapOff, SwapOld
  <2> QED
    BY <1>0, <2>1 DEF FreshInv, CopiedWhole
<1>11. ASSUME StoreGen \/ SwapPair("error", "error_off", "idle") PROVE Kept
  <2>1. /\ UNCHANGED <<buf, started>> /\ published' = started /\ off'["data"] = off["data"]
        /\ wpc \in {"gen", "error_off"} /\ wpc' = "idle"
    BY <1>0, <1>11 DEF StoreGen, SwapPair
  <2> QED
    BY <1>0, <2>1 DEF FreshInv, CopiedWhole
<1> QED
  BY <1>2, <1>3, <1>4, <1>5, <1>6, <1>7, <1>8, <1>9, <1>10, <1>11
     DEF sms_init_writer, InitSegment, update_ipc_shared_memory
=============================================================================
