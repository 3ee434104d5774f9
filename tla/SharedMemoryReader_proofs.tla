--------------------- MODULE SharedMemoryReader_proofs ---------------------
(***************************************************************************)
(* The invariant on which whole snapshots rest, and that the steps of a    *)
(* reader and of sms_init_writer keep it.                                  *)
(***************************************************************************)
EXTENDS SharedMemory_proofs

USE SharedMemoryAssumption

\* The build and the environment in which snapshots are whole.
Favourable ==
  Builds = {"unoptimised"} /\ MaxCrashes = 0 /\ MaxUpdates < UINT_MAX

\* Buffer b of kind k holds update u.
Whole(k, b, u) == \A f \in Fields : buf[k][b][f] = u

\* Where the swap of kind k stands: not begun, between its two stores, done.
Before(k) ==
  wpc \in {"idle", "copy", "data_off"} \cup
         (IF k = "error" THEN {"data_off_old", "error_off"} ELSE {})
Between(k) == wpc = IF k = "data" THEN "data_off_old" ELSE "error_off_old"
After(k) ==
  wpc \in {"gen"} \cup (IF k = "data" THEN {"error_off", "error_off_old"} ELSE {})

\* The segment is not there, or sms_init_writer has not finished with it.
Unready ==
  wpc \in {"down", "new_data", "new_data_old", "new_error", "new_error_old", "new_gen"}

\* gen is zero until the segment is ready, from ZeroGen to StoreGen, and otherwise counts the updates.
GenInv ==
  /\ build = "unoptimised" /\ sms # "wrecked"
  /\ sms = "none" <=> wpc = "down"
  /\ Unready => started = 0 /\ published = 0 /\ gen = 0
  /\ wpc = "idle" => started = published
  /\ ~Unready /\ wpc # "idle" => started = published + 1
  /\ wpc \in {"idle", "copy"} => gen = published + 1
  /\ ~Unready /\ wpc \notin {"idle", "copy"} => gen = 0 /\ generation = published + 1

\* The buffer readers use holds the last update until its swap, the new one after.
BufInv ==
  /\ Unready => \A k \in Kinds : Whole(k, 1, 0)
  /\ wpc \in {"new_error", "new_error_old", "new_gen"} => off["data"] = 1 /\ off_old["data"] = 2
  /\ wpc = "new_gen" => off["error"] = 1 /\ off_old["error"] = 2
  /\ ~Unready => \A k \in Kinds : off[k] # 0 /\ off_old[k] # 0
  /\ wpc = "copy" =>
       \A k \in Kinds, f \in Fields :
         <<k, f>> \notin pending => buf[k][off_old[k]][f] = started
  /\ \A k \in Kinds :
       /\ Before(k) => off[k] # off_old[k] /\ Whole(k, off[k], published)
       /\ Before(k) /\ wpc \notin {"idle", "copy"} => Whole(k, off_old[k], started)
       /\ Between(k) => offset_tmp # off[k] /\ offset_tmp # 0
       /\ After(k) => off[k] # off_old[k]
       /\ Between(k) \/ After(k) => Whole(k, off[k], started)

\* As long as the generation a reader holds is current, what it has read is the
\* last update; once it is not, it never is again.
ReaderInv(r) ==
  /\ loads[r] = "each"
  /\ sms = "none" => rpc[r] = "idle"
  /\ rpc[r] # "idle" => floor[r] <= published
  /\ rpc[r] \in {"off", "field", "test", "test2", "done"} =>
       /\ rgen[r] <= published + 1 /\ (rgen[r] # 0 => floor[r] < rgen[r])
       /\ Unready => rgen[r] = 0
  /\ rpc[r] \in {"off", "field", "test"} /\ rgen[r] # 0 /\ rgen[r] = gen =>
       /\ \A f \in Fields \ todo[r] : got[r][f] = published
       /\ rpc[r] = "field" => ptr[r] = off[kind[r]]
  /\ rpc[r] = "test" => todo[r] = {}
  /\ rpc[r] \in {"test2", "done"} /\ rgen[r] # 0 => \A f \in Fields : got[r][f] = rgen[r] - 1

IInv == TypeOK /\ GenInv /\ BufInv /\ \A r \in Readers : ReaderInv(r)

\* Before the segment exists.
LEMMA InitInv ==
  ASSUME Favourable
  PROVE  Init => IInv
<1> SUFFICES ASSUME Init PROVE IInv
  OBVIOUS
<1>1. TypeOK
  BY TypeInit
<1>2. GenInv
  BY DEF Init, GenInv, Unready, Favourable
<1>3. BufInv
  BY DEF Init, BufInv, Unready, Before, Between, After, Whole, Kinds
<1>4. \A r \in Readers : ReaderInv(r)
  BY DEF Init, ReaderInv, Unready
<1> QED
  BY <1>1, <1>2, <1>3, <1>4 DEF IInv

\* A reader's step changes nothing a reader other than itself depends on.
LEMMA StepReader ==
  ASSUME Favourable, IInv, NEW r \in Readers, Call(r) \/ ReaderStep(r)
  PROVE  IInv'
<1> USE DEF segment, writer, past
<1>1. TypeOK'
  BY TypeReader DEF IInv
<1>2. UNCHANGED <<segment, writer>>
  BY DEF ReaderStep, Call, LoadGen, LoadOff, LoadField, Test, Test2, in_SKMwin, WindowOff,
         WindowField, Return, Goto
<1>3. GenInv' /\ BufInv'
  BY <1>2 DEF IInv, GenInv, BufInv, Unready, Before, Between, After, Whole
<1>4. ASSUME NEW s \in Readers, s # r PROVE ReaderInv(s)'
  <2>1. /\ rpc'[s] = rpc[s] /\ kind'[s] = kind[s] /\ rgen'[s] = rgen[s] /\ ptr'[s] = ptr[s]
        /\ loads'[s] = loads[s] /\ todo'[s] = todo[s] /\ got'[s] = got[s] /\ floor'[s] = floor[s]
    <3>0. TypeOK
      BY DEF IInv
    <3>1. CASE Call(r)
      BY <1>4, <3>0, <3>1 DEF Call, TypeOK
    <3>2. CASE LoadGen(r)
      BY <1>4, <3>0, <3>2 DEF LoadGen, TypeOK
    <3>3. CASE LoadOff(r)
      BY <1>4, <3>0, <3>3 DEF LoadOff, TypeOK
    <3>4. CASE LoadField(r)
      BY <1>4, <3>0, <3>4 DEF LoadField, TypeOK
    <3>5. ASSUME NEW place, Goto(r, place)
          PROVE  /\ rpc'[s] = rpc[s]
                 /\ UNCHANGED <<loads, kind, rgen, ptr, todo, got, floor>>
      BY <1>4, <3>0, <3>5 DEF Goto, TypeOK
    <3>6. CASE WindowOff(r)
      BY <1>4, <3>0, <3>6 DEF WindowOff, TypeOK
    <3>7. CASE WindowField(r)
      BY <1>4, <3>0, <3>7 DEF WindowField, TypeOK
    <3>8. CASE Return(r)
      BY <1>4, <3>0, <3>8 DEF Return, TypeOK
    <3> QED
      BY <3>1, <3>2, <3>3, <3>4, <3>5, <3>6, <3>7, <3>8 DEF ReaderStep, Test, Test2, in_SKMwin
  <2> QED
    BY <1>2, <1>4, <2>1 DEF IInv, ReaderInv, Unready
<1>5. ReaderInv(r)'
  <2>1. ReaderInv(r) /\ TypeOK /\ GenInv
    BY DEF IInv
  <2>2. CASE Call(r)
    BY <2>1, <2>2 DEF Call, ReaderInv, Unready, TypeOK, GenInv
  <2>3. CASE LoadGen(r)
    BY <2>1, <2>3 DEF LoadGen, ReaderInv, TypeOK, GenInv, Unready
  <2>4. CASE LoadOff(r)
    BY <2>1, <2>4 DEF LoadOff, ReaderInv, Unready, TypeOK, GenInv
  <2>5. CASE LoadField(r)
    <3>1. PICK f \in todo[r] :
            /\ got' = [got EXCEPT ![r] = [@ EXCEPT ![f] = At(kind[r], ptr[r], f)]]
            /\ todo' = [todo EXCEPT ![r] = @ \ {f}]
      BY <2>5, Zenon DEF LoadField
    <3>2. f \in Fields /\ kind[r] \in Kinds
      BY <2>1 DEF TypeOK
    <3>3. ASSUME rgen[r] # 0, rgen[r] = gen
          PROVE  At(kind[r], ptr[r], f) = published
      <4>1. rpc[r] = "field" /\ ptr[r] = off[kind[r]]
        BY <2>1, <2>5, <3>3 DEF LoadField, ReaderInv, Unready
      <4>2. wpc \in {"idle", "copy"}
        BY <2>1, <3>3, <4>1 DEF ReaderInv, GenInv, Unready
      <4>3. Whole(kind[r], off[kind[r]], published) /\ off[kind[r]] # 0
        BY <3>2, <4>2 DEF IInv, BufInv, Before, Unready
      <4> QED
        BY <3>2, <4>1, <4>3 DEF Whole, At
    <3>4. got'[r][f] = At(kind[r], ptr[r], f) /\ \A g \in Fields \ {f} : got'[r][g] = got[r][g]
      BY <2>1, <3>1, <3>2 DEF TypeOK
    <3>5. rpc'[r] \in {"test", "off"} /\ (rpc'[r] = "test" => todo'[r] = {})
      BY <2>1, <2>5 DEF LoadField, TypeOK, ReaderInv, Unready
    <3>6. todo'[r] = todo[r] \ {f}
      BY <2>1, <3>1 DEF TypeOK
    <3> QED
      BY <2>1, <2>5, <3>2, <3>3, <3>4, <3>5, <3>6 DEF LoadField, ReaderInv, Unready
  <2>6. CASE Test(r)
    <3>1. gen # 0 => gen = published + 1
      BY <2>1 DEF GenInv
    <3>2. loads[r] = "each" /\ UNCHANGED <<rgen, got, floor, todo, loads, kind, ptr>>
      BY <2>1, <2>6 DEF Test, Goto, ReaderInv
    <3>3. rpc'[r] = IF rgen[r] # gen THEN "gen" ELSE "test2"
      BY <2>1, <2>6, <3>2 DEF Test, Goto, TypeOK
    <3>4. published \in Nat /\ gen \in Nat
      BY <2>1 DEF TypeOK
    <3> QED
      BY <1>2, <2>1, <2>6, <3>1, <3>2, <3>3, <3>4 DEF Test, ReaderInv, Unready
  <2>7. CASE Test2(r)
    BY <2>1, <2>7 DEF Test2, Goto, ReaderInv, Unready, TypeOK
  <2>8. CASE WindowOff(r) \/ WindowField(r)
    BY <2>1, <2>8 DEF WindowOff, WindowField, ReaderInv, Unready, TypeOK
  <2>9. CASE Return(r)
    BY <2>1, <2>9 DEF Return, ReaderInv, Unready, TypeOK
  <2> QED
    BY <2>2, <2>3, <2>4, <2>5, <2>6, <2>7, <2>8, <2>9 DEF ReaderStep, in_SKMwin
<1> QED
  BY <1>1, <1>3, <1>4, <1>5 DEF IInv

\* sms_init_writer: gen is the last thing it sets.
LEMMA StepCreate ==
  ASSUME Favourable, IInv, sms_init_writer
  PROVE  IInv'
<1> USE DEF reader, segment, past
<1>0. TypeOK' /\ TypeOK /\ GenInv /\ BufInv /\ \A r \in Readers : ReaderInv(r)
  BY TypeWriter DEF IInv
<1>1. UNCHANGED <<build, buf, started, published, reader>> /\ Unready
  BY <1>0 DEF sms_init_writer, InitSegment, Attach, NewOff, NewOld, NewGen, NewPair,
              GenInv, Unready
<1>2. /\ sms' # "wrecked" /\ (sms' = "none" <=> wpc' = "down")
      /\ Unready' => gen' = 0
      /\ ~Unready' => wpc' = "idle" /\ gen' = 1
  BY <1>0 DEF sms_init_writer, InitSegment, Attach, NewOff, NewOld, NewGen, NewPair,
              GenInv, Unready
<1>3. GenInv'
  BY <1>0, <1>1, <1>2 DEF GenInv, Unready, TypeOK
<1> DEFINE OffsetsSet ==
      /\ wpc \in {"new_error", "new_error_old", "new_gen", "idle"} =>
           off["data"] = 1 /\ off_old["data"] = 2
      /\ wpc \in {"new_gen", "idle"} => off["error"] = 1 /\ off_old["error"] = 2
<1>4. OffsetsSet'
  <2>1. CASE Attach
    BY <1>0, <2>1 DEF Attach, GenInv
  <2>2. ASSUME NewOff("data", "new_data", "new_data_old") PROVE OffsetsSet'
    BY <2>2 DEF NewOff
  <2>3. ASSUME NewOld("data", "new_data_old", "new_error") PROVE OffsetsSet'
    BY <1>0, <2>3 DEF NewOld, TypeOK, Kinds
  <2>4. ASSUME NewOff("error", "new_error", "new_error_old") PROVE OffsetsSet'
    BY <1>0, <2>4 DEF NewOff, BufInv, TypeOK, Kinds
  <2>5. ASSUME NewOld("error", "new_error_old", "new_gen") PROVE OffsetsSet'
    BY <1>0, <2>5 DEF NewOld, BufInv, TypeOK, Kinds
  <2>6. CASE NewGen
    BY <1>0, <2>6 DEF NewGen, BufInv, GenInv
  <2>7. ASSUME NEW k, NEW at, NEW then, NewPair(k, at, then) PROVE FALSE
    BY <1>0, <2>7 DEF NewPair, GenInv
  <2> QED
    BY <2>1, <2>2, <2>3, <2>4, <2>5, <2>6, <2>7 DEF sms_init_writer, InitSegment
<1>5. BufInv'
  <2>1. \A k \in Kinds : Whole(k, 1, 0)'
    BY <1>0, <1>1 DEF BufInv, Whole
  <2>2. CASE Unready'
    BY <1>4, <2>1, <2>2 DEF BufInv, Unready, Before, Between, After
  <2>3. CASE ~Unready'
    BY <1>0, <1>1, <1>2, <1>4, <2>1, <2>3
       DEF BufInv, GenInv, Unready, Before, Between, After, Kinds
  <2> QED
    BY <2>2, <2>3
<1>6. \A r \in Readers : ReaderInv(r)'
  <2>1. ASSUME NEW r \in Readers PROVE ReaderInv(r)'
    <3>1. ReaderInv(r) /\ gen = 0 /\ published = 0
      BY <1>0, <1>1 DEF GenInv
    <3>2. sms' = "none" => sms = "none"
      BY <1>0 DEF sms_init_writer, InitSegment, Attach, NewOff, NewOld, NewGen, NewPair
    <3> QED
      BY <1>1, <3>1, <3>2 DEF ReaderInv
  <2> QED
    BY <2>1
<1> QED
  BY <1>0, <1>3, <1>5, <1>6 DEF IInv
=============================================================================
