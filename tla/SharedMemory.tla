---------------------------- MODULE SharedMemory ----------------------------
(***************************************************************************)
(* The IPC shared memory segment through which the daemon publishes the    *)
(* clock parameters and any process linked with libradclock reads them:    *)
(* update_ipc_shared_memory on one side, the do ... while loops on the     *)
(* generation number in radapi-time.c and radapi-getset.c on the other.    *)
(*                                                                         *)
(* One step is one access to the segment.  The n-th update writes the      *)
(* value n in every field, so that a reader's fields tell which update     *)
(* each of them comes from.  sms->gen is neither volatile nor atomic: the  *)
(* accesses the object code makes depend on how the daemon and the library *)
(* were compiled (see the README for how they were obtained).              *)
(***************************************************************************)
EXTENDS Naturals

CONSTANTS
  Readers,        \* threads of processes that read the clock
  Fields,         \* fields of a radclock_data (or radclock_error) structure
  UINT_MAX,       \* largest value of the unsigned int sms->gen
  MaxUpdates,     \* bound: updates over all the incarnations of the daemon
  MaxCrashes,     \* bound: times the daemon is killed
  Builds          \* how the daemon and the library may have been compiled

ASSUME SharedMemoryAssumption ==
  /\ UINT_MAX \in Nat \ {0} /\ MaxUpdates \in Nat /\ MaxCrashes \in Nat
  /\ Fields # {} /\ Builds \subseteq {"unoptimised", "optimised"}

Kinds == {"data", "error"}

\* The two buffers of a kind are at the offsets 1 and 2; offset 0 is the head of the
\* segment itself, where gen and the offsets are.
Buffers == [Kinds -> [{1, 2} -> [Fields -> Nat]]]

\* What a field read at offset 0 holds: part of the head, no update's value.
Junk == MaxUpdates + 1

VARIABLES
  sms,        \* "none" before the segment is created, "made" after; "wrecked" once an
              \* update has been copied over its head
  gen,        \* sms->gen
  off,        \* kind -> the buffer readers use: data_off, error_off
  off_old,    \* kind -> the other buffer: data_off_old, error_off_old
  buf,        \* kind -> buffer -> field -> value: bufdata, buferr
  build,      \* which of the two builds is installed
  wpc,        \* writer: place in sms_init_writer or update_ipc_shared_memory, or "down"
  pending,    \* writer: fields not copied yet
  generation, \* writer: local copy of gen
  offset_tmp, \* writer: local variable
  started,    \* updates begun so far: the stamp for each has been captured
  published,  \* history: the last update completed
  crashes,    \* times the daemon has been killed
  rpc,        \* reader: place in the loop
  loads,      \* reader: the loads the function called makes.  "each": one for
              \* every mention of sms->gen and SMS_DATA(sms); "call": one of
              \* data_off in a pass, one of gen in a test, where the loop contains
              \* a call; "once": the same, but gen is loaded once for all
  kind,       \* reader: which structure it reads
  rgen,       \* reader: its local variable generation
  ptr,        \* reader: buffer SMS_DATA or SMS_ERROR has been evaluated to
  todo,       \* reader: fields not read yet in this pass
  got,        \* reader: field -> value read
  window,     \* reader: the phat in_SKMwin has read
  floor,      \* history: the last update completed when the call was made
  overtaken,  \* history, reader, optimised: what has happened to the buffers of its kind
              \* since it took the offset.  0: nothing; 1: they were swapped; 2: and then
              \* another update began
  round       \* history, reader: gen has been set back to 1 in this pass

segment == <<sms, gen, off, off_old, buf>>
writer == <<build, wpc, pending, generation, offset_tmp, started, published, crashes>>
reader == <<rpc, loads, kind, rgen, ptr, todo, got, window, floor>>
past == <<overtaken, round>>
vars == <<sms, gen, off, off_old, buf, build, wpc, pending, generation, offset_tmp,
          started, published, crashes, rpc, loads, kind, rgen, ptr, todo, got, window,
          floor, overtaken, round>>

-----------------------------------------------------------------------------
(* The daemon *)

\* shmget: a new segment is all zeros until it is initialised, an existing one is used
\* as it was left.
Attach ==
  /\ wpc = "down"
  /\ IF sms = "none"
     THEN sms' = "made" /\ wpc' = "new_data"
     ELSE UNCHANGED sms /\ wpc' = "idle"
  /\ UNCHANGED <<gen, off, off_old, buf, build, pending, generation, offset_tmp, started,
                 published, crashes, reader, past>>

\* The offsets of a new segment, one store each.
NewOff(k, at, then) ==
  /\ build = "unoptimised" /\ wpc = at
  /\ off' = [off EXCEPT ![k] = 1]
  /\ wpc' = then
  /\ UNCHANGED <<sms, gen, off_old, buf, build, pending, generation, offset_tmp, started,
                 published, crashes, reader, past>>

NewOld(k, at, then) ==
  /\ build = "unoptimised" /\ wpc = at
  /\ off_old' = [off_old EXCEPT ![k] = off[k] + 1]
  /\ wpc' = then
  /\ UNCHANGED <<sms, gen, off, buf, build, pending, generation, offset_tmp, started,
                 published, crashes, reader, past>>

\* The optimised object code: one store for a pair, and gen before the second pair.
NewPair(k, at, then) ==
  /\ build = "optimised" /\ wpc = at
  /\ off' = [off EXCEPT ![k] = 1]
  /\ off_old' = [off_old EXCEPT ![k] = 2]
  /\ wpc' = then
  /\ UNCHANGED <<sms, gen, buf, build, pending, generation, offset_tmp, started,
                 published, crashes, reader, past>>

\* sms->gen = 1
NewGen ==
  /\ wpc = "new_gen"
  /\ gen' = 1
  /\ wpc' = IF build = "optimised" THEN "new_error" ELSE "idle"
  /\ UNCHANGED <<sms, off, off_old, buf, build, pending, generation, offset_tmp, started,
                 published, crashes, reader, past>>

\* What follows shmget and shmat in sms_init_writer, when the segment is new.
InitSegment ==
  \/ NewOff("data", "new_data", "new_data_old")
  \/ NewOld("data", "new_data_old", "new_error")
  \/ NewOff("error", "new_error", "new_error_old")
  \/ NewOld("error", "new_error_old", "new_gen")
  \/ NewGen
  \/ NewPair("data", "new_data", "new_gen")
  \/ NewPair("error", "new_error", "idle")

sms_init_writer == Attach \/ InitSegment

\* process_stamp calls update_ipc_shared_memory with the data of a new stamp.
CallUpdate ==
  /\ wpc = "idle" /\ started < MaxUpdates
  /\ started' = started + 1
  /\ pending' = Kinds \X Fields
  /\ wpc' = "copy"
  /\ overtaken' = [r \in Readers |-> IF overtaken[r] = 1 THEN 2 ELSE overtaken[r]]
  /\ UNCHANGED <<segment, build, generation, offset_tmp, published, crashes, reader, round>>

\* The buffers after one field has been copied.
Stored(k, b, f, v) ==
  [kk \in Kinds |-> [bb \in {1, 2} |-> [ff \in Fields |->
     IF kk = k /\ bb = b /\ ff = f THEN v ELSE buf[kk][bb][ff]]]]

\* Fields of kind k are what the two memcpy, data then error, copy next.
Copying(k) ==
  /\ wpc = "copy"
  /\ \E f \in Fields : <<k, f>> \in pending
  /\ k = "error" => \A f \in Fields : <<"data", f>> \notin pending

\* A field is copied into the buffer not in use.
Copy ==
  /\ sms = "made"
  /\ \E k \in Kinds, f \in Fields :
       /\ Copying(k) /\ <<k, f>> \in pending /\ off_old[k] # 0
       /\ buf' = Stored(k, off_old[k], f, started)
       /\ pending' = pending \ {<<k, f>>}
  /\ UNCHANGED <<build, sms, gen, off, off_old, wpc, generation, offset_tmp, started,
                 published, crashes, reader, past>>

\* The offset was never set: the copy goes over gen and the offsets.
CopyOverHead ==
  /\ sms = "made"
  /\ \E k \in Kinds :
       /\ Copying(k) /\ off_old[k] = 0
       /\ pending' = pending \ ({k} \X Fields)
  /\ sms' = "wrecked" /\ gen' \in 0..UINT_MAX
  /\ UNCHANGED <<build, off, off_old, buf, wpc, generation, offset_tmp, started, published,
                 crashes, reader, past>>

\* The daemon follows an offset that is no longer one, and dies of it.
CopyFaults ==
  /\ sms = "wrecked" /\ wpc = "copy" /\ pending # {}
  /\ wpc' = "down" /\ pending' = {} /\ generation' = 0 /\ offset_tmp' = 0
  /\ UNCHANGED <<segment, build, started, published, crashes, reader, past>>

\* generation = sms->gen; sms->gen = 0
ZeroGen ==
  /\ build = "unoptimised" /\ wpc = "copy" /\ pending = {}
  /\ generation' = gen /\ gen' = 0
  /\ wpc' = "data_off"
  /\ UNCHANGED <<build, sms, off, off_old, buf, pending, offset_tmp, started, published, crashes, reader, past>>

\* data_off = data_off_old, then data_off_old = offset_tmp; error_off likewise.
SwapOff(k, at, then) ==
  /\ build = "unoptimised" /\ wpc = at
  /\ offset_tmp' = off[k]
  /\ off' = [off EXCEPT ![k] = off_old[k]]
  /\ wpc' = then
  /\ UNCHANGED <<build, sms, gen, off_old, buf, pending, generation, started, published, crashes, reader, past>>

\* Mutant: the spare buffer is taken to be the one after the current buffer.
SwapOldNext(k, at, then) ==
  /\ build = "unoptimised" /\ wpc = at
  /\ off_old' = [off_old EXCEPT ![k] = off[k] + 1]
  /\ wpc' = then
  /\ UNCHANGED <<build, sms, gen, off, buf, pending, generation, offset_tmp, started,
                 published, crashes, reader, past>>

SwapOld(k, at, then) ==
  /\ build = "unoptimised" /\ wpc = at
  /\ off_old' = [off_old EXCEPT ![k] = offset_tmp]
  /\ wpc' = then
  /\ UNCHANGED <<build, sms, gen, off, buf, pending, generation, offset_tmp, started,
                 published, crashes, reader, past>>

\* Mutant: the generation is put back as it was.
StoreGenSame ==
  /\ build = "unoptimised" /\ wpc = "gen"
  /\ gen' = generation
  /\ published' = started
  /\ wpc' = "idle" /\ generation' = 0 /\ offset_tmp' = 0
  /\ UNCHANGED <<build, sms, off, off_old, buf, pending, started, crashes, reader, past>>

\* if (generation++ == 0) generation = 1; sms->gen = generation
StoreGen ==
  /\ build = "unoptimised" /\ wpc = "gen"
  /\ gen' = IF generation = 0 THEN 1 ELSE (generation + 1) % (UINT_MAX + 1)
  /\ round' = [r \in Readers |-> round[r] \/ generation = 0]
  /\ published' = started
  /\ wpc' = "idle" /\ generation' = 0 /\ offset_tmp' = 0
  /\ UNCHANGED <<build, sms, off, off_old, buf, pending, started, crashes, reader, overtaken>>

\* The optimised object code: gen is incremented in place before the swap, and
\* each pair of offsets is exchanged by one store.
BumpGen ==
  /\ build = "optimised" /\ wpc = "copy" /\ pending = {}
  /\ gen' = (gen + 1) % (UINT_MAX + 1)
  /\ wpc' = "data_off"
  /\ UNCHANGED <<build, sms, off, off_old, buf, pending, generation, offset_tmp, started,
                 published, crashes, reader, past>>

SwapPair(k, at, then) ==
  /\ build = "optimised" /\ wpc = at
  /\ off' = [off EXCEPT ![k] = off_old[k]]
  /\ off_old' = [off_old EXCEPT ![k] = off[k]]
  /\ published' = IF then = "idle" THEN started ELSE published
  /\ wpc' = then
  /\ overtaken' = [r \in Readers |-> IF kind[r] = k /\ overtaken[r] = 0 THEN 1
                                     ELSE overtaken[r]]
  /\ UNCHANGED <<build, sms, gen, buf, pending, generation, offset_tmp, started, crashes,
                 reader, round>>

\* The daemon is killed; the segment stays.
Crash ==
  /\ wpc # "down" /\ crashes < MaxCrashes
  /\ crashes' = crashes + 1
  /\ wpc' = "down" /\ pending' = {} /\ generation' = 0 /\ offset_tmp' = 0
  /\ UNCHANGED <<segment, build, started, published, reader, past>>

update_ipc_shared_memory ==
  \/ Copy \/ CopyOverHead \/ CopyFaults \/ ZeroGen
  \/ SwapOff("data", "data_off", "data_off_old")
  \/ SwapOld("data", "data_off_old", "error_off")
  \/ SwapOff("error", "error_off", "error_off_old")
  \/ SwapOld("error", "error_off_old", "gen")
  \/ StoreGen
  \/ BumpGen
  \/ SwapPair("data", "data_off", "error_off")
  \/ SwapPair("error", "error_off", "idle")

-----------------------------------------------------------------------------
(* A reader *)

\* radclock_gettime, radclock_elapsed, radclock_duration or a getter; sms_init_reader
\* has attached the segment, which may not be initialised yet.
Call(r) ==
  /\ sms # "none" /\ rpc[r] \in {"idle", "killed"}
  /\ \E k \in Kinds : kind' = [kind EXCEPT ![r] = k]
  /\ \E l \in IF build = "optimised" THEN {"call", "once"} ELSE {"each"} :
       loads' = [loads EXCEPT ![r] = l]
  /\ floor' = [floor EXCEPT ![r] = published]
  /\ rpc' = [rpc EXCEPT ![r] = "gen"]
  /\ UNCHANGED <<segment, writer, rgen, ptr, todo, got, window, past>>

\* Mutant: a retry keeps the generation loaded first.
LoadGenFirst(r) ==
  /\ rpc[r] = "gen"
  /\ rgen' = [rgen EXCEPT ![r] = IF @ = 0 THEN gen ELSE @]
  /\ todo' = [todo EXCEPT ![r] = Fields] /\ got' = [got EXCEPT ![r] = [f \in Fields |-> 0]]
  /\ rpc' = [rpc EXCEPT ![r] = "off"]
  /\ round' = [round EXCEPT ![r] = FALSE]
  /\ UNCHANGED <<segment, writer, loads, kind, ptr, window, floor, overtaken>>

\* generation = sms->gen; nothing is read yet in this pass.
LoadGen(r) ==
  /\ rpc[r] = "gen"
  /\ rgen' = [rgen EXCEPT ![r] = gen]
  /\ todo' = [todo EXCEPT ![r] = Fields] /\ got' = [got EXCEPT ![r] = [f \in Fields |-> 0]]
  /\ rpc' = [rpc EXCEPT ![r] = "off"]
  /\ round' = [round EXCEPT ![r] = FALSE]
  /\ UNCHANGED <<segment, writer, loads, kind, ptr, window, floor, overtaken>>

\* SMS_DATA(sms), SMS_ERROR(sms).  Where the head has been overwritten they lead out of
\* the segment, and the process dies.
LoadOff(r) ==
  /\ rpc[r] = "off"
  /\ ptr' = [ptr EXCEPT ![r] = off[kind[r]]]
  /\ rpc' = [rpc EXCEPT ![r] = IF sms = "wrecked" THEN "killed" ELSE "field"]
  /\ overtaken' = [overtaken EXCEPT ![r] = 0]
  /\ UNCHANGED <<segment, writer, loads, kind, rgen, todo, got, window, floor, round>>

\* Field f of the structure at offset b.
At(k, b, f) == IF b = 0 THEN Junk ELSE buf[k][b][f]

\* A field is read through that pointer, which is computed again for the next one
\* unless the compiler keeps it in a register.
LoadField(r) ==
  /\ rpc[r] = "field"
  /\ \E f \in todo[r] :
       /\ got' = [got EXCEPT ![r] = [@ EXCEPT ![f] = At(kind[r], ptr[r], f)]]
       /\ todo' = [todo EXCEPT ![r] = @ \ {f}]
  /\ rpc' = [rpc EXCEPT ![r] = IF todo'[r] = {} THEN "test"
                               ELSE IF loads[r] = "each" THEN "off" ELSE "field"]
  /\ UNCHANGED <<segment, writer, loads, kind, rgen, ptr, window, floor, past>>

Goto(r, place) ==
  /\ rpc' = [rpc EXCEPT ![r] = place]
  /\ UNCHANGED <<segment, writer, loads, kind, rgen, ptr, todo, got, window, floor, past>>

\* while (generation != sms->gen || !sms->gen): the two mentions of sms->gen are
\* two loads, one load, or none; with none and zero in hand the loop spins for ever.
Test(r) ==
  /\ rpc[r] = "test"
  /\ \/ loads[r] = "each" /\ Goto(r, IF rgen[r] # gen THEN "gen" ELSE "test2")
     \/ loads[r] = "call" /\ Goto(r, IF rgen[r] # gen \/ gen = 0 THEN "gen" ELSE "done")
     \/ loads[r] = "once" /\ Goto(r, IF rgen[r] = 0 THEN "test" ELSE "done")

\* The second mention.
Test2(r) ==
  /\ rpc[r] = "test2"
  /\ Goto(r, IF gen = 0 THEN "gen" ELSE "done")

\* Mutant: the spare buffer, which SMS_DATAold names, in place of the current one.
WindowOffOld(r) ==
  /\ rpc[r] = "done" /\ kind[r] = "data"
  /\ ptr' = [ptr EXCEPT ![r] = off_old["data"]]
  /\ rpc' = [rpc EXCEPT ![r] = IF sms = "wrecked" THEN "killed" ELSE "window"]
  /\ UNCHANGED <<segment, writer, loads, kind, rgen, todo, got, window, floor, past>>

\* in_SKMwin, which radclock_elapsed and radclock_duration call after the loop: phat is
\* read once more, under no generation.
WindowOff(r) ==
  /\ rpc[r] = "done" /\ kind[r] = "data"
  /\ ptr' = [ptr EXCEPT ![r] = off["data"]]
  /\ rpc' = [rpc EXCEPT ![r] = IF sms = "wrecked" THEN "killed" ELSE "window"]
  /\ UNCHANGED <<segment, writer, loads, kind, rgen, todo, got, window, floor, past>>

WindowField(r) ==
  /\ rpc[r] = "window"
  /\ \E f \in Fields : window' = [window EXCEPT ![r] = At("data", ptr[r], f)]
  /\ rpc' = [rpc EXCEPT ![r] = "windowed"]
  /\ UNCHANGED <<segment, writer, loads, kind, rgen, ptr, todo, got, floor, past>>

in_SKMwin(r) == WindowOff(r) \/ WindowField(r)

\* The getters and radclock_gettime return when the loop ends, the others after the test;
\* the locals are gone.
Return(r) ==
  /\ rpc[r] \in {"done", "windowed"}
  /\ rpc' = [rpc EXCEPT ![r] = "idle"] /\ loads' = [loads EXCEPT ![r] = "each"]
  /\ kind' = [kind EXCEPT ![r] = "data"]
  /\ rgen' = [rgen EXCEPT ![r] = 0] /\ ptr' = [ptr EXCEPT ![r] = 0]
  /\ todo' = [todo EXCEPT ![r] = Fields] /\ got' = [got EXCEPT ![r] = [f \in Fields |-> 0]]
  /\ window' = [window EXCEPT ![r] = 0] /\ floor' = [floor EXCEPT ![r] = 0]
  /\ overtaken' = [overtaken EXCEPT ![r] = 0] /\ round' = [round EXCEPT ![r] = FALSE]
  /\ UNCHANGED <<segment, writer>>

ReaderStep(r) ==
  LoadGen(r) \/ LoadOff(r) \/ LoadField(r) \/ Test(r) \/ Test2(r) \/ in_SKMwin(r) \/ Return(r)
-----------------------------------------------------------------------------
Init ==
  /\ sms = "none" /\ gen = 0
  /\ off = [k \in Kinds |-> 0] /\ off_old = [k \in Kinds |-> 0]
  /\ buf = [k \in Kinds |-> [b \in {1, 2} |-> [f \in Fields |-> 0]]]
  /\ build \in Builds /\ wpc = "down" /\ pending = {} /\ generation = 0 /\ offset_tmp = 0
  /\ started = 0 /\ published = 0 /\ crashes = 0
  /\ rpc = [r \in Readers |-> "idle"] /\ loads = [r \in Readers |-> "each"]
  /\ kind = [r \in Readers |-> "data"]
  /\ rgen = [r \in Readers |-> 0] /\ ptr = [r \in Readers |-> 0]
  /\ todo = [r \in Readers |-> Fields] /\ got = [r \in Readers |-> [f \in Fields |-> 0]]
  /\ window = [r \in Readers |-> 0] /\ floor = [r \in Readers |-> 0]
  /\ overtaken = [r \in Readers |-> 0] /\ round = [r \in Readers |-> FALSE]

Next ==
  \/ sms_init_writer \/ CallUpdate \/ update_ipc_shared_memory \/ Crash
  \/ \E r \in Readers : Call(r) \/ ReaderStep(r)

Spec == Init /\ [][Next]_vars

\* The operating system runs every thread that is not blocked.  Nothing obliges
\* a new stamp to arrive, a daemon to be started again or a process to read.
FairSpec ==
  /\ Spec /\ WF_vars(InitSegment) /\ WF_vars(update_ipc_shared_memory)
  /\ \A r \in Readers : WF_vars(ReaderStep(r))

-----------------------------------------------------------------------------
(* Properties *)

\* Type invariant.
TypeOK ==
  /\ sms \in {"none", "made", "wrecked"} /\ gen \in 0..UINT_MAX
  /\ off \in [Kinds -> 0..2] /\ off_old \in [Kinds -> 0..2]
  /\ buf \in Buffers
  /\ build \in Builds
  /\ wpc \in {"down", "new_data", "new_data_old", "new_error", "new_error_old", "new_gen",
             "idle", "copy", "data_off", "data_off_old", "error_off", "error_off_old", "gen"}
  /\ wpc = "new_data_old" => off["data"] = 1
  /\ wpc = "new_error_old" => off["error"] = 1
  /\ pending \subseteq Kinds \X Fields
  /\ generation \in 0..UINT_MAX /\ offset_tmp \in 0..2
  /\ started \in 0..MaxUpdates /\ published \in 0..started /\ crashes \in Nat
  /\ rpc \in [Readers -> {"idle", "gen", "off", "field", "test", "test2", "done", "window",
                          "windowed", "killed"}]
  /\ loads \in [Readers -> {"each", "call", "once"}]
  /\ kind \in [Readers -> Kinds] /\ rgen \in [Readers -> 0..UINT_MAX]
  /\ ptr \in [Readers -> 0..2] /\ todo \in [Readers -> SUBSET Fields]
  /\ got \in [Readers -> [Fields -> Nat]] /\ window \in [Readers -> Nat]
  /\ floor \in [Readers -> Nat]
  /\ overtaken \in [Readers -> 0..2] /\ round \in [Readers -> BOOLEAN]

\* What a call returns from an initialised segment is one update, whole ("Swap pointers
\* and bump generation number to ensure consistency", pthread_dataproc.c:89), and not an
\* older one than the last that was complete when the call was made.
SnapshotConsistent ==
  \A r \in Readers : rpc[r] = "done" /\ ptr[r] # 0 =>
    \E u \in floor[r]..started : \A f \in Fields : got[r][f] = u

\* A call returns anything else only in these cases.  In the optimised build, where the
\* generation protects nothing: since the reader took the offset the buffers of its kind
\* have been swapped and a further update has begun, which rewrites the buffer it holds
\* (one update alone the double buffer absorbs); or it took the offset of the errors
\* before it was set, which that build does after it has set gen.  In the other: the
\* call has accepted the generation zero, loaded during an update that ended between
\* the two loads of the loop's test; or a daemon killed between the two stores of a swap
\* has left both offsets on one buffer, which every later update rewrites in place; or
\* gen was set back to 1 during the pass, and has come round to what the reader holds.
MixedOnlyIf ==
  \A r \in Readers : rpc[r] = "done" =>
    \/ \E u \in floor[r]..started : \A f \in Fields : got[r][f] = u
    \/ build = "optimised" /\ (overtaken[r] = 2 \/ (kind[r] = "error" /\ ptr[r] = 0))
    \/ build = "unoptimised" /\ (rgen[r] = 0 \/ off[kind[r]] = off_old[kind[r]] \/ round[r])

\* in_SKMwin reads phat outside the loop (radapi-time.c:240), and yet what it reads is
\* never older than the last update complete when the call was made, nor part of an
\* uninitialised segment: the offset it follows always leads to a buffer that has been
\* copied whole, whatever was killed in between.
WindowFresh ==
  \A r \in Readers : rpc[r] = "windowed" => window[r] \in floor[r]..started

\* The loops on the generation end once the update that disturbed them is over: a
\* call that does not return has met a generation that stays at zero, because it
\* wrapped or the daemon was killed during an update or before it had initialised the
\* segment, or holds a zero it never loads again.  A process that dies instead has met a
\* segment overwritten by a daemon that adopted it half initialised.
HangsOnlyIf ==
  \A r \in Readers : rpc[r] = "gen" ~>
    \/ rpc[r] = "done"
    \/ gen = 0 /\ wpc \in {"down", "idle", "copy"}
    \/ loads[r] = "once" /\ rgen[r] = 0
    \/ rpc[r] = "killed" /\ sms = "wrecked" /\ crashes > 0
=============================================================================
