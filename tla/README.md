# RADclock: a verification project in TLA+

RADclock is a daemon that synchronises a feed-forward clock with NTP servers, and
a library, libradclock, through which other processes read that clock. This
directory holds TLA+ models of the parts of it where concurrency, crashes,
signals, memory reuse and incremental bookkeeping make correctness hard to test;
TLC configurations that check them on small instances; and TLAPS proofs of the
most important statements for every value of the constants.

`PROJECT.json` is the index: components, runs, the source lines each definition
models (`map`), the hazards and the properties that cover them, the theorems,
and for every checked property a plausible bug (`mutants`) under which TLC finds
it violated. Paths below are relative to `src/`.

## 1. The system: parts and interactions

The live daemon is one process with these threads:

| thread | code | does |
|---|---|---|
| MAIN | `radclock/radclock_main.c` (`start_live`), `rawdata.c` | starts the others, captures packets with `pcap_loop`, receives signals, stops and joins |
| PROC | `pthread_dataproc.c`, `create_stamp.c`, `sync_bidir.c`, `sync_history.c` | pairs packets into stamps, runs the clock algorithm, publishes the result |
| TRIGGER | `pthread_trigger.c`, `pthread_mgr.c`, `client_ntp.c`, `FIFO.c` | one timer per server; sends the NTP requests |
| NTP_SERV, VM_UDP_SERV | `pthread_ntpserver.c`, `virtual_machine.c` | serve the clock to others |
| FIXEDPOINT | `pthread_mgr.c`, `fixedpoint.c` | feeds kernels older than version 2 |

A timer expires; its SIGALRM handler queues a server ID and wakes TRIGGER, which
sends a request. The request and the reply are captured by MAIN, which inserts
them in the raw data queue. PROC takes them out, pairs them in the stamp queue,
vets the stamp, gives it to the algorithm of its server, and writes the clock
parameters to a shared memory segment. Readers in other processes take them from
there without any lock. SIGHUP makes the daemon read its configuration again,
SIGTERM ends it.

Inventory (details and source files: `components` in `PROJECT.json`):

| part | state | concurrent with | modelled |
|---|---|---|---|
| raw data queue | linked list of bundles | MAIN, PROC | `RawDataQueue`, `PacketStream` (not the Spy source) |
| stamp queue | list of half and full stamps | – | `StampQueue` |
| stamp vetting | last stamp per server | – | `StampPath` (composition with the stamp queue) |
| shared memory | generation, offsets, two buffers twice | PROC, reader processes | `SharedMemory` |
| sending grid | timers, ring, mutexes, condition variable | TRIGGER, handlers, loggers | `GridAlarm`, `AlarmQueue` |
| life cycle | threads, stop flags, signals | all | `Daemon` (not replay) |
| histories, minima, windows | algorithm state | – | `History`, `RttMinima` |
| rest of the algorithm | one-way delays, phat, plocal, theta | – | planned |
| rest of `process_stamp` | starvation, leap, preferred server, FBclock | servers | planned |
| NTP client exchange | socket, timeouts, retries | PROC | planned |
| NTP and VM servers | copies of `rad_data` | PROC | planned |
| configuration | values and update mask | MAIN, PROC | planned |
| FIXEDPOINT arithmetic | scaled integers | PROC | planned |
| logging | a mutex | all | the mutex, in `GridAlarm` and `Daemon` |
| stamp sources, output files, kernel wrappers | files, devices | – | no: I/O with hardly any state |
| kernel patches, tests, examples, tools | – | – | no: outside the daemon |

## 2. Modules

`X_proofs` holds the theorems about `X` (those about `SharedMemory` are spread over
five modules, see section 4); `MCX` gives `X` its finite sets.
A definition whose comment begins with "Mutant:" is a bug put in on purpose. It is
used by no specification.

### `StampQueue`, `StampPath` (`create_stamp.c`, `pthread_dataproc.c`)

`q` is the linked list, as a set of elements that carry their insertion rank:
the code inserts only at the head. `push_client_halfstamp` and
`push_server_halfstamp` are one call of `insertandmatch_halfstamp` each, with
the match, the trim of a full queue, and, after a match, the removal of the
oldest fullstamp and the cleaning scan that follows in the same call
(`get_fullstamp_from_queue_andclean`). Packets may be lost (`MissedRequest`, or
simply never taken).

The scan goes on comparing with `full_st` after freeing the element that holds
it (line 919). With `FreedIntact = FALSE` what it decides from then on is
arbitrary (`Undecided`).

`StampPath` adds the vetting in `process_stamp`: unknown servers, the first stamp
that is not tested, `insane_bidir_stamp`, and the recording of `laststamp`
whatever the verdict. Ids, servers and counter values are abstract; server
timestamps are reduced to whether they are in order (`causal`).

### `RawDataQueue`, `PacketStream` (`rawdata.c`)

One step is one access to shared memory or one lock or unlock. MAIN's stores to
`next`, `rdb_start` and `rdb_end` become visible one by one, in program order
(`InOrderStores`, as on x86) or in any order until the mutex is released. PROC
reads without the mutex. `PacketStream` is the abstract specification: each
captured packet handed over once, in order. The refinement mapping is the
identity on `captured`, `delivered` and `pkt`.

### `SharedMemory` (`update_ipc_shared_memory`, `radapi-time.c`, `radapi-getset.c`, `radapi-base.c`)

One step is one access to the segment. The n-th update writes n in every field,
so fields tell which update they come from. `sms->gen` and the offsets are plain
variables, so the accesses depend on the build. They were read from the object
code of gcc 12:

* `-O0` ("unoptimised"): every mention in the source is an access.
* `-O2`, the default of autoconf, to which `configure.ac` adds `-Wall -g`
  ("optimised"): `sms->gen = 0` is dropped; the generation is incremented in
  place before the offsets are swapped; each pair of offsets is exchanged by one
  16-byte store. Readers load the offset once in a pass. They load the
  generation again in the loop's test only where the loop contains a call
  (`loads = "call"`), else only once, and then spin for ever if it is zero
  (`"once"`).

`sms_init_writer` fills a new segment one store at a time; the optimised build
stores the two data offsets together, then `gen = 1`, then the two error offsets.
Until then an offset is 0, which is the head of the segment: what a reader takes
from there is `Junk`, and a daemon that was killed in between leaves a segment
whose next update goes over the head itself (`CopyOverHead`). From then on the
offsets lead anywhere, and who follows one dies (`"wrecked"`, `"killed"`). A daemon
killed anywhere leaves the segment as it is, and the next one adopts it.

`radclock_elapsed` and `radclock_duration` read phat once more after the loop, in
`in_SKMwin` and under no generation: `WindowOff` and `WindowField`.

### `GridAlarm`, `AlarmQueue` (`pthread_trigger.c`, `pthread_mgr.c`, `FIFO.c`, `client_ntp.c`, `verbose.c`)

POSIX timers, SIGALRM delivered to a thread among `Catchers`, the handler as a
frame on top of that thread (which makes no step of its own meanwhile), the ring
with its growing `int` indices, `alarm_mutex`, the condition variable with
spurious wake-ups, and the mutex inside `verbose`, which TRIGGER, the handler and
the threads in `Loggers` take. TRIGGER is stopped, joined and started again; the
timers of an earlier start live on, and a later start initialises `alarm_mutex`
whoever holds it (`trampled` records that it did so under a handler). A handler
that puts its alarm in a ring freed since it looked loses it. `AlarmQueue` is the abstract
specification of the ring, a bounded queue that drops its head; the refinement
mapping reads the sequence between `getID` and `putID`.

### `Daemon` (`radclock_main.c`, `pthread_mgr.c`)

MAIN's path through `start_live`, cut where it reads or writes `unix_signal` or
`pthread_flag_stop`; pcap's own break flag, which `pcap_breakloop` raises and a
broken loop clears; the five kinds of threads with their exits; `rehash_daemon`
switching servers on and off, failing (main() goes on) and exiting; failures of
`process_stamp`, `trigger_init` and the capture. The two stores that raise all
flags and lower PROC's (lines 902, 906) are one in the default build
(`RaiseFlags`) and two otherwise (`RaiseAll`, `SpareProc`); both are in `Next`.

SIGHUP and SIGTERM come at any moment after the handlers are installed, spaced in
any way. A signal runs its handler on MAIN, or, while MAIN is in a handler, on
another thread. The SIGHUP handler ends with a call of `verbose`, so it is a frame
(`handling`) in which the thread waits for `vmutex`; MAIN and every thread call
`verbose` in each of their steps, hence wait for it too (`CanLog`). Who is inside
`verbose` is settled when a SIGHUP comes (`InVerbose`): at other times it only
delays others.

### `History`, `RttMinima` (`sync_history.c`, `sync_bidir.c`)

`History` has the ring-buffer operations as operators on records. `RttMinima` is
the part of `RADalgo_bidir` that keeps minima and windows: `state` is the
corresponding part of `struct bidir_algostate`, an action is one stamp, possibly
with a reload (`update_state`) before it. A stamp is its RTT. The series is kept
in `raw` as well, so that incremental results can be compared with the
definition. `absent` is set when the code asks a history for an item it no longer
holds, for which `history_find` returns a NULL that callers dereference. In the
run the "fast" configuration has a shift window several stamps longer than the whole
history of the "slow" one, so that a reload makes the window grow (line 1172).

## 3. Runs

Each run asks one question. Passing:

| run | shows | bounds and why they suffice |
|---|---|---|
| `stamp_path` | stamps are paired causally, leave the queue in order, nothing stale stays behind; the input of the algorithm is strictly increasing; no plausible stamp is rejected | 4 ids, 2 servers (one not configured), 7 packets, capacity 3: overflow, matches around it, and both servers interleaved all occur; freed memory arbitrary |
| `raw_data_queue` | no null or freed bundle is touched, none leaks, `PacketStream` is implemented, every packet is delivered | 5 packets: the list is empty, has one bundle, and longer, with MAIN anywhere in an insertion; the theorems below need no bound |
| `shared_memory` | the only cases in which a reader returns a mixture (`MixedOnlyIf`) or never returns (`HangsOnlyIf`); each of them does occur; the read outside the loop is never stale (`WindowFresh`) | one reader (readers do not affect one another), 2 fields, 3 updates, generation wrapping at 3, one kill anywhere, `sms_init_writer` included, both builds |
| `grid_alarm` | TRIGGER never sleeps on an alarm, the ring refines `AlarmQueue`, every alarm is served or given up to a full ring, a stopped TRIGGER ends; nothing is claimed once a restart has initialised `alarm_mutex` under a handler | 2 servers, ring of 2, 3 alarms: a full ring and an overwrite occur; two starts, so that two grids of timers run; handlers and logging on MAIN, never while it holds one of the two mutexes. Handlers on all three threads were checked too (432 thousand states, the same result) |
| `daemon` | SIGHUP rehashes and keeps PROC, SIGTERM ends the daemon with the joined threads dead; each property names the races in which it does not | 2 signals at any moments, the first start included: a signal and another one overwriting it, at each pair of places; one failure anywhere; both builds; VM server switched on and off. 3 signals (774 thousand states) and the FIXEDPOINT thread were checked too |
| `rtt_minima` | no absent item is read; sliding and on-line minima equal those of the raw series; point errors are not negative; `far_i`, `near_i`, `pstamp` are what the comments say | 2 RTT values, 18 stamps, one reload at any stamp between two configurations: warmup, middle and end of the history window, upward shifts, a shift window that shrinks and one that has to grow all occur |

In all runs but those of `SharedMemory` `CHECK_DEADLOCK FALSE` is stated because the bounds end every behaviour, or, for `Daemon`, because the
daemon ends.

Runs in which TLC finds what a comment or a document says violated; each is a
finding in `PROJECT.json`:

| run | statement | what happens |
|---|---|---|
| `raw_data_queue_unordered` | `rawdata.c:364` "rdb should NEVER be NULL" | on a machine that reorders stores PROC sees the first insertion's `rdb_end` before its `rdb_start`: the bundle is not the newest, it concludes, and it steps to `next`, which is NULL |
| `shared_memory_mixed` | `pthread_dataproc.c:89` "to ensure consistency" | in the default build the generation changes before the swap and protects nothing: a reader that takes the new generation and the old offset reads on while the next update rewrites its buffer, and returns a mixture |
| `grid_alarm_abba` | `pthread_trigger.c:83` alarms "aren't missed" | the handler interrupts MAIN inside `verbose` and waits for `alarm_mutex`, whose holder TRIGGER waits for `verbose`'s mutex |
| `daemon_early_hup` | `RADclockDoc_threads.txt:324` on SIGHUP the daemon continues | a SIGHUP while MAIN is still starting the threads is half forgotten: line 822 clears `unix_signal`, PROC is not started, pcap's flag stays, and the daemon ends as if on SIGTERM |
| `daemon_term_after_hup` | `radclock_main.c:921` "algo has been told to die" | SIGTERM between the two reads of `unix_signal` (905, 922), after a SIGHUP: MAIN joins a PROC that was not told to stop |
| `rtt_minima_rare` | `sync_history.c:289` needed values are in the array | for a poll period from 74 s the shift window is the largest window, and the first stamp after the warmup asks for an item just overwritten |

The window sizes behind the last one (`set_algo_windows`, lines 119–185, with the
default metaparameters): `shift_win` is at least 100; `offset_win` is
1024/poll, `plocal_win` five times that. From a poll period of 74 s on,
`plocal_win + plocal_win/2` is at most 97, so that `warmup_win`, hence the size
of `RTT_hist`, is `shift_win`.

### Fairness

* `RawDataQueue`: weak fairness of each thread. MAIN finishes an insertion it has
  begun; PROC polls for ever.
* `SharedMemory`: weak fairness of an initialisation or update in progress and of
  each reader.
  Nothing obliges a stamp to arrive, or a killed daemon to be restarted.
* `GridAlarm`: weak fairness of the periodic timers and of unlocking; strong
  fairness of signal delivery, handlers and TRIGGER, because a mutex that is free
  again and again is obtained in the end. That is an assumption on the scheduler
  (pthread mutexes queue their waiters but do not promise order).
* `Daemon`: weak fairness of MAIN once a break is pending, and of every thread
  reaching its loop condition: sockets have timeouts, PROC sleeps at most a
  second, TRIGGER's timers are periodic (that a stopped TRIGGER ends is what
  `TriggerStops` checks, in `GridAlarm`). A break raised by PROC alone need not end
  the capture: nothing interrupts its read. No fairness for signals and failures.
* The rest has no liveness properties.

## 4. Proofs

| theorem | assumes | argument |
|---|---|---|
| `StampQueue_proofs!TypeCorrect` | – | inductive as it stands; needs that a queue at capacity has a tail, so that trimming makes room |
| `NoStaleRequestEver`, `StampsInOrder` | packets in capture order; freed memory intact, or no request captured twice | inductive invariant `TypeOK /\ NoStaleRequest /\ QueuedInSendOrder`. `NoStaleRequest` alone is not inductive: that the scan has removed every older request of the same server depends on older requests lying nearer the tail, where the scan is before it frees `full_st` |
| `RawDataQueue_proofs!TypeCorrect`, `MemorySafe`, `NoLeak`, `ImplementsPacketStream` | stores in program order | one invariant: `rdb_start` is a function of where MAIN is, the allocated bundles are an interval from `rdb_end`, each linked one points to its successor, and `delivered` is `rdb_end` or one less |
| `SharedMemory_proofs!TypeCorrect` | – | inductive as it stands |
| `SharedMemoryWhole_proofs!WholeSnapshots` (`MixedOnlyIf`) | accesses as written, no crash, fewer updates than `UINT_MAX` | invariant `IInv`: the buffer in use is whole; while the generation a reader holds is current, what it has read is the last update; once it is not current it never is again; a segment not yet initialised has generation zero |
| `SharedMemoryWindow_proofs!WindowAlwaysFresh` (`WindowFresh`) | – | invariant `WInv`: an offset in use leads to a buffer in which no field is older than the last update completed, because an update is copied whole before any swap, a swap only exchanges offsets or makes them equal, and a copy only makes fields newer; a data offset that a reader has got past the loop with is not 0 |

The theorems on `SharedMemory` are in five modules: `SharedMemory_proofs` (types),
`SharedMemoryReader_proofs` (the invariant `IInv`, steps of readers and of
`sms_init_writer`), `SharedMemoryWhole_proofs` (steps of the writer, the theorem),
and `SharedMemoryFresh_proofs` and `SharedMemoryWindow_proofs` for `WInv` in the same
way.

The assumptions on the two queues are needed. TLC violates `NoStaleRequest` when
packets come out of capture order, and when freed memory is arbitrary and a
request is captured twice; `raw_data_queue_unordered` violates `NoBadAccess`.
Those of `WholeSnapshots` are not: they are how far the proof goes, and the run
`shared_memory` checks `MixedOnlyIf` with both builds, a crash and a wrap. In the
environment of the theorem its content is that the only mixture possible is one
accepted under generation zero; the theorem states that too (`WholeUnlessZero`).

Only model-checked: liveness (`AllDelivered`, `HangsOnlyIf`, `AlarmsServed`,
`TriggerStops`, `TermEnds`, `HupRehashes`), which is out of the prover's reach,
as are `ENABLED` and induction over data; the vetting, `GridAlarm`, `Daemon` and
`RttMinima`, whose proofs are planned where possible; and the exceptional cases of
`MixedOnlyIf`.

## 5. Other disagreements met while modelling

These are visible in the models or plain from the code, and have no run of their
own.

Stamp queue and vetting
* If packets are processed out of capture order the queue hands stamps over out
  of order (`create_stamp.c:913`; comments at 444 and 839), and `laststamp`,
  overwritten also by a rejected stamp (`pthread_dataproc.c:1034`), then lets an
  older stamp pass (comment at 583).
* The first stamp of a server is not tested at all (1021; comment at 545).

Shared memory
* Unoptimised, a reader may accept generation zero, since the loop's test loads
  it twice (`radapi-time.c:140`).
* A new segment is used by readers before it is initialised; optimised, `gen` is 1
  before the error offsets are set, so that a reader of the errors returns part of
  the segment's head. A daemon killed in `sms_init_writer` leaves a segment the next
  one takes for a complete one (`radapi-base.c:191`).
* A daemon killed between the two stores of a swap leaves both offsets on one
  buffer, which later updates rewrite in place, and one killed while the generation is zero leaves readers spinning
  until an update (`radapi-base.c:192`, comment at 213; `radapi-time.c:165`
  "This function does not fail").
* `generation++ == 0` tests before the increment, so the count wraps to zero
  (`pthread_dataproc.c:119`).
* `radapi-time.c:71–78` gives the worst quality to a healthy clock when an
  update overtakes the reader, as its own comment says.

Sending grid
* Setting an empty signal mask unblocks SIGALRM in TRIGGER itself
  (`pthread_mgr.c:70`; comment at 66), where the handler can meet its own thread
  holding `alarm_mutex`.
* The ring is freed without the mutex (`pthread_mgr.c:102`) between a handler's
  test of the pointer and its use (`pthread_trigger.c:91`).
* Timers are never deleted, so after a SIGHUP there is a second grid
  (`client_ntp.c:172`), and `alarm_mutex` is initialised again while handlers may
  hold it (129), after which two threads may be inside and a wake-up may be lost:
  `NoLostWakeup` needs the exception it makes.
* After `INT_MAX` alarms the remainder in `FIFO.c:94` is negative.

Life cycle
* A SIGHUP that interrupts its thread inside `verbose` waits there for ever for the
  mutex that thread holds (`radclock_main.c:321`, `verbose.c:125`), and with it
  everyone who logs: neither a rehash nor a SIGTERM is carried out any more (`Hung`).
* A SIGHUP can overwrite a SIGTERM (318); a SIGTERM during the restart can start a
  second PROC (821; comment at 818), and then only one is joined.
* Without optimisation PROC may see its flag between the stores at 902 and 906.
* VM_UDP_SERV is not joined before the handle is freed (908, 927).
* When `trigger_init` fails, the flags it raises do not end the capture loop
  (`pthread_mgr.c:91`; comment at 88).

Histories and minima (`sync_bidir.c`)
* A reload that enlarges `shift_win` leaves the window one stamp short for good, as
  it grows only while it is shorter than `shift_win - 1` (1172; comment 1166–1170), and `RTThat` may exceed `RTThat_shift` (comment 1143) and
  `pstamp_i < lastshift` fail (comment 1204). One that changes `h_win` may skip
  the middle of the history window, so that a blank stamp becomes `pstamp` (402,
  455). The properties name these reloads through the ghost `changed`.
* `next_RTThat` starts from the stamp before the new window (406, 445; comment
  392–394). Line 583 tests `>` for `>=`; no real window sizes reach the
  difference.
* Outside the model so far: `shift_end_OWD` is not set again on a reload (1089);
  the histories of the one-way delays are first added to at index `warmup_win`
  while `newest_i` counts from 0 (`sync_history.c:83`); the double version of
  the slide calls the integer minimum (`sync_history.c:350`); `plocal_end` is an
  unsigned difference (720, 1555).

## 6. Limits of the models

Allocation failure, failing `pthread_create` and the cost of system calls are not
modelled. Compilers other than gcc 12 may produce accesses other than the two
sets above. Data are abstract where no property tells them apart: packet
contents, clock values, log text. `RttMinima` stops at the minima: values of the
period and offset estimates are real arithmetic. In `GridAlarm` the request sent
after an alarm is a single step, alarms are bounded, so that a stopped TRIGGER
is only promised to end if another alarm comes, and they are too few for the
ring's indices to reach `INT_MAX`. In `Daemon` SIGUSR1 and SIGUSR2 are left out, and
what a rehash changes is only the two server switches. The run `stamp_path` keeps
packets in capture order and captures none twice; what the queue promises without
that is said in sections 4 and 5.

## 7. Plan

The definitions so far stand for about a fifth of the lines of `radclock/*.c` and
`libradclock/*.c`; the largest parts missing are the rest of `sync_bidir.c`,
`config_mgr.c`, the stamp sources and the servers. Order of the extensions:

1. `NtpClient`: send, receive, timeout and retry of one exchange, late replies
   included; composed with `StampQueue`.
2. `RadData`: PROC writes under `globaldata_mutex`, NTP_SERV copies without it,
   the VM server with it; which mixtures each can send.
3. `Config`: the update mask shared by `rehash_daemon` and PROC, and what a
   change of the number of servers does; composed with `Daemon`.
4. The rest of `process_stamp`: starvation flags, leap seconds, preferred server,
   FBclock control.
5. The local period and offset algorithms and the one-way delay minima, on
   `History`.
6. FIXEDPOINT scaling with its integer widths; the Spy source; replay.

Proofs to add: `AlarmsInOrder` and mutual exclusion for `GridAlarm`; the safety
properties of `Daemon` for any number of signals; lemmas on `History` (what is
present after an addition and a resize) and `NoAbsentItem` for all windows where
`plocal_span` is the largest; `AlgoInputInOrder` on top of `StampsInOrder`; the
remaining cases of `MixedOnlyIf`.
