------------------------------- MODULE Daemon -------------------------------
(***************************************************************************)
(* The life of the live daemon (radclock/radclock_main.c, pthread_mgr.c):  *)
(* main() calls start_live, which starts the threads and captures packets  *)
(* until SIGHUP or SIGTERM breaks the capture loop; start_live then stops  *)
(* and joins the threads (all but PROC after a SIGHUP), and either the     *)
(* configuration is read again and start_live is called again, or the      *)
(* daemon ends.                                                            *)
(*                                                                         *)
(* Threads see stop flags, MAIN sees unix_signal, both plain ints that     *)
(* signal handlers and other threads write.  A step of MAIN is the code    *)
(* between two places where it reads or writes them.  Every such step, the *)
(* SIGHUP handler and every thread call verbose, which locks a mutex that  *)
(* is not recursive.                                                       *)
(***************************************************************************)
EXTENDS Naturals, FiniteSets

CONSTANTS
  VmServer,      \* may the configuration ask for the VM UDP server?
  FixedPoint,    \* kernel_version < 2: the FIXEDPOINT thread is used
  MaxSignals,    \* bound: signals received
  MaxFailures    \* bound: failures of threads, of the capture and of a rehash

ASSUME DaemonAssumption ==
  /\ {VmServer, FixedPoint} \subseteq BOOLEAN
  /\ MaxSignals \in Nat /\ MaxFailures \in Nat

Kinds == {"PROC", "TRIGGER", "NTP_SERV", "VM_UDP_SERV", "FIXEDPOINT"}
MAIN == <<"MAIN", 0>>
None == <<"none", 0>>

VARIABLES
  mpc,               \* place of MAIN in start_live and main
  unix_signal,       \* handle->unix_signal
  break_loop,        \* pcap's own flag, raised by pcap_breakloop
  pthread_flag_stop, \* the set of kinds told to stop
  started,           \* kind -> threads of this kind created so far
  alive,             \* pairs <<kind, number>> of the threads running
  initialising,      \* TRIGGER is in trigger_init
  vmutex,            \* the thread inside verbose, or None
  handling,          \* threads whose SIGHUP handler has yet to call verbose
  server_ntp, server_vm_udp,  \* of the configuration
  signals,           \* signals received so far (bound)
  asked,             \* history: the kinds of signal received
  forgotten,         \* history: a SIGHUP was cleared with its break pending
  failures           \* history: failures so far

logVars == <<vmutex, handling>>
confVars == <<server_ntp, server_vm_udp>>
history == <<signals, asked, forgotten, failures>>
vars == <<mpc, unix_signal, break_loop, pthread_flag_stop, started, alive,
          initialising, logVars, confVars, history>>

PTH_STOP_ALL == Kinds

Dead(k) == <<k, started[k]>> \notin alive

Running == mpc \notin {"done", "exited"}
Threads == {MAIN} \cup alive

\* Thread t is not in a handler and gets through verbose.
CanLog(t) == vmutex = None /\ t \notin handling

-----------------------------------------------------------------------------
(* verbose: whoever is inside comes out, unless a SIGHUP hit it there. *)

VerboseUnlock ==
  /\ Running /\ vmutex \in Threads \ handling
  /\ vmutex' = None
  /\ UNCHANGED <<mpc, unix_signal, break_loop, pthread_flag_stop, started, alive, initialising,
                 handling, confVars, history>>

-----------------------------------------------------------------------------
(* signal_handler, for SIGHUP and SIGTERM.  All signals are blocked in it. *)

\* A signal goes to MAIN, or to another thread while MAIN is in the handler (the
\* threads block no signal, init_thread_signal_mgt).
Receivers == IF MAIN \in handling THEN alive \ handling ELSE {MAIN}

\* A thread inside verbose when a SIGHUP comes.  Threads go in and out all the time,
\* which only delays the others, so who is inside is settled here.
InVerbose == IF vmutex = None THEN {None} \cup (Threads \ handling) ELSE {vmutex}

signal_handler(sig, t) ==
  /\ signals < MaxSignals /\ Running /\ t \in Receivers
  /\ unix_signal' = sig
  /\ break_loop' = TRUE
  /\ IF sig = "HUP" THEN vmutex' \in InVerbose /\ handling' = handling \cup {t}
                    ELSE UNCHANGED logVars
  /\ signals' = signals + 1 /\ asked' = asked \cup {sig}
  /\ UNCHANGED <<mpc, pthread_flag_stop, started, alive, initialising, confVars, forgotten,
                 failures>>

\* The handler's own call of verbose: it waits for the mutex, even for its own thread.
HandlerLogs(t) ==
  /\ Running /\ t \in handling /\ vmutex = None
  /\ handling' = handling \ {t}
  /\ UNCHANGED <<mpc, unix_signal, break_loop, pthread_flag_stop, started, alive, initialising,
                 vmutex, confVars, history>>

-----------------------------------------------------------------------------
(* MAIN: start_live *)

\* Mutant: the pthread_t of the new threads is not recorded.
CreateUnrecorded(ks) ==
  /\ started' = started
  /\ alive' = alive \cup {<<k, started[k] + 1>> : k \in ks}

Create(ks) ==
  /\ started' = [k \in Kinds |-> IF k \in ks THEN started[k] + 1 ELSE started[k]]
  /\ alive' = alive \cup {<<k, started'[k]>> : k \in ks}

StartTrigger ==
  /\ mpc = "trigger" /\ mpc' = "proc"
  /\ Create({"TRIGGER"})
  /\ initialising' = TRUE
  /\ UNCHANGED <<unix_signal, break_loop, pthread_flag_stop, confVars, history>>

\* Mutant: PROC is started whatever brought us here.
StartProcAlways ==
  /\ mpc = "proc" /\ mpc' = "servers"
  /\ unix_signal' = IF unix_signal = "HUP" THEN "none" ELSE unix_signal
  /\ Create({"PROC"})
  /\ UNCHANGED <<break_loop, pthread_flag_stop, initialising, confVars, history>>

\* After a SIGHUP PROC is still running, and the signal is cleared instead; so is a
\* SIGHUP that came later than the break of the capture.
StartProc ==
  /\ mpc = "proc" /\ mpc' = "servers"
  /\ IF unix_signal = "HUP"
     THEN /\ unix_signal' = "none"
          /\ forgotten' = (forgotten \/ break_loop)
          /\ UNCHANGED <<started, alive>>
     ELSE Create({"PROC"}) /\ UNCHANGED <<unix_signal, forgotten>>
  /\ UNCHANGED <<break_loop, pthread_flag_stop, initialising, confVars, signals, asked,
                 failures>>

StartServers ==
  /\ mpc = "servers" /\ mpc' = "capture"
  /\ Create({k \in Kinds : \/ k = "NTP_SERV" /\ server_ntp
                           \/ k = "VM_UDP_SERV" /\ server_vm_udp
                           \/ k = "FIXEDPOINT" /\ FixedPoint})
  /\ UNCHANGED <<unix_signal, break_loop, pthread_flag_stop, initialising, confVars, history>>

\* Mutant: the signal is cleared with the flag.
CaptureBrokenClears ==
  /\ mpc = "capture" /\ break_loop
  /\ mpc' = "stop" /\ break_loop' = FALSE /\ unix_signal' = "none"
  /\ UNCHANGED <<pthread_flag_stop, started, alive, initialising, confVars, history>>

\* capture_raw_data returns -2: pcap_loop saw its flag and cleared it.
CaptureBroken ==
  /\ mpc = "capture" /\ break_loop
  /\ mpc' = "stop" /\ break_loop' = FALSE
  /\ UNCHANGED <<unix_signal, pthread_flag_stop, started, alive, initialising, confVars,
                 history>>

\* It returns -1: a read error, treated as a SIGTERM.
CaptureFails ==
  /\ mpc = "capture" /\ failures < MaxFailures
  /\ mpc' = "stop" /\ unix_signal' = "TERM" /\ failures' = failures + 1
  /\ UNCHANGED <<break_loop, pthread_flag_stop, started, alive, initialising, confVars,
                 signals, asked, forgotten>>

\* Mutant: PROC is not spared after a SIGHUP.
ToStopAll == PTH_STOP_ALL

\* Mutant: PROC is spared after a SIGTERM too.
ToStopNotProc == PTH_STOP_ALL \ {"PROC"}

\* Mutant: TRIGGER is forgotten.
ToStopNotTrigger == IF unix_signal = "HUP" THEN PTH_STOP_ALL \ {"PROC", "TRIGGER"} ELSE PTH_STOP_ALL

\* "Do not stop PROC in HUP case (owns sync algo state)"
ToStop == IF unix_signal = "HUP" THEN PTH_STOP_ALL \ {"PROC"} ELSE PTH_STOP_ALL

\* The default build (gcc -O2) makes one store of the two below.
RaiseFlags ==
  /\ mpc = "stop" /\ mpc' = "join"
  /\ pthread_flag_stop' = ToStop
  /\ UNCHANGED <<unix_signal, break_loop, started, alive, initialising, confVars, history>>

\* As written (gcc -O0): every flag is raised ...
RaiseAll ==
  /\ mpc = "stop" /\ mpc' = "spare"
  /\ pthread_flag_stop' = PTH_STOP_ALL
  /\ UNCHANGED <<unix_signal, break_loop, started, alive, initialising, confVars, history>>

\* ... and that of PROC lowered again.
SpareProc ==
  /\ mpc = "spare" /\ mpc' = "join"
  /\ pthread_flag_stop' = pthread_flag_stop \cap ToStop
  /\ UNCHANGED <<unix_signal, break_loop, started, alive, initialising, confVars, history>>

\* Mutant: NTP_SERV is not waited for.
JoinThreadsNotNtp ==
  /\ mpc = "join" /\ mpc' = "last"
  /\ Dead("TRIGGER") /\ (FixedPoint => Dead("FIXEDPOINT"))
  /\ UNCHANGED <<unix_signal, break_loop, pthread_flag_stop, started, alive, initialising,
                 confVars, history>>

\* The three joins; VM_UDP_SERV is not among them.
JoinThreads ==
  /\ mpc = "join" /\ mpc' = "last"
  /\ (server_ntp => Dead("NTP_SERV")) /\ Dead("TRIGGER") /\ (FixedPoint => Dead("FIXEDPOINT"))
  /\ UNCHANGED <<unix_signal, break_loop, pthread_flag_stop, started, alive, initialising,
                 confVars, history>>

\* The second look at unix_signal.
HupOrTerm ==
  /\ mpc = "last"
  /\ IF unix_signal = "HUP" THEN mpc' = "rehash" /\ pthread_flag_stop' = {}
                            ELSE mpc' = "join_proc" /\ UNCHANGED pthread_flag_stop
  /\ UNCHANGED <<unix_signal, break_loop, started, alive, initialising, confVars, history>>

\* start_live returns 1, and main() frees everything.
JoinProc ==
  /\ mpc = "join_proc" /\ Dead("PROC")
  /\ mpc' = "done" /\ pthread_flag_stop' = {}
  /\ UNCHANGED <<unix_signal, break_loop, started, alive, initialising, confVars, history>>

start_live ==
  /\ CanLog(MAIN)
  /\ \/ StartTrigger \/ StartProc \/ StartServers \/ CaptureBroken \/ CaptureFails
     \/ RaiseFlags \/ RaiseAll \/ SpareProc \/ JoinThreads \/ HupOrTerm \/ JoinProc
  /\ UNCHANGED logVars

-----------------------------------------------------------------------------
(* MAIN: rehash_daemon *)

NewConf ==
  /\ server_ntp' \in BOOLEAN
  /\ server_vm_udp' \in (IF VmServer THEN BOOLEAN ELSE {FALSE})

\* The servers may be switched on or off; one switched off is told to stop.
Rehashed ==
  /\ mpc' = "trigger"
  /\ NewConf
  /\ pthread_flag_stop' = pthread_flag_stop
       \cup (IF server_ntp /\ ~server_ntp' THEN {"NTP_SERV"} ELSE {})
       \cup (IF server_vm_udp /\ ~server_vm_udp' THEN {"VM_UDP_SERV"} ELSE {})
  /\ UNCHANGED <<alive, failures>>

\* It fails and main() goes on all the same: the file is not parsed, or the shared
\* memory not created, after which the servers are not told.
RehashFails ==
  /\ failures < MaxFailures /\ failures' = failures + 1
  /\ mpc' = "trigger"
  /\ NewConf \/ UNCHANGED confVars
  /\ UNCHANGED <<pthread_flag_stop, alive>>

\* exit(1): the dump file or the capture filter could not be changed.
RehashExits ==
  /\ failures < MaxFailures /\ failures' = failures + 1
  /\ mpc' = "exited" /\ alive' = {}
  /\ NewConf
  /\ UNCHANGED pthread_flag_stop

rehash_daemon ==
  /\ mpc = "rehash" /\ CanLog(MAIN)
  /\ Rehashed \/ RehashFails \/ RehashExits
  /\ UNCHANGED <<unix_signal, break_loop, started, initialising, logVars, signals, asked,
                 forgotten>>

-----------------------------------------------------------------------------
(* The other threads *)

Exits(k, n) ==
  /\ <<k, n>> \in alive /\ CanLog(<<k, n>>)
  /\ alive' = alive \ {<<k, n>>}
  /\ UNCHANGED <<mpc, unix_signal, break_loop, pthread_flag_stop, started, initialising,
                 logVars, confVars, history>>

\* The loop condition of every thread.  TRIGGER looks at it after trigger_init.
Stops(k, n) ==
  /\ k \in pthread_flag_stop
  /\ k = "TRIGGER" => ~initialising
  /\ Exits(k, n)

\* thread_ntp_server and thread_vm_udp_server give up without their socket.
NoSocket(k, n) == k \in {"NTP_SERV", "VM_UDP_SERV"} /\ Exits(k, n)

\* thread_trigger: trigger_init succeeds, or fails and raises every flag.
trigger_init ==
  /\ Running /\ initialising /\ CanLog(<<"TRIGGER", started["TRIGGER"]>>)
  /\ initialising' = FALSE
  /\ \/ UNCHANGED <<pthread_flag_stop, failures>>
     \/ failures < MaxFailures /\ failures' = failures + 1
        /\ pthread_flag_stop' = PTH_STOP_ALL
  /\ UNCHANGED <<mpc, unix_signal, break_loop, started, alive, logVars, confVars, signals,
                 asked, forgotten>>

\* thread_data_processing: process_stamp returned -1.
ProcFails(n) ==
  /\ <<"PROC", n>> \in alive /\ CanLog(<<"PROC", n>>) /\ failures < MaxFailures
  /\ failures' = failures + 1
  /\ pthread_flag_stop' = PTH_STOP_ALL /\ break_loop' = TRUE
  /\ UNCHANGED <<mpc, unix_signal, started, alive, initialising, logVars, confVars, signals,
                 asked, forgotten>>

-----------------------------------------------------------------------------
Numbers == 1..(MaxSignals + 1)

Init ==
  /\ mpc = "trigger" /\ unix_signal = "none" /\ break_loop = FALSE
  /\ pthread_flag_stop = {} /\ started = [k \in Kinds |-> 0] /\ alive = {}
  /\ initialising = FALSE /\ vmutex = None /\ handling = {}
  /\ server_ntp \in BOOLEAN /\ server_vm_udp = VmServer
  /\ signals = 0 /\ asked = {} /\ forgotten = FALSE /\ failures = 0

Next ==
  \/ \E sig \in {"HUP", "TERM"}, t \in Threads : signal_handler(sig, t)
  \/ \E t \in Threads : HandlerLogs(t)
  \/ VerboseUnlock
  \/ start_live \/ rehash_daemon \/ trigger_init
  \/ \E k \in Kinds, n \in Numbers : Stops(k, n) \/ NoSocket(k, n)
  \/ \E n \in Numbers : ProcFails(n)

Spec == Init /\ [][Next]_vars

\* A signal ends pcap_loop: its handler interrupts the read, and the flag is raised.
\* A break raised by PROC alone does not interrupt it.
MainGoesOn == start_live /\ (mpc = "capture" => break_loop /\ unix_signal # "none" /\ failures' = failures)

\* Every thread runs when it can, leaves verbose, and comes to its loop condition
\* (sockets have timeouts, PROC sleeps at most a second, the timers of TRIGGER are
\* periodic: GridAlarm).
FairSpec ==
  /\ Spec
  /\ WF_vars(MainGoesOn) /\ WF_vars(rehash_daemon) /\ WF_vars(trigger_init)
  /\ WF_vars(\E t \in Threads : HandlerLogs(t)) /\ WF_vars(VerboseUnlock)
  /\ \A k \in Kinds : WF_vars(\E n \in Numbers : Stops(k, n))

-----------------------------------------------------------------------------
\* Type invariant.
TypeOK ==
  /\ mpc \in {"trigger", "proc", "servers", "capture", "stop", "spare", "join", "last",
              "join_proc", "rehash", "done", "exited"}
  /\ unix_signal \in {"none", "HUP", "TERM"} /\ break_loop \in BOOLEAN
  /\ pthread_flag_stop \subseteq Kinds /\ started \in [Kinds -> 0..(MaxSignals + 1)]
  /\ alive \subseteq Kinds \X Numbers
  /\ \A t \in alive : t[2] <= started[t[1]]
  /\ Running => vmutex \in Threads \cup {None} /\ handling \subseteq Threads
  /\ initialising \in BOOLEAN /\ server_ntp \in BOOLEAN /\ server_vm_udp \in BOOLEAN
  /\ signals \in 0..MaxSignals /\ asked \subseteq {"HUP", "TERM"}
  /\ forgotten \in BOOLEAN /\ failures \in 0..MaxFailures

OnlyHups == asked \subseteq {"HUP"} /\ failures = 0

\* A SIGHUP handler waits for the mutex that its own thread holds: nobody gets it any
\* more.
Hung == vmutex \in handling

\* MAIN has decided that this is a rehash, and told PROC nothing.
ProcSpared == mpc \in {"join", "last", "join_proc"} /\ "PROC" \notin pthread_flag_stop

\* "In that case PROC_DATA will be kept alive as it contains the RADclock clock
\* history" (RADclockDoc_threads.txt:326): while only SIGHUPs come PROC does not stop,
\* except between the two stores of an unoptimised build (radclock_main.c:902, 906), or
\* when a SIGHUP has been forgotten and the daemon is ending.
HupKeepsProc ==
  [][\A n \in Numbers : <<"PROC", n>> \in alive \ alive' /\ OnlyHups' =>
       mpc = "spare" \/ forgotten]_vars

\* "If start_live exits due to a SIGHUP (exit code err=0), this signals that RADclock
\* should accept new parameter settings and continue on" (RADclockDoc_threads.txt:324):
\* SIGHUPs alone never end the daemon.
HupNeverEnds == OnlyHups => mpc \notin {"join_proc", "done"}

\* They end it only if one came between the end of a capture and the restart of PROC,
\* where radclock_main.c:822 clears unix_signal and leaves pcap's flag.
HupEndsOnlyIf == OnlyHups /\ mpc \in {"join_proc", "done"} => forgotten

\* "Join on TERM since algo has been told to die" (radclock_main.c:921): when MAIN
\* waits for PROC, PROC has its stop flag raised or is gone.
AlgoToldToDie == mpc = "join_proc" => "PROC" \in pthread_flag_stop \/ Dead("PROC")

\* "PROC is still running, so simply clear the flag" (radclock_main.c:818): no thread
\* of a kind MAIN joins is started while another of its kind is running, unless a
\* SIGTERM takes the place of a SIGHUP on its way to that line.
OneOfEach ==
  asked # {"HUP", "TERM"} =>
    \A t, u \in alive : t[1] = u[1] /\ t[1] # "VM_UDP_SERV" => t = u

\* "Threads are dead." (radclock_main.c:927): main() frees the handle when no thread
\* can use it any more, but for VM_UDP_SERV, which nobody joins, and for a first PROC
\* when SIGHUP and SIGTERM together led to a second one.
ThreadsDead ==
  mpc = "done" =>
    \A t \in alive : t[1] = "VM_UDP_SERV" \/ (t[1] = "PROC" /\ asked = {"HUP", "TERM"})

\* SIGTERM is "used to shutdown RADclock and terminate" (RADclockDoc_threads.txt:468):
\* whenever it comes it ends the daemon, with four exceptions.  It comes when MAIN has
\* spared PROC for a rehash; a SIGHUP takes its place; a SIGHUP handler has stopped on
\* verbose's mutex; the daemon has exited.
TermEnds ==
  unix_signal = "TERM" /\ ~ProcSpared ~> ~Running \/ unix_signal = "HUP" \/ Hung

\* "SIGHUP scheduled after packet processing" (radclock_main.c:321): a SIGHUP that does
\* not come during a restart leads to a rehash, unless SIGTERM takes its place, or its
\* handler stops on verbose's mutex.
HupRehashes ==
  unix_signal = "HUP" /\ mpc \in {"servers", "capture", "stop", "spare", "join", "last"}
    ~> mpc = "rehash" \/ unix_signal = "TERM" \/ Hung
=============================================================================
