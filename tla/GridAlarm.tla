----------------------------- MODULE GridAlarm ------------------------------
(***************************************************************************)
(* The sending grid of the TRIGGER thread (radclock/pthread_trigger.c,     *)
(* FIFO.c and the first part of client_ntp.c).  One POSIX timer per server *)
(* sends SIGALRM to the process; its handler catch_alarm puts the server   *)
(* ID in a ring buffer and signals a condition variable; TRIGGER takes the *)
(* IDs out and sends one request for each.                                 *)
(*                                                                         *)
(* The handler runs on whatever thread the kernel picks, on top of what    *)
(* that thread was doing: a thread with a handler frame makes no step of   *)
(* its own.  verbose() is called by every thread, by FIFO_get while        *)
(* alarm_mutex is held, and by the handler when the ring is full.  A step  *)
(* is a lock, an unlock, or the work done between two of them.             *)
(***************************************************************************)
EXTENDS Integers, Sequences

CONSTANTS
  NServers,           \* handle->nservers
  Capacity,           \* 64 in client_ntp.c:133
  INT_MAX,            \* largest C int, scaled down
  Catchers,           \* threads the kernel may pick for SIGALRM
  Loggers,            \* MAIN and other threads that call verbose
  HoldersInterrupted, \* may the handler run on a thread that holds a mutex?
  MaxAlarms,          \* bound: timer expiries
  MaxStarts           \* bound: starts of TRIGGER (1 + number of SIGHUPs)

Threads == {"MAIN", "TRIGGER", "PROC"}

ASSUME GridAlarmAssumption ==
  /\ NServers \in Nat \ {0} /\ Capacity \in Nat \ {0} /\ INT_MAX \in Nat \ {0}
  /\ Catchers \subseteq Threads /\ HoldersInterrupted \in BOOLEAN
  /\ Loggers \subseteq Threads \ {"TRIGGER"} /\ "MAIN" \in Loggers
  /\ MaxAlarms \in Nat /\ MaxStarts \in Nat

Servers == 0..(NServers - 1)

VARIABLES
  timers,        \* server -> POSIX timers armed for it
  pending,       \* server -> those with a SIGALRM not yet delivered
  alarms,        \* expiries so far (bound)
  alarm_buffer,  \* the pointer: "NULL", "made", or "freed" but not yet NULL
  getID, putID, buffer,   \* struct FIFO
  alarm_mutex,   \* holder
  vmutex,        \* holder of verbose_data.vmutex
  hpc, hsid,     \* thread -> place in catch_alarm, and its sival_int
  lpc,           \* MAIN and PROC: inside verbose, or elsewhere
  tpc,           \* TRIGGER: place in thread_trigger
  sID,           \* TRIGGER: the server of the current grid point
  arming,        \* TRIGGER: loop index s of ntp_client_init
  stop,          \* PTH_TRIGGER_STOP in pthread_flag_stop
  starts,        \* starts of TRIGGER so far
  dropped,       \* history: servers one of whose alarms was overwritten
  trampled       \* history: alarm_mutex was initialised under a handler

fifoVars == <<alarm_buffer, getID, putID, buffer>>
handlerVars == <<hpc, hsid>>
timerVars == <<timers, pending, alarms>>
triggerVars == <<tpc, sID, arming, starts>>
histVars == <<dropped, trampled>>
vars == <<timers, pending, alarms, alarm_buffer, getID, putID, buffer, alarm_mutex,
          vmutex, hpc, hsid, lpc, tpc, sID, arming, stop, starts, histVars>>

Nobody == "nobody"
Idle(t) == hpc[t] = "none"

-----------------------------------------------------------------------------
(* FIFO.c.  getID and putID are ints that only ever grow; the remainder    *)
(* has the sign of the dividend.                                           *)

Inc(i) == IF i = INT_MAX THEN -INT_MAX - 1 ELSE i + 1

Slot(i) == IF i >= 0 THEN i % Capacity ELSE -((-i) % Capacity)

Full == putID - getID >= Capacity

\* Mutant: a full ring does not move its oldest entry on.
FIFO_putStays(s) ==
  /\ buffer' = [buffer EXCEPT ![Slot(putID)] = s]
  /\ putID' = Inc(putID)
  /\ UNCHANGED <<getID, dropped, alarm_buffer>>

\* Outside the buffer, the store hits other memory.
FIFO_put(s) ==
  /\ getID' = IF Full THEN Inc(getID) ELSE getID
  /\ dropped' = IF Full THEN dropped \cup {buffer[Slot(getID)]} ELSE dropped
  /\ buffer' = [buffer EXCEPT ![Slot(putID)] = s]
  /\ putID' = Inc(putID)
  /\ UNCHANGED alarm_buffer

FIFO_get ==
  /\ putID # getID
  /\ sID' = buffer[Slot(getID)]
  /\ getID' = Inc(getID)
  /\ UNCHANGED <<putID, buffer, alarm_buffer>>

FIFO_init ==
  /\ alarm_buffer' = "made"
  /\ getID' = 0 /\ putID' = 0
  /\ buffer' = [i \in 0..(Capacity - 1) |-> 0]

-----------------------------------------------------------------------------
(* Timers and signals *)

\* A periodic timer expires.  While its signal is undelivered, further expiries
\* are only counted as overruns.
Expire(s) ==
  /\ alarms < MaxAlarms /\ pending[s] < timers[s]
  /\ pending' = [pending EXCEPT ![s] = @ + 1]
  /\ alarms' = alarms + 1
  /\ UNCHANGED <<timers, fifoVars, alarm_mutex, vmutex, handlerVars, lpc,
                 triggerVars, stop, histVars>>

Holds(t) == alarm_mutex = t \/ vmutex = t

Running(t) == t # "TRIGGER" \/ (starts > 0 /\ tpc # "dead")

\* sa_mask holds SIGALRM: handlers do not nest on a thread.
Deliver(t, s) ==
  /\ pending[s] > 0 /\ Idle(t) /\ Running(t)
  /\ HoldersInterrupted \/ ~Holds(t)
  /\ pending' = [pending EXCEPT ![s] = @ - 1]
  /\ hpc' = [hpc EXCEPT ![t] = "lock"]
  /\ hsid' = [hsid EXCEPT ![t] = s]
  /\ UNCHANGED <<timers, alarms, fifoVars, alarm_mutex, vmutex, lpc, triggerVars,
                 stop, histVars>>

HandlerAt(t, from, to) == hpc[t] = from /\ hpc' = [hpc EXCEPT ![t] = to]

\* Mutant: the handler does not wait for the mutex.
HandlerLockTaken(t) ==
  /\ HandlerAt(t, "lock", "test")
  /\ alarm_mutex' = t
  /\ UNCHANGED <<timerVars, fifoVars, vmutex, hsid, lpc, triggerVars, stop, histVars>>

\* catch_alarm, on thread t.
HandlerLock(t) ==
  /\ HandlerAt(t, "lock", "test")
  /\ alarm_mutex = Nobody /\ alarm_mutex' = t
  /\ UNCHANGED <<timerVars, fifoVars, vmutex, hsid, lpc, triggerVars, stop, histVars>>

HandlerTest(t) ==
  /\ HandlerAt(t, "test", IF alarm_buffer = "NULL" THEN "signal" ELSE "put")
  /\ UNCHANGED <<timerVars, fifoVars, alarm_mutex, vmutex, hsid, lpc, triggerVars,
                 stop, histVars>>

\* The pointer is loaded again: on a ring that is gone the store is lost.
HandlerPut(t) ==
  /\ HandlerAt(t, "put", IF alarm_buffer = "made" /\ Full THEN "log" ELSE "signal")
  /\ IF alarm_buffer = "made" THEN FIFO_put(hsid[t]) ELSE UNCHANGED <<fifoVars, dropped>>
  /\ UNCHANGED <<timerVars, alarm_mutex, vmutex, hsid, lpc, triggerVars, stop, trampled>>

\* verbose(LOG_WARNING, "alarm_buffer is full! ...")
HandlerLog(t) ==
  /\ \/ HandlerAt(t, "log", "logged") /\ vmutex = Nobody /\ vmutex' = t
     \/ HandlerAt(t, "logged", "signal") /\ vmutex' = Nobody
  /\ UNCHANGED <<timerVars, fifoVars, alarm_mutex, hsid, lpc, triggerVars, stop, histVars>>

\* Mutant: the condition variable is not signalled.
HandlerSignalNot(t) ==
  /\ HandlerAt(t, "signal", "none")
  /\ alarm_mutex' = Nobody
  /\ UNCHANGED <<tpc, timerVars, fifoVars, vmutex, hsid, lpc, sID, arming, starts, stop, histVars>>

\* pthread_cond_signal, then the unlock.
HandlerSignal(t) ==
  /\ HandlerAt(t, "signal", "none")
  /\ tpc' = IF tpc = "wait" THEN "lock" ELSE tpc
  /\ alarm_mutex' = Nobody
  /\ UNCHANGED <<timerVars, fifoVars, vmutex, hsid, lpc, sID, arming, starts, stop, histVars>>

catch_alarm(t) ==
  HandlerLock(t) \/ HandlerTest(t) \/ HandlerPut(t) \/ HandlerLog(t) \/ HandlerSignal(t)

-----------------------------------------------------------------------------
(* verbose() in MAIN, for every packet inserted, and in PROC. *)

VerboseLock(t) ==
  /\ Idle(t) /\ lpc[t] = "elsewhere" /\ vmutex = Nobody
  /\ vmutex' = t /\ lpc' = [lpc EXCEPT ![t] = "verbose"]
  /\ UNCHANGED <<timerVars, fifoVars, alarm_mutex, handlerVars, triggerVars, stop, histVars>>

VerboseUnlock(t) ==
  /\ Idle(t) /\ lpc[t] = "verbose"
  /\ vmutex' = Nobody /\ lpc' = [lpc EXCEPT ![t] = "elsewhere"]
  /\ UNCHANGED <<timerVars, fifoVars, alarm_mutex, handlerVars, triggerVars, stop, histVars>>

-----------------------------------------------------------------------------
(* TRIGGER: thread_trigger, ntp_client_init, and ntp_client *)

At(from, to) == tpc = from /\ Idle("TRIGGER") /\ tpc' = to

\* pthread_mutex_init and pthread_cond_init, whoever may be using them.
InitMutex ==
  /\ At("init", "fifo")
  /\ alarm_mutex' = Nobody
  /\ trampled' = (trampled \/ alarm_mutex # Nobody)
  /\ UNCHANGED <<timerVars, fifoVars, vmutex, handlerVars, lpc, sID, arming, starts,
                 stop, dropped>>

InitFifo ==
  /\ At("fifo", "arm")
  /\ FIFO_init
  /\ arming' = 0
  /\ UNCHANGED <<timerVars, alarm_mutex, vmutex, handlerVars, lpc, sID, starts, stop, histVars>>

\* Mutant: the loop over the servers makes one turn too many.
ArmTimerOneMore ==
  /\ At("arm", IF arming = NServers THEN "test" ELSE "arm")
  /\ timers' = [s \in Servers |-> IF s = arming THEN timers[s] + 1 ELSE timers[s]]
  /\ arming' = arming + 1
  /\ UNCHANGED <<pending, alarms, fifoVars, alarm_mutex, vmutex, handlerVars, lpc, sID,
                 starts, stop, histVars>>

\* timer_create and set_ptimer.
ArmTimer ==
  /\ arming < NServers
  /\ At("arm", IF arming = NServers - 1 THEN "test" ELSE "arm")
  /\ timers' = [timers EXCEPT ![arming] = @ + 1]
  /\ arming' = arming + 1
  /\ UNCHANGED <<pending, alarms, fifoVars, alarm_mutex, vmutex, handlerVars, lpc, sID,
                 starts, stop, histVars>>

\* Any of the early returns: no server configured or no memory, at first, or a
\* server whose name, socket or timer cannot be had.
InitFails ==
  /\ \E place \in {"init", "fifo", "arm"} : At(place, "test")
  /\ stop' = TRUE
  /\ UNCHANGED <<timerVars, fifoVars, alarm_mutex, vmutex, handlerVars, lpc, sID, arming,
                 starts, histVars>>

\* Mutant: the stop flag is not looked at.
StopTestIgnores ==
  /\ At("test", "lock")
  /\ UNCHANGED <<timerVars, fifoVars, alarm_mutex, vmutex, handlerVars, lpc, sID, arming,
                 starts, stop, histVars>>

StopTest ==
  /\ At("test", IF stop THEN "destroy" ELSE "lock")
  /\ UNCHANGED <<timerVars, fifoVars, alarm_mutex, vmutex, handlerVars, lpc, sID, arming,
                 starts, stop, histVars>>

GetLock ==
  /\ At("lock", "get")
  /\ alarm_mutex = Nobody /\ alarm_mutex' = "TRIGGER"
  /\ UNCHANGED <<timerVars, fifoVars, vmutex, handlerVars, lpc, sID, arming, starts,
                 stop, histVars>>

\* FIFO_get, up to its call of verbose.
Get ==
  /\ \/ At("get", "log") /\ FIFO_get
     \/ At("get", "empty") /\ putID = getID /\ UNCHANGED <<sID, fifoVars>>
  /\ UNCHANGED <<timerVars, alarm_mutex, vmutex, handlerVars, lpc, arming, starts, stop, histVars>>

\* pthread_cond_wait releases alarm_mutex and waits in one step.
CondWait ==
  /\ At("empty", "wait") /\ alarm_mutex' = Nobody
  /\ UNCHANGED <<timerVars, fifoVars, vmutex, handlerVars, lpc, sID, arming, starts, stop, histVars>>

\* pthread_cond_wait may return unsignalled.
SpuriousWakeup ==
  /\ At("wait", "lock")
  /\ UNCHANGED <<timerVars, fifoVars, alarm_mutex, vmutex, handlerVars, lpc, sID, arming,
                 starts, stop, histVars>>

\* verbose() in FIFO_get, holding alarm_mutex, and again after the unlock.
TriggerVerbose ==
  /\ \/ (At("log", "logged") \/ At("work", "working")) /\ vmutex = Nobody
        /\ vmutex' = "TRIGGER"
     \/ (At("logged", "unlock") \/ At("working", "test")) /\ vmutex' = Nobody
  /\ UNCHANGED <<timerVars, fifoVars, alarm_mutex, handlerVars, lpc, sID, arming, starts,
                 stop, histVars>>

\* From here on ntp_client works for server sID and sends its request.
GetUnlock ==
  /\ At("unlock", "work")
  /\ alarm_mutex' = Nobody
  /\ UNCHANGED <<timerVars, fifoVars, vmutex, handlerVars, lpc, sID, arming, starts,
                 stop, histVars>>

\* FIFO_destroy(alarm_buffer), then the store of NULL; the timers live on.
Destroy ==
  /\ \/ At("destroy", "clear") /\ alarm_buffer' = IF alarm_buffer = "NULL" THEN "NULL" ELSE "freed"
     \/ At("clear", "dead") /\ alarm_buffer' = "NULL"
  /\ UNCHANGED <<timerVars, getID, putID, buffer, alarm_mutex, vmutex, handlerVars, lpc,
                 sID, arming, starts, stop, histVars>>

ntp_client_init == InitMutex \/ InitFifo \/ ArmTimer \/ InitFails
ntp_client == GetLock \/ Get \/ CondWait \/ TriggerVerbose \/ GetUnlock
thread_trigger == ntp_client_init \/ StopTest \/ ntp_client \/ Destroy

-----------------------------------------------------------------------------
(* MAIN: start_live raises the stop flag after the capture loop, joins     *)
(* TRIGGER, clears the flag and, after a rehash, starts TRIGGER again.     *)

StopTrigger ==
  /\ Idle("MAIN") /\ lpc["MAIN"] = "elsewhere" /\ starts > 0 /\ ~stop
  /\ stop' = TRUE
  /\ UNCHANGED <<timerVars, fifoVars, alarm_mutex, vmutex, handlerVars, lpc, triggerVars,
                 histVars>>

start_thread_TRIGGER ==
  /\ Idle("MAIN") /\ lpc["MAIN"] = "elsewhere"
  /\ starts < MaxStarts /\ tpc = "dead"
  /\ starts' = starts + 1
  /\ tpc' = "init" /\ stop' = FALSE
  /\ UNCHANGED <<timerVars, fifoVars, alarm_mutex, vmutex, handlerVars, lpc, sID, arming,
                 histVars>>

-----------------------------------------------------------------------------
Init ==
  /\ timers = [s \in Servers |-> 0] /\ pending = [s \in Servers |-> 0] /\ alarms = 0
  /\ alarm_buffer = "NULL" /\ getID = 0 /\ putID = 0
  /\ buffer = [i \in 0..(Capacity - 1) |-> 0]
  /\ alarm_mutex = Nobody /\ vmutex = Nobody
  /\ hpc = [t \in Threads |-> "none"] /\ hsid = [t \in Threads |-> 0]
  /\ lpc = [t \in Loggers |-> "elsewhere"]
  /\ tpc = "dead" /\ sID = 0 /\ arming = 0 /\ stop = FALSE /\ starts = 0
  /\ dropped = {} /\ trampled = FALSE

Next ==
  \/ \E s \in Servers : Expire(s)
  \/ \E t \in Catchers, s \in Servers : Deliver(t, s)
  \/ \E t \in Catchers : catch_alarm(t)
  \/ \E t \in Loggers : VerboseLock(t) \/ VerboseUnlock(t)
  \/ thread_trigger \/ SpuriousWakeup
  \/ StopTrigger \/ start_thread_TRIGGER

Spec == Init /\ [][Next]_vars

\* Every thread runs when it can; a mutex that is free again and again is got in
\* the end; a pending signal is delivered; the timers are periodic.
FairSpec ==
  /\ Spec
  /\ \A s \in Servers : WF_vars(Expire(s)) /\ SF_vars(\E t \in Catchers : Deliver(t, s))
  /\ \A t \in Catchers : SF_vars(catch_alarm(t))
  /\ \A t \in Loggers : WF_vars(VerboseUnlock(t))
  /\ SF_vars(thread_trigger)

-----------------------------------------------------------------------------
\* Type invariant.
TypeOK ==
  /\ timers \in [Servers -> 0..MaxStarts] /\ alarms \in 0..MaxAlarms
  /\ \A s \in Servers : pending[s] \in 0..timers[s]
  /\ alarm_buffer \in {"NULL", "made", "freed"}
  /\ getID \in Int /\ putID \in Int /\ buffer \in [0..(Capacity - 1) -> Servers]
  /\ {alarm_mutex, vmutex} \subseteq Threads \cup {Nobody}
  /\ hpc \in [Threads -> {"none", "lock", "test", "put", "log", "logged", "signal"}]
  /\ hsid \in [Threads -> Servers] /\ lpc \in [Loggers -> {"elsewhere", "verbose"}]
  /\ tpc \in {"init", "fifo", "arm", "test", "lock", "get", "empty", "wait", "log", "logged",
              "unlock", "work", "working", "destroy", "clear", "dead"}
  /\ sID \in Servers /\ arming \in 0..NServers /\ stop \in BOOLEAN
  /\ starts \in 0..MaxStarts /\ dropped \subseteq Servers
  /\ trampled \in BOOLEAN

\* "while (FIFO_get(...)) pthread_cond_wait(...)" (client_ntp.c:356): TRIGGER never
\* sleeps on a ring that holds an alarm, unless the handler that put it there is still
\* on its way to pthread_cond_signal.  The one exception: a restart of TRIGGER
\* initialised alarm_mutex while a handler held it (client_ntp.c:129).
NoLostWakeup ==
  tpc = "wait" /\ alarm_buffer = "made" /\ putID # getID =>
    trampled \/ \E t \in Threads : hpc[t] \in {"log", "logged", "signal"}

\* The ring as a sequence, while there is one and alarm_mutex protects it.
RingUp == alarm_buffer = "made" /\ ~trampled
Entries ==
  IF RingUp THEN [i \in 1..(putID - getID) |-> buffer[Slot(getID + i - 1)]] ELSE << >>
Queue == INSTANCE AlarmQueue WITH Values <- Servers, up <- RingUp, queue <- Entries, got <- sID

\* FIFO.c's ring is the bounded queue AlarmQueue: TRIGGER gets the alarms in the order
\* they were caught, and only the oldest is given up, when the ring is full.  FIFO_put
\* and FIFO_get are single steps, which is right as long as alarm_mutex excludes one
\* from the other; once it has been initialised under a handler nothing is claimed.
AlarmsInOrder == Queue!QueueSpec

\* "We store the sIDs of signals in a FIFO buffer to ensure they aren't missed"
\* (pthread_trigger.c:83): a timer that expires while there is a ring has TRIGGER work
\* for its server, unless the alarm is overwritten in a full ring, or TRIGGER is being
\* stopped, or alarm_mutex was initialised under a handler.
AlarmsServed ==
  \A s \in Servers :
    pending[s] > 0 /\ alarm_buffer = "made" ~>
      (tpc = "work" /\ sID = s) \/ s \in dropped \/ stop \/ trampled

\* A stop flag raised while TRIGGER sleeps is seen only after the next alarm
\* (client_ntp.c:357): as long as one more alarm is to come, TRIGGER ends.
TriggerStops == stop /\ alarms < MaxAlarms ~> tpc = "dead" \/ trampled
=============================================================================
