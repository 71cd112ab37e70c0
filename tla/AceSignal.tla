-------------------------------- MODULE AceSignal --------------------------------
(***************************************************************************)
(* ace/signal/main.cpp: the main thread registers one handler for SIGFPE   *)
(* and SIGSEGV with the reactor, arms a timer and starts two threads that  *)
(* fault, one by a division and one by a null pointer. The handler runs in *)
(* the faulting thread, logs a backtrace and ends that thread. ACE_DEBUG   *)
(* serialises log lines with a lock of the process. The build is without   *)
(* optimisation, so the faulty instructions are there.                     *)
(***************************************************************************)
EXTENDS Integers

VARIABLES
  at,           \* where each thread is
  registered,   \* signals that have the reactor's handler
  refused,      \* history: signals for which register_handler() failed
  timer,        \* "unset", "armed" or "fired"
  logLock,      \* the thread that is writing a log line, or "free"
  aceStatus     \* "running" or "killed"

aceVars == <<at, registered, refused, timer, logLock, aceStatus>>

Children == {"child0", "child1"}
AceThreads == Children \cup {"main"}
Faults(t) == IF t = "child0" THEN "SIGFPE" ELSE "SIGSEGV"

\* The places of an ACE_DEBUG.
Logging == {"hello", "timeout", "begin", "function", "handler", "dump", "symbols", "last"}

AceTypeOK ==
  /\ at["main"] \in {"fpe", "segv", "timer", "hello", "spawn0", "sleep", "spawn1", "loop", "timeout"}
  /\ \A t \in Children :
       at[t] \in {"none", "begin", "function", "fault", "handler", "dump", "symbols", "last", "ended"}
  /\ registered \subseteq {"SIGFPE", "SIGSEGV"} /\ refused \subseteq {"SIGFPE", "SIGSEGV"}
  /\ timer \in {"unset", "armed", "fired"}
  /\ logLock \in AceThreads \cup {"free"} /\ aceStatus \in {"running", "killed"}

AceInit ==
  /\ at = [t \in AceThreads |-> IF t = "main" THEN "fpe" ELSE "none"]
  /\ registered = {} /\ refused = {} /\ timer = "unset" /\ logLock = "free" /\ aceStatus = "running"

Move(t, from, to) == aceStatus = "running" /\ at[t] = from /\ at' = [at EXCEPT ![t] = to]

\* A log line is begun when the lock is free ...
TakeLog(t) ==
  /\ aceStatus = "running" /\ at[t] \in Logging /\ logLock = "free"
  /\ logLock' = t
  /\ UNCHANGED <<at, registered, refused, timer, aceStatus>>

\* ... and the thread goes on when it is written.
Log(t, from, to) ==
  /\ Move(t, from, to) /\ logLock = t /\ logLock' = "free"
  /\ UNCHANGED <<registered, refused, timer, aceStatus>>

-----------------------------------------------------------------------------
(* ACE_TMAIN                                                               *)

\* Faulty variant: the second registration forgotten.
OnlyFPE == {"SIGFPE"}

Handlers == {"SIGFPE", "SIGSEGV"}

\* register_handler() allocates and may fail; its result is not looked at.
Register(from, sig, to) ==
  /\ Move("main", from, to)
  /\ \/ registered' = registered \cup ({sig} \cap Handlers) /\ UNCHANGED refused
     \/ refused' = refused \cup {sig} /\ UNCHANGED registered
  /\ UNCHANGED <<timer, logLock, aceStatus>>

\* The result is not looked at.
ScheduleTimer ==
  /\ Move("main", "timer", "hello")
  /\ timer' \in {"armed", "unset"}
  /\ UNCHANGED <<registered, refused, logLock, aceStatus>>

\* ACE_Thread::spawn; its result is not looked at either.
Spawn(from, child, to) ==
  /\ aceStatus = "running" /\ at["main"] = from
  /\ \E start \in {"begin", "none"} : at' = [at EXCEPT !["main"] = to, ![child] = start]
  /\ UNCHANGED <<registered, refused, timer, logLock, aceStatus>>

AceSleep == Move("main", "sleep", "spawn1") /\ UNCHANGED <<registered, refused, timer, logLock, aceStatus>>

\* run_reactor_event_loop() dispatches the timer once and waits for ever after.
Timeout ==
  /\ timer = "armed" /\ timer' = "fired"
  /\ Move("main", "loop", "timeout")
  /\ UNCHANGED <<registered, refused, logLock, aceStatus>>

AceMain ==
  \/ Register("fpe", "SIGFPE", "segv") \/ Register("segv", "SIGSEGV", "timer")
  \/ ScheduleTimer \/ Log("main", "hello", "spawn0")
  \/ Spawn("spawn0", "child0", "sleep") \/ AceSleep \/ Spawn("spawn1", "child1", "loop")
  \/ Timeout \/ Log("main", "timeout", "loop")

-----------------------------------------------------------------------------
(* childThreadFunc and MyCTestSignal::handle_signal                        *)

\* The kernel interrupts the faulting thread, or ends the process.
Fault(t) ==
  \/ /\ Faults(t) \in registered
     /\ Move(t, "fault", "handler")
     /\ UNCHANGED <<registered, refused, timer, logLock, aceStatus>>
  \/ /\ Faults(t) \notin registered
     /\ Move(t, "fault", "fault")
     /\ aceStatus' = "killed"
     /\ UNCHANGED <<registered, refused, timer, logLock>>

\* Faulty variant: the handler returns, and the instruction is executed again.
HandlerReturnsTo == "fault"

\* ACE_Thread::exit()
HandlerLeavesFor == "ended"

\* dumpStackUseBacktrace(): without memory for the symbols the thread ends there.
Dump(t) == Log(t, "dump", "symbols") \/ Log(t, "dump", "ended")

AceChild(t) ==
  \/ Log(t, "begin", "function") \/ Log(t, "function", "fault") \/ Fault(t)
  \/ Log(t, "handler", "dump") \/ Dump(t) \/ Log(t, "symbols", "last")
  \/ Log(t, "last", HandlerLeavesFor)

AceThread(t) == TakeLog(t) \/ (t = "main" /\ AceMain) \/ (t \in Children /\ AceChild(t))

AceNext == \E t \in AceThreads : AceThread(t)

\* Threads are scheduled and timers expire; a thread that waits for the lock gets it in the
\* end, because each of the others logs finitely often.
AceFairness == \A t \in AceThreads : WF_aceVars(AceThread(t))

AceSpec == AceInit /\ [][AceNext]_aceVars /\ AceFairness

-----------------------------------------------------------------------------
\* A fault in a thread ends the process only where the registration of its handler was
\* refused and nobody looked: otherwise the handler is there before a thread is started,
\* whenever it faults.
FaultsContained ==
  aceStatus = "killed" => \E t \in Children : at[t] = "fault" /\ Faults(t) \in refused

\* Every thread that was started ends in the handler, though both handlers and the main
\* thread compete for the log, and the main thread gets on to its event loop, unless a
\* fault without a handler ends them all.
FaultingThreadsEnd ==
  /\ \A t \in Children : at[t] = "begin" ~> at[t] = "ended" \/ aceStatus = "killed"
  /\ at["main"] = "segv" ~> at["main"] = "loop" \/ aceStatus = "killed"

=============================================================================
