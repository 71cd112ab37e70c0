----------------------------- MODULE SignalProofs -----------------------------
(***************************************************************************)
(* Proofs of the safety properties of SignalPass, for every number of      *)
(* signals the user sends, and of AceSignal, the test with ACE's reactor,  *)
(* for every order in which its threads run and fault.                     *)
(***************************************************************************)
EXTENDS SignalPass, AceSignal, TLAPS

\* sigaction() is main()'s third step, succeeds only for a signal that may be caught,
\* and the disposition leaves "handler" exactly when the handler is entered.
InvInstall ==
  /\ installed => g_signumpara # "reject"
  /\ installed => (disposition = "handler" <=> entered = 0)
  /\ ~installed => disposition = "default" /\ entered = 0

\* One handler activation at most: two threads are never in it together, and what it
\* passed on was passed by the only activation there is.
InvHandler ==
  /\ entered \in {0, 1}
  /\ entered = 0 => passed = "no" /\ pcHandler = [t \in Threads |-> "idle"]
  /\ pcHandler["main"] = "idle" \/ pcHandler["child"] = "idle"
  /\ passed # "no" => \A t \in Threads : pcHandler[t] \in {"idle", "leave"}
  /\ pcHandler["child"] # "idle" => Alive("child") /\ ~Blocked("child")

\* main() is past pthread_join() only when no child is left.
InvJoin ==
  /\ pcMain \in {"getopt", "sigaction", "create"} => pcChild = "none"
  /\ pcChild = "none" => pcMain \in {"getopt", "sigaction", "create"}
  /\ g_childThreadId = "garbage" => pcChild = "failed"
  /\ pcMain \in {"join", "return"} => g_childThreadId # "unset"
  /\ pcMain = "return" => ~Alive("child")

\* Only a signal that stops has stopped the process.
InvStopped == status = "stopped" => g_signumpara \in {"stop", "reject"}

\* A terminating signal that was passed on is still pending, and a thread that will
\* take it is held until it does.
InvPassed ==
  status = "running" /\ g_signumpara = "term" =>
    /\ passed = "process" => /\ "process" \in pending
                             /\ \E t \in Threads : pcHandler[t] = "leave"
    /\ passed = "thread"  => "thread" \in pending /\ Alive("child")

\* A child that pauses never gets to the epoll branch.
InvPause == g_epoll_blocked = "pause" => pcChild \notin {"setup", "wait"}

\* With -n and without -t the handler has passed nothing on.
InvNoPass == passed # "no" => ~g_no_pass_again \/ g_thread_test

Count(b) == IF b THEN 1 ELSE 0

\* Every pending signal and every handler activation stems from a signal of its own.
InvCount ==
  Count("process" \in pending) + Count("thread" \in pending) + entered
    <= sent + Count(passed # "no")

\* After sigaction() the first signal neither kills nor stops: a process killed or stopped
\* later has run the handler once and met a second signal, the user's or the passed one.
KilledBySecondSignal ==
  status \in {"killed", "stopped"} /\ installed => entered = 1 /\ sent + Count(passed # "no") >= 2

\* As long as every signal is sent at the prompt to a living child, the first one is taken
\* before the child ends, so that the handler passes it on before the join returns.
InvPrompt ==
  ~outside =>
    /\ pending # {} \/ entered = 1 => pcMain \in {"join", "return"}
    /\ entered = 0 /\ pending # {} => Prompted
    /\ \A t \in Threads : pcHandler[t] \in {"restore", "pass"} => pcMain = "join"

IInv ==
  /\ TypeOK
  /\ InvInstall
  /\ InvHandler
  /\ InvJoin
  /\ InvStopped
  /\ InvPassed
  /\ InvPause
  /\ InvNoPass
  /\ InvCount
  /\ InvPrompt
  /\ PassedSignalKills
  /\ KilledBySecondSignal
  /\ PromptedNeverFaults
  /\ PauseEndsByHandler

-----------------------------------------------------------------------------
\* One step of any thread, of the kernel or of the user preserves the types.
LEMMA TypeStep == TypeOK /\ [Next]_vars => TypeOK'
<1> SUFFICES ASSUME TypeOK, [Next]_vars PROVE TypeOK'
  OBVIOUS
<1> USE MaxSignalsAssumption DEF TypeOK, Waits, Classes, Ended, options, kernel, history
<1>1. CASE UserSends
  BY <1>1 DEF UserSends
<1>7. CASE Continue
  BY <1>7 DEF Continue
<1>2. CASE Main
  <2>1. CASE Getopt
    BY <1>2, <2>1 DEF Main, MainRuns, Getopt
  <2>2. CASE Usage
    BY <1>2, <2>2 DEF Main, MainRuns, Usage
  <2>3. CASE Sigaction
    BY <1>2, <2>3 DEF Main, MainRuns, Sigaction
  <2>4. CASE PthreadCreate
    BY <1>2, <2>4 DEF Main, MainRuns, PthreadCreate
  <2>5. CASE StoreChildId
    BY <1>2, <2>5 DEF Main, MainRuns, StoreChildId
  <2>6. CASE PthreadJoin
    BY <1>2, <2>6 DEF Main, MainRuns, PthreadJoin
  <2>7. CASE MainReturns
    BY <1>2, <2>7 DEF Main, MainRuns, MainReturns
  <2> QED
    BY <1>2, <2>1, <2>2, <2>3, <2>4, <2>5, <2>6, <2>7 DEF Main
<1>3. CASE Child
  <2>1. CASE ChildEntry
    BY <2>1 DEF ChildRuns, ChildGoes, ChildEntry
  <2>2. CASE ChildSetup
    BY <2>2 DEF ChildRuns, ChildGoes, ChildSetup
  <2>3. CASE ChildSetupFails
    BY <2>3 DEF ChildRuns, ChildGoes, ChildSetupFails
  <2>4. CASE EpollTimeout
    BY <2>4 DEF ChildRuns, ChildGoes, EpollTimeout
  <2>5. CASE ChildExits
    BY <2>5 DEF ChildRuns, ChildGoes, ChildExits
  <2> QED
    BY <1>3, <2>1, <2>2, <2>3, <2>4, <2>5 DEF Child
<1>4. ASSUME NEW t \in Threads, Deliver(t) PROVE TypeOK'
  <2>1. pending' \subseteq {"process", "thread"}
    BY <1>4 DEF Deliver, EnterHandler, DefaultAction, Taken
  <2>2. CASE EnterHandler(t)
    BY <2>1, <2>2 DEF EnterHandler, DispositionOnEntry
  <2>3. CASE DefaultAction(t)
    BY <2>1, <2>3 DEF DefaultAction, StatusAfter
  <2> QED
    BY <1>4, <2>2, <2>3 DEF Deliver
<1>5. ASSUME NEW t \in Threads, Handler(t) PROVE TypeOK'
  <2>1. CASE RestoreDefault(t)
    BY <2>1 DEF RestoreDefault
  <2>2. CASE Pass(t)
    <3>1. /\ pending' \subseteq {"process", "thread"}
          /\ passed' \in {"no", "process", "thread"}
          /\ status' \in {"running", "crashed"}
      BY <2>2 DEF Pass, PassOn, PthreadKill
    <3> QED
      BY <2>2, <3>1 DEF Pass
  <2>3. CASE HandlerReturns(t)
    BY <2>3 DEF HandlerReturns
  <2> QED
    BY <1>5, <2>1, <2>2, <2>3 DEF Handler
<1>6. CASE UNCHANGED vars
  BY <1>6 DEF vars
<1> QED
  BY <1>1, <1>2, <1>3, <1>4, <1>5, <1>6, <1>7 DEF Next

\* The state after exec has the right types.
LEMMA TypeInit == Init => TypeOK
<1> SUFFICES ASSUME Init PROVE TypeOK
  OBVIOUS
<1>1. sent \in 0..MaxSignals /\ entered \in Nat
  BY MaxSignalsAssumption DEF Init
<1>2. pcHandler \in [Threads -> {"idle", "restore", "pass", "leave"}]
  BY DEF Init
<1> QED
  BY <1>1, <1>2 DEF Init, TypeOK, Waits, Classes

\* The type invariant of the specification.
THEOREM TypeCorrect == Spec => []TypeOK
  BY TypeInit, TypeStep, PTL DEF Spec

-----------------------------------------------------------------------------
\* Every step preserves the inductive invariant: one case per action of the model.
LEMMA InvStep == IInv /\ [Next]_vars => IInv'
<1> SUFFICES ASSUME IInv, [Next]_vars PROVE IInv'
  OBVIOUS
<1>0. TypeOK'
  BY TypeStep DEF IInv
<1> USE <1>0 DEF IInv, TypeOK, InvInstall, installed, InvHandler, InvJoin, InvStopped, InvPassed,
                 InvPause, InvNoPass, InvCount, Count, InvPrompt, Prompted, PassedSignalKills,
                 KilledBySecondSignal, PromptedNeverFaults, PauseEndsByHandler, Threads,
                 options, kernel, history, Alive, Blocked
<1>1. CASE Usage
  BY <1>1 DEF Usage, MainRuns
<1>2. CASE Getopt
  BY <1>2 DEF Getopt, MainRuns
<1>3. CASE Sigaction
  BY <1>3 DEF Sigaction, MainRuns
<1>4. CASE PthreadCreate
  BY <1>4 DEF PthreadCreate, MainRuns
<1>5. CASE StoreChildId
  BY <1>5 DEF StoreChildId, MainRuns
<1>6. CASE PthreadJoin
  BY <1>6 DEF PthreadJoin, MainRuns
<1>7. CASE MainReturns
  BY <1>7 DEF MainReturns, MainRuns
<1>8. CASE ChildEntry
  BY <1>8 DEF ChildEntry, ChildRuns, ChildGoes
<1>9. CASE ChildSetup
  BY <1>9 DEF ChildSetup, ChildRuns, ChildGoes
<1>10. CASE ChildSetupFails
  BY <1>10 DEF ChildSetupFails, ChildRuns, ChildGoes
<1>11. CASE EpollTimeout
  BY <1>11 DEF EpollTimeout, ChildRuns, ChildGoes
<1>12. CASE ChildExits
  BY <1>12 DEF ChildExits, ChildRuns, ChildGoes, MayTake, Deliverable, PendingFor
<1>13. CASE UserSends
  <2>1. /\ UNCHANGED <<options, g_childThreadId, pcMain, pcChild, pcHandler, disposition,
                       entered, passed, status>>
        /\ sent' = sent + 1 /\ pending' = pending \cup {"process"}
        /\ status \in {"running", "stopped"}
    BY <1>13 DEF UserSends
  <2>2. ~outside' => ~outside /\ pcMain = "join" /\ Alive("child")
    BY <1>13, Zenon DEF UserSends, Prompted
  <2>3. InvPrompt' /\ PromptedNeverFaults'
    BY <2>1, <2>2
  <2>4. InvCount' /\ KilledBySecondSignal'
    BY <2>1
  <2> QED
    BY <2>1, <2>3, <2>4
<1>14. ASSUME NEW t \in Threads, EnterHandler(t) PROVE IInv'
  BY <1>14 DEF EnterHandler, MayTake, Deliverable, PendingFor, Taken, DispositionOnEntry
<1>15. ASSUME NEW t \in Threads, DefaultAction(t) PROVE IInv'
  BY <1>15 DEF DefaultAction, StatusAfter, Classes, MayTake, Deliverable, PendingFor, Taken
<1>16. ASSUME NEW t \in Threads, RestoreDefault(t) PROVE IInv'
  BY <1>16 DEF RestoreDefault
<1>17. ASSUME NEW t \in Threads, Pass(t) PROVE IInv'
  BY <1>17 DEF Pass, PassOn, PthreadKill, Dangling
<1>18. ASSUME NEW t \in Threads, HandlerReturns(t) PROVE IInv'
  BY <1>18 DEF HandlerReturns, MayTake, Deliverable, PendingFor
<1>19. CASE UNCHANGED vars
  BY <1>19 DEF vars
<1>20. CASE Continue
  <2>1. /\ UNCHANGED <<options, g_childThreadId, pcMain, pcHandler, disposition, history>>
        /\ status = "stopped" /\ status' = "running" /\ pending' = {}
        /\ pcChild' = pcChild \/ (pcChild = "wait" /\ pcChild' = "returned")
    BY <1>20 DEF Continue
  <2>2. passed # "no" => g_signumpara # "term"
    BY <2>1
  <2> QED
    BY <2>1, <2>2
<1> QED
  BY <1>1, <1>2, <1>3, <1>4, <1>5, <1>6, <1>7, <1>8, <1>9, <1>10,
     <1>11, <1>12, <1>13, <1>14, <1>15, <1>16, <1>17, <1>18, <1>19, <1>20
     DEF Next, Main, Child, Deliver, Handler

\* The inductive invariant holds of every reachable state.
THEOREM Invariance == Spec => []IInv
<1>1. Init => IInv
  <2> SUFFICES ASSUME Init PROVE IInv
    OBVIOUS
  <2>1. TypeOK
    BY TypeInit
  <2> QED
    BY <2>1 DEF Init, IInv, InvInstall, installed, InvHandler, InvJoin, InvStopped, InvPassed,
                InvPause, InvNoPass, InvCount, Count, InvPrompt, PassedSignalKills,
                KilledBySecondSignal, PromptedNeverFaults, PauseEndsByHandler, Threads
<1> QED
  BY <1>1, InvStep, PTL DEF Spec

\* The one-shot handler of c/signal/main.c runs at most once, however many signals come
\* and on whichever thread.
THEOREM HandlerOnce == Spec => []HandlerRunsOnce
<1>1. IInv => HandlerRunsOnce
  BY DEF IInv, InvHandler, HandlerRunsOnce
<1> QED
  BY <1>1, Invariance, PTL

\* A terminating signal passed on by the handler is never outrun by a normal exit.
THEOREM PassedKills == Spec => []PassedSignalKills
<1>1. IInv => PassedSignalKills
  BY DEF IInv
<1> QED
  BY <1>1, Invariance, PTL

\* After sigaction() only a second signal kills or stops the process, so that with -n and
\* without -t, where the handler passes nothing on, one signal does neither.
THEOREM NoPassLives == Spec => []NoPassSurvives
<1>1. IInv => NoPassSurvives
  BY DEF IInv, TypeOK, InvNoPass, KilledBySecondSignal, Count, NoPassSurvives
<1> QED
  BY <1>1, Invariance, PTL

\* A signal sent at the prompt to a living child never brings the handler to an invalid
\* thread id, however late and in whichever thread it runs.
THEOREM PromptedSafe == Spec => []PromptedNeverFaults
<1>1. IInv => PromptedNeverFaults
  BY DEF IInv
<1> QED
  BY <1>1, Invariance, PTL

\* pause() in thread_entry ends by the handler only.
THEOREM PauseByHandler == Spec => []PauseEndsByHandler
<1>1. IInv => PauseEndsByHandler
  BY DEF IInv
<1> QED
  BY <1>1, Invariance, PTL

-----------------------------------------------------------------------------
(* The ACE demonstration: AceSignal                                        *)

\* AceTypeOK in parts: where the threads are, and the rest.
AcePlaces ==
  /\ DOMAIN at = {"child0", "child1", "main"}
  /\ at["main"] \in {"fpe", "segv", "timer", "hello", "spawn0", "sleep", "spawn1", "loop", "timeout"}
  /\ \A t \in Children :
       at[t] \in {"none", "begin", "function", "fault", "handler", "dump", "symbols", "last", "ended"}

AceData ==
  /\ registered \subseteq {"SIGFPE", "SIGSEGV"} /\ refused \subseteq {"SIGFPE", "SIGSEGV"}
  /\ timer \in {"unset", "armed", "fired"}
  /\ logLock \in {"child0", "child1", "main", "free"} /\ aceStatus \in {"running", "killed"}

\* The main thread starts one thread and then the other, each once.
InvStarted ==
  /\ at["main"] \in {"fpe", "segv", "timer", "hello", "spawn0"} => at["child0"] = "none"
  /\ at["main"] \in {"fpe", "segv", "timer", "hello", "spawn0", "sleep", "spawn1"} =>
       at["child1"] = "none"

\* Both handlers are there before it does, or were refused.
InvRegistered ==
  /\ at["main"] = "segv" => "SIGFPE" \in registered \cup refused
  /\ at["main"] \notin {"fpe", "segv"} => {"SIGFPE", "SIGSEGV"} \subseteq registered \cup refused

\* The log's lock is held by a thread that is writing a line, and so by none that has
\* faulted: its handler, which logs too, cannot wait for the thread it interrupted.
LockHeldWhileLogging == logLock # "free" => at[logLock] \in Logging

AceInv ==
  AcePlaces /\ AceData /\ InvStarted /\ InvRegistered /\ LockHeldWhileLogging /\ FaultsContained

\* The two threads and the main one, by name.
LEMMA AceNames ==
  /\ Children = {"child0", "child1"} /\ AceThreads = {"child0", "child1", "main"}
  BY DEF Children, AceThreads

\* A thread that has written its line goes on without the lock.
LEMMA AceLog ==
  ASSUME AceInv, NEW t \in AceThreads, NEW from \in Logging, NEW to, Log(t, from, to),
         \/ t = "main" /\ <<from, to>> \in {<<"hello", "spawn0">>, <<"timeout", "loop">>}
         \/ t \in Children /\ to \in {"function", "fault", "dump", "symbols", "last", "ended"}
                           /\ from \notin {"hello", "timeout"}
  PROVE  AceInv'
<1>0. AcePlaces /\ AceData /\ InvStarted /\ InvRegistered /\ FaultsContained
  BY DEF AceInv
<1>1. /\ at[t] = from /\ at' = [at EXCEPT ![t] = to] /\ logLock' = "free"
      /\ registered' = registered /\ refused' = refused /\ timer' = timer
      /\ aceStatus' = aceStatus /\ aceStatus = "running"
  BY DEF Log, Move
<1>2. AcePlaces'
  BY <1>0, <1>1, AceNames DEF AcePlaces
<1>3. AceData' /\ FaultsContained' /\ LockHeldWhileLogging'
  BY <1>0, <1>1 DEF AceData, FaultsContained, LockHeldWhileLogging
<1>4. InvStarted' /\ InvRegistered'
  BY <1>0, <1>1, AceNames DEF InvStarted, InvRegistered, AcePlaces, Logging
<1> QED
  BY <1>2, <1>3, <1>4 DEF AceInv

\* A thread that asks for the log's lock.
LEMMA AceTakeLog ==
  ASSUME AceInv, NEW t \in AceThreads, TakeLog(t)
  PROVE  AceInv'
<1>1. at' = at /\ registered' = registered /\ refused' = refused /\ timer' = timer /\ aceStatus' = aceStatus
  BY DEF TakeLog
<1>2. AcePlaces' /\ InvStarted' /\ InvRegistered' /\ FaultsContained'
  BY <1>1 DEF AceInv, AcePlaces, InvStarted, InvRegistered, FaultsContained
<1>3. logLock' = t /\ at[t] \in Logging
  BY DEF TakeLog
<1>4. AceData' /\ LockHeldWhileLogging'
  BY <1>1, <1>3, AceNames DEF AceInv, AceData, LockHeldWhileLogging
<1> QED
  BY <1>2, <1>4 DEF AceInv

\* Steps of the main thread: it is outside every log line, and so without the lock.
LEMMA AceMainStep == AceInv /\ AceMain => AceInv'
<1> SUFFICES ASSUME AceInv, AceMain PROVE AceInv'
  OBVIOUS
<1>0. AcePlaces /\ AceData /\ InvStarted /\ InvRegistered /\ LockHeldWhileLogging /\ FaultsContained
  BY DEF AceInv
<1> USE AceNames
<1>1. CASE Register("fpe", "SIGFPE", "segv")
  <2>1. /\ at["main"] = "fpe" /\ at' = [at EXCEPT !["main"] = "segv"] /\ logLock' = logLock
        /\ \/ registered' = registered \cup {"SIGFPE"} /\ refused' = refused
           \/ registered' = registered /\ refused' = refused \cup {"SIGFPE"}
        /\ timer' = timer /\ aceStatus' = aceStatus /\ aceStatus = "running"
    BY <1>1 DEF Register, Move, Handlers
  <2> QED
    BY <1>0, <2>1 DEF AceInv, AcePlaces, AceData, InvStarted, InvRegistered,
       LockHeldWhileLogging, Logging, FaultsContained
<1>2. CASE Register("segv", "SIGSEGV", "timer")
  <2>1. /\ at["main"] = "segv" /\ at' = [at EXCEPT !["main"] = "timer"] /\ logLock' = logLock
        /\ \/ registered' = registered \cup {"SIGSEGV"} /\ refused' = refused
           \/ registered' = registered /\ refused' = refused \cup {"SIGSEGV"}
        /\ timer' = timer /\ aceStatus' = aceStatus /\ aceStatus = "running"
    BY <1>2 DEF Register, Move, Handlers
  <2>2. {"SIGFPE", "SIGSEGV"} \subseteq registered' \cup refused'
    BY <1>0, <2>1 DEF AceData, InvRegistered
  <2> QED
    BY <1>0, <2>1, <2>2 DEF AceInv, AcePlaces, AceData, InvStarted, InvRegistered,
       LockHeldWhileLogging, Logging, FaultsContained
<1>3. CASE ScheduleTimer \/ AceSleep \/ Timeout
  <2>1. /\ \/ at["main"] = "timer" /\ at' = [at EXCEPT !["main"] = "hello"]
           \/ at["main"] = "sleep" /\ at' = [at EXCEPT !["main"] = "spawn1"]
           \/ at["main"] = "loop" /\ at' = [at EXCEPT !["main"] = "timeout"]
        /\ logLock' = logLock /\ registered' = registered /\ refused' = refused
        /\ aceStatus' = aceStatus /\ aceStatus = "running"
        /\ timer' = timer \/ timer' \in {"armed", "unset", "fired"}
    BY <1>3 DEF ScheduleTimer, AceSleep, Timeout, Move
  <2>2. AcePlaces'
    BY <1>0, <2>1 DEF AcePlaces
  <2>3. InvStarted' /\ InvRegistered'
    BY <1>0, <2>1 DEF AcePlaces, InvStarted, InvRegistered
  <2>4. AceData' /\ FaultsContained'
    BY <1>0, <2>1 DEF AceData, FaultsContained
  <2>5. LockHeldWhileLogging'
    BY <1>0, <2>1 DEF LockHeldWhileLogging, AcePlaces, AceData, Logging
  <2> QED
    BY <2>2, <2>3, <2>4, <2>5 DEF AceInv
<1>4. ASSUME NEW from \in {"spawn0", "spawn1"}, NEW child \in Children, NEW to \in {"sleep", "loop"},
             at["main"] = from, Spawn(from, child, to),
             from = "spawn0" => child = "child0" /\ to = "sleep",
             from = "spawn1" => child = "child1" /\ to = "loop"
      PROVE  AceInv'
  <2>1. PICK start \in {"begin", "none"} : at' = [at EXCEPT !["main"] = to, ![child] = start]
    BY <1>4 DEF Spawn
  <2>2. /\ logLock' = logLock /\ registered' = registered /\ refused' = refused /\ timer' = timer
        /\ aceStatus' = aceStatus /\ aceStatus = "running"
    BY <1>4 DEF Spawn
  <2>3. AcePlaces'
    BY <1>0, <1>4, <2>1 DEF AcePlaces
  <2>4. AceData' /\ FaultsContained'
    BY <1>0, <2>2 DEF AceData, FaultsContained
  <2>5. InvStarted' /\ InvRegistered'
    BY <1>0, <1>4, <2>1, <2>2 DEF AcePlaces, InvStarted, InvRegistered
  <2>6. LockHeldWhileLogging'
    <3>1. at["main"] \notin Logging /\ at[child] \notin Logging
      BY <1>0, <1>4 DEF InvStarted, Logging
    <3>2. logLock' # "free" => at'[logLock'] = at[logLock]
      BY <1>0, <1>4, <2>1, <2>2, <3>1 DEF LockHeldWhileLogging, AcePlaces, AceData
    <3> QED
      BY <1>0, <2>2, <3>2 DEF LockHeldWhileLogging
  <2> QED
    BY <2>3, <2>4, <2>5, <2>6 DEF AceInv
<1>5. CASE Log("main", "hello", "spawn0")
  BY <1>5, AceLog DEF Logging
<1>6. CASE Log("main", "timeout", "loop")
  BY <1>6, AceLog DEF Logging
<1> QED
  BY <1>1, <1>2, <1>3, <1>4, <1>5, <1>6 DEF AceMain, Spawn

\* A fault finds its handler registered, or refused, in a thread outside every log line.
LEMMA AceFault ==
  ASSUME AceInv, NEW t \in Children, Fault(t)
  PROVE  AceInv'
<1>0. AcePlaces /\ AceData /\ InvStarted /\ InvRegistered /\ LockHeldWhileLogging
  BY DEF AceInv
<1> USE AceNames
<1>1. at[t] = "fault" /\ aceStatus = "running"
  BY DEF Fault, Move
<1>2. Faults(t) \in registered \cup refused
  BY <1>0, <1>1 DEF InvStarted, InvRegistered, AcePlaces, Faults
<1>3. /\ registered' = registered /\ refused' = refused /\ timer' = timer /\ logLock' = logLock
      /\ \/ at' = [at EXCEPT ![t] = "handler"] /\ aceStatus' = aceStatus
         \/ /\ at' = [at EXCEPT ![t] = "fault"]
            /\ aceStatus' = "killed" /\ Faults(t) \in refused
  BY <1>2 DEF Fault, Move
<1>4. AcePlaces' /\ InvStarted' /\ InvRegistered'
  BY <1>0, <1>1, <1>3 DEF AcePlaces, InvStarted, InvRegistered
<1>5. AceData' /\ FaultsContained'
  BY <1>0, <1>1, <1>3 DEF AceData, FaultsContained, AcePlaces
<1>6. LockHeldWhileLogging'
  BY <1>0, <1>1, <1>3 DEF LockHeldWhileLogging, AcePlaces, AceData, Logging
<1> QED
  BY <1>4, <1>5, <1>6 DEF AceInv

\* Every other step of a thread that faults is a log line.
LEMMA AceChildStep ==
  ASSUME AceInv, NEW t \in Children, AceChild(t)
  PROVE  AceInv'
<1>1. t \in AceThreads
  BY AceNames
<1>2. ASSUME NEW from \in {"begin", "function", "handler", "dump", "symbols", "last"},
             NEW to \in {"function", "fault", "dump", "symbols", "last", "ended"}, Log(t, from, to)
      PROVE  AceInv'
  BY <1>1, <1>2, AceLog DEF Logging
<1>3. CASE Fault(t)
  BY <1>3, AceFault
<1> QED
  BY <1>2, <1>3 DEF AceChild, Dump, HandlerLeavesFor

\* Every step of the demonstration keeps the invariant.
LEMMA AceStep == AceInv /\ [AceNext]_aceVars => AceInv'
<1> SUFFICES ASSUME AceInv, [AceNext]_aceVars PROVE AceInv'
  OBVIOUS
<1>1. CASE AceNext
  BY <1>1, AceTakeLog, AceMainStep, AceChildStep DEF AceNext, AceThread
<1>2. CASE UNCHANGED aceVars
  BY <1>2 DEF aceVars, AceInv, AcePlaces, AceData, InvStarted, InvRegistered,
              LockHeldWhileLogging, FaultsContained
<1> QED
  BY <1>1, <1>2

\* The invariant holds in every order in which the three threads run.
THEOREM AceInvariance == AceSpec => []AceInv
<1>1. AceInit => AceInv
  BY AceNames DEF AceInit, AceInv, AcePlaces, AceData, InvStarted, InvRegistered,
                  LockHeldWhileLogging, FaultsContained
<1> QED
  BY <1>1, AceStep, PTL DEF AceSpec

\* The state of the three threads keeps its type.
THEOREM AceTypeCorrect == AceSpec => []AceTypeOK
<1>1. AceInv => AceTypeOK
  BY AceNames DEF AceInv, AcePlaces, AceData, FaultsContained, AceTypeOK
<1> QED
  BY <1>1, AceInvariance, PTL

\* No fault of a child thread ends the process, whenever it comes, unless the registration
\* of its handler was refused.
THEOREM AceFaultsContained == AceSpec => []FaultsContained
<1>1. AceInv => FaultsContained
  BY DEF AceInv
<1> QED
  BY <1>1, AceInvariance, PTL

\* handle_signal() never waits for a log line of the thread it interrupted.
THEOREM AceLockFree == AceSpec => []LockHeldWhileLogging
<1>1. AceInv => LockHeldWhileLogging
  BY DEF AceInv
<1> QED
  BY <1>1, AceInvariance, PTL

=============================================================================
