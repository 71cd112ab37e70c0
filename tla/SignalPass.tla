------------------------------ MODULE SignalPass ------------------------------
(***************************************************************************)
(* The signal-passing demonstrator of c/signal/main.c: a main thread that  *)
(* installs a one-shot handler, starts a child thread and joins it; a      *)
(* child thread that blocks in pause() or epoll_pwait(); a handler that    *)
(* restores the default action and passes the signal on; and the kernel,   *)
(* which keeps pending signals and delivers them to any willing thread.    *)
(*                                                                         *)
(* A signal number is abstracted to what the kernel does with it:          *)
(*   "term"   its default action terminates the process (SIGINT),          *)
(*   "stop"   its default action stops the process (SIGTSTP),              *)
(*   "ignore" its default action is to do nothing (SIGCHLD),               *)
(*   "reject" sigaction() refuses it (SIGKILL, an invalid number).         *)
(***************************************************************************)
EXTENDS Naturals

CONSTANT MaxSignals   \* bound: how many signals the user sends

ASSUME MaxSignalsAssumption == MaxSignals \in Nat

Threads == {"main", "child"}
Waits   == {"pause", "null", "sigset", "other"}   \* g_epoll_blocked: 0xff, 0, 1, any other
Classes == {"term", "stop", "ignore", "reject"}
Ended   == {"killed", "crashed", "exit0", "exit1"}

VARIABLES
  g_thread_test, g_no_pass_again, g_epoll_blocked, g_signumpara,
  g_childThreadId,  \* "unset" (the zero of .bss), "child", or the garbage of a failed create
  pcMain,           \* where main() is
  pcChild,          \* where thread_entry() is
  pcHandler,        \* per thread: the next step of custom_signal_handler, or "idle"
  disposition,      \* "default" or "handler": the kernel's action for the signal
  pending,          \* set of pending signals: "process" and/or "thread" (the child's own)
  sent,             \* history: signals the user sent
  entered,          \* history: how often the handler was entered
  passed,           \* history: "no", "process" (kill) or "thread" (pthread_kill)
  outside,          \* history: some signal was not sent at the prompt with the child alive
  status            \* "running", "stopped", "killed", "crashed", "exit0", "exit1"

options == <<g_thread_test, g_no_pass_again, g_epoll_blocked, g_signumpara>>
kernel  == <<disposition, pending>>
history == <<sent, entered, passed, outside>>
vars    == <<options, g_childThreadId, pcMain, pcChild, pcHandler, kernel, history, status>>

TypeOK ==
  /\ g_thread_test \in BOOLEAN
  /\ g_no_pass_again \in BOOLEAN
  /\ g_epoll_blocked \in Waits
  /\ g_signumpara \in Classes
  /\ g_childThreadId \in {"unset", "child", "garbage"}
  /\ pcMain \in {"getopt", "sigaction", "create", "store", "join", "return"}
  /\ pcChild \in {"none", "failed", "entry", "setup", "pause", "wait", "returned", "done"}
  /\ pcHandler \in [Threads -> {"idle", "restore", "pass", "leave"}]
  /\ disposition \in {"default", "handler"}
  /\ pending \subseteq {"process", "thread"}
  /\ sent \in 0..MaxSignals
  /\ entered \in Nat
  /\ passed \in {"no", "process", "thread"}
  /\ outside \in BOOLEAN
  /\ status \in {"running", "stopped"} \cup Ended

Init ==
  /\ g_thread_test = FALSE
  /\ g_no_pass_again = FALSE
  /\ g_epoll_blocked = "pause"
  /\ g_signumpara = "term"
  /\ g_childThreadId = "unset"
  /\ pcMain = "getopt"
  /\ pcChild = "none"
  /\ pcHandler = [t \in Threads |-> "idle"]
  /\ disposition = "default"
  /\ pending = {}
  /\ sent = 0
  /\ entered = 0
  /\ passed = "no"
  /\ outside = FALSE
  /\ status = "running"

-----------------------------------------------------------------------------
(* The kernel: generation and delivery of the signal.                      *)

\* main() has called sigaction() with success.
installed == pcMain \notin {"getopt", "sigaction"}

Alive(t) == t = "main" \/ pcChild \in {"entry", "setup", "pause", "wait", "returned"}

\* epoll_pwait with a sigset blocks the signal in the child for the call only.
Blocked(t) == t = "child" /\ pcChild = "wait" /\ g_epoll_blocked = "sigset"

PendingFor(t) == IF t = "child" THEN pending ELSE pending \ {"thread"}

Deliverable(t) == Alive(t) /\ ~Blocked(t) /\ PendingFor(t) # {}

\* main() has asked for the signal ("You can tirgger the desired signum") and the
\* child it created still runs.
Prompted == pcMain = "join" /\ Alive("child")

\* The terminal user sends the signal to the process; a pending signal absorbs it.
UserSends ==
  /\ status \in {"running", "stopped"}
  /\ sent < MaxSignals
  /\ sent' = sent + 1
  /\ pending' = pending \cup {"process"}
  /\ outside' = (outside \/ ~Prompted)
  /\ UNCHANGED <<options, g_childThreadId, pcMain, pcChild, pcHandler, disposition,
                 entered, passed, status>>

\* Faulty variant: SA_RESETHAND dropped.
KeepsHandlerOnEntry == disposition

\* SA_RESETHAND: the kernel restores the default action as it enters the handler.
DispositionOnEntry == "default"

\* What is left pending after thread t took a signal.
Taken(t) == {pending \ {p} : p \in PendingFor(t)}

\* Faulty variant: SA_NODEFER dropped.
MayTakeWhenIdle(t) == Deliverable(t) /\ pcHandler[t] = "idle"

\* SA_NODEFER: a thread that is running the handler takes the signal as well.
MayTake(t) == Deliverable(t)

EnterHandler(t) ==
  /\ status = "running"
  /\ disposition = "handler"
  /\ MayTake(t)
  /\ pending' \in Taken(t)
  /\ disposition' = DispositionOnEntry
  /\ pcHandler' = [pcHandler EXCEPT ![t] = "restore"]
  /\ entered' = entered + 1
  /\ UNCHANGED <<options, g_childThreadId, pcMain, pcChild, sent, passed, outside, status>>

\* What the default action of the signal makes of the process. SIGKILL and SIGSTOP are
\* both refused by sigaction().
StatusAfter ==
  CASE g_signumpara = "term"   -> {"killed"}
    [] g_signumpara = "stop"   -> {"stopped"}
    [] g_signumpara = "ignore" -> {status}
    [] g_signumpara = "reject" -> {"killed", "stopped"}

DefaultAction(t) ==
  /\ status = "running"
  /\ disposition = "default"
  /\ MayTake(t)
  /\ pending' \in Taken(t)
  /\ status' \in StatusAfter
  /\ UNCHANGED <<options, g_childThreadId, pcMain, pcChild, pcHandler, disposition, history>>

\* SIGCONT discards the stop signals that are pending; pause() and pthread_join() go on
\* waiting, epoll_pwait() may fail with EINTR.
Continue ==
  /\ status = "stopped"
  /\ status' = "running"
  /\ pending' = {}
  /\ pcChild' \in {pcChild} \cup (IF pcChild = "wait" THEN {"returned"} ELSE {})
  /\ UNCHANGED <<options, g_childThreadId, pcMain, pcHandler, disposition, history>>

-----------------------------------------------------------------------------
(* custom_signal_handler                                                   *)

RestoreDefault(t) ==
  /\ status = "running"
  /\ pcHandler[t] = "restore"
  /\ disposition' = "default"
  /\ pcHandler' = [pcHandler EXCEPT ![t] = "pass"]
  /\ UNCHANGED <<options, g_childThreadId, pcMain, pcChild, pending,
                 history, status>>

\* Faulty variant: a detached child, whose id dies with it.
DanglingIfDetached == g_childThreadId # "child" \/ pcChild = "done"

\* The id is zero, garbage, or that of a thread already joined.
Dangling == g_childThreadId # "child" \/ pcMain = "return"

\* pthread_kill dereferences the id: on a zero id it faults; on a garbage or joined
\* one it faults or reports that there is no such thread.
PthreadKill ==
  \/ /\ g_childThreadId # "unset"
     /\ IF Alive("child")
          THEN pending' = pending \cup {"thread"} /\ passed' = "thread"
          ELSE UNCHANGED <<pending, passed>>
     /\ UNCHANGED status
  \/ /\ Dangling
     /\ status' = "crashed"
     /\ UNCHANGED <<pending, passed>>

\* Faulty variant: the option -n has no effect.
PassOnAnyway ==
  IF g_thread_test
    THEN PthreadKill
    ELSE pending' = pending \cup {"process"} /\ passed' = "process" /\ UNCHANGED status

PassOn ==
  IF g_thread_test
    THEN PthreadKill
    ELSE /\ IF g_no_pass_again
              THEN UNCHANGED <<pending, passed>>
              ELSE pending' = pending \cup {"process"} /\ passed' = "process"
         /\ UNCHANGED status

Pass(t) ==
  /\ status = "running"
  /\ pcHandler[t] = "pass"
  /\ PassOn
  /\ pcHandler' = [pcHandler EXCEPT ![t] = "leave"]
  /\ UNCHANGED <<options, g_childThreadId, pcMain, pcChild, disposition, sent, entered, outside>>

\* A thread that sent itself a signal takes it before its system call returns, so the
\* handler returns only when nothing is deliverable. An interrupted pause() or
\* epoll_pwait() then fails with EINTR; pthread_join() restarts.
HandlerReturns(t) ==
  /\ status = "running"
  /\ pcHandler[t] = "leave"
  /\ ~MayTake(t)
  /\ pcHandler' = [pcHandler EXCEPT ![t] = "idle"]
  /\ pcChild' = IF t = "child" /\ pcChild \in {"pause", "wait"} THEN "returned" ELSE pcChild
  /\ UNCHANGED <<options, g_childThreadId, pcMain, kernel, history, status>>

-----------------------------------------------------------------------------
(* thread_entry                                                            *)

ChildRuns(from) == status = "running" /\ pcHandler["child"] = "idle" /\ pcChild = from

ChildGoes(to) ==
  /\ pcChild' = to
  /\ UNCHANGED <<options, g_childThreadId, pcMain, pcHandler, kernel, history, status>>

ChildEntry ==
  /\ ChildRuns("entry")
  /\ ChildGoes(IF g_epoll_blocked = "pause" THEN "pause" ELSE "setup")

\* epoll_create, pipe and epoll_ctl; a value of -e other than 0 and 1 waits for nothing.
ChildSetup ==
  /\ ChildRuns("setup")
  /\ ChildGoes(IF g_epoll_blocked \in {"null", "sigset"} THEN "wait" ELSE "returned")

ChildSetupFails == ChildRuns("setup") /\ ChildGoes("returned")

\* Faulty variant: epoll_pwait without a timeout.
EpollForever == FALSE /\ UNCHANGED vars

\* The 60 s timeout of epoll_pwait: nothing is ever written to the pipe.
EpollTimeout == ChildRuns("wait") /\ ChildGoes("returned")

\* A signal blocked during epoll_pwait is unblocked as the call returns. A thread takes
\* what is deliverable to it before it ends: its last system calls see to that.
ChildExits == ChildRuns("returned") /\ ~MayTake("child") /\ ChildGoes("done")

-----------------------------------------------------------------------------
(* main                                                                    *)

MainRuns(from) == status = "running" /\ pcHandler["main"] = "idle" /\ pcMain = from

\* The getopt loop: any combination of -t, -n, -e and -s.
Getopt ==
  /\ MainRuns("getopt")
  /\ g_thread_test' \in BOOLEAN
  /\ g_no_pass_again' \in BOOLEAN
  /\ g_epoll_blocked' \in Waits
  /\ g_signumpara' \in Classes
  /\ pcMain' = "sigaction"
  /\ UNCHANGED <<g_childThreadId, pcChild, pcHandler, kernel, history, status>>

Usage ==
  /\ MainRuns("getopt")
  /\ status' = "exit1"
  /\ UNCHANGED <<options, g_childThreadId, pcMain, pcChild, pcHandler, kernel, history>>

Sigaction ==
  /\ MainRuns("sigaction")
  /\ IF g_signumpara = "reject"
       THEN /\ status' = "exit1"
            /\ UNCHANGED <<disposition, pcMain>>
       ELSE /\ disposition' = "handler"
            /\ pcMain' = "create"
            /\ UNCHANGED status
  /\ UNCHANGED <<options, g_childThreadId, pcChild, pcHandler, pending, history>>

\* pthread_create reports failure with a positive number, which rc < 0 lets through.
PthreadCreate ==
  /\ MainRuns("create")
  /\ pcChild' \in {"entry", "failed"}
  /\ pcMain' = "store"
  /\ UNCHANGED <<options, g_childThreadId, pcHandler, kernel, history, status>>

StoreChildId ==
  /\ MainRuns("store")
  /\ g_childThreadId' = IF pcChild = "failed" THEN "garbage" ELSE "child"
  /\ pcMain' = "join"
  /\ UNCHANGED <<options, pcChild, pcHandler, kernel, history, status>>

\* pthread_join on a garbage id faults or fails; on the child it waits for its end.
PthreadJoin ==
  /\ MainRuns("join")
  /\ \/ /\ g_childThreadId = "child" => pcChild = "done"
        /\ pcMain' = "return"
        /\ UNCHANGED status
     \/ /\ g_childThreadId = "garbage"
        /\ status' = "crashed"
        /\ UNCHANGED pcMain
  /\ UNCHANGED <<options, g_childThreadId, pcChild, pcHandler, kernel, history>>

MainReturns ==
  /\ MainRuns("return")
  /\ status' = "exit0"
  /\ UNCHANGED <<options, g_childThreadId, pcMain, pcChild, pcHandler, kernel, history>>

-----------------------------------------------------------------------------
Deliver(t) == EnterHandler(t) \/ DefaultAction(t)
Handler(t) == RestoreDefault(t) \/ Pass(t) \/ HandlerReturns(t)
Child == ChildEntry \/ ChildSetup \/ ChildSetupFails \/ EpollTimeout \/ ChildExits
Main  == Getopt \/ Usage \/ Sigaction \/ PthreadCreate \/ StoreChildId
           \/ PthreadJoin \/ MainReturns

Next == UserSends \/ Continue \/ Main \/ Child \/ \E t \in Threads : Deliver(t) \/ Handler(t)

\* The kernel schedules every runnable thread, delivers what can be delivered and
\* expires timers; nothing makes the user send a signal or continue a stopped process.
Fairness ==
  /\ WF_vars(Main)
  /\ WF_vars(Child)
  /\ \A t \in Threads : WF_vars(Handler(t))
  /\ WF_vars(\E t \in Threads : Deliver(t))

Spec == Init /\ [][Next]_vars /\ Fairness

-----------------------------------------------------------------------------
(* Properties                                                              *)

\* custom_signal_handler runs at most once in the life of the process, although the
\* signal is not masked while it runs and may arrive on both threads.
HandlerRunsOnce == entered <= 1

\* Once the handler has passed a terminating signal on (kill or pthread_kill), the
\* process never gets to exit by itself: neither the epoll timeout, nor the end of the
\* child, nor the return of main() outruns the passed signal.
PassedSignalKills ==
  passed # "no" /\ g_signumpara = "term" => status \notin {"exit0", "exit1"}

\* With -n and without -t the handler passes nothing on, so a single signal that reaches
\* the handler neither kills nor stops the process, whichever thread takes it and whenever
\* it comes after sigaction().
NoPassSurvives ==
  installed /\ g_no_pass_again /\ ~g_thread_test /\ sent <= 1 =>
    status \notin {"killed", "stopped"}

\* Only signals sent before the prompt, or after the end of the child, can bring the
\* handler to an invalid thread id. Of a signal sent at the prompt to a living child the
\* handler may run late, in either thread and with the child gone: the id is still good.
PromptedNeverFaults == ~outside /\ pcChild # "failed" => status # "crashed"

\* A child blocked by pause() goes on only after the handler ran: neither a signal the
\* kernel ignores nor a timeout ends the pause.
PauseEndsByHandler ==
  g_epoll_blocked = "pause" /\ pcChild \in {"returned", "done"} => entered = 1

\* A terminating signal passed on ends the process even when the child blocks it: the
\* 60 s timeout of epoll_pwait unblocks it.
PassedSignalEnds == passed # "no" /\ g_signumpara = "term" ~> status \in Ended

\* With -e the process ends whether or not a signal comes, unless the signal is one that
\* stops it and nobody continues it.
EpollEnds ==
  pcMain = "join" /\ g_epoll_blocked # "pause" ~>
    status \in Ended \/ (g_signumpara = "stop" /\ status = "stopped")

=============================================================================
