---------------------------------- MODULE Sched ----------------------------------
(***************************************************************************)
(* c/sched/sched.c: counts in a busy loop, under a scheduling policy the   *)
(* user may choose, until SIGINT or SIGTERM sets a flag, and then shows    *)
(* its context switches. The flag is a plain int; the Makefile builds      *)
(* without optimisation, so that the loop reads it in every round.         *)
(***************************************************************************)
EXTENDS Integers

VARIABLES
  schedPc,     \* where main() is; "killed" by the default action of a signal
  handled,     \* the signals term_handler is installed for
  g_exit,
  policy,      \* the one asked for, or "none"
  schedRc

schedVars == <<schedPc, handled, g_exit, policy, schedRc>>

Signals == {"SIGINT", "SIGTERM"}

SchedTypeOK ==
  /\ schedPc \in {"int", "term", "getopt", "policy", "loop", "system", "exit", "killed"}
  /\ handled \subseteq Signals /\ g_exit \in {0, 1}
  /\ policy \in {"none", "SCHED_RR", "SCHED_BATCH"} /\ schedRc \in {"none", "0", "1"}

SchedInit ==
  /\ schedPc = "int" /\ handled = {} /\ g_exit = 0
  /\ policy = "none" /\ schedRc = "none"

SchedGoes(from, to) == schedPc = from /\ schedPc' = to

SchedReturns(from, n) ==
  /\ SchedGoes(from, "exit") /\ schedRc' = n /\ UNCHANGED <<handled, g_exit, policy>>

\* One sigaction() after the other.
SigactionInt ==
  /\ SchedGoes("int", "term")
  /\ handled' = handled \cup {"SIGINT"}
  /\ UNCHANGED <<g_exit, policy, schedRc>>

SigactionTerm ==
  /\ SchedGoes("term", "getopt")
  /\ handled' = handled \cup {"SIGTERM"}
  /\ UNCHANGED <<g_exit, policy, schedRc>>

\* -r and -b, the last one counts; anything else prints the usage and returns 1.
SchedGetopt ==
  \/ /\ SchedGoes("getopt", "policy")
     /\ policy' \in {"none", "SCHED_RR", "SCHED_BATCH"}
     /\ UNCHANGED <<handled, g_exit, schedRc>>
  \/ SchedReturns("getopt", "1")

\* Whether sched_setscheduler() succeeds or not, the program goes on.
Setscheduler ==
  SchedGoes("policy", "loop") /\ UNCHANGED <<handled, g_exit, policy, schedRc>>

\* Faulty variant: the flag read once, before the loop, as an optimising build may do.
FlagReadOnce == FALSE

FlagSeen == g_exit # 0

\* The loop ends in the first round that sees the flag.
LeaveLoop ==
  FlagSeen /\ SchedGoes("loop", "system") /\ UNCHANGED <<handled, g_exit, policy, schedRc>>

\* system("cat /proc/<pid>/status"), and return 0.
ShowStatus == SchedReturns("system", "0")

\* The user sends a signal: the handler runs at once, or the process is gone. system()
\* ignores SIGINT while it waits for its command.
SchedSignal ==
  /\ schedPc \notin {"exit", "killed"}
  /\ \E sig \in Signals :
       IF sig \in handled
         THEN g_exit' = (IF schedPc = "system" /\ sig = "SIGINT" THEN g_exit ELSE 1)
              /\ UNCHANGED schedPc
         ELSE schedPc' = "killed" /\ UNCHANGED g_exit
  /\ UNCHANGED <<handled, policy, schedRc>>

SchedMain ==
  SigactionInt \/ SigactionTerm \/ SchedGetopt \/ Setscheduler \/ LeaveLoop \/ ShowStatus

SchedNext == SchedMain \/ SchedSignal

\* The scheduler runs the process under every policy; nothing makes the user send a signal.
SchedFairness == WF_schedVars(SchedMain)

-----------------------------------------------------------------------------
\* Whichever of the two signals comes once the options are being read, and however many,
\* before the loop, in it or while the status is shown: the program ends by itself, with
\* the status shown if the options were right.
SignalShowsStatus ==
  schedPc \in {"getopt", "policy", "loop"} /\ g_exit = 1 ~> schedRc # "none"

=============================================================================
