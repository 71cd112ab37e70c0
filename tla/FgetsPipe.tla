------------------------------- MODULE FgetsPipe -------------------------------
(***************************************************************************)
(* c/fgets/main.c: a parent that reads its child's output line by line     *)
(* with fgets() on a pipe, blocking or not, and a child whose printf()s    *)
(* reach the pipe through stdio's buffer.                                  *)
(*                                                                         *)
(* A line is the ordinal of the child's printf (1..5). waitpid() is        *)
(* Linux's: it refuses the flag WEXITED with -1 (EINVAL) and leaves the    *)
(* status alone. chckpid and status are uninitialised until then, so       *)
(* Init chooses what the stack held.                                       *)
(***************************************************************************)
EXTENDS Integers, Sequences

VARIABLES
  nonblockingFlag,  \* argc > 1
  lineBuffered,     \* stdout was a terminal when the child first wrote to it
  pcParent, pcChild,
  pdeathsig,        \* the child's prctl(PR_SET_PDEATHSIG) is in force
  stdout,           \* where the child's descriptor 1 leads: "tty" or "pipe"
  stdioBuf,         \* lines printf left in the child's stdout stream
  written, pipe, received,
  chckpid,          \* 0: running, the loop goes on; -1: waitpid() failed; 1: any other value
  status            \* "exit": WIFEXITED; "signal": WIFSIGNALED; "neither"

parent == <<pcParent, received, chckpid, status>>
child  == <<pcChild, pdeathsig, stdout, stdioBuf>>
vars   == <<nonblockingFlag, lineBuffered, parent, child, written, pipe>>

ParentPcs == {"pipe", "fork", "open", "read", "drain", "report", "exit"}
ChildPcs  == {"none", "print1", "prctl", "print2", "open", "print3", "redirect", "print4",
              "sleep", "print5", "flush", "_exit", "zombie", "killed"}
Lines     == 1..5

TypeOK ==
  /\ nonblockingFlag \in BOOLEAN /\ lineBuffered \in BOOLEAN
  /\ pcParent \in ParentPcs /\ pcChild \in ChildPcs
  /\ pdeathsig \in BOOLEAN /\ stdout \in {"tty", "pipe"}
  /\ stdioBuf \in Seq(Lines) /\ written \in Seq(Lines)
  /\ pipe \in Seq(Lines) /\ received \in Seq(Lines)
  /\ chckpid \in {-1, 0, 1} /\ status \in {"exit", "signal", "neither"}

Init ==
  /\ nonblockingFlag \in BOOLEAN /\ lineBuffered \in BOOLEAN
  /\ pcParent = "pipe" /\ pcChild = "none"
  /\ pdeathsig = FALSE /\ stdout = "tty" /\ stdioBuf = <<>>
  /\ written = <<>> /\ pipe = <<>> /\ received = <<>>
  /\ chckpid \in {0, 1} /\ status \in {"exit", "signal", "neither"}

ChildAlive == pcChild \notin {"none", "zombie", "killed"}

-----------------------------------------------------------------------------
(* The child                                                               *)

\* Faulty variant: fflush(stdout) left out, so that _exit() drops the buffer.
FlushNothing == UNCHANGED <<written, pipe>> /\ stdioBuf' = stdioBuf

\* The stream's contents go to whatever descriptor 1 leads to now.
Flush ==
  /\ stdioBuf' = <<>>
  /\ IF stdout = "pipe"
       THEN written' = written \o stdioBuf /\ pipe' = pipe \o stdioBuf
       ELSE UNCHANGED <<written, pipe>>

Printf(line) ==
  IF lineBuffered
    THEN /\ IF stdout = "pipe"
              THEN written' = Append(written, line) /\ pipe' = Append(pipe, line)
              ELSE UNCHANGED <<written, pipe>>
         /\ UNCHANGED stdioBuf
    ELSE stdioBuf' = Append(stdioBuf, line) /\ UNCHANGED <<written, pipe>>

ChildGoes(from, to) ==
  /\ pcChild = from /\ pcChild' = to
  /\ UNCHANGED <<nonblockingFlag, lineBuffered, parent>>

Prints(from, line, to) == ChildGoes(from, to) /\ Printf(line) /\ UNCHANGED <<pdeathsig, stdout>>

Silently == UNCHANGED <<stdioBuf, written, pipe>>

\* PR_SET_PDEATHSIG has no effect for a parent that is already gone.
Prctl == ChildGoes("prctl", "print2") /\ pdeathsig' = TRUE /\ UNCHANGED stdout /\ Silently

\* setpgid() and open("/dev/null"); without it the child returns from main(), and exit()
\* flushes to the terminal.
OpenBlackhole ==
  /\ \/ ChildGoes("open", "print3") /\ UNCHANGED stdioBuf
     \/ ChildGoes("open", "zombie") /\ stdioBuf' = <<>>
  /\ UNCHANGED <<pdeathsig, stdout, written, pipe>>

Redirect ==
  ChildGoes("redirect", "print4") /\ stdout' = "pipe" /\ UNCHANGED pdeathsig /\ Silently

Sleep == ChildGoes("sleep", "print5") /\ UNCHANGED <<pdeathsig, stdout>> /\ Silently

Fflush == ChildGoes("flush", "_exit") /\ Flush /\ UNCHANGED <<pdeathsig, stdout>>

ExitChild == ChildGoes("_exit", "zombie") /\ UNCHANGED <<pdeathsig, stdout>> /\ Silently

Child ==
  \/ Prints("print1", 1, "prctl") \/ Prctl
  \/ Prints("print2", 2, "open") \/ OpenBlackhole
  \/ Prints("print3", 3, "redirect") \/ Redirect
  \/ Prints("print4", 4, "sleep") \/ Sleep
  \/ Prints("print5", 5, "flush") \/ Fflush \/ ExitChild

\* Somebody kills the child while it runs.
ChildKilled ==
  /\ ChildAlive
  /\ pcChild' = "killed"
  /\ UNCHANGED <<nonblockingFlag, lineBuffered, parent, pdeathsig, stdout, stdioBuf,
                 written, pipe>>

-----------------------------------------------------------------------------
(* The parent                                                              *)

ParentGoes(from, to) ==
  /\ pcParent = from /\ pcParent' = to
  /\ UNCHANGED <<nonblockingFlag, lineBuffered, pdeathsig, stdout, stdioBuf, written>>

\* Leaving main() ends a child that has asked for SIGTERM.
ParentExits(from) ==
  /\ ParentGoes(from, "exit")
  /\ pcChild' = IF ChildAlive /\ pdeathsig THEN "killed" ELSE pcChild
  /\ UNCHANGED <<received, chckpid, status, pipe>>

CreatePipe ==
  \/ ParentGoes("pipe", "fork") /\ UNCHANGED <<pcChild, received, chckpid, status, pipe>>
  \/ ParentExits("pipe")

\* A failed fork() returns -1, which the code takes for the parent's side.
Fork ==
  /\ ParentGoes("fork", "open")
  /\ pcChild' \in {"print1", "none"}
  /\ UNCHANGED <<received, chckpid, status, pipe>>

\* Faulty variant: the parent keeps its write end of the pipe.
WriteEndKept == TRUE

\* The write end is open in the child, and in the parent until it closes it.
WriteEndOpen == ChildAlive \/ pcParent \in {"pipe", "fork", "open"}

\* close(pipefds[1]), O_NONBLOCK if asked for, fdopen().
OpenStream ==
  \/ ParentGoes("open", "read") /\ UNCHANGED <<pcChild, received, chckpid, status, pipe>>
  \/ ParentExits("open")

\* Faulty variant: a line is read again and again.
FgetsRepeats == pipe # <<>> /\ received' = Append(received, Head(pipe)) /\ pipe' = pipe

\* fgets() has a line.
Fgets == pipe # <<>> /\ received' = Append(received, Head(pipe)) /\ pipe' = Tail(pipe)

\* fgets() returns NULL: end of file, or nothing there and O_NONBLOCK. Otherwise it blocks.
FgetsNull == pipe = <<>> /\ (WriteEndOpen => nonblockingFlag)

\* waitpid(child, &status, WNOHANG | WEXITED)
Waitpid == -1

ReadLine ==
  /\ ParentGoes("read", IF Waitpid = 0 THEN "read" ELSE "drain")
  /\ Fgets
  /\ status' = "exit"
  /\ chckpid' = Waitpid
  /\ UNCHANGED pcChild

\* "continue" goes to the loop's condition.
ReadNull ==
  /\ FgetsNull
  /\ ParentGoes("read", IF chckpid = 0 THEN "read" ELSE "drain")
  /\ UNCHANGED <<pcChild, received, chckpid, status, pipe>>

DrainLine == ParentGoes("drain", "drain") /\ Fgets /\ UNCHANGED <<pcChild, chckpid, status>>

DrainNull ==
  /\ FgetsNull
  /\ ParentGoes("drain", "report")
  /\ UNCHANGED <<pcChild, received, chckpid, status, pipe>>

\* WIFEXITED, WIFSIGNALED, fclose, return.
Report == ParentExits("report")

Parent ==
  CreatePipe \/ Fork \/ OpenStream \/ ReadLine \/ ReadNull \/ DrainLine \/ DrainNull \/ Report

Next == Parent \/ Child \/ ChildKilled

\* Both processes are scheduled, and sleep() ends; nothing makes anyone kill the child.
Fairness == WF_vars(Parent) /\ WF_vars(Child)

Spec == Init /\ [][Next]_vars /\ Fairness

-----------------------------------------------------------------------------
(* Properties                                                              *)

\* What was written and not read is in the pipe, in order: nothing is lost, repeated or
\* swapped on the way, whoever stops first.
Conservation == received \o pipe = written

\* With blocking reads the parent reports only after the end of file: the child is gone,
\* and every line it wrote was read, although the check for its end never works.
BlockingReadsAll ==
  ~nonblockingFlag /\ pcParent = "report" => ~ChildAlive /\ received = written

\* What a child that got through to _exit() has put into the pipe: the two lines printed
\* after dup2() when stdout was a terminal, and otherwise all five, the three printed
\* before the redirection included, because fflush() sends the whole buffer there.
OutputOfWholeRun ==
  stdout = "pipe" /\ pcChild \in {"_exit", "zombie"} =>
    written = IF lineBuffered THEN <<4, 5>> ELSE <<1, 2, 3, 4, 5>>

\* With blocking reads the parent ends, whatever the child does, unless the stack held a
\* zero in chckpid.
BlockingEnds == ~nonblockingFlag /\ chckpid # 0 ~> pcParent = "exit"

\* One line is enough to bring the parent out of its loop and to its end, in both modes.
FirstLineEnds == written # <<>> ~> pcParent = "exit"

\* The write end is in a running child, or in one that fork() has yet to make.
Writer ==
  IF ChildAlive \/ (pcChild = "none" /\ pcParent \in {"pipe", "fork"}) THEN "open" ELSE "gone"

Reader ==
  CASE pcParent \in {"pipe", "fork", "open"} -> "opening"
    [] pcParent \in {"read", "drain"}        -> "reading"
    [] pcParent \in {"report", "exit"}       -> "done"

LS == INSTANCE LineStream WITH
  Line <- Lines, sent <- written, got <- received, writer <- Writer, reader <- Reader,
  polling <- nonblockingFlag

\* Parent, child, stdio's buffer, the pipe and the useless waitpid() together are a stream
\* of lines: every line is taken once and in order, and a parent that waits for lines stops
\* only when the child is gone and nothing is left.
ImplementsLineStream == LS!Spec

\* "Detect child process has exited": when it is waitpid() that brought the parent out of
\* its first loop, the child has ended. (-1 in chckpid comes from waitpid() alone; a parent
\* that leaves the loop by what the stack held in chckpid is not meant here.)
DetectedMeansExited == chckpid = -1 /\ pcParent \in {"drain", "report"} => ~ChildAlive

=============================================================================
