----------------------------- MODULE AmbientService -----------------------------
(***************************************************************************)
(* c/ambient/main.c starting c/cap/main.c: the launcher raises the listed  *)
(* capabilities and executes the raw socket test, whose two processes have *)
(* what the launcher left them.                                            *)
(***************************************************************************)
EXTENDS AmbientCaps

CONSTANTS CAP_NET_RAW, MaxFlags
ASSUME NetRawAssumption == CAP_NET_RAW \in Caps /\ MaxFlags \in Nat

VARIABLES capPc, serviceFlag, tty, stdinOpen, flags, unflushed, flagShown, said

Cap == INSTANCE CapService WITH capable <- CAP_NET_RAW \in permitted

capVars == <<capPc, serviceFlag, tty, stdinOpen, flags, unflushed, flagShown, said>>
allVars == <<vars, capVars>>

ServiceInit == Init /\ Cap!CapInit

\* The launcher, until it has executed the other program in its place.
Launch == Next /\ UNCHANGED capVars

\* fork() copies the capabilities, and nothing in the program changes them.
Serves == pc = "program" /\ UNCHANGED vars

Service ==
  \/ Serves /\ Cap!CapParent
  \/ Serves /\ Cap!Getchar
  \/ Serves /\ Cap!CapChild

ServiceNext == Launch \/ Service

\* Both processes are scheduled; nobody has to press a key.
ServiceSpec ==
  /\ ServiceInit /\ [][ServiceNext]_allVars
  /\ WF_allVars(Serves /\ Cap!CapParent) /\ WF_allVars(Serves /\ Cap!CapChild)

-----------------------------------------------------------------------------
\* What the launcher was asked for decides what both processes of the test find: neither is
\* refused raw sockets if CAP_NET_RAW was on the list or inherited, and neither opens one
\* otherwise, whatever sets the launcher started with.
RawReachesService ==
  \A r \in {"Parent", "Child"} :
    /\ said[r] \in {"supported", "stale"} => CAP_NET_RAW \in inherited \cup Asked
    /\ said[r] = "EPERM" => CAP_NET_RAW \notin inherited \cup Asked

\* For each -s the line comes out once on a terminal and otherwise from each process
\* (CapService).
FlagLineCopies == Cap!FlagLineCopies

\* With -s only the parent goes on (CapService).
OnlyParentServes == Cap!OnlyParentServes

=============================================================================
