------------------------------- MODULE CapService -------------------------------
(***************************************************************************)
(* c/cap/main.c: parent and child each try to open a raw socket and say    *)
(* whether they could; the child ends, and the parent waits for a key or,  *)
(* with -s, runs as a service. printf() goes through stdio's buffer, which *)
(* fork() copies.                                                          *)
(***************************************************************************)
EXTENDS Integers

CONSTANT MaxFlags   \* bound: how often -s is given; their lines fit stdio's buffer

VARIABLES
  capable,       \* the process has CAP_NET_RAW
  capPc,         \* where parent and child are
  serviceFlag,
  tty,           \* stdout is a terminal, so that a line is out when it is printed
  stdinOpen,     \* if not, descriptor 0 is the first one free
  flags,         \* history: how often "has set -s flag!" was printed
  unflushed,     \* how many of these lines a process's buffer holds
  flagShown,     \* how many have come out
  said           \* what each process says of raw sockets: "supported" or a failure's cause

environs == <<serviceFlag, tty, stdinOpen>>
capVars == <<capPc, environs, flags, unflushed, flagShown, said>>

Roles == {"Parent", "Child"}

CapTypeOK ==
  /\ capPc["Parent"] \in {"getopt", "fork", "socket", "wait", "getchar", "service", "exit"}
  /\ capPc["Child"] \in {"none", "socket", "wait", "zombie"}
  /\ serviceFlag \in {0, 1} /\ tty \in BOOLEAN /\ stdinOpen \in BOOLEAN
  /\ flags \in 0..MaxFlags /\ unflushed \in [Roles -> Nat] /\ flagShown \in Nat
  /\ said \in [Roles -> {"nothing", "supported", "EPERM", "ENOBUFS", "stale"}]

CapInit ==
  /\ capPc = [r \in Roles |-> IF r = "Parent" THEN "getopt" ELSE "none"]
  /\ serviceFlag = 0 /\ tty \in BOOLEAN /\ stdinOpen \in BOOLEAN
  /\ flags = 0 /\ unflushed = [r \in Roles |-> 0] /\ flagShown = 0
  /\ said = [r \in Roles |-> "nothing"]

CapGoes(r, from, to) == capPc[r] = from /\ capPc' = [capPc EXCEPT ![r] = to]

\* Faulty variant: _exit() in place of the return from main().
FlushLost(r) == unflushed' = [unflushed EXCEPT ![r] = 0] /\ UNCHANGED flagShown

\* A process that ends, or whose buffer is full, writes its buffer out.
FlushOut(r) ==
  /\ unflushed' = [unflushed EXCEPT ![r] = 0]
  /\ flagShown' = flagShown + unflushed[r]

\* One round of the getopt() loop finds a -s, and prints the line for each.
SetsFlag ==
  /\ CapGoes("Parent", "getopt", "getopt")
  /\ flags < MaxFlags /\ flags' = flags + 1
  /\ serviceFlag' = 1
  /\ IF tty THEN flagShown' = flagShown + 1 /\ UNCHANGED unflushed
            ELSE /\ unflushed' = [unflushed EXCEPT !["Parent"] = @ + 1]
                 /\ UNCHANGED flagShown
  /\ UNCHANGED <<tty, stdinOpen, said>>

\* A wrong option, after any number of -s, prints the usage and returns 1; -a is not in
\* getopt()'s list and counts as wrong.
WrongOption ==
  /\ CapGoes("Parent", "getopt", "exit")
  /\ FlushOut("Parent")
  /\ UNCHANGED <<environs, flags, said>>

\* The end of the options.
EndOfOptions ==
  /\ CapGoes("Parent", "getopt", "fork")
  /\ UNCHANGED <<environs, flags, unflushed, flagShown, said>>

CapGetopt == SetsFlag \/ WrongOption \/ EndOfOptions

\* The child gets a copy of what its parent had not written yet.
BufferCopied == [r \in Roles |-> unflushed["Parent"]]

\* A failed fork() returns -1, which counts as the parent's side.
CapFork ==
  /\ capPc["Parent"] = "fork"
  /\ \/ /\ capPc' = [r \in Roles |-> "socket"]
        /\ unflushed' = BufferCopied
     \/ /\ capPc' = [capPc EXCEPT !["Parent"] = "socket"]
        /\ UNCHANGED unflushed
  /\ UNCHANGED <<environs, flags, flagShown, said>>

\* Faulty variant: the answer turned round.
OpensUnlessCapable == IF capable THEN {"EPERM"} ELSE {"supported"}

\* The kernel gives a raw socket to a process with CAP_NET_RAW, if it has one left. fd <= 0
\* is a failure to the program: a descriptor 0 is reported with whatever errno held, and
\* is not closed.
Answers ==
  IF ~capable THEN {"EPERM"} ELSE {IF stdinOpen THEN "supported" ELSE "stale", "ENOBUFS"}

CheckRaw(r) ==
  /\ CapGoes(r, "socket", "wait")
  /\ \E answer \in Answers : said' = [said EXCEPT ![r] = answer]
  /\ UNCHANGED <<environs, flags, unflushed, flagShown>>

\* Faulty variant: the child waits and serves as its parent does.
ChildStays == "service"

ChildLeaves == "zombie"

\* The child returns from main(). Nobody waits for it.
ChildExits ==
  /\ CapGoes("Child", "wait", ChildLeaves)
  /\ FlushOut("Child")
  /\ UNCHANGED <<environs, flags, said>>

ParentWaits ==
  /\ CapGoes("Parent", "wait", IF serviceFlag = 0 THEN "getchar" ELSE "service")
  /\ UNCHANGED <<environs, flags, unflushed, flagShown, said>>

\* A key, or the end of standard input.
Getchar ==
  /\ CapGoes("Parent", "getchar", "exit")
  /\ FlushOut("Parent")
  /\ UNCHANGED <<environs, flags, said>>

\* The service prints a line a second; some time the buffer is full.
Serve ==
  /\ CapGoes("Parent", "service", "service")
  /\ FlushOut("Parent")
  /\ UNCHANGED <<environs, flags, said>>

CapParent == CapGetopt \/ CapFork \/ CheckRaw("Parent") \/ ParentWaits \/ Serve
CapChild  == CheckRaw("Child") \/ ChildExits

CapNext == CapParent \/ Getchar \/ CapChild

-----------------------------------------------------------------------------
\* The line that a -s was set appears once for each -s on a terminal, where it was out before
\* fork(), and otherwise twice, once from each process; after a failed fork(), or a wrong
\* option, once. None is lost, and none comes out a third time.
FlagLineCopies ==
  flagShown + unflushed["Parent"] + unflushed["Child"] =
    IF ~tty /\ capPc["Child"] # "none" THEN 2 * flags ELSE flags

\* "only Parent is running as service": with -s the child ends and stays a zombie, and the
\* parent stays in its service; it never ends by itself.
OnlyParentServes ==
  (serviceFlag = 1 /\ capPc["Child"] # "none") ~>
    [](capPc["Child"] = "zombie" /\ capPc["Parent"] = "service")

=============================================================================
