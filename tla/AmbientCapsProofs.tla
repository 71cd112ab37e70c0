--------------------------- MODULE AmbientCapsProofs ---------------------------
(***************************************************************************)
(* Proofs about AmbientCaps for any capabilities, any lists and any sets   *)
(* the process starts with, and about AmbientService, the launcher with    *)
(* the program it starts. The inductive invariant of the launcher says how *)
(* far the loop has come: the ambient set is what it was at the start and  *)
(* the part of the list before i, in which there is no -1. The one of the  *)
(* service says where the line of -s is: in whose buffer, or already out.  *)
(***************************************************************************)
EXTENDS AmbientService, FiniteSetTheorems, TLAPS

Done == {caplist[k] : k \in 1..(i - 1)}

\* The kernel keeps what is ambient permitted and inheritable.
InvKernel == ambient \subseteq inheritable /\ ambient \subseteq permitted

InvLoop ==
  /\ pc = "main" => ambient = inherited /\ i = 1
  /\ pc \in {"loop", "exec", "program"} =>
       /\ ambient = inherited \cup Done
       /\ \A k \in 1..(i - 1) : caplist[k] # -1
  /\ pc \in {"exec", "program"} => IsLast
  /\ pc = "program" => permitted = ambient

IInv == TypeOK /\ InvKernel /\ InvLoop

\* What main() starts from satisfies the invariant.
LEMMA InitIInv == Init => IInv
<1> SUFFICES ASSUME Init PROVE IInv
  OBVIOUS
<1>1. TypeOK
  BY DEF Init, TypeOK
<1>2. InvKernel /\ InvLoop
  BY DEF Init, InvKernel, InvLoop
<1> QED
  BY <1>1, <1>2 DEF IInv

\* capset() only adds the capability of the call to the inheritable ones.
LEMMA AppliedGrows ==
  ASSUME TypeOK, NEW cap \in Caps
  PROVE  /\ inheritable \subseteq Applied(cap)
         /\ Applied(cap) \subseteq Caps
  BY DEF TypeOK, Applied, CapsProcess

\* At the end of the list the loop has seen all that was asked for.
LEMMA DoneIsAsked ==
  ASSUME TypeOK, IsLast, \A k \in 1..(i - 1) : caplist[k] # -1
  PROVE  Done = Asked
<1> DEFINE Before == {n \in DOMAIN caplist : \A m \in 1..n : caplist[m] # -1}
<1>1. /\ i \in Nat \ {0} /\ Len(caplist) \in Nat /\ i <= Len(caplist) + 1
      /\ DOMAIN caplist = 1..Len(caplist)
  BY DEF TypeOK
<1>2. ASSUME NEW k \in 1..(i - 1) PROVE k \in Before
  BY <1>1, <1>2
<1>3. ASSUME NEW k \in Before PROVE k \in 1..(i - 1)
  <2>1. CASE i > Len(caplist)
    BY <1>1, <1>3, <2>1
  <2>2. CASE ~(i > Len(caplist))
    <3>1. caplist[i] = -1
      BY <2>2 DEF IsLast
    <3>2. k \in 1..Len(caplist) /\ (i \in 1..k => caplist[i] # -1)
      BY <1>1, <1>3
    <3> QED
      BY <1>1, <3>1, <3>2
  <2> QED
    BY <2>1, <2>2
<1>4. Before = 1..(i - 1)
  BY <1>2, <1>3
<1> QED
  BY <1>4 DEF Done, Asked

\* One capability of the list keeps the invariant, raised or not.
LEMMA SetAmbientCapIInv == IInv /\ SetAmbientCap => IInv' /\ ambient \subseteq ambient'
<1> SUFFICES ASSUME IInv, SetAmbientCap PROVE IInv' /\ ambient \subseteq ambient'
  OBVIOUS
<1> DEFINE cap == caplist[i]
<1>0. TypeOK /\ InvKernel /\ InvLoop
  BY DEF IInv
<1>1. /\ pc = "loop" /\ i \in Nat \ {0} /\ i <= Len(caplist) /\ cap # -1
      /\ caplist \in Seq(Int) /\ Len(caplist) \in Nat
  BY <1>0 DEF SetAmbientCap, IsLast, TypeOK
<1>2. CASE cap \notin Caps
  BY <1>0, <1>2 DEF SetAmbientCap, Exit, environment, sets, IInv, TypeOK,
                    InvKernel, InvLoop
<1>3. CASE cap \in Caps
  <2>0. inheritable \subseteq Applied(cap) /\ Applied(cap) \subseteq Caps
    BY <1>0, <1>3, AppliedGrows
  <2>1. /\ inheritable' = Applied(cap) /\ permitted' = permitted
        /\ caplist' = caplist /\ bounding' = bounding /\ noRaise' = noRaise
        /\ setpcap' = setpcap /\ inherited' = inherited
    BY <1>3 DEF SetAmbientCap, Refused, Exit, environment
  <2>2. ambient \cap Applied(cap) = ambient
    BY <1>0, <2>0 DEF InvKernel
  <2>3. CASE MayRaise(cap, Applied(cap))
    <3>1. /\ ambient' = ambient \cup {cap} /\ i' = i + 1
          /\ pc' = pc /\ rc' = rc
      BY <1>3, <2>2, <2>3 DEF SetAmbientCap, Raised, Following
    <3>2. TypeOK'
      BY <1>0, <1>1, <1>3, <2>0, <2>1, <3>1 DEF TypeOK
    <3>3. InvKernel'
      BY <1>0, <1>3, <2>0, <2>1, <2>3, <3>1 DEF InvKernel, MayRaise
    <3>4. ambient' = inherited' \cup Done'
      <4>1. 1..(i' - 1) = 1..(i - 1) \cup {i}
        BY <1>1, <3>1
      <4>2. Done' = Done \cup {cap}
        BY <2>1, <4>1 DEF Done
      <4> QED
        BY <1>0, <1>1, <2>1, <3>1, <4>2 DEF InvLoop
    <3>5. \A k \in 1..(i' - 1) : caplist'[k] # -1
      BY <1>0, <1>1, <2>1, <3>1 DEF InvLoop
    <3>6. InvLoop'
      BY <1>1, <3>1, <3>4, <3>5 DEF InvLoop
    <3> QED
      BY <3>1, <3>2, <3>3, <3>6 DEF IInv
  <2>4. CASE ~MayRaise(cap, Applied(cap))
    <3>1. /\ ambient' = ambient /\ i' = i
          /\ pc' = "exit" /\ rc' = "1"
      BY <1>3, <2>2, <2>4 DEF SetAmbientCap, Refused, Exit
    <3>2. TypeOK' /\ InvKernel'
      BY <1>0, <2>0, <2>1, <3>1 DEF TypeOK, InvKernel
    <3> QED
      BY <3>1, <3>2 DEF IInv, InvLoop
  <2> QED
    BY <2>3, <2>4
<1> QED
  BY <1>2, <1>3

\* Every step keeps the invariant and takes nothing out of the ambient set.
LEMMA NextIInv == IInv /\ [Next]_vars => IInv' /\ ambient \subseteq ambient'
<1> SUFFICES ASSUME IInv, [Next]_vars PROVE IInv' /\ ambient \subseteq ambient'
  OBVIOUS
<1> USE DEF IInv
<1>1. CASE Usage
  BY <1>1 DEF Usage, Exit, environment, sets, TypeOK, InvKernel, InvLoop
<1>2. CASE GetCaplist
  <2>1. PICK list \in Lists : caplist' = IF list = <<>> THEN default_caplist ELSE list
    BY <1>2 DEF GetCaplist
  <2>2. caplist' \in Seq(Int) /\ Len(caplist') \in Nat
    BY <2>1, CapsAssumption
  <2>3. TypeOK' /\ InvKernel'
    BY <1>2, <2>2 DEF GetCaplist, environment, sets, TypeOK, InvKernel, InvLoop
  <2>4. 1..(i' - 1) = {}
    BY <1>2 DEF GetCaplist, InvLoop
  <2>5. InvLoop'
    BY <1>2, <2>4 DEF GetCaplist, environment, sets, InvLoop, Done
  <2> QED
    BY <1>2, <2>3, <2>5 DEF GetCaplist, sets
<1>3. CASE SetAmbientCap
  BY <1>3, SetAmbientCapIInv
<1>4. CASE EndOfList
  BY <1>4 DEF EndOfList, environment, sets, TypeOK, InvKernel, InvLoop, Done, IsLast
<1>5. CASE ExecPlain
  BY <1>5 DEF ExecPlain, environment, TypeOK, InvKernel, InvLoop, Done, IsLast
<1>6. CASE ExecFails
  BY <1>6 DEF ExecFails, Exit, environment, sets, TypeOK, InvKernel, InvLoop
<1>7. CASE UNCHANGED vars
  BY <1>7 DEF vars, environment, sets, TypeOK, InvKernel, InvLoop, Done, IsLast
<1> QED
  BY <1>1, <1>2, <1>3, <1>4, <1>5, <1>6, <1>7 DEF Next

\* The invariant holds throughout main() and in the program it starts.
THEOREM Invariance == Spec => []IInv
  BY InitIInv, NextIInv, PTL DEF Spec

\* The state of main() and the process's capability sets keep their types; in particular
\* the index stays within the list and its end mark.
THEOREM TypeCorrect == Spec => []TypeOK
  BY Invariance, PTL DEF IInv

\* The new program has what set_ambient_cap was asked to raise and what was ambient before.
THEOREM GetsAsked == Spec => []ProgramGetsAsked
<1>1. IInv => ProgramGetsAsked
  BY DoneIsAsked DEF IInv, InvLoop, ProgramGetsAsked
<1> QED
  BY <1>1, Invariance, PTL

\* No call of set_ambient_cap, and no other step, takes an ambient capability away.
THEOREM OnlyGrows == Spec => AmbientOnlyGrows
<1>1. IInv /\ [Next]_vars => [ambient \subseteq ambient']_vars
  BY NextIInv
<1> QED
  BY <1>1, Invariance, PTL DEF Spec, AmbientOnlyGrows

-----------------------------------------------------------------------------
(* The launcher with the program it starts: AmbientService                 *)

\* Cap!CapTypeOK in parts: the two program counters, the numbers and sets, the flags that
\* nothing changes.
InvPlaces ==
  /\ DOMAIN capPc = {"Parent", "Child"}
  /\ capPc["Parent"] \in {"getopt", "fork", "socket", "wait", "getchar", "service", "exit"}
  /\ capPc["Child"] \in {"none", "socket", "wait", "zombie"}

InvData ==
  /\ serviceFlag \in {0, 1} /\ flags \in 0..MaxFlags
  /\ flagShown \in Nat /\ unflushed \in [{"Parent", "Child"} -> Nat]

InvFlags == tty \in BOOLEAN /\ stdinOpen \in BOOLEAN

InvAnswers == said \in [{"Parent", "Child"} -> {"nothing", "supported", "EPERM", "ENOBUFS", "stale"}]

\* There is a child only after fork(), and until then, or when it failed, no copy of the
\* parent's buffer.
InvFork ==
  /\ capPc["Parent"] \in {"getopt", "fork"} => capPc["Child"] = "none"
  /\ capPc["Child"] = "none" => unflushed["Child"] = 0

\* On a terminal nothing stays in a buffer; otherwise all lines are still in it at fork().
InvBuffer ==
  /\ tty => unflushed["Parent"] = 0 /\ unflushed["Child"] = 0
  /\ capPc["Parent"] \in {"getopt", "fork"} /\ ~tty => flagShown = 0

Copies == IF ~tty /\ capPc["Child"] # "none" THEN 2 * flags ELSE flags

InvCopies == flagShown + unflushed["Parent"] + unflushed["Child"] = Copies

FlagInv == InvPlaces /\ InvData /\ InvFork /\ InvBuffer /\ InvCopies

\* What a process says of raw sockets it says in the program that was started, with the
\* capabilities that program has.
InvSaid ==
  \A r \in {"Parent", "Child"} :
    /\ said[r] \in {"supported", "stale"} => pc = "program" /\ CAP_NET_RAW \in permitted
    /\ said[r] = "EPERM" => pc = "program" /\ CAP_NET_RAW \notin permitted

ServiceInv == IInv /\ FlagInv /\ InvFlags /\ InvAnswers /\ InvSaid

\* The service starts with empty buffers and one process.
LEMMA InitServiceInv == ServiceInit => ServiceInv
<1> SUFFICES ASSUME ServiceInit PROVE ServiceInv
  OBVIOUS
<1> USE DEF ServiceInit, Cap!CapInit, Cap!Roles
<1>1. IInv
  BY InitIInv
<1>2. InvPlaces /\ InvData
  BY NetRawAssumption DEF InvPlaces, InvData
<1>3. InvFork /\ InvBuffer /\ InvCopies
  <2>1. /\ capPc["Parent"] = "getopt" /\ capPc["Child"] = "none" /\ flags = 0 /\ flagShown = 0
        /\ unflushed["Parent"] = 0 /\ unflushed["Child"] = 0
    OBVIOUS
  <2> QED
    BY <2>1 DEF InvFork, InvBuffer, InvCopies, Copies
<1>4. InvFlags
  BY DEF InvFlags
<1>5. InvAnswers /\ InvSaid
  BY DEF InvAnswers, InvSaid
<1> QED
  BY <1>1, <1>2, <1>3, <1>4, <1>5 DEF ServiceInv, FlagInv

\* Where the lines are before fork().
LEMMA BeforeFork ==
  ASSUME FlagInv, capPc["Parent"] \in {"getopt", "fork"}
  PROVE  /\ capPc["Child"] = "none" /\ unflushed["Child"] = 0 /\ DOMAIN capPc = {"Parent", "Child"}
         /\ flags \in Nat /\ flagShown \in Nat /\ unflushed["Parent"] \in Nat
         /\ flagShown + unflushed["Parent"] = flags
<1>1. /\ capPc["Child"] = "none" /\ unflushed["Child"] = 0 /\ DOMAIN capPc = {"Parent", "Child"}
      /\ flags \in Nat /\ flagShown \in Nat /\ unflushed["Parent"] \in Nat
  BY NetRawAssumption DEF FlagInv, InvPlaces, InvData, InvFork
<1>2. flagShown + unflushed["Parent"] + unflushed["Child"] = flags
  BY <1>1 DEF FlagInv, InvCopies, Copies
<1> QED
  BY <1>1, <1>2

\* getopt() prints the line at once, or puts it into the parent's buffer, for each -s.
LEMMA SetsFlagFlag == FlagInv /\ Cap!SetsFlag => FlagInv'
<1> SUFFICES ASSUME FlagInv, Cap!SetsFlag PROVE FlagInv'
  OBVIOUS
<1>0. InvPlaces /\ InvData /\ InvFork /\ InvBuffer
  BY DEF FlagInv
<1>1. /\ capPc["Parent"] = "getopt" /\ capPc'["Parent"] = "getopt"
      /\ capPc'["Child"] = capPc["Child"] /\ DOMAIN capPc' = {"Parent", "Child"}
      /\ flags' = flags + 1 /\ flags < MaxFlags /\ tty' = tty /\ serviceFlag' = 1
  BY <1>0 DEF Cap!SetsFlag, Cap!CapGoes, InvPlaces
<1>2. /\ capPc["Child"] = "none" /\ unflushed["Child"] = 0 /\ flags \in Nat /\ flagShown \in Nat
      /\ unflushed["Parent"] \in Nat /\ flagShown + unflushed["Parent"] = flags
  BY <1>1, BeforeFork
<1>3. /\ unflushed' \in [{"Parent", "Child"} -> Nat] /\ flagShown' \in Nat
      /\ unflushed'["Child"] = 0
      /\ flagShown' + unflushed'["Parent"] = flags + 1
      /\ tty => unflushed'["Parent"] = 0
      /\ ~tty => flagShown' = 0
  <2>1. CASE tty
    <3>1. flagShown' = flagShown + 1 /\ unflushed' = unflushed
      BY <2>1 DEF Cap!SetsFlag
    <3> QED
      BY <1>0, <1>2, <2>1, <3>1 DEF InvData, InvBuffer
  <2>2. CASE ~tty
    <3>1. /\ flagShown' = flagShown
          /\ unflushed' = [unflushed EXCEPT !["Parent"] = unflushed["Parent"] + 1]
      BY <2>2 DEF Cap!SetsFlag
    <3>2. flagShown = 0
      BY <1>0, <1>1, <2>2 DEF InvBuffer
    <3>3. unflushed'["Parent"] = unflushed["Parent"] + 1 /\ unflushed'["Child"] = 0
          /\ unflushed' \in [{"Parent", "Child"} -> Nat]
      BY <1>0, <1>2, <3>1 DEF InvData
    <3> QED
      BY <1>2, <2>2, <3>1, <3>2, <3>3
  <2> QED
    BY <2>1, <2>2
<1>4. InvPlaces' /\ InvFork'
  BY <1>0, <1>1, <1>3 DEF InvPlaces, InvFork
<1>5. InvData'
  BY <1>1, <1>2, <1>3, NetRawAssumption DEF InvData
<1>6. InvBuffer'
  BY <1>1, <1>3 DEF InvBuffer
<1>7. InvCopies'
  BY <1>1, <1>2, <1>3 DEF InvCopies, Copies
<1> QED
  BY <1>4, <1>5, <1>6, <1>7 DEF FlagInv

\* The end of the options leaves the lines where they are.
LEMMA EndOfOptionsFlag == FlagInv /\ Cap!EndOfOptions => FlagInv'
<1> SUFFICES ASSUME FlagInv, Cap!EndOfOptions PROVE FlagInv'
  OBVIOUS
<1>0. InvPlaces /\ InvData /\ InvFork /\ InvBuffer /\ InvCopies
  BY DEF FlagInv
<1>1. /\ tty' = tty /\ serviceFlag' = serviceFlag /\ flags' = flags
      /\ unflushed' = unflushed /\ flagShown' = flagShown
  BY DEF Cap!EndOfOptions, Cap!environs
<1>2. /\ capPc["Parent"] = "getopt" /\ capPc'["Parent"] = "fork" /\ capPc'["Child"] = capPc["Child"]
      /\ DOMAIN capPc' = {"Parent", "Child"}
  BY <1>0 DEF Cap!EndOfOptions, Cap!CapGoes, InvPlaces
<1>3. InvPlaces' /\ InvFork' /\ InvBuffer'
  BY <1>0, <1>1, <1>2 DEF InvPlaces, InvFork, InvBuffer
<1>4. InvData' /\ InvCopies'
  BY <1>0, <1>1, <1>2 DEF InvData, InvCopies, Copies
<1> QED
  BY <1>3, <1>4 DEF FlagInv

\* fork() copies what is in the parent's buffer.
LEMMA ForkFlag == FlagInv /\ Cap!CapFork => FlagInv'
<1> SUFFICES ASSUME FlagInv, Cap!CapFork PROVE FlagInv'
  OBVIOUS
<1>0. InvPlaces /\ InvData /\ InvBuffer
  BY DEF FlagInv
<1>1. capPc["Parent"] = "fork"
  BY DEF Cap!CapFork
<1>2. /\ capPc["Child"] = "none" /\ unflushed["Child"] = 0 /\ flags \in Nat /\ flagShown \in Nat
      /\ unflushed["Parent"] \in Nat /\ flagShown + unflushed["Parent"] = flags
  BY <1>1, BeforeFork
<1>3. /\ tty' = tty /\ serviceFlag' = serviceFlag /\ flagShown' = flagShown /\ flags' = flags
  BY DEF Cap!CapFork, Cap!environs
<1>4. /\ tty => unflushed["Parent"] = 0
      /\ ~tty => flagShown = 0
  BY <1>0, <1>1 DEF InvBuffer
<1>5. CASE capPc' = [r \in {"Parent", "Child"} |-> "socket"] /\ unflushed' = Cap!BufferCopied
  <2>1. /\ DOMAIN capPc' = {"Parent", "Child"}
        /\ capPc'["Parent"] = "socket" /\ capPc'["Child"] = "socket"
    BY <1>5
  <2>2. /\ unflushed' \in [{"Parent", "Child"} -> Nat]
        /\ unflushed'["Parent"] = unflushed["Parent"] /\ unflushed'["Child"] = unflushed["Parent"]
    BY <1>2, <1>5 DEF Cap!BufferCopied, Cap!Roles
  <2>3. InvPlaces' /\ InvData' /\ InvFork'
    BY <1>0, <1>3, <2>1, <2>2 DEF InvPlaces, InvData, InvFork
  <2>4. InvBuffer'
    BY <1>3, <1>4, <2>1, <2>2 DEF InvBuffer
  <2>5. InvCopies'
    BY <1>2, <1>3, <1>4, <2>1, <2>2 DEF InvCopies, Copies
  <2> QED
    BY <2>3, <2>4, <2>5 DEF FlagInv
<1>6. CASE capPc' = [capPc EXCEPT !["Parent"] = "socket"] /\ unflushed' = unflushed
  <2>1. /\ DOMAIN capPc' = {"Parent", "Child"}
        /\ capPc'["Parent"] = "socket" /\ capPc'["Child"] = "none"
    BY <1>0, <1>2, <1>6 DEF InvPlaces
  <2>2. InvPlaces' /\ InvData' /\ InvFork'
    BY <1>0, <1>2, <1>3, <1>6, <2>1 DEF InvPlaces, InvData, InvFork
  <2>3. InvBuffer'
    BY <1>2, <1>3, <1>4, <1>6, <2>1 DEF InvBuffer
  <2>4. InvCopies'
    BY <1>2, <1>3, <1>6, <2>1 DEF InvCopies, Copies
  <2> QED
    BY <2>2, <2>3, <2>4 DEF FlagInv
<1> QED
  BY <1>5, <1>6 DEF Cap!CapFork, Cap!Roles

\* Outside getopt() and fork() the lines move from a buffer to the outside, or stay there.
LEMMA LaterFlag ==
  ASSUME FlagInv, InvPlaces', NEW r \in {"Parent", "Child"},
         capPc'["Parent"] \notin {"getopt", "fork"},
         capPc'["Child"] = "none" <=> capPc["Child"] = "none",
         serviceFlag' = serviceFlag, tty' = tty, flags' = flags,
         Cap!FlushOut(r) \/ (unflushed' = unflushed /\ flagShown' = flagShown)
  PROVE  FlagInv'
<1>0. InvPlaces /\ InvData /\ InvFork /\ InvBuffer /\ InvCopies
  BY DEF FlagInv
<1>1. Copies' = Copies
  BY DEF Copies
<1>2. InvFork'
  BY <1>0 DEF InvFork, InvData, Cap!FlushOut
<1>3. InvBuffer'
  BY <1>0 DEF InvBuffer, InvData, Cap!FlushOut
<1>4. CASE Cap!FlushOut(r)
  <2>1. /\ unflushed' = [unflushed EXCEPT ![r] = 0] /\ flagShown' = flagShown + unflushed[r]
        /\ flagShown \in Nat /\ unflushed["Parent"] \in Nat /\ unflushed["Child"] \in Nat
        /\ unflushed' \in [{"Parent", "Child"} -> Nat]
    BY <1>0, <1>4 DEF Cap!FlushOut, InvData
  <2>2. flagShown' + unflushed'["Parent"] + unflushed'["Child"] =
          flagShown + unflushed["Parent"] + unflushed["Child"]
    <3>1. CASE r = "Parent"
      <4>1. unflushed'["Parent"] = 0 /\ unflushed'["Child"] = unflushed["Child"]
        BY <1>0, <2>1, <3>1 DEF InvData
      <4> QED
        BY <2>1, <3>1, <4>1
    <3>2. CASE r = "Child"
      <4>1. unflushed'["Child"] = 0 /\ unflushed'["Parent"] = unflushed["Parent"]
        BY <1>0, <2>1, <3>2 DEF InvData
      <4> QED
        BY <2>1, <3>2, <4>1
    <3> QED
      BY <3>1, <3>2
  <2>3. InvCopies'
    BY <1>0, <1>1, <2>2 DEF InvCopies
  <2>4. InvData'
    BY <1>0, <2>1 DEF InvData
  <2> QED
    BY <1>2, <1>3, <2>3, <2>4 DEF FlagInv
<1>5. CASE unflushed' = unflushed /\ flagShown' = flagShown
  BY <1>0, <1>1, <1>2, <1>3, <1>5 DEF FlagInv, InvCopies, InvData
<1> QED
  BY <1>4, <1>5

\* A wrong option ends the process, which writes its buffer.
LEMMA WrongOptionFlag == FlagInv /\ Cap!WrongOption => FlagInv'
<1> SUFFICES ASSUME FlagInv, Cap!WrongOption PROVE FlagInv'
  OBVIOUS
<1>0. InvPlaces
  BY DEF FlagInv
<1>1. capPc' = [capPc EXCEPT !["Parent"] = "exit"]
  BY DEF Cap!WrongOption, Cap!CapGoes
<1>2. InvPlaces'
  BY <1>0, <1>1 DEF InvPlaces
<1>3. /\ capPc'["Parent"] \notin {"getopt", "fork"}
      /\ capPc'["Child"] = "none" <=> capPc["Child"] = "none"
  BY <1>0, <1>1 DEF InvPlaces
<1>4. serviceFlag' = serviceFlag /\ tty' = tty /\ flags' = flags /\ Cap!FlushOut("Parent")
  BY DEF Cap!WrongOption, Cap!environs
<1> QED
  BY <1>2, <1>3, <1>4, LaterFlag

\* What a process finds out about raw sockets leaves the line where it is.
LEMMA CheckFlag ==
  ASSUME NEW r \in {"Parent", "Child"}, FlagInv, Cap!CheckRaw(r)
  PROVE  FlagInv'
<1>0. InvPlaces /\ InvFork
  BY DEF FlagInv
<1>1. capPc[r] = "socket" /\ capPc' = [capPc EXCEPT ![r] = "wait"]
  BY DEF Cap!CheckRaw, Cap!CapGoes
<1>2. InvPlaces'
  BY <1>0, <1>1 DEF InvPlaces
<1>3. /\ capPc'["Parent"] \notin {"getopt", "fork"}
      /\ capPc'["Child"] = "none" <=> capPc["Child"] = "none"
  BY <1>0, <1>1 DEF InvPlaces, InvFork
<1>4. /\ serviceFlag' = serviceFlag /\ tty' = tty /\ flags' = flags
      /\ unflushed' = unflushed /\ flagShown' = flagShown
  BY DEF Cap!CheckRaw, Cap!environs
<1> QED
  BY <1>2, <1>3, <1>4, LaterFlag

\* The child ends and writes its buffer.
LEMMA ChildExitsFlag == FlagInv /\ Cap!ChildExits => FlagInv'
<1> SUFFICES ASSUME FlagInv, Cap!ChildExits PROVE FlagInv'
  OBVIOUS
<1>0. InvPlaces /\ InvFork
  BY DEF FlagInv
<1>1. capPc["Child"] = "wait" /\ capPc' = [capPc EXCEPT !["Child"] = "zombie"]
  BY DEF Cap!ChildExits, Cap!CapGoes, Cap!ChildLeaves
<1>2. InvPlaces'
  BY <1>0, <1>1 DEF InvPlaces
<1>3. /\ capPc'["Parent"] \notin {"getopt", "fork"}
      /\ capPc'["Child"] = "none" <=> capPc["Child"] = "none"
  BY <1>0, <1>1 DEF InvPlaces, InvFork
<1>4. serviceFlag' = serviceFlag /\ tty' = tty /\ flags' = flags /\ Cap!FlushOut("Child")
  BY DEF Cap!ChildExits, Cap!environs
<1> QED
  BY <1>2, <1>3, <1>4, LaterFlag

\* The parent goes to wait for a key or to serve, and writes its buffer there.
LEMMA ParentFlag ==
  FlagInv /\ (Cap!ParentWaits \/ Cap!Getchar \/ Cap!Serve) => FlagInv'
<1> SUFFICES ASSUME FlagInv, Cap!ParentWaits \/ Cap!Getchar \/ Cap!Serve PROVE FlagInv'
  OBVIOUS
<1>0. InvPlaces
  BY DEF FlagInv
<1>1. PICK place \in {"getchar", "service", "exit"} : capPc' = [capPc EXCEPT !["Parent"] = place]
  BY DEF Cap!ParentWaits, Cap!Getchar, Cap!Serve, Cap!CapGoes
<1>2. InvPlaces'
  BY <1>0, <1>1 DEF InvPlaces
<1>3. /\ capPc'["Parent"] \notin {"getopt", "fork"}
      /\ capPc'["Child"] = capPc["Child"]
  BY <1>0, <1>1 DEF InvPlaces
<1>4. /\ serviceFlag' = serviceFlag /\ tty' = tty /\ flags' = flags
      /\ Cap!FlushOut("Parent") \/ (unflushed' = unflushed /\ flagShown' = flagShown)
  BY DEF Cap!ParentWaits, Cap!Getchar, Cap!Serve, Cap!environs
<1> QED
  BY <1>2, <1>3, <1>4, LaterFlag

\* Every step of the program that was started keeps its invariant.
LEMMA ServiceFlag == FlagInv /\ Service => FlagInv'
  BY SetsFlagFlag, WrongOptionFlag, EndOfOptionsFlag, ForkFlag, CheckFlag, ChildExitsFlag,
     ParentFlag
  DEF Service, Cap!CapParent, Cap!CapGetopt, Cap!CapChild

\* An answer is given by what the program is allowed; the other steps give none.
LEMMA ServiceSaid ==
  ASSUME InvAnswers, InvSaid, Service
  PROVE  InvAnswers' /\ InvSaid'
<1>0. pc = "program" /\ pc' = pc /\ permitted' = permitted
  BY DEF Service, Serves, vars, sets
<1>1. CASE said' = said
  BY <1>0, <1>1 DEF InvAnswers, InvSaid
<1>2. CASE \E r \in {"Parent", "Child"} : Cap!CheckRaw(r)
  <2>1. PICK r \in {"Parent", "Child"}, answer \in Cap!Answers : said' = [said EXCEPT ![r] = answer]
    BY <1>2 DEF Cap!CheckRaw
  <2>2. /\ answer \in {"supported", "EPERM", "ENOBUFS", "stale"}
        /\ answer \in {"supported", "stale"} => CAP_NET_RAW \in permitted
        /\ answer = "EPERM" => CAP_NET_RAW \notin permitted
    BY <2>1 DEF Cap!Answers
  <2> QED
    BY <1>0, <2>1, <2>2 DEF InvAnswers, InvSaid
<1> QED
  BY <1>1, <1>2 DEF Service, Cap!CapParent, Cap!CapChild, Cap!CapGetopt, Cap!SetsFlag,
     Cap!WrongOption, Cap!EndOfOptions, Cap!CapFork,
     Cap!ParentWaits, Cap!Getchar, Cap!Serve, Cap!ChildExits

\* The launcher takes its steps before the program runs, in which nobody has said anything.
LEMMA LaunchSaid ==
  ASSUME InvSaid, Next, said' = said
  PROVE  InvSaid'
<1>1. pc # "program"
  BY DEF Next, Usage, GetCaplist, SetAmbientCap, EndOfList, ExecPlain, ExecFails
<1> QED
  BY <1>1 DEF InvSaid

\* Every step of the launcher and of the program it starts keeps the invariant.
LEMMA NextServiceInv == ServiceInv /\ [ServiceNext]_allVars => ServiceInv'
<1> SUFFICES ASSUME ServiceInv, [ServiceNext]_allVars PROVE ServiceInv'
  OBVIOUS
<1>0. IInv /\ FlagInv /\ InvFlags /\ InvAnswers /\ InvSaid
  BY DEF ServiceInv
<1>1. IInv'
  <2>1. [Next]_vars
    BY DEF ServiceNext, Launch, Service, Serves, allVars
  <2> QED
    BY <1>0, <2>1, NextIInv
<1>2. CASE UNCHANGED capVars
  <2>1. FlagInv' /\ InvFlags' /\ InvAnswers'
    BY <1>0, <1>2 DEF capVars, FlagInv, InvPlaces, InvData, InvFork, InvBuffer, InvCopies,
       Copies, InvFlags, InvAnswers
  <2>2. said' = said
    BY <1>2 DEF capVars
  <2>3. InvSaid'
    <3>1. CASE UNCHANGED vars
      BY <1>0, <2>2, <3>1 DEF InvSaid, vars, sets
    <3>2. CASE Next
      BY <1>0, <2>2, <3>2, LaunchSaid
    <3> QED
      BY <3>1, <3>2 DEF ServiceNext, Launch, Service, Serves, allVars
  <2> QED
    BY <1>1, <2>1, <2>3 DEF ServiceInv
<1>3. CASE Service
  <2>1. InvFlags'
    BY <1>0, <1>3 DEF Service, Cap!CapParent, Cap!CapChild, Cap!CapGetopt, Cap!SetsFlag,
     Cap!WrongOption, Cap!EndOfOptions, Cap!CapFork,
       Cap!CheckRaw, Cap!ParentWaits, Cap!Getchar, Cap!Serve, Cap!ChildExits, Cap!environs,
       InvFlags
  <2> QED
    BY <1>0, <1>1, <1>3, <2>1, ServiceFlag, ServiceSaid DEF ServiceInv
<1> QED
  BY <1>2, <1>3 DEF ServiceNext, Launch, allVars

\* The invariant holds from the launcher's start and through the program's two processes.
THEOREM ServiceInvariance == ServiceSpec => []ServiceInv
  BY InitServiceInv, NextServiceInv, PTL DEF ServiceSpec

\* Both processes of c/cap/main.c keep their types; for any number of -s.
THEOREM ServiceTypeCorrect == ServiceSpec => []Cap!CapTypeOK
<1>1. ServiceInv => Cap!CapTypeOK
  BY DEF ServiceInv, FlagInv, InvPlaces, InvData, InvFlags, InvAnswers, Cap!CapTypeOK, Cap!Roles
<1> QED
  BY <1>1, ServiceInvariance, PTL

\* What the launcher was asked for decides what parent and child find out about raw sockets.
THEOREM RawReaches == ServiceSpec => []RawReachesService
<1>1. ServiceInv => RawReachesService
  <2> SUFFICES ASSUME ServiceInv PROVE RawReachesService
    OBVIOUS
  <2>1. pc = "program" => permitted = inherited \cup Asked
    BY DoneIsAsked DEF ServiceInv, IInv, InvLoop
  <2> QED
    BY <2>1 DEF ServiceInv, InvSaid, RawReachesService
<1> QED
  BY <1>1, ServiceInvariance, PTL

\* For any number of -s, each shows once on a terminal and otherwise from each process.
THEOREM FlagLine == ServiceSpec => []FlagLineCopies
<1>1. ServiceInv => FlagLineCopies
  BY DEF ServiceInv, FlagInv, InvCopies, Copies, FlagLineCopies, Cap!FlagLineCopies
<1> QED
  BY <1>1, ServiceInvariance, PTL

\* What holds of the launcher alone, above, holds of it with the program running: that
\* program's two processes change nothing of the launcher's state.
THEOREM ServiceLaunches == ServiceSpec => Spec
<1>1. ServiceInit => Init
  BY DEF ServiceInit
<1>2. [ServiceNext]_allVars => [Next]_vars
  BY DEF ServiceNext, Launch, Service, Serves, allVars
<1> QED
  BY <1>1, <1>2, PTL DEF ServiceSpec, Spec

=============================================================================
