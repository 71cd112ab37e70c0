------------------------------ MODULE AmbientCaps ------------------------------
(***************************************************************************)
(* c/ambient/main.c: raises the capabilities of a list, the default one or *)
(* the one of -c, into the ambient set of the process and executes another *)
(* program, which inherits them. The process's capability sets are the     *)
(* kernel's; libcap-ng works on a copy of them that it reads and applies.  *)
(***************************************************************************)
EXTENDS Integers, Sequences

CONSTANTS Caps,             \* the capabilities the kernel knows
          default_caplist,
          Lists             \* the lists -c may give: numbers, one per token

ASSUME CapsAssumption ==
  /\ Caps \subseteq Int /\ -1 \notin Caps
  /\ default_caplist \in Seq(Int)
  /\ Lists \subseteq Seq(Int) /\ <<>> \in Lists

VARIABLES
  pc,          \* "main", "loop", "exec", "program" (the new one runs) or "exit"
  caplist, i,
  permitted, inheritable, ambient,   \* of the process
  bounding, noRaise,                 \* the bounding set; SECBIT_NO_CAP_AMBIENT_RAISE
  setpcap,                           \* whether CAP_SETPCAP is effective
  inherited,                         \* history: the ambient set at the start
  rc

environment == <<bounding, noRaise, setpcap, inherited>>
sets == <<permitted, inheritable, ambient>>
vars == <<pc, caplist, i, sets, environment, rc>>

TypeOK ==
  /\ pc \in {"main", "loop", "exec", "program", "exit"}
  /\ caplist \in Seq(Int) /\ i \in 1..(Len(caplist) + 1)
  /\ permitted \subseteq Caps /\ inheritable \subseteq Caps /\ ambient \subseteq Caps
  /\ bounding \subseteq Caps /\ inherited \subseteq Caps
  /\ noRaise \in BOOLEAN /\ setpcap \in BOOLEAN
  /\ rc \in {"none", "0", "1", "2"}

\* Any sets the kernel may have given the process: it keeps the ambient capabilities
\* among the permitted and inheritable ones.
Init ==
  /\ pc = "main"
  /\ caplist = <<>> /\ i = 1
  /\ permitted \in SUBSET Caps /\ inheritable \in SUBSET Caps
  /\ ambient \in SUBSET (permitted \cap inheritable)
  /\ bounding \in SUBSET Caps /\ noRaise \in BOOLEAN /\ setpcap \in BOOLEAN
  /\ inherited = ambient
  /\ rc = "none"

Exit(n) ==
  /\ pc' = "exit" /\ rc' = n
  /\ UNCHANGED <<caplist, i, environment>>

\* usage(), or no memory for the list.
Usage == pc = "main" /\ Exit("1") /\ UNCHANGED sets

\* get_caplist gives no list for an argument without tokens, and then the default is used.
GetCaplist ==
  /\ pc = "main" /\ pc' = "loop"
  /\ \E list \in Lists : caplist' = IF list = <<>> THEN default_caplist ELSE list
  /\ UNCHANGED <<i, sets, environment, rc>>

\* -1 ends the list, one given by the user included.
IsLast == IF i > Len(caplist) THEN TRUE ELSE caplist[i] = -1

\* capng_get_caps_process: the copy starts from what the process has.
CapsProcess == inheritable

\* capset() keeps inheritable capabilities within the old ones and the bounding set, and
\* without CAP_SETPCAP within the permitted ones. The result of capng_apply is not looked
\* at: if it fails, nothing changes.
Applied(cap) ==
  LET new == CapsProcess \cup {cap}
  IN  IF /\ new \subseteq inheritable \cup bounding
         /\ setpcap \/ new \subseteq inheritable \cup permitted
        THEN new ELSE inheritable

\* PR_CAP_AMBIENT_RAISE wants the capability permitted and inheritable.
MayRaise(cap, inh) == cap \in permitted \cap inh /\ ~noRaise

\* What capset() leaves of the ambient set, and the capability raised.
Raised(cap) == (ambient \cap Applied(cap)) \cup {cap}

Following == i + 1

\* Faulty variant: the result of prctl not looked at.
RefusedGoOn == i' = Following /\ UNCHANGED <<pc, caplist, environment, rc>>

\* "Cannot set ambient cap"
Refused == Exit("1")

\* set_ambient_cap: what happens for one capability of the list.
SetAmbientCap ==
  LET cap == caplist[i]
  IN  /\ pc = "loop" /\ ~IsLast
      /\ IF cap \notin Caps
           THEN Exit("2") /\ UNCHANGED sets
           ELSE /\ inheritable' = Applied(cap)
                /\ UNCHANGED permitted
                /\ IF MayRaise(cap, Applied(cap))
                     THEN /\ ambient' = Raised(cap)
                          /\ i' = Following
                          /\ UNCHANGED <<pc, caplist, environment, rc>>
                     ELSE /\ ambient' = ambient \cap Applied(cap)
                          /\ Refused

EndOfList ==
  /\ pc = "loop" /\ IsLast
  /\ pc' = "exec"
  /\ UNCHANGED <<caplist, i, sets, environment, rc>>

\* execv of a program without capabilities of its own: what is ambient is permitted.
ExecPlain ==
  /\ pc = "exec" /\ pc' = "program"
  /\ permitted' = ambient
  /\ UNCHANGED <<caplist, i, inheritable, ambient, environment, rc>>

ExecFails == pc = "exec" /\ Exit("0") /\ UNCHANGED sets

Next ==
  Usage \/ GetCaplist \/ SetAmbientCap \/ EndOfList \/ ExecPlain \/ ExecFails

Spec == Init /\ [][Next]_vars

-----------------------------------------------------------------------------
(* Properties                                                              *)

\* The capabilities of the list, up to a -1 in it.
Asked == {caplist[k] : k \in {n \in DOMAIN caplist : \A m \in 1..n : caplist[m] # -1}}

\* "To get a shell with additional caps that can be inherited": the new program has all
\* the capabilities asked for, and besides them only what was ambient before. One that
\* cannot be raised stops everything: there is no program with some of them.
ProgramGetsAsked == pc = "program" => permitted = inherited \cup Asked

\* Raising one capability never costs another: applying the copy of libcap-ng takes
\* nothing out of the ambient set.
AmbientOnlyGrows == [][ambient \subseteq ambient']_vars

=============================================================================
