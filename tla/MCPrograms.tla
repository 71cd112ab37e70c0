------------------------------- MODULE MCPrograms -------------------------------
(***************************************************************************)
(* Four small programs that have nothing to do with each other, each       *)
(* started on its own: sched, flowlabel, rawbind and the ACE signal test.  *)
(* program says which; the others stay at their beginnings.                *)
(***************************************************************************)
EXTENDS Sched, FlowLabel, RawBind, AceSignal

VARIABLE program

vars == <<program, schedVars, flowVars, bindVars, aceVars>>

Init ==
  /\ program \in {"sched", "flowlabel", "rawbind", "acesignal"}
  /\ SchedInit /\ FlowInit /\ BindInit /\ AceInit

RunSched == program = "sched" /\ SchedNext /\ UNCHANGED <<program, flowVars, bindVars, aceVars>>
RunFlow  == program = "flowlabel" /\ FlowNext /\ UNCHANGED <<program, schedVars, bindVars, aceVars>>
RunBind  == program = "rawbind" /\ BindNext /\ UNCHANGED <<program, schedVars, flowVars, aceVars>>
RunAce   == program = "acesignal" /\ AceNext /\ UNCHANGED <<program, schedVars, flowVars, bindVars>>

Next == RunSched \/ RunFlow \/ RunBind \/ RunAce

Spec ==
  /\ Init /\ [][Next]_vars
  /\ program = "sched" => SchedFairness
  /\ program = "flowlabel" => FlowFairness
  /\ program = "acesignal" => AceFairness

\* The variables of each program, the idle ones' included, have their types.
TypeOK == SchedTypeOK /\ FlowTypeOK /\ BindTypeOK /\ AceTypeOK

=============================================================================
