-------------------------------- MODULE FlowLabel --------------------------------
(***************************************************************************)
(* c/raw6/flowlabel.c: a UDP socket bound to a port the kernel chooses     *)
(* sends a datagram with flow information to itself and waits for it. The  *)
(* port is open to everyone, and sendto()'s result is not looked at.       *)
(***************************************************************************)
EXTENDS Integers

VARIABLES
  flowPc,
  flowSock,    \* the socket is open
  coming,      \* datagrams under way to the socket or in it: "own", "stranger"
  flowRc

flowVars == <<flowPc, flowSock, coming, flowRc>>

FlowTypeOK ==
  /\ flowPc \in {"socket", "bind", "send", "recv", "close", "exit"}
  /\ flowSock \in BOOLEAN /\ coming \subseteq {"own", "stranger"}
  /\ flowRc \in {"none", "0", "-1"}

FlowInit == flowPc = "socket" /\ flowSock = FALSE /\ coming = {} /\ flowRc = "none"

FlowGoes(from, to) == flowPc = from /\ flowPc' = to

FlowSocket ==
  /\ \/ FlowGoes("socket", "bind") /\ flowSock' = TRUE /\ UNCHANGED flowRc
     \/ FlowGoes("socket", "exit") /\ flowRc' = "-1" /\ UNCHANGED flowSock
  /\ UNCHANGED coming

\* bind(), and getsockname() for the port. A failure closes the socket.
FlowBind ==
  /\ \/ FlowGoes("bind", "send") /\ UNCHANGED <<flowSock, flowRc>>
     \/ FlowGoes("bind", "exit") /\ flowSock' = FALSE /\ flowRc' = "-1"
  /\ UNCHANGED coming

\* The datagram may be refused or dropped; the program goes on in either case.
FlowSend ==
  /\ FlowGoes("send", "recv")
  /\ coming' \in {coming, coming \cup {"own"}}
  /\ UNCHANGED <<flowSock, flowRc>>

\* Faulty variant: only the program's own datagram accepted.
FromSelf == coming \cap {"own"}

FromAnyone == coming

\* recvfrom() waits for a datagram, anybody's, and what is printed is not its flow
\* information but that of the one sent.
FlowRecv ==
  /\ FlowGoes("recv", "close")
  /\ \E d \in FromAnyone : coming' = coming \ {d}
  /\ UNCHANGED <<flowSock, flowRc>>

FlowClose ==
  /\ FlowGoes("close", "exit") /\ flowSock' = FALSE /\ flowRc' = "0" /\ UNCHANGED coming

\* Someone else finds the port.
Stranger ==
  /\ flowPc \in {"send", "recv"} /\ coming' = coming \cup {"stranger"}
  /\ UNCHANGED <<flowPc, flowSock, flowRc>>

FlowMain == FlowSocket \/ FlowBind \/ FlowSend \/ FlowRecv \/ FlowClose

FlowNext == FlowMain \/ Stranger

\* The process runs; recvfrom() returns when there is a datagram.
FlowFairness == WF_flowVars(FlowMain)

-----------------------------------------------------------------------------
\* The program waits for ever only when its own datagram was lost and nobody else's came:
\* whatever the order of sending, arrival and reading, one that is there ends it.
ArrivalEnds == coming # {} ~> flowPc = "exit"

=============================================================================
