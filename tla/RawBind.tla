--------------------------------- MODULE RawBind ---------------------------------
(***************************************************************************)
(* c/raw4/rawbind.c: two raw sockets bound to one address. Each of the     *)
(* four calls may fail and then ends main(), with what its branch closes.  *)
(***************************************************************************)
EXTENDS Integers

VARIABLES bindPc, opened, bound, bindRc

bindVars == <<bindPc, opened, bound, bindRc>>

Socks == {"tRawUDPSock", "tRebindRawUDPSock"}

BindTypeOK ==
  /\ bindPc \in {"socket1", "socket2", "bind1", "bind2", "close", "exit"}
  /\ opened \subseteq Socks /\ bound \subseteq opened
  /\ bindRc \in {"none", "0", "-1"}

BindInit == bindPc = "socket1" /\ opened = {} /\ bound = {} /\ bindRc = "none"

\* A call succeeds and main() goes on.
Succeeds(from, to, open, bind) ==
  /\ bindPc = from /\ bindPc' = to
  /\ opened' = opened \cup open /\ bound' = bound \cup bind
  /\ UNCHANGED bindRc

\* Faulty variant: only the socket at hand is closed.
ClosesOne == {"tRebindRawUDPSock"}

\* What the branches after a failed bind() close, and the end of main().
Closes == {"tRawUDPSock", "tRebindRawUDPSock"}

BindReturns(from, closed, n) ==
  /\ bindPc = from /\ bindPc' = "exit" /\ bindRc' = n
  /\ opened' = opened \ closed /\ bound' = bound \ closed

Open1 ==
  Succeeds("socket1", "socket2", {"tRawUDPSock"}, {}) \/ BindReturns("socket1", {}, "-1")

\* A failure here closes nothing: the first socket stays open until the process is gone.
Open2 ==
  Succeeds("socket2", "bind1", {"tRebindRawUDPSock"}, {}) \/ BindReturns("socket2", {}, "-1")

Bind1 ==
  Succeeds("bind1", "bind2", {}, {"tRawUDPSock"}) \/ BindReturns("bind1", Closes, "-1")

Bind2 ==
  Succeeds("bind2", "close", {}, {"tRebindRawUDPSock"}) \/ BindReturns("bind2", Closes, "-1")

CloseBoth == BindReturns("close", Closes, "0")

BindNext == Open1 \/ Open2 \/ Bind1 \/ Bind2 \/ CloseBoth

BindSpec == BindInit /\ [][BindNext]_bindVars

-----------------------------------------------------------------------------
\* A failure in the middle leaves no address taken: whichever call fails, no socket that was
\* bound is open when main() returns, and of the others at most the first.
NoAddressTaken == bindRc # "none" => bound = {} /\ opened \subseteq {"tRawUDPSock"}

=============================================================================
