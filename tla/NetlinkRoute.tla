----------------------------- MODULE NetlinkRoute -----------------------------
(***************************************************************************)
(* c/netlink/getroute.c: one RTM_GETROUTE request over a netlink socket,   *)
(* one recvfrom(), and the two nested scans of what it returned: messages  *)
(* by NLMSG_OK / NLMSG_NEXT and, in nl_filter_route, route attributes by   *)
(* RTA_OK / RTA_NEXT.                                                      *)
(*                                                                         *)
(* The contents of the buffer are chosen where they are read: any lengths  *)
(* and types at all, except that the kernel gives the attributes that are  *)
(* printed as integers IntLen bytes of payload at least, and RTA_DST an    *)
(* address of the family asked for. RTA_SRC is printed as a text, of which *)
(* nothing says where it ends. Sizes are parameters; in the code Align =   *)
(* 4, HdrLen = 16 (nlmsghdr), RtmLen = 12 (rtmsg), ErrLen = 20 (nlmsgerr), *)
(* AttrLen = 4 (rtattr), IntLen = V4Len = 4, V6Len = 16 and BufLen = 4096. *)
(***************************************************************************)
EXTENDS Integers

CONSTANTS Align, HdrLen, RtmLen, ErrLen, AttrLen, IntLen, V4Len, V6Len, BufLen,
          MaxLen   \* bound: the longest datagram, and the largest length field

ASSUME SizesAssumption ==
  /\ Align \in Nat \ {0} /\ HdrLen \in Nat \ {0} /\ AttrLen \in Nat \ {0}
  /\ RtmLen \in Nat /\ ErrLen \in Nat /\ IntLen \in Nat /\ V4Len \in Nat /\ V6Len \in Nat
  /\ BufLen \in Nat /\ MaxLen \in Nat

\* The attributes nl_filter_route prints: RTA_TABLE, RTA_IIF and RTA_OIF; RTA_SRC; RTA_DST.
\* Of the others tb keeps what nobody reads, or, above RTA_MAX, nothing.
Printed == {"int", "src", "dst"}

Dsts == {"v4", "v6"}  \* what the user asks the route of

VARIABLES
  pc,
  ack_flag, dst,   \* the options: -a, and argv[optind]
  target,          \* what the request asks for
  sock,            \* the netlink socket is open
  recvlen, off, msglen,  \* the datagram; the position of h; what is left of it
  hlen,            \* nlmsg_len of the message that nl_filter_route works on
  aoff, len,       \* the position of rta; what is left of the attributes
  tb,              \* attribute type -> position, -1 for NULL
  touched,         \* history: the end of the furthest read in buf but for the text of RTA_SRC
  overrun,         \* history: the text of an RTA_SRC went on past the received bytes
  rc               \* main()'s result, or "none"

args == <<ack_flag, dst>>
scan == <<recvlen, off, msglen>>
attr == <<hlen, aoff, len, tb>>
seen == <<touched, overrun>>
vars == <<pc, args, target, sock, scan, attr, seen, rc>>

NoAttrs == [t \in Printed |-> -1]

TypeOK ==
  /\ pc \in {"getopt", "socket", "send", "poll", "recv", "msg", "attrs", "check", "exit"}
  /\ ack_flag \in BOOLEAN /\ dst \in Dsts
  /\ target \in Dsts \cup {"none", "zero"}
  /\ sock \in BOOLEAN
  /\ recvlen \in 0..BufLen /\ off \in Nat /\ msglen \in Int
  /\ hlen \in Nat /\ aoff \in Nat /\ len \in Int
  /\ tb \in [Printed -> Int]
  /\ touched \in Nat /\ overrun \in BOOLEAN
  /\ rc \in {"none", "0", "-1"}

Init ==
  /\ pc = "getopt"
  /\ ack_flag \in BOOLEAN /\ dst \in Dsts
  /\ target = "none"
  /\ sock = FALSE
  /\ recvlen = 0 /\ off = 0 /\ msglen = 0
  /\ hlen = 0 /\ aoff = 0 /\ len = 0
  /\ tb = NoAttrs
  /\ touched = 0 /\ overrun = FALSE
  /\ rc = "none"

-----------------------------------------------------------------------------
(* The request                                                             *)

\* return -1 before there is a socket (RC_EXCEPTION_RETURN).
Return(at) ==
  /\ pc = at /\ pc' = "exit" /\ rc' = "-1"
  /\ UNCHANGED <<args, target, sock, scan, attr, seen>>

\* fail_flow and the end of main() close the socket.
SockAfterFailure == FALSE

\* goto fail_flow (RC_EXCEPTION_GOTO_FAIL).
Fail(at) ==
  /\ pc = at /\ pc' = "exit" /\ rc' = "-1"
  /\ sock' = SockAfterFailure
  /\ UNCHANGED <<args, target, scan, attr, seen>>

Getopt ==
  /\ pc = "getopt" /\ pc' = "socket"
  /\ UNCHANGED <<args, target, sock, scan, attr, seen, rc>>

Socket ==
  /\ pc = "socket" /\ pc' = "send"
  /\ sock' = TRUE
  /\ UNCHANGED <<args, target, scan, attr, seen, rc>>

\* inet_pton() parses argv[1], which getopt() leaves to the option when there is one; an
\* address that does not parse is sent as 0.0.0.0.
Parsed == IF ack_flag THEN "zero" ELSE dst

Send ==
  /\ pc = "send" /\ pc' = "poll"
  /\ target' = Parsed
  /\ UNCHANGED <<args, sock, scan, attr, seen, rc>>

\* A timeout is not an error here: recvfrom() then finds nothing, or a late answer.
Poll ==
  /\ pc = "poll" /\ pc' = "recv"
  /\ UNCHANGED <<args, target, sock, scan, attr, seen, rc>>

\* Faulty variant: the check of recvlen against sizeof(buf) left out.
FitsAnything(n) == TRUE

\* recvlen > sizeof(buf) is refused.
Fits(n) == n <= BufLen

Recv ==
  /\ pc = "recv" /\ pc' = "msg"
  /\ \E n \in 0..MaxLen : Fits(n) /\ recvlen' = n /\ msglen' = n
  /\ off' = 0
  /\ UNCHANGED <<args, target, sock, attr, seen, rc>>

-----------------------------------------------------------------------------
(* The scan of the messages                                                *)

AlignUp(n) == n + ((Align - (n % Align)) % Align)

\* Reads of buf up to (not including) position n.
Touch(n) == touched' = IF n > touched THEN n ELSE touched

\* NLMSG_OK for a message whose nlmsg_len is n, once a header is left to read.
NLMSG_OK(n) == n >= HdrLen /\ n <= msglen

\* Faulty variant: the scan starts over at buf.
NLMSG_NEXT_FromStart(n) == off' = 0 /\ msglen' = recvlen

\* NLMSG_NEXT for a message of length n.
NLMSG_NEXT(n) == off' = off + AlignUp(n) /\ msglen' = msglen - AlignUp(n)

\* Another process's message, or the kernel's own (nlmsg_pid = 0); an ACK; a message that
\* nl_filter_route refuses by type or as too short.
SkipMessage(n) ==
  /\ NLMSG_OK(n)
  /\ pc' = "msg"
  /\ NLMSG_NEXT(n)
  /\ \/ Touch(off + HdrLen)
     \/ n >= HdrLen + ErrLen /\ Touch(off + HdrLen + ErrLen)
  /\ UNCHANGED <<args, target, sock, recvlen, attr, overrun, rc>>

\* Faulty variant: the memset of tb left out.
TbKept == tb

\* memset(tb, 0, sizeof(tb)).
TbCleared == NoAttrs

\* nl_filter_route begins: the message has room for an rtmsg.
FilterRoute(n) ==
  /\ NLMSG_OK(n)
  /\ n >= HdrLen + RtmLen
  /\ pc' = "attrs"
  /\ hlen' = n
  /\ aoff' = off + HdrLen + RtmLen
  /\ len' = n - (HdrLen + RtmLen)
  /\ tb' = TbCleared
  /\ Touch(off + HdrLen + RtmLen)
  /\ UNCHANGED <<args, target, sock, scan, overrun, rc>>

\* NLMSG_DONE, and NLMSG_ERROR that is truncated or carries an error: break.
LastMessage(n) ==
  /\ NLMSG_OK(n)
  /\ pc' = "check"
  /\ \/ Touch(off + HdrLen)
     \/ n >= HdrLen + ErrLen /\ Touch(off + HdrLen + ErrLen)
  /\ UNCHANGED <<args, target, sock, scan, attr, overrun, rc>>

\* The loop ends when no header is left or nlmsg_len does not fit.
EndOfMessages(n) ==
  /\ ~NLMSG_OK(n)
  /\ pc' = "check"
  /\ Touch(off + HdrLen)
  /\ UNCHANGED <<args, target, sock, scan, attr, overrun, rc>>

Message ==
  /\ pc = "msg" /\ msglen >= HdrLen
  /\ \E n \in 0..MaxLen :
       SkipMessage(n) \/ FilterRoute(n) \/ LastMessage(n) \/ EndOfMessages(n)

NoMessage ==
  /\ pc = "msg" /\ msglen < HdrLen
  /\ pc' = "check"
  /\ UNCHANGED <<args, target, sock, scan, attr, seen, rc>>

-----------------------------------------------------------------------------
(* nl_filter_route: the scan of the attributes                             *)

RTA_OK(n) == n >= AttrLen /\ n <= len

\* The bytes read of the payload of a printed attribute: an integer, or what inet_ntop()
\* takes for an address of the request's family. What the text of RTA_SRC takes is apart.
Payload(t) ==
  CASE t = "int" -> IntLen
    [] t = "dst" -> IF target = "v6" THEN V6Len ELSE V4Len
    [] t = "src" -> 0

\* RTA_NEXT; a repeated type overwrites. The kernel gives an integer or address that is printed
\* at least its size; other attributes may have any length, and so may all lengths be wrong
\* that RTA_OK refuses.
Attribute ==
  /\ pc = "attrs" /\ len >= AttrLen
  /\ \E n \in 0..MaxLen :
       /\ RTA_OK(n)
       /\ \/ \E t \in Printed : n >= AttrLen + Payload(t) /\ tb' = [tb EXCEPT ![t] = aoff]
          \/ UNCHANGED tb
       /\ aoff' = aoff + AlignUp(n)
       /\ len' = len - AlignUp(n)
  /\ Touch(aoff + AttrLen)
  /\ UNCHANGED <<pc, args, target, sock, scan, hlen, overrun, rc>>

\* Where the reads after the last RTA_NEXT end: of the header at which RTA_OK fails and of
\* every attribute that is printed.
LastReads ==
  {touched}
    \cup (IF len >= AttrLen THEN {aoff + AttrLen} ELSE {})
    \cup {tb[t] + AttrLen + Payload(t) : t \in {u \in Printed : tb[u] # -1}}

\* RTA_OK fails; nl_filter_route prints the attributes it found, RTA_SRC up to the next zero
\* byte wherever that is, and returns, and main() goes on to the next message.
EndOfAttributes ==
  /\ pc = "attrs" /\ pc' = "msg"
  /\ len >= AttrLen => \E n \in 0..MaxLen : ~RTA_OK(n)
  /\ touched' \in LastReads /\ \A n \in LastReads : n <= touched'
  /\ overrun' \in (IF tb["src"] = -1 THEN {overrun} ELSE {overrun, TRUE})
  /\ NLMSG_NEXT(hlen)
  /\ UNCHANGED <<args, target, sock, recvlen, attr, rc>>

-----------------------------------------------------------------------------
\* parse data has remnant.
Remnant == msglen > 0 /\ Fail("check")

Success ==
  /\ pc = "check" /\ ~(msglen > 0)
  /\ pc' = "exit" /\ rc' = "0" /\ sock' = FALSE
  /\ UNCHANGED <<args, target, scan, attr, seen>>

Next ==
  \/ Getopt \/ Socket \/ Send \/ Poll \/ Recv
  \/ Return("getopt") \/ Return("socket") \/ Fail("send") \/ Fail("poll") \/ Fail("recv")
  \/ Message \/ NoMessage \/ Attribute \/ EndOfAttributes \/ Remnant \/ Success

\* A single process that the kernel runs; poll() and recvfrom() do not block for ever.
Spec == Init /\ [][Next]_vars /\ WF_vars(Next)

-----------------------------------------------------------------------------
(* Properties                                                              *)

\* Whatever lengths the datagram claims, no read of headers, rtmsg, nlmsgerr, attributes,
\* or of the integers and the address printed goes past what recvfrom() put into buf, nor
\* past buf, however long the datagram was that recvfrom() cut. The text of RTA_SRC is the
\* one read without a bound.
InBounds == touched <= recvlen /\ touched <= BufLen

\* What nl_filter_route prints belongs to the message at hand: every pointer in tb lies
\* between its rtmsg and its end, with as much payload as is read there.
AttributesOfThisMessage ==
  pc = "attrs" =>
    \A t \in Printed : tb[t] # -1 =>
      off + HdrLen + RtmLen <= tb[t] /\ tb[t] + AttrLen + Payload(t) <= off + hlen

\* Every way out of main(), early or late, leaves no netlink socket open.
SocketClosed == rc # "none" => ~sock

\* The scan goes forward: a message is left behind only for a later one.
ScanAdvances == [][(pc \in {"msg", "attrs"} /\ pc' = "msg") => off' > off]_vars

\* The program ends for every datagram, those with zero and oversized lengths included, and
\* after every failure, with its socket closed.
Ends == <>(pc = "exit" /\ ~sock)

\* "Get route for argv[optind]": the request asks for the destination the user named.
AsksForDst == pc \notin {"getopt", "socket", "send", "exit"} => target = dst

=============================================================================
