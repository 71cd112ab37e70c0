-------------------------- MODULE NetlinkRouteProofs --------------------------
(***************************************************************************)
(* Proofs about NetlinkRoute for all structure sizes, buffer sizes and     *)
(* datagrams.                                                              *)
(***************************************************************************)
EXTENDS NetlinkRoute, TLAPS

\* Position and remainder of the outer scan always add up to the datagram, and those of
\* the inner scan to the message, which lies inside the datagram.
InvScan ==
  /\ pc \in {"msg", "attrs", "check"} => off + msglen = recvlen
  /\ pc = "attrs" => /\ aoff + len = off + hlen
                     /\ HdrLen <= hlen /\ hlen <= msglen
                     /\ off + HdrLen + RtmLen <= aoff
  /\ pc \in {"getopt", "socket", "send", "poll", "recv"} => touched = 0

\* The socket lives from socket() to the exit.
InvSocket ==
  /\ pc = "exit" <=> rc # "none"
  /\ pc \in {"getopt", "socket"} => ~sock

IInv ==
  /\ TypeOK
  /\ InvScan
  /\ InvSocket
  /\ InBounds
  /\ AttributesOfThisMessage
  /\ SocketClosed

\* NLMSG_ALIGN and RTA_ALIGN never shorten.
LEMMA AlignUpGrows ==
  ASSUME NEW n \in Nat
  PROVE  AlignUp(n) \in Nat /\ AlignUp(n) >= n
<1>1. n % Align \in 0..(Align - 1)
  BY SizesAssumption
<1>2. (Align - (n % Align)) % Align \in 0..(Align - 1)
  BY <1>1, SizesAssumption
<1> QED
  BY <1>2, SizesAssumption DEF AlignUp

\* Recording a read keeps the record a number that has not gone down.
LEMMA TouchFacts ==
  ASSUME touched \in Nat, NEW n \in Int, Touch(n)
  PROVE  touched' \in Nat /\ (touched' = touched \/ touched' = n)
BY DEF Touch

\* The payloads that are read have sizes.
LEMMA PayloadNat ==
  ASSUME NEW t \in Printed
  PROVE  Payload(t) \in Nat
BY SizesAssumption DEF Printed, Payload

\* A read that is recorded at the end of nl_filter_route is no lower than those before.
LEMMA LastReadsNat ==
  ASSUME TypeOK, touched' \in LastReads, \A n \in LastReads : n <= touched'
  PROVE  touched' \in Nat
<1>1. touched' \in Int
  <2>1. aoff + AttrLen \in Int /\ touched \in Int
    BY SizesAssumption DEF TypeOK
  <2>2. ASSUME NEW t \in Printed PROVE tb[t] + AttrLen + Payload(t) \in Int
    BY PayloadNat, SizesAssumption DEF TypeOK
  <2> QED
    BY <2>1, <2>2 DEF LastReads
<1>2. touched <= touched' /\ touched \in Nat
  BY DEF LastReads, TypeOK
<1> QED
  BY <1>1, <1>2

\* One step of the program preserves the types.
LEMMA TypeStep == TypeOK /\ [Next]_vars => TypeOK'
<1> SUFFICES ASSUME TypeOK, [Next]_vars PROVE TypeOK'
  OBVIOUS
<1> USE SizesAssumption DEF TypeOK, args, scan, attr, seen
<1>1. CASE Getopt \/ Socket \/ Send \/ Poll
  BY <1>1 DEF Getopt, Socket, Send, Poll, Parsed
<1>2. CASE Recv
  BY <1>2 DEF Recv, Fits
<1>3. ASSUME NEW at, Return(at) \/ Fail(at) PROVE TypeOK'
  BY <1>3 DEF Return, Fail, SockAfterFailure
<1>4. CASE Message
  <2> PICK n \in 0..MaxLen : SkipMessage(n) \/ FilterRoute(n) \/ LastMessage(n) \/ EndOfMessages(n)
    BY <1>4 DEF Message
  <2>1. AlignUp(n) \in Nat
    BY AlignUpGrows
  <2>2. NoAttrs \in [Printed -> Int]
    BY DEF NoAttrs
  <2>3. touched' \in Nat
    BY TouchFacts DEF SkipMessage, FilterRoute, LastMessage, EndOfMessages
  <2>4. CASE SkipMessage(n)
    <3>1. off' \in Nat /\ msglen' \in Int
      BY <2>1, <2>4 DEF SkipMessage, NLMSG_NEXT
    <3> QED
      BY <2>3, <2>4, <3>1 DEF SkipMessage
  <2>5. CASE FilterRoute(n)
    <3>1. hlen' \in Nat /\ aoff' \in Nat /\ len' \in Int
      BY <2>5 DEF FilterRoute
    <3>2. tb' \in [Printed -> Int]
      BY <2>2, <2>5 DEF FilterRoute, TbCleared
    <3> QED
      BY <2>3, <2>5, <3>1, <3>2 DEF FilterRoute
  <2>6. CASE LastMessage(n)
    BY <2>3, <2>6 DEF LastMessage
  <2>7. CASE EndOfMessages(n)
    BY <2>3, <2>7 DEF EndOfMessages
  <2> QED
    BY <2>4, <2>5, <2>6, <2>7
<1>5. CASE NoMessage
  BY <1>5 DEF NoMessage
<1>6. CASE Attribute
  <2> PICK n \in 0..MaxLen :
       /\ (\E t \in Printed : tb' = [tb EXCEPT ![t] = aoff]) \/ tb' = tb
       /\ aoff' = aoff + AlignUp(n)
       /\ len' = len - AlignUp(n)
    BY <1>6 DEF Attribute
  <2>1. AlignUp(n) \in Nat
    BY AlignUpGrows
  <2>2. touched' \in Nat
    BY <1>6 DEF Attribute, Touch
  <2>3. tb' \in [Printed -> Int]
    OBVIOUS
  <2> QED
    BY <1>6, <2>1, <2>2, <2>3 DEF Attribute
<1>7. CASE EndOfAttributes
  <2>1. AlignUp(hlen) \in Nat
    BY AlignUpGrows
  <2>2. touched' \in Nat
    BY <1>7, LastReadsNat DEF EndOfAttributes
  <2>5. overrun' \in BOOLEAN
    BY <1>7 DEF EndOfAttributes
  <2>3. pc' = "msg" /\ NLMSG_NEXT(hlen) /\ UNCHANGED <<args, target, sock, recvlen, attr, rc>>
    BY <1>7 DEF EndOfAttributes
  <2>4. off' \in Nat /\ msglen' \in Int
    BY <2>1, <2>3 DEF NLMSG_NEXT
  <2> QED
    BY <2>2, <2>3, <2>4, <2>5
<1>8. CASE Remnant \/ Success
  BY <1>8 DEF Remnant, Fail, Success, SockAfterFailure
<1>9. CASE UNCHANGED vars
  BY <1>9 DEF vars
<1> QED
  BY <1>1, <1>2, <1>3, <1>4, <1>5, <1>6, <1>7, <1>8, <1>9 DEF Next

\* The types of the initial state.
LEMMA TypeInit == Init => TypeOK
<1> SUFFICES ASSUME Init PROVE TypeOK
  OBVIOUS
<1>1. tb \in [Printed -> Int]
  BY DEF Init, NoAttrs
<1>2. /\ recvlen \in 0..BufLen /\ off \in Nat /\ msglen \in Int
      /\ hlen \in Nat /\ aoff \in Nat /\ len \in Int /\ touched \in Nat
  BY SizesAssumption DEF Init
<1> QED
  BY <1>1, <1>2 DEF Init, TypeOK

\* The type invariant of the specification: in particular what recvfrom() delivered never
\* exceeds the buffer.
THEOREM TypeCorrect == Spec => []TypeOK
  BY TypeInit, TypeStep, PTL DEF Spec

-----------------------------------------------------------------------------
\* Every step preserves the inductive invariant.
LEMMA InvStep == IInv /\ [Next]_vars => IInv'
<1> SUFFICES ASSUME IInv, [Next]_vars PROVE IInv'
  OBVIOUS
<1>0. TypeOK /\ TypeOK'
  BY TypeStep DEF IInv
<1>n. /\ recvlen \in Nat /\ off \in Nat /\ msglen \in Int /\ touched \in Nat
      /\ hlen \in Nat /\ aoff \in Nat /\ len \in Int
  BY <1>0, SizesAssumption DEF TypeOK
<1>b. recvlen' \in Nat /\ recvlen' <= BufLen /\ BufLen \in Nat /\ touched' \in Nat
  BY <1>0, SizesAssumption DEF TypeOK
<1>s. HdrLen \in Nat /\ AttrLen \in Nat /\ RtmLen \in Nat /\ ErrLen \in Nat /\ IntLen \in Nat
  BY SizesAssumption
<1>m. 0..MaxLen \subseteq Nat
  BY SizesAssumption
<1> USE <1>0, <1>n, <1>s
<1>1. CASE Getopt \/ Socket \/ Send \/ Poll
  BY <1>1, <1>b DEF IInv, InvScan, InvSocket, InBounds, AttributesOfThisMessage, SocketClosed,
              args, scan, attr, seen, Getopt, Socket, Send, Poll
<1>2. CASE Recv
  BY <1>2, <1>b DEF IInv, InvScan, InvSocket, InBounds, AttributesOfThisMessage, SocketClosed,
              args, attr, seen, Recv
<1>3. ASSUME NEW at, Return(at), at \in {"getopt", "socket"} PROVE IInv'
  BY <1>3, <1>b DEF IInv, InvScan, InvSocket, InBounds, AttributesOfThisMessage, SocketClosed,
              scan, seen, Return
<1>4. ASSUME NEW at, Fail(at) PROVE IInv'
  BY <1>4, <1>b DEF IInv, InvScan, InvSocket, InBounds, AttributesOfThisMessage, SocketClosed,
              scan, seen, Fail, SockAfterFailure
<1>5. CASE Message
  <2> PICK n \in 0..MaxLen : SkipMessage(n) \/ FilterRoute(n) \/ LastMessage(n) \/ EndOfMessages(n)
    BY <1>5 DEF Message
  <2>1. n \in Nat /\ AlignUp(n) \in Nat
    BY <1>m, AlignUpGrows
  <2>2. pc = "msg" /\ msglen >= HdrLen
    BY <1>5 DEF Message
  <2>3. off + msglen = recvlen /\ rc = "none" /\ touched <= recvlen
    BY <2>2 DEF IInv, InvScan, InvSocket, InBounds
  <2>4. CASE SkipMessage(n)
    <3>1. /\ pc' = "msg" /\ UNCHANGED <<rc, sock, recvlen>>
          /\ off' = off + AlignUp(n) /\ msglen' = msglen - AlignUp(n)
      BY <2>4 DEF SkipMessage, NLMSG_NEXT
    <3>a. /\ n <= msglen
          /\ Touch(off + HdrLen) \/ (n >= HdrLen + ErrLen /\ Touch(off + HdrLen + ErrLen))
      BY <2>4 DEF SkipMessage, NLMSG_OK
    <3>2. off' + msglen' = recvlen'
      BY <2>1, <2>3, <3>1
    <3>3. InvScan'
      BY <3>1, <3>2 DEF InvScan
    <3>4. InBounds'
      BY <2>1, <2>2, <2>3, <3>1, <3>a, <1>b, TouchFacts DEF InBounds
    <3> QED
      BY <2>3, <3>1, <3>3, <3>4 DEF IInv, InvSocket, SocketClosed, AttributesOfThisMessage
  <2>5. CASE FilterRoute(n)
    <3>1. /\ pc' = "attrs" /\ UNCHANGED <<recvlen, off, msglen, rc, sock>>
          /\ hlen' = n /\ aoff' = off + HdrLen + RtmLen /\ len' = n - (HdrLen + RtmLen)
          /\ n >= HdrLen + RtmLen /\ n <= msglen /\ Touch(off + HdrLen + RtmLen)
      BY <2>5 DEF FilterRoute, NLMSG_OK, scan
    <3>2. InvScan'
      BY <2>1, <2>3, <3>1 DEF InvScan
    <3>3. InBounds'
      BY <2>1, <2>3, <3>1, <1>b, TouchFacts DEF InBounds
    <3>4. \A t \in Printed : tb'[t] = -1
      BY <2>5 DEF FilterRoute, TbCleared, NoAttrs
    <3> QED
      BY <2>3, <3>1, <3>2, <3>3, <3>4 DEF IInv, InvSocket, SocketClosed, AttributesOfThisMessage
  <2>6. CASE LastMessage(n) \/ EndOfMessages(n)
    <3>1. /\ pc' = "check" /\ UNCHANGED <<recvlen, off, msglen, rc, sock>>
          /\ Touch(off + HdrLen) \/ (n >= HdrLen + ErrLen /\ n <= msglen
                                       /\ Touch(off + HdrLen + ErrLen))
      BY <2>6 DEF LastMessage, EndOfMessages, NLMSG_OK, scan
    <3>2. InvScan'
      BY <2>3, <3>1 DEF InvScan
    <3>3. InBounds'
      BY <2>1, <2>2, <2>3, <3>1, <1>b, TouchFacts DEF InBounds
    <3> QED
      BY <2>3, <3>1, <3>2, <3>3 DEF IInv, InvSocket, SocketClosed, AttributesOfThisMessage
  <2> QED
    BY <2>4, <2>5, <2>6
<1>6. CASE NoMessage
  BY <1>6, <1>b DEF IInv, InvScan, InvSocket, InBounds, AttributesOfThisMessage, SocketClosed,
              scan, seen, NoMessage
<1>7. CASE Attribute
  <2> PICK n \in 0..MaxLen :
       /\ RTA_OK(n)
       /\ (\E t \in Printed : n >= AttrLen + Payload(t) /\ tb' = [tb EXCEPT ![t] = aoff]) \/ tb' = tb
       /\ aoff' = aoff + AlignUp(n)
       /\ len' = len - AlignUp(n)
    BY <1>7 DEF Attribute
  <2>1. n \in Nat /\ AlignUp(n) \in Nat /\ n <= len
    BY <1>m, AlignUpGrows DEF RTA_OK
  <2>2. /\ pc = "attrs" /\ len >= AttrLen /\ Touch(aoff + AttrLen)
        /\ UNCHANGED <<pc, target, sock, recvlen, off, msglen, hlen, rc>>
    BY <1>7 DEF Attribute, scan
  <2>3. /\ off + msglen = recvlen /\ aoff + len = off + hlen /\ HdrLen <= hlen /\ hlen <= msglen
        /\ off + HdrLen + RtmLen <= aoff /\ touched <= recvlen
    BY <2>2 DEF IInv, InvScan, InBounds
  <2>4. InvScan'
    BY <2>1, <2>2, <2>3 DEF InvScan
  <2>5. InBounds'
    BY <2>2, <2>3, <1>b, TouchFacts DEF InBounds
  <2>6. AttributesOfThisMessage'
    <3> SUFFICES ASSUME NEW u \in Printed, tb'[u] # -1
                 PROVE  /\ off + HdrLen + RtmLen <= tb'[u]
                        /\ tb'[u] + AttrLen + Payload(u) <= off + hlen
      BY <2>2 DEF AttributesOfThisMessage, Payload
    <3>0. Payload(u) \in Nat
      BY PayloadNat
    <3>1. tb'[u] = tb[u] \/ (tb'[u] = aoff /\ n >= AttrLen + Payload(u))
      BY DEF TypeOK
    <3>2. CASE tb'[u] = tb[u]
      BY <2>2, <3>2 DEF IInv, AttributesOfThisMessage
    <3>3. CASE tb'[u] = aoff /\ n >= AttrLen + Payload(u)
      BY <2>1, <2>3, <3>0, <3>3
    <3> QED
      BY <3>1, <3>2, <3>3
  <2> QED
    BY <2>2, <2>4, <2>5, <2>6 DEF IInv, InvSocket, SocketClosed
<1>8. CASE EndOfAttributes
  <2>1. AlignUp(hlen) \in Nat
    BY AlignUpGrows
  <2>2. /\ pc = "attrs" /\ pc' = "msg" /\ UNCHANGED <<sock, recvlen, rc>>
        /\ off' = off + AlignUp(hlen) /\ msglen' = msglen - AlignUp(hlen)
    BY <1>8 DEF EndOfAttributes, NLMSG_NEXT
  <2>3. /\ off + msglen = recvlen /\ aoff + len = off + hlen /\ hlen <= msglen
        /\ touched <= recvlen
    BY <2>2 DEF IInv, InvScan, InBounds
  <2>4. InvScan'
    BY <2>1, <2>2, <2>3 DEF InvScan
  <2>5. InBounds'
    <3>1. ASSUME NEW r \in LastReads PROVE r <= recvlen
      <4>1. CASE r = touched
        BY <2>3, <4>1
      <4>2. CASE len >= AttrLen /\ r = aoff + AttrLen
        BY <2>3, <4>2
      <4>3. ASSUME NEW t \in Printed, tb[t] # -1, r = tb[t] + AttrLen + Payload(t)
            PROVE  r <= recvlen
        <5>1. tb[t] \in Int /\ Payload(t) \in Nat
          BY PayloadNat DEF TypeOK
        <5>2. tb[t] + AttrLen + Payload(t) <= off + hlen
          BY <2>2, <4>3 DEF IInv, AttributesOfThisMessage
        <5> QED
          BY <2>3, <4>3, <5>1, <5>2
      <4> QED
        BY <3>1, <4>1, <4>2, <4>3 DEF LastReads
    <3>2. touched' <= recvlen /\ touched' \in Nat
      BY <1>8, <3>1 DEF EndOfAttributes, TypeOK
    <3> QED
      BY <1>b, <2>2, <3>2 DEF InBounds
  <2> QED
    BY <2>2, <2>4, <2>5 DEF IInv, InvSocket, SocketClosed, AttributesOfThisMessage
<1>9. CASE Success
  BY <1>9, <1>b DEF IInv, InvScan, InvSocket, InBounds, AttributesOfThisMessage, SocketClosed,
              scan, seen, Success
<1>10. CASE UNCHANGED vars
  BY <1>10, <1>b DEF IInv, InvScan, InvSocket, InBounds, AttributesOfThisMessage, SocketClosed,
               scan, attr, seen, vars, Payload
<1> QED
  BY <1>1, <1>2, <1>3, <1>4, <1>5, <1>6, <1>7, <1>8, <1>9, <1>10 DEF Next, Remnant

\* The inductive invariant holds of every reachable state.
THEOREM Invariance == Spec => []IInv
<1>1. Init => IInv
  BY TypeInit DEF Init, IInv, InvScan, InvSocket, InBounds, AttributesOfThisMessage,
                  SocketClosed, TypeOK
<1> QED
  BY <1>1, InvStep, PTL DEF Spec

\* No read of getroute.c but the text of an RTA_SRC goes past the received datagram or the
\* buffer, for all sizes and contents.
THEOREM ReadsInBounds == Spec => []InBounds
<1>1. IInv => InBounds
  BY DEF IInv
<1> QED
  BY <1>1, Invariance, PTL

\* nl_filter_route only ever holds pointers into the message it was given.
THEOREM AttributesInside == Spec => []AttributesOfThisMessage
<1>1. IInv => AttributesOfThisMessage
  BY DEF IInv
<1> QED
  BY <1>1, Invariance, PTL

\* No exit of main() leaves the socket open.
THEOREM NoSocketLeft == Spec => []SocketClosed
<1>1. IInv => SocketClosed
  BY DEF IInv
<1> QED
  BY <1>1, Invariance, PTL

\* The scan only moves forward, by a whole header at least: it cannot loop.
THEOREM Advances == Spec => ScanAdvances
<1>1. IInv /\ [Next]_vars => [(pc \in {"msg", "attrs"} /\ pc' = "msg") => off' > off]_vars
  <2> SUFFICES ASSUME IInv, Next, pc \in {"msg", "attrs"}, pc' = "msg"
               PROVE  off' > off
    OBVIOUS
  <2> USE SizesAssumption DEF IInv, TypeOK
  <2>1. CASE Message
    <3> PICK n \in 0..MaxLen : SkipMessage(n)
      BY <2>1 DEF Message, FilterRoute, LastMessage, EndOfMessages
    <3> QED
      BY AlignUpGrows DEF SkipMessage, NLMSG_OK, NLMSG_NEXT
  <2>2. CASE EndOfAttributes
    <3>1. pc = "attrs" /\ NLMSG_NEXT(hlen)
      BY <2>2 DEF EndOfAttributes
    <3> QED
      BY <3>1, AlignUpGrows, SMTT(30) DEF InvScan, NLMSG_NEXT
  <2> QED
    BY <2>1, <2>2 DEF Next, Getopt, Socket, Send, Poll, Recv, Return, Fail, NoMessage,
                      Attribute, Remnant, Success
<1> QED
  BY <1>1, Invariance, PTL DEF Spec, ScanAdvances

=============================================================================
