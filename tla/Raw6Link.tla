-------------------------------- MODULE Raw6Link --------------------------------
(***************************************************************************)
(* c/raw6/rawall.c and c/raw6/server.c with the network between them. The  *)
(* sender writes IPv6 and UDP headers by hand into one buffer and sends it *)
(* twice, the second time with a longer content. The server reads whatever *)
(* UDP reaches its address into one buffer that it never clears, prints    *)
(* the ports it finds at two places of it, and turns IPV6_HDRINCL over     *)
(* after each datagram. Other hosts send UDP of their own.                 *)
(*                                                                         *)
(* A packet is known by its name and its lengths. What a place of the      *)
(* server's buffer holds is the name of the packet that last wrote there.  *)
(***************************************************************************)
EXTENDS Integers, Sequences, FiniteSets

CONSTANTS OtherLens,   \* payload lengths of other hosts' packets
          WireMax,     \* bound: other hosts send while fewer packets are under way
          QueueMax     \* bound: packets the socket's receive buffer holds

Max16 == 65535   \* UINT16_MAX

ASSUME LinkAssumption ==
  OtherLens \subseteq 0..Max16 /\ WireMax \in Nat /\ QueueMax \in Nat \ {0}

VARIABLES
  pcSender, u16ContentLen,
  u16PayloadLen,   \* the length in the IPv6 header of the sender's buffer
  wire,            \* packets under way
  queue,           \* packets in the server's socket: name and length
  pcServer, abPktInfo,
  no,              \* the setting the server thinks it made
  hdrincl,         \* the setting the kernel has
  failed,          \* the last setsockopt() failed
  shown            \* the last line printed

sender  == <<pcSender, u16ContentLen, u16PayloadLen>>
server  == <<pcServer, abPktInfo, no, hdrincl, failed, shown>>
vars    == <<sender, wire, queue, server>>

IPv6Header == 40     \* sizeof(IPv6_HEADER_t)
UDPHeader  == 8      \* sizeof(UDP_HEADER_t)
Buffer     == 4096   \* sizeof(abPktInfo)
Places     == {0, IPv6Header}   \* where the server looks for a UDP header
Names      == {"first", "second", "other"}

Packets ==
  [name : Names, payload : 0..Max16, udp : 0..Max16, bytes : 0..(Max16 + IPv6Header)]
Nothing == [of |-> "none", ports |-> [at \in Places |-> "none"]]

SenderTypeOK ==
  /\ pcSender \in {"socket", "bind", "fill", "send", "close", "exit"}
  /\ u16ContentLen \in 0..Max16 /\ u16PayloadLen \in 0..Max16

Arrivals == [name : Names, len : 0..Max16]
NetworkTypeOK == wire \subseteq Packets /\ queue \in Seq(Arrivals)

Lines ==
  [of : Names \cup {"none"}, ports : [Places -> Names \cup {"none"}]]

ServerTypeOK ==
  /\ pcServer \in {"socket", "bind", "recv", "setsockopt", "exit"}
  /\ abPktInfo \in [Places -> Names \cup {"none"}]
  /\ no \in {0, 1} /\ hdrincl \in {0, 1} /\ failed \in BOOLEAN
  /\ shown \in Lines

TypeOK == SenderTypeOK /\ NetworkTypeOK /\ ServerTypeOK

Init ==
  /\ pcSender = "socket" /\ u16ContentLen = 512 /\ u16PayloadLen = 0
  /\ wire = {} /\ queue = <<>>
  /\ pcServer = "socket" /\ abPktInfo = [at \in Places |-> "none"]
  /\ no = 0 /\ hdrincl = 0 /\ failed = FALSE /\ shown = Nothing

-----------------------------------------------------------------------------
(* rawall.c                                                                *)

SenderGoes(from, to) == pcSender = from /\ pcSender' = to /\ UNCHANGED <<queue, server>>

\* socket() and bind(): a failure ends main(), bind()'s after closing the socket.
SenderOpens ==
  /\ \/ SenderGoes("socket", "bind") \/ SenderGoes("socket", "exit")
     \/ SenderGoes("bind", "fill") \/ SenderGoes("bind", "exit")
  /\ UNCHANGED <<u16ContentLen, u16PayloadLen, wire>>

\* Faulty variant: the UDP header not counted.
ContentOnly == u16ContentLen

PayloadLen == UDPHeader + u16ContentLen

\* The IPv6 header is written once, before the loop.
FillIPv6Header ==
  /\ SenderGoes("fill", "send")
  /\ u16PayloadLen' = PayloadLen
  /\ UNCHANGED <<u16ContentLen, wire>>

\* Faulty variant: the content shrinks.
ShrunkContent == (u16ContentLen - 500) % 65536

\* u16ContentLen += 1500, in 16 bits.
NextContent == (u16ContentLen + 1500) % 65536

Packet ==
  [name |-> IF u16ContentLen = 512 THEN "first" ELSE "second",
   payload |-> u16PayloadLen,
   udp |-> (UDPHeader + u16ContentLen) % 65536,
   bytes |-> IPv6Header + UDPHeader + u16ContentLen]

\* One round of the loop. sendto() may fail (the second packet is longer than an Ethernet
\* frame); that is printed and the loop goes on.
SendRound ==
  /\ SenderGoes("send", IF NextContent < 2048 THEN "send" ELSE "close")
  /\ wire' \in {wire, wire \cup {Packet}}
  /\ u16ContentLen' = NextContent
  /\ UNCHANGED u16PayloadLen

SenderCloses ==
  SenderGoes("close", "exit") /\ UNCHANGED <<u16ContentLen, u16PayloadLen, wire>>

Sender == SenderOpens \/ FillIPv6Header \/ SendRound \/ SenderCloses

-----------------------------------------------------------------------------
(* The network and the receiving kernel                                    *)

OtherSends ==
  /\ Cardinality(wire) < WireMax
  /\ \E n \in OtherLens :
       wire' = wire \cup {[name |-> "other", payload |-> n, udp |-> n, bytes |-> n + IPv6Header]}
  /\ UNCHANGED <<sender, queue, server>>

Lose ==
  /\ \E p \in wire : wire' = wire \ {p}
  /\ UNCHANGED <<sender, queue, server>>

\* ipv6_rcv() drops a packet that is shorter than its header says.
Truncated(p) == p.payload + IPv6Header > p.bytes

\* In any order, and perhaps to arrive again. The kernel cuts the packet to the length in
\* its IPv6 header, and a raw socket gets what follows that header; a full socket, or one
\* that is not there yet, gets nothing.
Arrive ==
  /\ \E p \in wire :
       /\ wire' \in {wire, wire \ {p}}
       /\ queue' = IF ~Truncated(p) /\ pcServer \in {"recv", "setsockopt"} /\ Len(queue) < QueueMax
                     THEN Append(queue, [name |-> p.name, len |-> p.payload]) ELSE queue
  /\ UNCHANGED <<sender, server>>

-----------------------------------------------------------------------------
(* server.c                                                                *)

ServerGoes(from, to) == pcServer = from /\ pcServer' = to /\ UNCHANGED <<sender, wire>>

\* socket() and bind(): a failure ends main(), bind()'s after closing the socket.
ServerOpens ==
  /\ \/ ServerGoes("socket", "bind") \/ ServerGoes("socket", "exit")
     \/ ServerGoes("bind", "recv") \/ ServerGoes("bind", "exit")
  /\ UNCHANGED <<queue, abPktInfo, no, hdrincl, failed, shown>>

\* Faulty variant: the datagram read in behind a header that the socket does not give.
WrittenBehind(p, len) ==
  [at \in Places |-> IF at >= IPv6Header /\ len + IPv6Header >= at + 4 THEN p ELSE abPktInfo[at]]

\* The ports at a place are the packet's own if it reaches over them.
Written(p, len) == [at \in Places |-> IF len >= at + 4 THEN p ELSE abPktInfo[at]]

Received == IF Head(queue).len < Buffer THEN Head(queue).len ELSE Buffer

\* recvfrom() and the line that is printed, of which only the ports can go wrong.
Recvfrom ==
  /\ ServerGoes("recv", "setsockopt")
  /\ queue # <<>> /\ queue' = Tail(queue)
  /\ abPktInfo' = Written(Head(queue).name, Received)
  /\ shown' = [of |-> Head(queue).name, ports |-> abPktInfo']
  /\ UNCHANGED <<no, hdrincl, failed>>

\* recvfrom() fails: the loop is left, and the socket closed.
RecvfromFails ==
  /\ ServerGoes("recv", "exit") /\ queue' = <<>>
  /\ UNCHANGED <<abPktInfo, no, hdrincl, failed, shown>>

\* Faulty variant: the option set before it is turned over.
OptionFirst == no

\* What is given to setsockopt(): no = !no.
Option == 1 - no

Setsockopt ==
  /\ ServerGoes("setsockopt", "recv")
  /\ no' = 1 - no
  /\ \/ hdrincl' = Option /\ failed' = FALSE
     \/ failed' = TRUE /\ UNCHANGED hdrincl
  /\ UNCHANGED <<queue, abPktInfo, shown>>

Server == ServerOpens \/ Recvfrom \/ RecvfromFails \/ Setsockopt

Next == Sender \/ OtherSends \/ Lose \/ Arrive \/ Server

\* Nothing is assumed of sender, network and server: each may stop at any moment.
Spec == Init /\ [][Next]_vars

-----------------------------------------------------------------------------
(* Properties                                                              *)

\* Although the length in the IPv6 header is not brought up to date for the second packet,
\* no packet claims more than it has: none is dropped as truncated on its way, and the UDP
\* length is always that of the bytes sent.
ClaimsNoMoreThanSent ==
  \A p \in wire : ~Truncated(p) /\ p.udp + IPv6Header = p.bytes

\* What the server receives from this sender, the first packet or the second, once or more
\* than once, in whatever order, is as long as the first one; a longer packet is cut to the
\* stale length.
ArrivesAsFirst ==
  \A i \in DOMAIN queue : queue[i].name # "other" => queue[i].len = UDPHeader + 512

\* A line about a packet of this sender, the cut second one too, shows that packet's ports at
\* both places, whatever was received before it: ports left by an older datagram show through
\* only in lines about other hosts' short ones.
SendersOwnPorts ==
  shown.of \in {"first", "second"} => \A at \in Places : shown.ports[at] = shown.of

\* The setting that is printed with a datagram is the kernel's, unless the last attempt to
\* change it failed; the next one that succeeds brings both together again.
SettingInStep == ~failed => no = hdrincl

=============================================================================
