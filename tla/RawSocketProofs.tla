---------------------------- MODULE RawSocketProofs ----------------------------
(***************************************************************************)
(* Raw6Link for any lengths of other hosts' packets, any number of them    *)
(* under way and any size of the socket's buffer; and RawBind, whose two   *)
(* raw sockets may fail at each of four calls.                             *)
(***************************************************************************)
EXTENDS Raw6Link, RawBind, TLAPS

\* The sender's two lengths: the content is at its first value until the loop, the length
\* in the header is that of the first packet from then on.
InvSender ==
  /\ pcSender \in {"socket", "bind", "fill"} => u16ContentLen = 512
  /\ pcSender = "send" => u16ContentLen \in {512, 2012} /\ u16PayloadLen = 520

\* What is under way from this sender claims the first packet's length.
InvWire == \A p \in wire : p.name # "other" => p.payload = UDPHeader + 512

\* These, the types and the properties are inductive together.
IInv ==
  /\ TypeOK /\ InvSender /\ InvWire
  /\ ClaimsNoMoreThanSent /\ ArrivesAsFirst /\ SendersOwnPorts /\ SettingInStep

\* The sizes of headers.
LEMMA Sizes == IPv6Header = 40 /\ UDPHeader = 8
  BY DEF IPv6Header, UDPHeader

\* What matters of the larger sizes; a range up to one of them is never written out.
LEMMA Ranges ==
  /\ Max16 \in Nat /\ Buffer \in Nat /\ Max16 > 4000 /\ 0 \in 0..Max16 /\ 0 \in 0..Buffer
  /\ 512 \in 0..Max16 /\ 520 \in 0..Max16
<1>1. Max16 \in Nat /\ Buffer \in Nat /\ Max16 > 4000
  BY DEF Max16, Buffer
<1> QED
  BY <1>1

\* The initial states satisfy the invariant.
LEMMA InitIInv == Init => IInv
<1> SUFFICES ASSUME Init PROVE IInv
  OBVIOUS
<1>1. SenderTypeOK /\ InvSender
  BY Ranges DEF Init, SenderTypeOK, InvSender
<1>2. NetworkTypeOK /\ InvWire /\ ClaimsNoMoreThanSent /\ ArrivesAsFirst
  BY DEF Init, NetworkTypeOK, InvWire, ClaimsNoMoreThanSent, ArrivesAsFirst
<1>3. Nothing \in Lines
  BY Ranges DEF Nothing, Lines
<1>4. ServerTypeOK
  BY <1>3 DEF Init, ServerTypeOK
<1>5. SendersOwnPorts /\ SettingInStep
  BY DEF Init, SendersOwnPorts, SettingInStep, Nothing
<1> QED
  BY <1>1, <1>2, <1>4, <1>5 DEF IInv, TypeOK

\* Nothing the server has is touched by a step of anything else.
LEMMA ServerStays ==
  ASSUME IInv, UNCHANGED server
  PROVE  ServerTypeOK' /\ SendersOwnPorts' /\ SettingInStep'
  BY DEF IInv, TypeOK, ServerTypeOK, SendersOwnPorts, SettingInStep, server

\* Nor is the sender.
LEMMA SenderStays ==
  ASSUME IInv, UNCHANGED sender
  PROVE  SenderTypeOK' /\ InvSender'
  BY DEF IInv, TypeOK, SenderTypeOK, InvSender, sender

\* What is true of packets under way is so of some of them.
LEMMA WireShrinks ==
  ASSUME IInv, wire' \subseteq wire
  PROVE  wire' \subseteq Packets /\ InvWire' /\ ClaimsNoMoreThanSent'
  BY DEF IInv, TypeOK, NetworkTypeOK, InvWire, ClaimsNoMoreThanSent

\* A packet joins those under way.
LEMMA WireGrows ==
  ASSUME IInv, NEW p \in Packets, wire' = wire \cup {p},
         p.name # "other" => p.payload = UDPHeader + 512,
         ~Truncated(p), p.udp + IPv6Header = p.bytes
  PROVE  wire' \subseteq Packets /\ InvWire' /\ ClaimsNoMoreThanSent'
  BY DEF IInv, TypeOK, NetworkTypeOK, InvWire, ClaimsNoMoreThanSent

\* A packet of the sender's claims what the first one has, and has at least that.
LEMMA PacketRight ==
  ASSUME IInv, pcSender = "send"
  PROVE  /\ Packet \in Packets /\ Packet.payload = UDPHeader + 512 /\ ~Truncated(Packet)
         /\ Packet.udp + IPv6Header = Packet.bytes
<1>1. u16ContentLen \in {512, 2012} /\ u16PayloadLen = 520
  BY DEF IInv, InvSender
<1>2. CASE u16ContentLen = 512
  <2>1. Packet = [name |-> "first", payload |-> 520, udp |-> 520, bytes |-> 560]
    BY <1>1, <1>2, Sizes DEF Packet
  <2> QED
    BY <2>1, Sizes, Ranges DEF Packets, Names, Truncated
<1>3. CASE u16ContentLen = 2012
  <2>1. Packet = [name |-> "second", payload |-> 520, udp |-> 2020, bytes |-> 2060]
    BY <1>1, <1>3, Sizes DEF Packet
  <2> QED
    BY <2>1, Sizes, Ranges DEF Packets, Names, Truncated
<1> QED
  BY <1>1, <1>2, <1>3

\* The sender's steps.
LEMMA SenderStep == IInv /\ Sender => IInv'
<1> SUFFICES ASSUME IInv, Sender PROVE IInv'
  OBVIOUS
<1>1. queue' = queue /\ UNCHANGED server
  BY DEF Sender, SenderOpens, FillIPv6Header, SendRound, SenderCloses, SenderGoes
<1>2. ServerTypeOK' /\ SendersOwnPorts' /\ SettingInStep'
  BY <1>1, ServerStays
<1>3. queue' \in Seq(Arrivals) /\ ArrivesAsFirst'
  BY <1>1 DEF IInv, TypeOK, NetworkTypeOK, ArrivesAsFirst
<1>4. SenderTypeOK' /\ InvSender'
  <2>1. SenderTypeOK /\ InvSender
    BY DEF IInv, TypeOK
  <2>2. CASE SenderOpens
    BY <2>1, <2>2 DEF SenderOpens, SenderGoes, SenderTypeOK, InvSender
  <2>3. CASE FillIPv6Header
    BY <2>1, <2>3, Sizes, Ranges DEF FillIPv6Header, SenderGoes, PayloadLen, SenderTypeOK, InvSender
  <2>4. CASE SendRound
    <3>1. u16ContentLen \in {512, 2012} /\ u16PayloadLen = 520
      BY <2>1, <2>4 DEF SendRound, SenderGoes, InvSender
    <3>2. NextContent = u16ContentLen + 1500
      BY <3>1 DEF NextContent
    <3>3. NextContent \in 0..Max16 /\ NextContent \in {2012, 3512}
      BY <3>1, <3>2, Ranges
    <3> QED
      BY <2>1, <2>4, <3>1, <3>3 DEF SendRound, SenderGoes, SenderTypeOK, InvSender
  <2>5. CASE SenderCloses
    BY <2>1, <2>5 DEF SenderCloses, SenderGoes, SenderTypeOK, InvSender
  <2> QED
    BY <2>2, <2>3, <2>4, <2>5 DEF Sender
<1>5. wire' \subseteq Packets /\ InvWire' /\ ClaimsNoMoreThanSent'
  <2>1. CASE wire' = wire
    BY <2>1, WireShrinks
  <2>2. CASE wire' # wire
    <3>1. pcSender = "send" /\ wire' = wire \cup {Packet}
      BY <2>2 DEF Sender, SenderOpens, FillIPv6Header, SendRound, SenderCloses, SenderGoes
    <3> QED
      BY <3>1, PacketRight, WireGrows
  <2> QED
    BY <2>1, <2>2
<1> QED
  BY <1>2, <1>3, <1>4, <1>5 DEF IInv, TypeOK, NetworkTypeOK

\* The network's steps, and those of other hosts.
LEMMA NetworkStep == IInv /\ (OtherSends \/ Lose \/ Arrive) => IInv'
<1> SUFFICES ASSUME IInv, OtherSends \/ Lose \/ Arrive PROVE IInv'
  OBVIOUS
<1>1. UNCHANGED sender /\ UNCHANGED server
  BY DEF OtherSends, Lose, Arrive
<1>2. wire' \subseteq Packets /\ InvWire' /\ ClaimsNoMoreThanSent'
  <2>1. CASE OtherSends
    <3>1. PICK n \in OtherLens :
            wire' = wire \cup {[name |-> "other", payload |-> n, udp |-> n, bytes |-> n + IPv6Header]}
      BY <2>1 DEF OtherSends
    <3> DEFINE p == [name |-> "other", payload |-> n, udp |-> n, bytes |-> n + IPv6Header]
    <3>2. n \in 0..Max16
      BY LinkAssumption
    <3>3. p \in Packets /\ p.name = "other" /\ ~Truncated(p) /\ p.udp + IPv6Header = p.bytes
      BY <3>2, Sizes, Ranges DEF Packets, Names, Truncated
    <3> HIDE DEF p
    <3>4. wire' = wire \cup {p}
      BY <3>1 DEF p
    <3> QED
      BY <3>3, <3>4, WireGrows
  <2>2. CASE Lose \/ Arrive
    <3>1. wire' \subseteq wire
      BY <2>2 DEF Lose, Arrive
    <3> QED
      BY <3>1, WireShrinks
  <2> QED
    BY <2>1, <2>2
<1>3. queue' \in Seq(Arrivals) /\ ArrivesAsFirst'
  <2>1. queue \in Seq(Arrivals) /\ ArrivesAsFirst
    BY DEF IInv, TypeOK, NetworkTypeOK
  <2>2. CASE queue' = queue
    BY <2>1, <2>2 DEF ArrivesAsFirst
  <2>3. CASE queue' # queue
    <3>1. PICK p \in wire : queue' = Append(queue, [name |-> p.name, len |-> p.payload])
      BY <2>3 DEF OtherSends, Lose, Arrive
    <3> DEFINE arrival == [name |-> p.name, len |-> p.payload]
    <3>2. p \in Packets /\ (p.name # "other" => p.payload = UDPHeader + 512)
      BY DEF IInv, TypeOK, NetworkTypeOK, InvWire
    <3>3. arrival \in Arrivals /\ (arrival.name # "other" => arrival.len = UDPHeader + 512)
      BY <3>2 DEF Packets, Arrivals
    <3> HIDE DEF arrival
    <3>4. queue' = Append(queue, arrival)
      BY <3>1 DEF arrival
    <3> QED
      BY <2>1, <3>3, <3>4 DEF ArrivesAsFirst
  <2> QED
    BY <2>2, <2>3
<1> QED
  BY <1>1, <1>2, <1>3, SenderStays, ServerStays DEF IInv, TypeOK, NetworkTypeOK

\* The server's steps.
LEMMA ServerStep == IInv /\ Server => IInv'
<1> SUFFICES ASSUME IInv, Server PROVE IInv'
  OBVIOUS
<1>1. UNCHANGED sender /\ wire' = wire
  BY DEF Server, ServerOpens, Recvfrom, RecvfromFails, Setsockopt, ServerGoes
<1>2. SenderTypeOK' /\ InvSender' /\ wire' \subseteq Packets /\ InvWire' /\ ClaimsNoMoreThanSent'
  BY <1>1, SenderStays, WireShrinks
<1>3. queue \in Seq(Arrivals) /\ ArrivesAsFirst
  BY DEF IInv, TypeOK, NetworkTypeOK
<1>4. ServerTypeOK /\ SendersOwnPorts /\ SettingInStep
  BY DEF IInv, TypeOK
<1>5. queue' \in Seq(Arrivals) /\ ArrivesAsFirst'
  <2>1. CASE queue' = queue
    BY <1>3, <2>1 DEF ArrivesAsFirst
  <2>2. CASE queue' = <<>>
    BY <2>2 DEF ArrivesAsFirst
  <2>3. CASE queue # <<>> /\ queue' = Tail(queue)
    BY <1>3, <2>3 DEF ArrivesAsFirst
  <2> QED
    BY <2>1, <2>2, <2>3 DEF Server, ServerOpens, Recvfrom, RecvfromFails, Setsockopt
<1>6. ServerTypeOK' /\ SendersOwnPorts' /\ SettingInStep'
  <2>1. CASE ServerOpens
    BY <1>4, <2>1 DEF ServerOpens, ServerGoes, ServerTypeOK, SendersOwnPorts, SettingInStep
  <2>2. CASE RecvfromFails
    BY <1>4, <2>2 DEF RecvfromFails, ServerGoes, ServerTypeOK, SendersOwnPorts, SettingInStep
  <2>3. CASE Setsockopt
    <3>1. UNCHANGED <<abPktInfo, shown>> /\ pcServer' = "recv" /\ no' = 1 - no
          /\ failed' \in BOOLEAN /\ hdrincl' \in {hdrincl, no'} /\ (~failed' => hdrincl' = no')
      BY <2>3 DEF Setsockopt, ServerGoes, Option
    <3>2. no' \in {0, 1} /\ hdrincl' \in {0, 1}
      BY <1>4, <3>1 DEF ServerTypeOK
    <3> QED
      BY <1>4, <3>1, <3>2 DEF ServerTypeOK, SendersOwnPorts, SettingInStep
  <2>4. CASE Recvfrom
    <3>1. /\ queue # <<>> /\ UNCHANGED <<no, hdrincl, failed>> /\ pcServer' = "setsockopt"
          /\ abPktInfo' = Written(Head(queue).name, Received)
          /\ shown' = [of |-> Head(queue).name, ports |-> abPktInfo']
      BY <2>4 DEF Recvfrom, ServerGoes
    <3>2. Head(queue) \in Arrivals
      BY <1>3, <3>1
    <3>3. Head(queue).name \in Names /\ Received \in 0..Buffer
      BY <3>2, Ranges DEF Received, Arrivals
    <3>4. abPktInfo' \in [Places -> Names \cup {"none"}]
      BY <1>4, <3>1, <3>3 DEF Written, ServerTypeOK
    <3>5. shown' \in Lines
      BY <1>4, <3>1, <3>3, <3>4 DEF ServerTypeOK, Lines
    <3>6. ServerTypeOK' /\ SettingInStep'
      BY <1>4, <3>1, <3>4, <3>5 DEF ServerTypeOK, SettingInStep
    <3>7. SendersOwnPorts'
      <4>1. CASE Head(queue).name = "other"
        BY <3>1, <4>1 DEF SendersOwnPorts
      <4>2. CASE Head(queue).name # "other"
        <5>1. Head(queue).len = UDPHeader + 512
          BY <1>3, <3>1, <4>2 DEF ArrivesAsFirst
        <5>2. Received = 520
          BY <5>1, Sizes DEF Received, Buffer
        <5>3. \A at \in Places : Received >= at + 4
          BY <5>2, Sizes DEF Places
        <5>4. \A at \in Places : abPktInfo'[at] = Head(queue).name
          BY <3>1, <5>3 DEF Written
        <5> QED
          BY <3>1, <5>4 DEF SendersOwnPorts
      <4> QED
        BY <4>1, <4>2
    <3> QED
      BY <3>6, <3>7
  <2> QED
    BY <2>1, <2>2, <2>3, <2>4 DEF Server
<1> QED
  BY <1>2, <1>5, <1>6 DEF IInv, TypeOK, NetworkTypeOK

\* The inductive invariant: lengths of the sender's buffer, of what is under way and of what
\* has arrived, and what the server's buffer and setting show of it.
THEOREM Invariance == Spec => []IInv
<1>1. IInv /\ UNCHANGED vars => IInv'
  <2> SUFFICES ASSUME IInv, UNCHANGED vars PROVE IInv'
    OBVIOUS
  <2>1. UNCHANGED sender /\ UNCHANGED server /\ wire' = wire /\ queue' = queue
    BY DEF vars
  <2>2. queue' \in Seq(Arrivals) /\ ArrivesAsFirst'
    BY <2>1 DEF IInv, TypeOK, NetworkTypeOK, ArrivesAsFirst
  <2> QED
    BY <2>1, <2>2, SenderStays, ServerStays, WireShrinks DEF IInv, TypeOK, NetworkTypeOK
<1>2. IInv /\ [Next]_vars => IInv'
  BY <1>1, SenderStep, NetworkStep, ServerStep DEF Next
<1> QED
  BY <1>2, InitIInv, PTL DEF Spec

\* Types hold for any bounds on network and socket (rawall.c, server.c).
THEOREM TypeCorrect == Spec => []TypeOK
<1>1. IInv => TypeOK
  BY DEF IInv
<1> QED
  BY <1>1, Invariance, PTL

\* No packet of rawall.c claims more bytes than it has, though its IPv6 header is stale.
THEOREM NoneTruncated == Spec => []ClaimsNoMoreThanSent
<1>1. IInv => ClaimsNoMoreThanSent
  BY DEF IInv
<1> QED
  BY <1>1, Invariance, PTL

\* Under loss, duplication and any order, every packet of rawall.c reaches server.c with the
\* first one's length.
THEOREM AllArriveAsFirst == Spec => []ArrivesAsFirst
<1>1. IInv => ArrivesAsFirst
  BY DEF IInv
<1> QED
  BY <1>1, Invariance, PTL

\* server.c shows the ports of a packet of rawall.c at both places, however short what it
\* received before was and though the second packet is cut on its way.
THEOREM OwnPorts == Spec => []SendersOwnPorts
<1>1. IInv => SendersOwnPorts
  BY DEF IInv
<1> QED
  BY <1>1, Invariance, PTL

\* server.c and the kernel agree on IPV6_HDRINCL except after a failed setsockopt().
THEOREM SettingsAgree == Spec => []SettingInStep
<1>1. IInv => SettingInStep
  BY DEF IInv
<1> QED
  BY <1>1, Invariance, PTL

-----------------------------------------------------------------------------
(* Binding two raw sockets: RawBind                                        *)

\* How far main() has come with its four calls, while it has not returned.
InvCalls ==
  bindRc = "none" =>
    /\ bindPc = "socket1" => opened = {} /\ bound = {}
    /\ bindPc = "socket2" => opened = {"tRawUDPSock"} /\ bound = {}
    /\ bindPc = "bind1" => opened = Socks /\ bound = {}
    /\ bindPc = "bind2" => opened = Socks /\ bound = {"tRawUDPSock"}
    /\ bindPc = "close" => opened = Socks /\ bound = Socks

InvReturn == bindRc = "none" <=> bindPc # "exit"

BindInv == BindTypeOK /\ InvCalls /\ InvReturn /\ NoAddressTaken

\* Every call, successful or not, keeps the invariant.
LEMMA BindStep == BindInv /\ [BindNext]_bindVars => BindInv'
<1> SUFFICES ASSUME BindInv, [BindNext]_bindVars PROVE BindInv'
  OBVIOUS
<1> USE DEF BindInv, BindTypeOK, InvCalls, InvReturn, NoAddressTaken, Socks
<1>1. CASE Open1
  BY <1>1 DEF Open1, Succeeds, BindReturns
<1>2. CASE Open2
  BY <1>2 DEF Open2, Succeeds, BindReturns
<1>3. CASE Bind1
  BY <1>3 DEF Bind1, Succeeds, BindReturns, Closes
<1>4. CASE Bind2
  BY <1>4 DEF Bind2, Succeeds, BindReturns, Closes
<1>5. CASE CloseBoth
  BY <1>5 DEF CloseBoth, BindReturns, Closes
<1>6. CASE UNCHANGED bindVars
  BY <1>6 DEF bindVars
<1> QED
  BY <1>1, <1>2, <1>3, <1>4, <1>5, <1>6 DEF BindNext

\* Which sockets are open and bound is known at every call of c/raw4/rawbind.c.
THEOREM BindInvariance == BindSpec => []BindInv
<1>1. BindInit => BindInv
  BY DEF BindInit, BindInv, BindTypeOK, InvCalls, InvReturn, NoAddressTaken, Socks
<1> QED
  BY <1>1, BindStep, PTL DEF BindSpec

\* Whichever call fails, main() returns with no bound socket open.
THEOREM AddressFree == BindSpec => []NoAddressTaken
<1>1. BindInv => NoAddressTaken
  BY DEF BindInv
<1> QED
  BY <1>1, BindInvariance, PTL

=============================================================================
