--------------------------------- MODULE RawUdp ---------------------------------
(***************************************************************************)
(* c/raw6/rawudp.c: builds a UDP datagram by hand in a static buffer and   *)
(* sends it over a raw socket, in one piece (sendto) or, with -v, as a     *)
(* header and a text in an iovec (sendmsg, twice). The content area of the *)
(* buffer is never written and stays zero. IPv4 and IPv6 differ in what    *)
(* the kernel makes of a port in the destination address of a raw socket:  *)
(* IPv6 takes it for a protocol and refuses it, IPv4 ignores it.           *)
(***************************************************************************)
EXTENDS Checksum

CONSTANTS Addresses,     \* byte sequences of even length
          MaxContentLen, \* bound: the largest -l; the buffer of 4096 bytes holds it
          Text,          \* the bytes of "hello world"
          SrcPort, DstPort, Proto

ASSUME PacketAssumption ==
  /\ \A a \in Addresses : a \in Seq(Byte) /\ Len(a) % 2 = 0 /\ 2 * Len(a) + 12 <= W
  /\ MaxContentLen \in Nat /\ Text \in Seq(Byte)
  /\ SrcPort \in 0..(W - 1) /\ DstPort \in 0..(W - 1) /\ Proto \in Byte
  /\ 8 + MaxContentLen < W /\ 8 + Len(Text) < W

VARIABLES
  pc,
  v6, iovec_flag, src, dst, u16ContentLen,   \* the options
  sock,      \* the raw socket is open
  hdr,       \* the eight bytes of the UDP header in abPktInfo
  wire,      \* the datagrams the kernel has accepted
  rc         \* main()'s result, or "none"

options == <<v6, iovec_flag, src, dst, u16ContentLen>>
vars == <<pc, options, sock, hdr, wire, rc>>

Zeros(n) == [i \in 1..n |-> 0]

TypeOK ==
  /\ pc \in {"getopt", "socket", "bind", "build", "rebuild", "port", "send", "close",
             "exit"}
  /\ v6 \in BOOLEAN /\ iovec_flag \in BOOLEAN /\ src \in Addresses /\ dst \in Addresses
  /\ u16ContentLen \in 0..MaxContentLen
  /\ sock \in BOOLEAN
  /\ hdr \in Seq(Byte) /\ Len(hdr) = 8
  /\ \A i \in DOMAIN wire : wire[i] \in Seq(Byte)
  /\ rc \in {"none", "0", "1", "-1"}

\* The options are what the command line will be found to say.
Init ==
  /\ pc = "getopt"
  /\ v6 \in BOOLEAN /\ iovec_flag \in BOOLEAN /\ src \in Addresses /\ dst \in Addresses
  /\ u16ContentLen \in 0..MaxContentLen
  /\ sock = FALSE
  /\ hdr = Zeros(8)
  /\ wire = <<>>
  /\ rc = "none"

Getopt ==
  /\ pc = "getopt"
  /\ \/ pc' = "socket" /\ UNCHANGED rc
     \/ pc' = "exit" /\ rc' = "1"
  /\ UNCHANGED <<options, sock, hdr, wire>>

Socket ==
  /\ pc = "socket"
  /\ \/ pc' = "bind" /\ sock' = TRUE /\ UNCHANGED rc
     \/ pc' = "exit" /\ rc' = "-1" /\ UNCHANGED sock
  /\ UNCHANGED <<options, hdr, wire>>

Bind ==
  /\ pc = "bind"
  /\ \/ pc' = "build" /\ UNCHANGED <<sock, rc>>
     \/ pc' = "exit" /\ sock' = FALSE /\ rc' = "-1"
  /\ UNCHANGED <<options, hdr, wire>>

\* The header as sendV6/sendV4 write it, with the checksum over n bytes of zero content.
Summed(h, n) == SubSeq(udp_header_checksum(src, dst, Proto, h \o Zeros(n)), 1, 8)

\* sendV6, sendV4: ports, then length and checksum.
Build ==
  /\ pc = "build"
  /\ hdr' = Summed(htons(SrcPort) \o htons(DstPort) \o SubSeq(hdr, 5, 8), u16ContentLen)
  /\ pc' = IF iovec_flag THEN "rebuild" ELSE "send"
  /\ UNCHANGED <<options, sock, wire, rc>>

\* The header for the text's length; the checksum is taken over the buffer, not the text.
Rebuilt == Summed(hdr, Len(Text))

Rebuild ==
  /\ pc = "rebuild"
  /\ hdr' = Rebuilt
  /\ pc' = "port"
  /\ UNCHANGED <<options, sock, wire, rc>>

Datagram == hdr \o (IF iovec_flag THEN Text ELSE Zeros(u16ContentLen))

\* A send may fail for reasons of the network; the program prints that and goes on.
Sends == wire' = Append(wire, Datagram) \/ UNCHANGED wire

\* The first sendmsg, with port 1234 in the destination.
SendWithPort ==
  /\ pc = "port" /\ pc' = "send"
  /\ IF v6 THEN UNCHANGED wire ELSE Sends
  /\ UNCHANGED <<options, sock, hdr, rc>>

Send ==
  /\ pc = "send" /\ pc' = "close"
  /\ Sends
  /\ UNCHANGED <<options, sock, hdr, rc>>

Close ==
  /\ pc = "close" /\ pc' = "exit"
  /\ sock' = FALSE /\ rc' = "0"
  /\ UNCHANGED <<options, hdr, wire>>

Next == Getopt \/ Socket \/ Bind \/ Build \/ Rebuild \/ SendWithPort \/ Send \/ Close

Spec == Init /\ [][Next]_vars

-----------------------------------------------------------------------------
Sent == DOMAIN wire

\* What goes out through sendto() adds up, for all addresses and for odd and even lengths,
\* and the receiver takes it, but for one case: a sum of all ones leaves a checksum of zero,
\* which header.h does not turn into all ones and which IPv6 discards.
SendtoAccepted ==
  ~iovec_flag =>
    \A i \in Sent : /\ Verifies(src, dst, Proto, wire[i])
                    /\ Accepts(v6, src, dst, Proto, wire[i]) <=> ~(v6 /\ NoChecksum(wire[i]))

\* The length field of every datagram, the rebuilt ones too, is its length.
LengthIsRight == \A i \in Sent : SubSeq(wire[i], 5, 6) = htons(Len(wire[i]))

\* The checksum in the buffer adds up with the header and as many zero bytes, whether the
\* header was built once or built again over an old checksum.
ChecksumOfBuffer ==
  pc \in {"port", "send"} =>
    Verifies(src, dst, Proto, hdr \o Zeros(IF iovec_flag THEN Len(Text) ELSE u16ContentLen))

\* The program writes every datagram as far as it can be right: lengths and, but for the
\* text of the iovec branch and the zero checksum over IPv6, checksums.
SentRight == SendtoAccepted /\ LengthIsRight /\ ChecksumOfBuffer

\* An IPv4 header of these addresses with an old checksum in it.
OldHeader == hdr \o <<1, Proto, 1, 0>> \o src \o dst

\* The other functions of header.h, on whatever this program sends. csum() leaves, stored
\* as it is, the bytes that Checksum() leaves after ~ and htons(), for odd lengths too: its
\* "TODO: this depends on byte order" is no matter on a little-endian host.
\* ipv4_header_checksum() writes a header that passes the receiver's check. The checksum2
\* functions write the plain sum of the datagram, its bytes swapped, whatever the addresses.
HelpersAgree ==
  pc = "send" =>
    /\ Stored(csum(Datagram)) = htons(Not(Checksum(0, Datagram)))
    /\ SumBE(ipv4_header_checksum(OldHeader)) % (W - 1) = 0
    /\ SubSeq(udp_header_checksum2(Datagram), ChecksumAt, ChecksumAt + 1) =
         Stored(Checksum(0, Cleared(Datagram)))

=============================================================================
