-------------------------------- MODULE Checksum --------------------------------
(***************************************************************************)
(* The checksums of c/common/header.h. A byte is a number below Base       *)
(* (256 in the code), a word two of them; header fields stand in           *)
(* network order, as htons() stores them. A UDP datagram is its sequence   *)
(* of bytes: source port, destination port, length, checksum (two each),   *)
(* then the content.                                                       *)
(***************************************************************************)
EXTENDS Integers, Sequences, Sums

CONSTANT Base
ASSUME BaseAssumption == Base \in Nat \ {0, 1}

W == Base * Base
Byte == 0..(Base - 1)

\* ~x of a 16-bit x, and htons(x): the bytes of the low word of x.
Not(x)   == W - 1 - (x % W)
htons(x) == <<(x % W) \div Base, x % Base>>

\* while (cksum >> 16) cksum = (cksum & 0xFFFF) + (cksum >> 16);
Fold[x \in Nat] == IF x < W THEN x ELSE Fold[(x % W) + (x \div W)]

\* The bytes of b, each with its weight in its word.
Weighed(b, first, second) ==
  [i \in 1..Len(b) |-> b[i] * (IF i % 2 = 1 THEN first ELSE second)]

\* The sum of the words of b, high byte first; a last odd byte counts as if a zero
\* followed it.
SumBE(b) == Total(Weighed(b, Base, 1))

\* Checksum(cksum, pBuffer, size), in 32 bits.
Checksum(cksum, b) == IF b = <<>> THEN cksum ELSE Fold[(cksum + SumBE(b)) % (W * W)]

SetField(udp, at, x) == [udp EXCEPT ![at] = htons(x)[1], ![at + 1] = htons(x)[2]]
LengthAt   == 5
ChecksumAt == 7

\* The sum over pseudo header and datagram.
PseudoSum(src, dst, proto, udp) ==
  Checksum(Checksum(Checksum(Len(udp), src), dst) + proto, udp)

\* Faulty variant: the old checksum is summed too.
KeepsOldChecksum(udp) == SetField(udp, LengthAt, Len(udp))

\* Length set, checksum zero: the datagram as it is summed.
Cleared(udp) == SetField(SetField(udp, LengthAt, Len(udp)), ChecksumAt, 0)

\* udp4_header_checksum and udp6_header_checksum
udp_header_checksum(src, dst, proto, udp) ==
  LET cleared == Cleared(udp)
  IN  SetField(cleared, ChecksumAt, Not(PseudoSum(src, dst, proto, cleared)))

\* ipv4_header_checksum, of a header of as many bytes as its length field says.
IPv4ChecksumAt == 11
ipv4_header_checksum(header) ==
  LET cleared == SetField(header, IPv4ChecksumAt, 0)
  IN  SetField(cleared, IPv4ChecksumAt, Not(Checksum(0, cleared)))

\* csum() reads words in the host's order, low byte first; a last odd byte is a low byte. A
\* word it returns is stored as it was read.
SumLE(b)  == Total(Weighed(b, 1, Base))
Stored(x) == <<x % Base, x \div Base>>

\* Faulty variant: the last odd byte in the high place.
CsumOddHigh(b) ==
  Not(Fold[SumLE(b) + (IF Len(b) % 2 = 1 THEN b[Len(b)] * (Base - 1) ELSE 0)])

csum(b) == Not(Fold[SumLE(b)])

\* udp4_header_checksum2, udp6_header_checksum2: every csum() replaces the sum so far, so
\* that the pseudo header is lost, and its complement is complemented and swapped again.
udp_header_checksum2(udp) ==
  LET cleared == Cleared(udp) IN SetField(cleared, ChecksumAt, Not(csum(cleared)))

\* The words of pseudo header and datagram, the checksum among them, add up to zero modulo
\* 2^16 - 1.
Verifies(src, dst, proto, udp) ==
  (SumBE(src) + SumBE(dst) + proto + Len(udp) + SumBE(udp)) % (W - 1) = 0

\* What a receiver does with a datagram. A checksum field of zero says that there is no
\* checksum: IPv4 takes such a datagram unchecked (RFC 768), IPv6 discards it (RFC 8200).
NoChecksum(udp) == SubSeq(udp, ChecksumAt, ChecksumAt + 1) = <<0, 0>>
Accepts(six, src, dst, proto, udp) ==
  IF NoChecksum(udp) THEN ~six ELSE Verifies(src, dst, proto, udp)

=============================================================================
