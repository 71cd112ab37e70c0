-------------------------------- MODULE MCRawUdp --------------------------------
(***************************************************************************)
(* Bytes with four values (words with sixteen), all one-word addresses.    *)
(***************************************************************************)
EXTENDS RawUdp

MCAddresses == {<<a, b>> : a \in 0..3, b \in 0..3}
MCText      == <<1, 2, 3>>
=============================================================================
