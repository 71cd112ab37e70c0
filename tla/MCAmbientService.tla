---------------------------- MODULE MCAmbientService ----------------------------
(***************************************************************************)
(* Two capabilities, and lists with repetitions, with a number that is no  *)
(* capability (3) and with a -1 in them. CAP_NET_RAW is the first.         *)
(***************************************************************************)
EXTENDS AmbientService

MCCaps    == 1..2
MCDefault == <<1, 2>>
MCLists   ==
  UNION {[1..n -> {-1, 1, 2, 3}] : n \in 0..2} \cup {<<1, 2, 1>>, <<2, -1, 1>>, <<2, 1, 3>>}
=============================================================================
