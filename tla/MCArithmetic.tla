------------------------------ MODULE MCArithmetic ------------------------------
(***************************************************************************)
(* Three pieces of pure arithmetic, each on its own: serial numbers, bit   *)
(* fields and string hashes. algorithm says which one runs.                *)
(***************************************************************************)
EXTENDS SerialNumbers, BitFields, StringHash

VARIABLE algorithm

allVars == <<algorithm, serialVars, bitVars, hashVars>>

MCInit ==
  \/ algorithm = "serial" /\ SerialInit /\ BitInit /\ HashInit
  \/ algorithm \in {"bits", "hash"} /\ s = 0 /\ t = 0 /\ gap = 0 /\ BitInit /\ HashInit

RunSerial == algorithm = "serial" /\ SerialNext /\ UNCHANGED <<algorithm, bitVars, hashVars>>
RunBits   == algorithm = "bits" /\ BitNext /\ UNCHANGED <<algorithm, serialVars, hashVars>>
RunHash   == algorithm = "hash" /\ HashNext /\ UNCHANGED <<algorithm, serialVars, bitVars>>

MCNext == RunSerial \/ RunBits \/ RunHash
MCSpec == MCInit /\ [][MCNext]_allVars

MCChars == {-61, 65, 127}
=============================================================================
