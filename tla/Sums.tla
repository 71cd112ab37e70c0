---------------------------------- MODULE Sums ----------------------------------
(***************************************************************************)
(* Sums of sequences of numbers, as a loop that adds them up makes them.   *)
(***************************************************************************)
EXTENDS Integers, Sequences

\* The sums of the first 0, 1, 2, ... numbers of w, and of all of them.
Running(w) == LET S[n \in 0..Len(w)] == IF n = 0 THEN 0 ELSE S[n - 1] + w[n] IN S
Total(w)   == Running(w)[Len(w)]

=============================================================================
