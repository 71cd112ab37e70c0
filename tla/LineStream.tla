------------------------------- MODULE LineStream -------------------------------
(***************************************************************************)
(* What reading a child's output through a pipe promises, without          *)
(* processes, buffers and pipes: a writer that appends lines until it is   *)
(* gone, and a reader that takes them one by one in the order they were    *)
(* written. A reader that does not poll stops only at the end: the writer  *)
(* is gone and every line has been taken.                                  *)
(***************************************************************************)
EXTENDS Integers, Sequences

CONSTANT Line

VARIABLES sent, got,
          writer,    \* "open" or "gone"
          reader,    \* "opening", "reading" or "done"
          polling    \* the reader does not wait for lines

vars == <<sent, got, writer, reader, polling>>

Init ==
  /\ sent = <<>> /\ got = <<>>
  /\ writer = "open" /\ reader = "opening" /\ polling \in BOOLEAN

\* Several lines may come at once.
Write ==
  /\ writer = "open"
  /\ sent' \in Seq(Line)
  /\ Len(sent') > Len(sent) /\ SubSeq(sent', 1, Len(sent)) = sent
  /\ UNCHANGED <<got, writer, reader, polling>>

WriterEnds ==
  /\ writer = "open" /\ writer' = "gone"
  /\ UNCHANGED <<sent, got, reader, polling>>

StartReading ==
  /\ reader = "opening" /\ reader' = "reading"
  /\ UNCHANGED <<sent, got, writer, polling>>

\* A reader that cannot open the stream takes nothing; the writer may go with it.
GiveUp ==
  /\ reader = "opening" /\ reader' = "done"
  /\ writer' \in {writer, "gone"}
  /\ UNCHANGED <<sent, got, polling>>

Read ==
  /\ reader = "reading" /\ Len(got) < Len(sent)
  /\ got' = SubSeq(sent, 1, Len(got) + 1)
  /\ UNCHANGED <<sent, writer, reader, polling>>

StopReading ==
  /\ reader = "reading" /\ reader' = "done"
  /\ polling \/ (writer = "gone" /\ got = sent)
  /\ UNCHANGED <<sent, got, writer, polling>>

Next == Write \/ WriterEnds \/ StartReading \/ GiveUp \/ Read \/ StopReading

Spec == Init /\ [][Next]_vars

=============================================================================
