---------------------------- MODULE FgetsPipeProofs ----------------------------
(***************************************************************************)
(* Proofs about FgetsPipe: nothing is lost between child and parent, and   *)
(* blocking reads see everything, although waitpid() never tells.          *)
(***************************************************************************)
EXTENDS FgetsPipe, SequenceTheorems, TLAPS

\* Taking a line from the pipe to the reader moves it past the same point.
LEMMA MoveHead ==
  ASSUME NEW S, NEW r \in Seq(S), NEW p \in Seq(S), p # <<>>
  PROVE  Append(r, Head(p)) \o Tail(p) = r \o p
OBVIOUS

\* A line appended to the pipe is appended to everything read and unread.
LEMMA AppendConcat ==
  ASSUME NEW S, NEW r \in Seq(S), NEW p \in Seq(S), NEW e \in S
  PROVE  r \o Append(p, e) = Append(r \o p, e)
OBVIOUS

\* So is a whole buffer.
LEMMA ConcatConcat ==
  ASSUME NEW S, NEW r \in Seq(S), NEW p \in Seq(S), NEW b \in Seq(S)
  PROVE  r \o (p \o b) = (r \o p) \o b
OBVIOUS

\* Before fork() there is no child.
NotForked == pcParent \in {"pipe", "fork"} => pcChild = "none"

IInv ==
  /\ TypeOK
  /\ NotForked
  /\ Conservation
  /\ BlockingReadsAll

\* printf() either appends the line to the pipe and to what was written, or leaves both.
LEMMA PrintsFacts ==
  ASSUME TypeOK, NEW from \in ChildPcs, NEW to \in ChildPcs, NEW line \in Lines,
         Prints(from, line, to)
  PROVE  /\ pcChild = from /\ pcChild' = to
         /\ UNCHANGED <<nonblockingFlag, lineBuffered, parent, pdeathsig, stdout>>
         /\ stdioBuf' \in Seq(Lines)
         /\ \/ UNCHANGED <<written, pipe>>
            \/ written' = Append(written, line) /\ pipe' = Append(pipe, line)
<1>1. stdioBuf \in Seq(Lines)
  BY DEF TypeOK
<1>2. stdioBuf' \in Seq(Lines)
  <2>1. Append(stdioBuf, line) \in Seq(Lines)
    BY <1>1
  <2> QED
    BY <1>1, <2>1 DEF Prints, Printf
<1>3. \/ UNCHANGED <<written, pipe>>
      \/ written' = Append(written, line) /\ pipe' = Append(pipe, line)
  BY DEF Prints, Printf
<1> QED
  BY <1>2, <1>3 DEF Prints, ChildGoes

\* What a step of the child's does to the pipe.
LEMMA ChildFacts ==
  ASSUME TypeOK, Child
  PROVE  /\ ChildAlive /\ pcChild' \in ChildPcs
         /\ UNCHANGED <<nonblockingFlag, lineBuffered, pcParent, received, chckpid, status>>
         /\ pdeathsig' \in BOOLEAN /\ stdout' \in {"tty", "pipe"} /\ stdioBuf' \in Seq(Lines)
         /\ \/ UNCHANGED <<written, pipe>>
            \/ \E line \in Lines : written' = Append(written, line) /\ pipe' = Append(pipe, line)
            \/ written' = written \o stdioBuf /\ pipe' = pipe \o stdioBuf
<1>1. ASSUME NEW from \in ChildPcs \ {"none", "zombie", "killed"}, NEW to \in ChildPcs,
             NEW line \in Lines, Prints(from, line, to)
      PROVE  /\ ChildAlive /\ pcChild' \in ChildPcs
             /\ UNCHANGED <<nonblockingFlag, lineBuffered, pcParent, received, chckpid, status>>
             /\ pdeathsig' \in BOOLEAN /\ stdout' \in {"tty", "pipe"} /\ stdioBuf' \in Seq(Lines)
             /\ \/ UNCHANGED <<written, pipe>>
                \/ \E l \in Lines : written' = Append(written, l) /\ pipe' = Append(pipe, l)
                \/ written' = written \o stdioBuf /\ pipe' = pipe \o stdioBuf
  BY <1>1, PrintsFacts DEF TypeOK, ChildAlive, parent
<1>2. CASE Prctl \/ OpenBlackhole \/ Redirect \/ Sleep \/ Fflush \/ ExitChild
  <2>1. stdioBuf \in Seq(Lines) /\ <<>> \in Seq(Lines)
    BY DEF TypeOK
  <2>2. stdioBuf' \in Seq(Lines)
    BY <1>2, <2>1 DEF Prctl, OpenBlackhole, Redirect, Sleep, Fflush, ExitChild, Silently, Flush
  <2>3. /\ ChildAlive /\ pcChild' \in ChildPcs
        /\ UNCHANGED <<nonblockingFlag, lineBuffered, pcParent, received, chckpid, status>>
    BY <1>2 DEF Prctl, OpenBlackhole, Redirect, Sleep, Fflush, ExitChild, ChildGoes, ChildAlive,
                parent, ChildPcs
  <2>4. pdeathsig' \in BOOLEAN /\ stdout' \in {"tty", "pipe"}
    BY <1>2 DEF TypeOK, Prctl, OpenBlackhole, Redirect, Sleep, Fflush, ExitChild
  <2>5. \/ UNCHANGED <<written, pipe>>
        \/ written' = written \o stdioBuf /\ pipe' = pipe \o stdioBuf
    BY <1>2 DEF Prctl, OpenBlackhole, Redirect, Sleep, Fflush, ExitChild, Silently, Flush
  <2> QED
    BY <2>2, <2>3, <2>4, <2>5
<1>3. 1 \in Lines /\ 2 \in Lines /\ 3 \in Lines /\ 4 \in Lines /\ 5 \in Lines
  BY DEF Lines
<1> QED
  BY <1>1, <1>2, <1>3 DEF Child, ChildPcs

\* What a step of the parent's does to the pipe.
LEMMA ParentFacts ==
  ASSUME TypeOK, Parent
  PROVE  /\ pcParent' \in ParentPcs /\ pcChild' \in ChildPcs
         /\ UNCHANGED <<nonblockingFlag, lineBuffered, pdeathsig, stdout, stdioBuf, written>>
         /\ chckpid' \in {-1, 0, 1} /\ status' \in {"exit", "signal", "neither"}
         /\ UNCHANGED <<received, pipe>> \/ Fgets
         /\ pcParent' = "report" => UNCHANGED <<received, pipe, pcChild>> /\ FgetsNull
                                      /\ pcParent = "drain"
BY DEF TypeOK, Parent, CreatePipe, Fork, OpenStream, ReadLine, ReadNull, DrainLine, DrainNull,
       Report, ParentGoes, ParentExits, Waitpid, ParentPcs, ChildPcs, Fgets

\* Every step preserves the invariant.
LEMMA InvStep == IInv /\ [Next]_vars => IInv'
<1> SUFFICES ASSUME IInv, [Next]_vars PROVE IInv'
  OBVIOUS
<1>0. TypeOK /\ received \o pipe = written
  BY DEF IInv, Conservation
<1>s. /\ received \in Seq(Lines) /\ pipe \in Seq(Lines)
      /\ written \in Seq(Lines) /\ stdioBuf \in Seq(Lines)
  BY <1>0 DEF TypeOK
<1>1. CASE Child
  <2>1. TypeOK' /\ Conservation'
    <3>1. CASE UNCHANGED <<written, pipe>>
      BY <1>0, <1>1, <3>1, ChildFacts DEF TypeOK, Conservation
    <3>2. ASSUME NEW l \in Lines, written' = Append(written, l), pipe' = Append(pipe, l)
          PROVE  TypeOK' /\ Conservation'
      <4>1. received \o Append(pipe, l) = Append(received \o pipe, l)
        BY <1>s, AppendConcat
      <4>2. Append(written, l) \in Seq(Lines) /\ Append(pipe, l) \in Seq(Lines)
        BY <1>s
      <4>3. Conservation'
        BY <1>0, <1>1, <3>2, <4>1, ChildFacts DEF Conservation
      <4>4. TypeOK'
        BY <1>0, <1>1, <3>2, <4>2, ChildFacts DEF TypeOK
      <4> QED
        BY <4>3, <4>4
    <3>3. CASE written' = written \o stdioBuf /\ pipe' = pipe \o stdioBuf
      <4>1. received \o (pipe \o stdioBuf) = (received \o pipe) \o stdioBuf
        BY ONLY <1>s, ConcatConcat
      <4>2. written \o stdioBuf \in Seq(Lines) /\ pipe \o stdioBuf \in Seq(Lines)
        BY <1>s
      <4>3. Conservation'
        BY <1>0, <1>1, <3>3, <4>1, ChildFacts DEF Conservation
      <4>4. TypeOK'
        BY <1>0, <1>1, <3>3, <4>2, ChildFacts DEF TypeOK
      <4> QED
        BY <4>3, <4>4
    <3> QED
      BY <1>0, <1>1, <3>1, <3>2, <3>3, ChildFacts
  <2>2. BlockingReadsAll' /\ NotForked'
    BY <1>0, <1>1, ChildFacts DEF IInv, BlockingReadsAll, NotForked, ChildAlive
  <2> QED
    BY <2>1, <2>2 DEF IInv
<1>2. CASE Parent
  <2>1. TypeOK' /\ Conservation'
    <3>1. CASE UNCHANGED <<received, pipe>>
      BY <1>0, <1>2, <3>1, ParentFacts DEF TypeOK, Conservation
    <3>2. CASE Fgets
      <4>1. Append(received, Head(pipe)) \o Tail(pipe) = received \o pipe
        BY <1>0, <3>2, MoveHead DEF TypeOK, Fgets
      <4>2. received' \in Seq(Lines) /\ pipe' \in Seq(Lines)
        BY <1>0, <3>2 DEF TypeOK, Fgets
      <4> QED
        BY <1>0, <1>2, <3>2, <4>1, <4>2, ParentFacts DEF TypeOK, Conservation, Fgets
    <3> QED
      BY <1>0, <1>2, <3>1, <3>2, ParentFacts
  <2>2. BlockingReadsAll'
    <3> SUFFICES ASSUME ~nonblockingFlag, pcParent' = "report"
                 PROVE  ~ChildAlive' /\ received' = written'
      BY <1>0, <1>2, ParentFacts DEF BlockingReadsAll
    <3>1. UNCHANGED <<received, pipe, pcChild, written>> /\ FgetsNull /\ pcParent = "drain"
      BY <1>0, <1>2, ParentFacts
    <3>2. pipe = <<>> /\ ~ChildAlive
      BY <3>1 DEF FgetsNull, WriteEndOpen
    <3>3. received \o <<>> = received
      BY <1>0 DEF TypeOK
    <3> QED
      BY <1>0, <3>1, <3>2, <3>3 DEF ChildAlive
  <2>3. NotForked'
    BY <1>2 DEF IInv, NotForked, Parent, CreatePipe, Fork, OpenStream, ReadLine, ReadNull,
                DrainLine, DrainNull, Report, ParentGoes, ParentExits
  <2> QED
    BY <2>1, <2>2, <2>3 DEF IInv
<1>3. CASE ChildKilled
  BY <1>0, <1>3 DEF IInv, TypeOK, NotForked, Conservation, BlockingReadsAll, ChildKilled, ChildAlive,
                    ChildPcs, parent
<1>4. CASE UNCHANGED vars
  BY <1>0, <1>4 DEF IInv, TypeOK, NotForked, Conservation, BlockingReadsAll, ChildAlive, vars, parent, child
<1> QED
  BY <1>1, <1>2, <1>3, <1>4 DEF Next

\* The invariant holds of every reachable state.
THEOREM Invariance == Spec => []IInv
<1>1. Init => IInv
  <2> SUFFICES ASSUME Init PROVE IInv
    OBVIOUS
  <2>1. TypeOK
    <3>1. <<>> \in Seq(Lines)
      OBVIOUS
    <3> QED
      BY <3>1 DEF Init, TypeOK, ParentPcs, ChildPcs
  <2> QED
    BY <2>1 DEF Init, IInv, NotForked, Conservation, BlockingReadsAll
<1> QED
  BY <1>1, InvStep, PTL DEF Spec

\* Types of both processes' state.
THEOREM TypeCorrect == Spec => []TypeOK
<1>1. IInv => TypeOK
  BY DEF IInv
<1> QED
  BY <1>1, Invariance, PTL

\* The pipe of c/fgets/main.c loses, repeats and swaps no line.
THEOREM NothingLost == Spec => []Conservation
<1>1. IInv => Conservation
  BY DEF IInv
<1> QED
  BY <1>1, Invariance, PTL

\* Blocking fgets() drains the child's whole output before the parent reports.
THEOREM BlockingComplete == Spec => []BlockingReadsAll
<1>1. IInv => BlockingReadsAll
  BY DEF IInv
<1> QED
  BY <1>1, Invariance, PTL

\* What was there stays a prefix of what has been appended to.
LEMMA PrefixStays ==
  ASSUME NEW S, NEW a \in Seq(S), NEW b \in Seq(S)
  PROVE  SubSeq(a \o b, 1, Len(a)) = a /\ Len(a \o b) = Len(a) + Len(b)
OBVIOUS

\* The same for one element.
LEMMA PrefixStaysAppend ==
  ASSUME NEW S, NEW a \in Seq(S), NEW e \in S
  PROVE  SubSeq(Append(a, e), 1, Len(a)) = a /\ Len(Append(a, e)) = Len(a) + 1
OBVIOUS

\* The reader's next line is the first one of the pipe.
LEMMA NextLine ==
  ASSUME NEW S, NEW r \in Seq(S), NEW p \in Seq(S), p # <<>>
  PROVE  /\ Len(r) < Len(r \o p)
         /\ Append(r, Head(p)) = SubSeq(r \o p, 1, Len(r) + 1)
<1>1. r \o p \in Seq(S) /\ Len(r \o p) = Len(r) + Len(p) /\ Len(p) > 0
  OBVIOUS
<1>2. /\ Append(r, Head(p)) \in Seq(S) /\ Len(Append(r, Head(p))) = Len(r) + 1
      /\ \A k \in 1..(Len(r) + 1) : Append(r, Head(p))[k] = (r \o p)[k]
  OBVIOUS
<1>3. /\ SubSeq(r \o p, 1, Len(r) + 1) \in Seq(S)
      /\ Len(SubSeq(r \o p, 1, Len(r) + 1)) = Len(r) + 1
      /\ \A k \in 1..(Len(r) + 1) : SubSeq(r \o p, 1, Len(r) + 1)[k] = (r \o p)[k]
  BY <1>1, SubSeqProperties
<1> QED
  BY <1>1, <1>2, <1>3, SeqEqual

\* A step of the child's writes, ends the writer, or does nothing a reader could see.
LEMMA ChildRefines ==
  ASSUME IInv, Child
  PROVE  LS!Write \/ LS!WriterEnds \/ UNCHANGED LS!vars
<1>1. TypeOK /\ ChildAlive /\ Writer = "open"
  BY ChildFacts DEF IInv, Writer
<1>2. UNCHANGED <<received, pcParent, nonblockingFlag>>
  BY <1>1, ChildFacts
<1>3. Reader' = Reader
  BY <1>2 DEF Reader
<1>s. written \in Seq(Lines) /\ stdioBuf \in Seq(Lines)
  BY <1>1 DEF TypeOK
<1>4. CASE UNCHANGED written
  <2>1. Writer' \in {"open", "gone"}
    BY DEF Writer
  <2> QED
    BY <1>1, <1>2, <1>3, <1>4, <2>1 DEF LS!WriterEnds, LS!vars
<1>5. CASE ~UNCHANGED written
  <2>1. ChildAlive'
    BY <1>5 DEF Child, Prints, Prctl, OpenBlackhole, Redirect, Sleep, Fflush, ExitChild,
                Silently, ChildGoes, ChildAlive
  <2>2. Writer' = Writer
    BY <1>1, <2>1 DEF Writer
  <2>3. written' \in Seq(Lines) /\ Len(written') > Len(written)
          /\ SubSeq(written', 1, Len(written)) = written
    <3>1. ASSUME NEW l \in Lines, written' = Append(written, l)
          PROVE  written' \in Seq(Lines) /\ Len(written') > Len(written)
                   /\ SubSeq(written', 1, Len(written)) = written
      BY <1>s, <3>1, PrefixStaysAppend
    <3>2. CASE written' = written \o stdioBuf
      <4>1. stdioBuf # <<>>
        BY <1>s, <1>5, <3>2
      <4>2. written \o stdioBuf \in Seq(Lines) /\ Len(stdioBuf) > 0
        BY <1>s, <4>1
      <4> QED
        BY <1>s, <3>2, <4>2, PrefixStays
    <3> QED
      BY <1>1, <1>5, <3>1, <3>2, ChildFacts
  <2> QED
    BY <1>1, <1>2, <1>3, <2>2, <2>3 DEF LS!Write
<1> QED
  BY <1>4, <1>5

\* A step of the parent's opens, reads or stops, or does nothing a reader could see.
LEMMA ParentRefines ==
  ASSUME IInv, Parent
  PROVE  LS!Next \/ UNCHANGED LS!vars
<1>1. TypeOK /\ received \o pipe = written /\ UNCHANGED <<written, nonblockingFlag>>
  BY ParentFacts DEF IInv, Conservation
<1>2. CASE CreatePipe \/ Fork \/ OpenStream
  <2>1. CASE CreatePipe
    BY <1>1, <2>1 DEF CreatePipe, ParentGoes, ParentExits, Reader, Writer, ChildAlive,
                      LS!Next, LS!GiveUp, LS!vars
  <2>2. CASE Fork
    BY <1>1, <2>2 DEF IInv, NotForked, Fork, ParentGoes, Reader, Writer, ChildAlive,
                      LS!Next, LS!WriterEnds, LS!vars
  <2>3. CASE OpenStream
    BY <1>1, <2>3 DEF OpenStream, ParentGoes, ParentExits, Reader, Writer, ChildAlive,
                      LS!Next, LS!StartReading, LS!GiveUp
  <2> QED
    BY <1>2, <2>1, <2>2, <2>3
<1>3. CASE ReadLine \/ DrainLine
  <2>1. /\ pcParent \in {"read", "drain"} /\ pcParent' \in {"read", "drain"}
        /\ pcChild' = pcChild /\ Fgets
    BY <1>3 DEF ReadLine, DrainLine, ParentGoes
  <2>2. Reader = "reading" /\ Reader' = "reading"
    BY <2>1 DEF Reader
  <2>3. Writer' = Writer
    BY <2>1 DEF Writer, ChildAlive
  <2>4. Len(received) < Len(written) /\ received' = SubSeq(written, 1, Len(received) + 1)
    BY <1>1, <2>1, NextLine DEF TypeOK, Fgets
  <2> QED
    BY <1>1, <2>2, <2>3, <2>4 DEF LS!Next, LS!Read
<1>4. CASE ReadNull
  BY <1>1, <1>4 DEF ReadNull, ParentGoes, Reader, Writer, ChildAlive, LS!vars
<1>5. CASE DrainNull
  <2>1. received \o <<>> = received
    BY <1>1 DEF TypeOK
  <2>2. Reader = "reading" /\ Reader' = "done" /\ Writer' = Writer /\ UNCHANGED received
    BY <1>5 DEF DrainNull, ParentGoes, Reader, Writer, ChildAlive
  <2>3. nonblockingFlag \/ (Writer = "gone" /\ received = written)
    BY <1>1, <1>5, <2>1 DEF DrainNull, FgetsNull, WriteEndOpen, ParentGoes, Writer
  <2> QED
    BY <1>1, <2>2, <2>3 DEF LS!Next, LS!StopReading
<1>6. CASE Report
  BY <1>1, <1>6 DEF Report, ParentExits, ParentGoes, Reader, Writer, ChildAlive,
                    LS!Next, LS!WriterEnds, LS!vars
<1> QED
  BY <1>2, <1>3, <1>4, <1>5, <1>6 DEF Parent

\* The two processes of c/fgets/main.c with their buffers implement a stream of lines.
THEOREM Refinement == Spec => ImplementsLineStream
<1>1. Init => LS!Init
  BY DEF Init, LS!Init, Reader, Writer
<1>2. IInv /\ [Next]_vars => [LS!Next]_(LS!vars)
  <2> SUFFICES ASSUME IInv, [Next]_vars PROVE LS!Next \/ UNCHANGED LS!vars
    OBVIOUS
  <2>1. CASE Child
    BY <2>1, ChildRefines DEF LS!Next
  <2>2. CASE Parent
    BY <2>2, ParentRefines
  <2>3. CASE ChildKilled
    BY <2>3 DEF ChildKilled, parent, Reader, Writer, ChildAlive, LS!Next, LS!WriterEnds
  <2>4. CASE UNCHANGED vars
    BY <2>4 DEF vars, parent, child, Reader, Writer, ChildAlive, LS!vars
  <2> QED
    BY <2>1, <2>2, <2>3, <2>4 DEF Next
<1> QED
  BY <1>1, <1>2, Invariance, PTL DEF Spec, LS!Spec, ImplementsLineStream

-----------------------------------------------------------------------------
(* What a child that is not killed has written: OutputOfWholeRun           *)

Early == {"none", "print1", "prctl", "print2", "open", "print3", "redirect"}
Late  == {"print4", "sleep", "print5", "flush"}

\* Nothing is in the pipe before dup2(), and descriptor 1 leads there after it.
InvRedirect ==
  /\ pcChild \in Early => stdout = "tty" /\ written = <<>>
  /\ pcChild \in Late => stdout = "pipe"

\* With a full buffer, every line printed so far is in it, and none in the pipe.
InvFullBuffer ==
  ~lineBuffered =>
    /\ pcChild \in Late => written = <<>>
    /\ pcChild \in {"none", "print1"} => stdioBuf = <<>>
    /\ pcChild \in {"prctl", "print2"} => stdioBuf = <<1>>
    /\ pcChild \in {"open", "print3"} => stdioBuf = <<1, 2>>
    /\ pcChild \in {"redirect", "print4"} => stdioBuf = <<1, 2, 3>>
    /\ pcChild \in {"sleep", "print5"} => stdioBuf = <<1, 2, 3, 4>>
    /\ pcChild = "flush" => stdioBuf = <<1, 2, 3, 4, 5>>

\* On a terminal every line has left the buffer, for what descriptor 1 led to then.
InvLineBuffer ==
  lineBuffered =>
    /\ stdioBuf = <<>>
    /\ pcChild = "print4" => written = <<>>
    /\ pcChild \in {"sleep", "print5"} => written = <<4>>
    /\ pcChild = "flush" => written = <<4, 5>>

InvOutput == InvRedirect /\ InvFullBuffer /\ InvLineBuffer /\ OutputOfWholeRun

\* The sequences that the printf()s and fflush() build.
LEMMA Built ==
  /\ <<1>> = Append(<<>>, 1) /\ <<1, 2>> = Append(<<1>>, 2)
  /\ <<1, 2, 3>> = Append(<<1, 2>>, 3) /\ <<1, 2, 3, 4>> = Append(<<1, 2, 3>>, 4)
  /\ <<1, 2, 3, 4, 5>> = Append(<<1, 2, 3, 4>>, 5)
  /\ <<4>> = Append(<<>>, 4) /\ <<4, 5>> = Append(<<4>>, 5)
  /\ <<4, 5>> \o <<>> = <<4, 5>> /\ <<>> \o <<1, 2, 3, 4, 5>> = <<1, 2, 3, 4, 5>>
<1>1. <<1>> = Append(<<>>, 1)
  OBVIOUS
<1>2. <<1, 2>> = Append(<<1>>, 2)
  OBVIOUS
<1>3. <<1, 2, 3>> = Append(<<1, 2>>, 3)
  OBVIOUS
<1>4. <<1, 2, 3, 4>> = Append(<<1, 2, 3>>, 4)
  OBVIOUS
<1>5. <<1, 2, 3, 4, 5>> = Append(<<1, 2, 3, 4>>, 5)
  OBVIOUS
<1>6. <<4>> = Append(<<>>, 4)
  OBVIOUS
<1>7. <<4, 5>> = Append(<<4>>, 5)
  OBVIOUS
<1>8. <<4, 5>> \o <<>> = <<4, 5>>
  OBVIOUS
<1>9. <<>> \o <<1, 2, 3, 4, 5>> = <<1, 2, 3, 4, 5>>
  OBVIOUS
<1> QED
  BY <1>1, <1>2, <1>3, <1>4, <1>5, <1>6, <1>7, <1>8, <1>9

\* Where a child that prints was and is, whatever its stream does with the line.
LEMMA PrintsGoes ==
  ASSUME NEW from, NEW to, NEW line, Prints(from, line, to)
  PROVE  /\ pcChild = from /\ pcChild' = to /\ stdout' = stdout
         /\ ~lineBuffered => stdioBuf' = Append(stdioBuf, line) /\ written' = written
         /\ lineBuffered /\ stdout = "tty" => stdioBuf' = stdioBuf /\ written' = written
         /\ lineBuffered /\ stdout = "pipe" => stdioBuf' = stdioBuf /\ written' = Append(written, line)
  BY DEF Prints, Printf, ChildGoes

\* No step turns the buffering of the stream.
LEMMA BufferingStays == [Next]_vars => lineBuffered' = lineBuffered
  BY DEF Next, Parent, CreatePipe, Fork, OpenStream, ReadLine, ReadNull, DrainLine, DrainNull,
         Report, ParentGoes, ParentExits, Child, Prints, Prctl, OpenBlackhole, Redirect, Sleep,
         Fflush, ExitChild, ChildGoes, ChildKilled, vars

\* A child that goes on with a full buffer.
LEMMA FullBufferStep ==
  ASSUME InvOutput, ~lineBuffered, Child
  PROVE  /\ InvRedirect'
         /\ pcChild' \in Late => written' = <<>>
         /\ pcChild' \in {"none", "print1"} => stdioBuf' = <<>>
         /\ pcChild' \in {"prctl", "print2"} => stdioBuf' = <<1>>
         /\ pcChild' \in {"open", "print3"} => stdioBuf' = <<1, 2>>
         /\ pcChild' \in {"redirect", "print4"} => stdioBuf' = <<1, 2, 3>>
         /\ pcChild' \in {"sleep", "print5"} => stdioBuf' = <<1, 2, 3, 4>>
         /\ pcChild' = "flush" => stdioBuf' = <<1, 2, 3, 4, 5>>
         /\ stdout' = "pipe" /\ pcChild' \in {"_exit", "zombie"} => written' = <<1, 2, 3, 4, 5>>
<1> USE DEF InvOutput, InvRedirect, InvFullBuffer, OutputOfWholeRun, Early, Late
<1>1. CASE Prints("print1", 1, "prctl")
  <2>1. /\ pcChild = "print1" /\ pcChild' = "prctl" /\ stdout' = stdout
        /\ stdioBuf' = Append(stdioBuf, 1) /\ written' = written
    BY <1>1, PrintsGoes
  <2>2. stdioBuf' = <<1>>
    BY <2>1, Built
  <2> QED
    BY <2>1, <2>2
<1>2. CASE Prints("print2", 2, "open")
  <2>1. /\ pcChild = "print2" /\ pcChild' = "open" /\ stdout' = stdout
        /\ stdioBuf' = Append(stdioBuf, 2) /\ written' = written
    BY <1>2, PrintsGoes
  <2>2. stdioBuf' = <<1, 2>>
    BY <2>1, Built
  <2> QED
    BY <2>1, <2>2
<1>3. CASE Prints("print3", 3, "redirect")
  <2>1. /\ pcChild = "print3" /\ pcChild' = "redirect" /\ stdout' = stdout
        /\ stdioBuf' = Append(stdioBuf, 3) /\ written' = written
    BY <1>3, PrintsGoes
  <2>2. stdioBuf' = <<1, 2, 3>>
    BY <2>1, Built
  <2> QED
    BY <2>1, <2>2
<1>4. CASE Prints("print4", 4, "sleep")
  <2>1. /\ pcChild = "print4" /\ pcChild' = "sleep" /\ stdout' = stdout
        /\ stdioBuf' = Append(stdioBuf, 4) /\ written' = written
    BY <1>4, PrintsGoes
  <2>2. stdioBuf' = <<1, 2, 3, 4>>
    BY <2>1, Built
  <2> QED
    BY <2>1, <2>2
<1>5. CASE Prints("print5", 5, "flush")
  <2>1. /\ pcChild = "print5" /\ pcChild' = "flush" /\ stdout' = stdout
        /\ stdioBuf' = Append(stdioBuf, 5) /\ written' = written
    BY <1>5, PrintsGoes
  <2>2. stdioBuf' = <<1, 2, 3, 4, 5>>
    BY <2>1, Built
  <2> QED
    BY <2>1, <2>2
<1>6. CASE Prctl
  BY <1>6 DEF Prctl, ChildGoes, Silently
<1>7. CASE OpenBlackhole
  BY <1>7 DEF OpenBlackhole, ChildGoes
<1>8. CASE Redirect
  BY <1>8 DEF Redirect, ChildGoes, Silently
<1>9. CASE Sleep
  BY <1>9 DEF Sleep, ChildGoes, Silently
<1>10. CASE Fflush
  BY <1>10, Built DEF Fflush, ChildGoes, Flush
<1>11. CASE ExitChild
  BY <1>11 DEF ExitChild, ChildGoes, Silently
<1> QED
  BY <1>1, <1>2, <1>3, <1>4, <1>5, <1>6, <1>7, <1>8, <1>9, <1>10, <1>11 DEF Child

\* A child that goes on with a line buffer.
LEMMA LineBufferStep ==
  ASSUME InvOutput, lineBuffered, Child
  PROVE  /\ InvRedirect'
         /\ stdioBuf' = <<>>
         /\ pcChild' = "print4" => written' = <<>>
         /\ pcChild' \in {"sleep", "print5"} => written' = <<4>>
         /\ pcChild' = "flush" => written' = <<4, 5>>
         /\ stdout' = "pipe" /\ pcChild' \in {"_exit", "zombie"} => written' = <<4, 5>>
<1> USE DEF InvOutput, InvRedirect, InvLineBuffer, OutputOfWholeRun, Early, Late
<1>1. CASE Prints("print1", 1, "prctl")
  BY <1>1, PrintsGoes
<1>2. CASE Prints("print2", 2, "open")
  BY <1>2, PrintsGoes
<1>3. CASE Prints("print3", 3, "redirect")
  BY <1>3, PrintsGoes
<1>4. CASE Prints("print4", 4, "sleep")
  BY <1>4, PrintsGoes, Built
<1>5. CASE Prints("print5", 5, "flush")
  <2>1. pcChild = "print5" /\ pcChild' = "flush" /\ stdout' = stdout
    BY <1>5, PrintsGoes
  <2>2. stdout = "pipe" /\ written = <<4>> /\ stdioBuf = <<>>
    BY <2>1
  <2>3. stdioBuf' = <<>> /\ written' = Append(<<4>>, 5)
    BY <1>5, <2>2, PrintsGoes
  <2>4. written' = <<4, 5>>
    BY ONLY <2>3, Built
  <2> QED
    BY <2>1, <2>2, <2>3, <2>4
<1>6. CASE Prctl
  BY <1>6 DEF Prctl, ChildGoes, Silently
<1>7. CASE OpenBlackhole
  BY <1>7 DEF OpenBlackhole, ChildGoes
<1>8. CASE Redirect
  BY <1>8 DEF Redirect, ChildGoes, Silently
<1>9. CASE Sleep
  BY <1>9 DEF Sleep, ChildGoes, Silently
<1>10. CASE Fflush
  BY <1>10, Built DEF Fflush, ChildGoes, Flush
<1>11. CASE ExitChild
  BY <1>11 DEF ExitChild, ChildGoes, Silently
<1> QED
  BY <1>1, <1>2, <1>3, <1>4, <1>5, <1>6, <1>7, <1>8, <1>9, <1>10, <1>11 DEF Child

\* Every step keeps what the child has printed in the buffer or in the pipe.
LEMMA OutputStep == IInv /\ InvOutput /\ [Next]_vars => InvOutput'
<1> SUFFICES ASSUME IInv, InvOutput, [Next]_vars PROVE InvOutput'
  OBVIOUS
<1>0. lineBuffered' = lineBuffered
  BY BufferingStays
<1>1. CASE Child
  <2>1. CASE ~lineBuffered
    BY <1>0, <1>1, <2>1, FullBufferStep DEF InvOutput, InvFullBuffer, InvLineBuffer, OutputOfWholeRun
  <2>2. CASE lineBuffered
    BY <1>0, <1>1, <2>2, LineBufferStep DEF InvOutput, InvFullBuffer, InvLineBuffer, OutputOfWholeRun
  <2> QED
    BY <2>1, <2>2
<1>2. CASE ~Child
  <2>1. UNCHANGED <<stdout, stdioBuf, written>>
    BY <1>2 DEF Next, Parent, CreatePipe, Fork, OpenStream, ReadLine, ReadNull, DrainLine,
                DrainNull, Report, ParentGoes, ParentExits, ChildKilled, vars, child
  <2>2. \/ pcChild' = pcChild \/ pcChild' = "killed"
        \/ pcChild = "none" /\ pcChild' = "print1"
    BY <1>2 DEF Next, Parent, CreatePipe, Fork, OpenStream, ReadLine, ReadNull, DrainLine,
                DrainNull, Report, ParentGoes, ParentExits, ChildKilled, vars, child,
                IInv, NotForked
  <2>3. InvRedirect'
    BY <2>1, <2>2 DEF InvOutput, InvRedirect, Early, Late
  <2>4. InvFullBuffer'
    BY <1>0, <2>1, <2>2 DEF InvOutput, InvFullBuffer, InvRedirect, Early, Late
  <2>5. InvLineBuffer'
    BY <1>0, <2>1, <2>2 DEF InvOutput, InvLineBuffer
  <2>6. OutputOfWholeRun'
    BY <1>0, <2>1, <2>2 DEF InvOutput, OutputOfWholeRun
  <2> QED
    BY <2>3, <2>4, <2>5, <2>6 DEF InvOutput
<1> QED
  BY <1>1, <1>2

\* A child that reaches _exit() has put two lines into the pipe if its standard output was
\* a terminal, and all five otherwise, whoever reads and whenever.
THEOREM WholeRunOutput == Spec => []OutputOfWholeRun
<1>1. Init => InvOutput
  BY DEF Init, InvOutput, InvRedirect, InvFullBuffer, InvLineBuffer, OutputOfWholeRun, Early, Late
<1>2. InvOutput => OutputOfWholeRun
  BY DEF InvOutput
<1> QED
  BY <1>1, <1>2, OutputStep, Invariance, PTL DEF Spec

=============================================================================
