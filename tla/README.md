# Verification of studyTips

studyTips is a collection of small, independent programs, most of them C programs
around Linux system calls, with notes about what they show. There is no one system;
the parts that carry logic of their own are programs whose state is spread over
threads, processes, the kernel, a peer or the clock. This project models those, each
with the environment it talks to, checks them with TLC and proves their safety
properties with TLAPS.

All paths below are relative to `src/`. `PROJECT.json` maps every definition to its
lines.

## Inventory

| Program | State | Operations | Interacts with | Hard about it |
|---|---|---|---|---|
| `c/signal/main.c` | options, `g_childThreadId`, two threads, handler | getopt, sigaction, create, join; handler restores the default and passes the signal on; child pauses or polls | kernel's signal delivery, the user | signals against every step of two threads, stale thread id, passed signal racing the exit |
| `c/fgets/main.c` | pipe, child's stdio buffer, `chckpid`, `status` | fork, redirect, print, flush; fgets loops, waitpid | kernel, child process, `kb/fgets.md` | uninitialised variables, a waitpid that cannot work, buffering across dup2, death of either side |
| `c/netlink/getroute.c` | request, datagram, two nested scan positions, `tb` | send, poll, recvfrom, NLMSG and RTA scans | kernel's netlink answer | length fields at their edges, truncation, exits with the socket open |
| `c/tsn/main.c` | none (two counters of its users) | TSN/SSN comparisons, old and new | SCTP counters | wrap-around |
| `python/playmusic.py` | setting list, player process | look at the clock, start, join | system clock | waiting while the clock goes on, the quiet minutes |
| `c/raw6/rawudp.c` with `c/common/header.h` | packet buffer, raw socket | build, rebuild, send by iovec or in one piece | kernel, the receiver's check | checksum arithmetic, a header built twice |
| `c/libssh2/sftpdir.c` | resources held, methods left, listing | connect, log in, list, shut down | SSH server, network | failure of each call, loss of the connection, several exits |
| `c/ambient/main.c` | capability list, the process's capability sets | raise each, exec | kernel, libcap-ng | an unchecked result, a list that is raised one by one |
| `c/raw6/rawall.c`, `c/raw6/server.c` | a packet buffer each, two lengths, a socket option | send twice; receive, print, turn the option over | each other over the network, other hosts, the kernel's IPv6 input | a length written once for two packets, a buffer never cleared, loss, repetition, reordering, a setsockopt that fails |
| `c/raw6/flowlabel.c`, `c/raw4/rawbind.c` | sockets | send to oneself and wait; bind two sockets to one address | kernel, other hosts | a wait without timeout, failures half-way |
| `c/sched/sched.c` | `g_exit`, policy | handlers, busy loop, show the status | the user's signals, scheduler | a plain flag between handler and loop |
| `c/cap/main.c` | service flag, two processes, stdio's buffer | fork, try a raw socket, serve | its launcher `c/ambient`, kernel | a buffer copied by fork, two processes in one code |
| `ace/signal/main.cpp` | registrations, timer, three threads, the log's lock | register, start threads, fault, handle | ACE reactor and log, kernel | handlers in faulting threads that share a lock |
| `c/bits/bitincr.c`, `java/hash.java` | a word with two fields; none | increment past the maximum; eight hashes | none | wrap-around, signed characters |
| the other demonstrations, scripts and notes | none of their own | | | not modelled |

What makes each modelled program correct:

- signal: the handler runs once; a passed signal is never lost to an exit; with `-n` one
  signal does no harm; a signal sent at the prompt never meets an invalid thread id; what is
  meant to end does end.
- fgets: no line is lost, repeated or reordered; a blocking parent reads everything
  and ends.
- netlink: reads stay inside what was received, attributes inside their message; the
  scan advances and ends; the socket is closed on every way out.
- tsn: below half the range the comparison is the true order, beyond it the opposite one;
  all versions agree.
- playmusic: nothing begins in the quiet minutes; nothing due is passed over by an
  idle player; each play ends.
- rawudp: the length of what is sent is right and its sum adds up for every address and
  length; the functions of `header.h` agree with each other.
- rawall, server: no packet claims more than it has; what arrives is as long as the first
  packet; a line about one of the sender's packets shows that packet's ports; program and
  kernel agree on the option.
- flowlabel, rawbind: a datagram that is there ends the wait; a failure leaves no address
  taken.
- sched: a signal ends the loop, whenever it comes.
- cap: both processes find what the launcher was asked for; only the parent stays.
- ACE signal: with its handlers registered, a fault ends its thread and not the process.
- bits, hash: a field wraps in place; PJW and ELF are one function; strings that
  differ in one character differ in the multiplying hashes.
- sftpdir: resources are given back in order, but for one path; no listing without a login;
  each entry received is printed once; the program ends.
- ambient: the started program has what was asked for, or is not started; raising one
  capability costs no other.

## Modules

| Module | Models | How state and actions correspond |
|---|---|---|
| `SignalPass` | `c/signal/main.c` | one variable per global, a program counter for each thread and for the handler on each thread. The kernel is modelled by pending sets and `EnterHandler`/`DefaultAction`. A signal is of one of four classes: it terminates, stops, is ignored by default, or cannot be caught; a stopped process does nothing until somebody continues it. `outside` remembers a signal sent before the prompt or after the child's end. |
| `LineStream` | what reading a child's output promises | abstract: a writer that appends lines until it is gone, a reader that takes them in order and, unless it polls, stops only at the end. |
| `FgetsPipe` | `c/fgets/main.c` | a line is the ordinal of its `printf`. `Init` chooses what the uninitialised `chckpid` and `status` hold, since reading them is undefined. |
| `NetlinkRoute` | `c/netlink/getroute.c` | sizes are constants; what the buffer holds is chosen when it is read. `touched` records how far reads went, of headers and of the integers and the address that are printed; `overrun` that the text of `RTA_SRC` went on past the received bytes. |
| `SerialNumbers` | `c/tsn/main.c` | `Half` is the sign bit's weight; `gap` is the true distance of two running counters. The `TSN` versions subtract words, the `SSN` versions promoted integers. |
| `PlayMusic` | `python/playmusic.py` | the clock ticks in minutes, the grain of `isTiming()`, and only after `detect()` has looked at the minute. |
| `Checksum`, `RawUdp` | `c/common/header.h`, `c/raw6/rawudp.c` | a byte has `Base` values, arithmetic keeps its widths. A sum of words is the sum of its bytes, each with its weight in its word (`Weighed`, and `Total` of `Sums`). `csum()` reads words low byte first, as on a little-endian host. `Accepts` is the receiver's rule, the one for a zero checksum included. |
| `SftpDir` | `c/libssh2/sftpdir.c` | `pc` names the libssh2 call; each blocking call is a request, an answer and a return, so the connection can be lost between them. `dirRefused` remembers that opendir failed. |
| `AmbientCaps` | `c/ambient/main.c` | a token of the list is the number `atoi` makes of it (0 for text that is none). |
| `CapService`, `AmbientService` | `c/cap/main.c`, and `c/ambient/main.c` executing it | a process's buffer is the number of lines about `-s` in it, which fork() copies. `AmbientService` instantiates `CapService` with the capability that `AmbientCaps` leaves in the permitted set. |
| `Raw6Link` | `c/raw6/rawall.c`, `c/raw6/server.c` and the network | a packet is its name and its three lengths (IPv6 header, UDP header, bytes); a place in the server's buffer holds the name of the packet that last wrote there. |
| `FlowLabel`, `RawBind`, `Sched` | the programs of those names | one action per system call. |
| `AceSignal` | `ace/signal/main.cpp` | where each thread is; a log line is taking the lock and giving it back. `refused` remembers the handlers that `register_handler` did not take. |
| `BitFields`, `StringHash` | `c/bits/bitincr.c`, `java/hash.java` | the sizes of fields, counters and words are constants; the hashes run over two strings at once. `&`, `^` and `~` go bit by bit (`Bit`, `OfBits`), shifts by powers of two (`TwoTo`), a product by the bytes of one factor to stay within TLC's integers. |
| `Sums` | the adding loops of `c/common/header.h`, and the word made of bits | running sums of a sequence, a recursive function. |
| `MC...` | instances for TLC | sets for the constants that a `.cfg` cannot write. |
| `SignalProofs` | theorems about `SignalPass` and `AceSignal` | |
| `FgetsPipeProofs`, `NetlinkRouteProofs`, `PlayMusicProofs`, `SftpDirProofs` | theorems about the module of that name | |
| `AmbientCapsProofs` | theorems about `AmbientCaps` and `AmbientService` with `CapService` | |
| `RawSocketProofs` | theorems about `Raw6Link` and `RawBind` | |
| `ArithmeticProofs` | theorems about `SerialNumbers`, `BitFields`, `Checksum`, `RawUdp` and `StringHash` | |

Programs that interact are composed: `AmbientService` runs launcher and test service in
one behaviour, `Raw6Link` sender, network and server, and `RawUdp` is built on `Checksum`.
`FgetsPipe` is shown to implement `LineStream`: `written` and `received` stand for what was
sent and got, the writer is gone when no process holds the write end any more, and the
reader's three phases are those of the parent's program counter. `MCPrograms` and
`MCArithmetic` only put programs that have nothing to do with each other into one run.
Every module composes its program with its environment: the kernel, child, server, network
or clock named above. Those actions are marked external in the map and are modelled from
how the program uses them. The operators
commented "Faulty variant" are plausible mistakes in the definition that follows them;
each shows that some property depends on that definition.

## Runs

| Run | Bounds, and why they are enough | Checks |
|---|---|---|
| `signal_pass` | three user signals; a race needs two and the passed one | every interleaving of both threads, handler and kernel, for every option and class of signal |
| `fgets_pipe` | none: five lines, as in the code | both read modes, both buffering modes, every failure, a kill at any step |
| `netlink_route` | datagrams up to 18 bytes with headers scaled to 4, 2 and 2: room for two messages with attributes and for lengths beyond the buffer | every length in every header, and in every attribute but those printed as an integer or address, to which the kernel gives at least their size |
| `arithmetic` | serial numbers of 5 bits at every distance up to a whole turn, exactly half and beyond included; fields of 4 and 2 bits in a word of 6, which wrap four and two times; hashes of 16 bits over strings of up to four of three characters, one negative | all pairs of counters over every wrap, both loops over the fields, all pairs of strings |
| `play_music` | day of 3 hours of 10 minutes, play of 5: a play reaches into the quiet minutes and past them | all lists of up to two items, both kinds of day |
| `raw_udp` | words of 16 values, so that sums carry; contents of 0 to 5 bytes, odd and even | all pairs of addresses, both families, both ways of sending |
| `sftp_dir` | three entries, three prompts: a first, a middle and a last one | every offer, every refusal, loss of the connection at any moment |
| `ambient_service` | two capabilities, lists of up to three tokens: repeated, invalid and -1 in every place; `-s` none, once and twice | every start of the capability sets, then both processes of the test in every interleaving, stdout a terminal or not, standard input open or not |
| `raw6_link` | others send when nothing is under way, so up to three packets are; two in the socket; lengths of 3, 43, 44 and 5000 lie on either side of what the server looks at and of its buffer | loss, repetition and reordering, every failure |
| `programs` | none | `Sched`, `FlowLabel`, `RawBind`, `AceSignal`, each on its own |

What the properties of the newer runs show:

- `ImplementsLineStream`: whatever the interleaving of parent, child, buffer, pipe and
  kills, and in spite of a `waitpid` that never works, the parent takes each line once and in
  order, and with blocking reads stops only when the child is gone and nothing is left.
- `ClaimsNoMoreThanSent`, `ArrivesAsFirst`: the IPv6 length that `rawall.c` never brings up to
  date is too small, never too large, so the second packet is not dropped; the kernel cuts it
  to the first one's 520 bytes.
- `SendersOwnPorts`: both pairs of ports in a line about one of the sender's packets are read
  from that packet, since what is left of it after the cut reaches over both. The datagram
  comes without its IPv6 header, so the pair behind 40 bytes is content; after a short
  datagram of another host it is an older datagram's.
- `SettingInStep`: a failed setsockopt leaves program and kernel apart, the next success
  brings them together.
- `RawReachesService`: both processes of the test are refused raw sockets exactly when the
  launcher was not asked for `CAP_NET_RAW` and had not inherited it.
- `FlagLineCopies`: for each `-s` the line about it appears once on a terminal and otherwise
  once for each process that came out of fork.
- `NoPassSurvives`, `PromptedNeverFaults`: with `-n` and without `-t` a single signal neither
  kills nor stops the process; and if every signal is sent at the prompt while the child
  lives, no id of an ended or not yet known thread is used. A signal before the prompt or
  after the child's end can meet one.
- `EpollEnds` ends with the process or, for a signal that stops by default, with a stopped
  one: nobody has to continue it.
- `InBounds`: headers, integers and addresses are read within what was received and within
  the buffer, also when the datagram was longer. It says nothing of the text of `RTA_SRC`.
- `OrderKept`, `VersionsAgree`: at every distance up to a whole turn.
- `Nested`: resources are given back in order and completely, except after a failed opendir.
- `OnlyParentServes`, `FaultsContained`, `FaultingThreadsEnd`, `SignalShowsStatus`,
  `ArrivalEnds`, `NoAddressTaken`: as the comments in the modules say.
- `SentRight`, `HelpersAgree`: what goes out has its length and adds up, but for the text
  of the iovec branch, and is accepted, but for a checksum of zero over IPv6; `csum()`
  gives what `Checksum()` gives, `ipv4_header_checksum()` leaves a header that adds up, and
  the `checksum2` functions store the plain sum with its bytes swapped.
- `WrapsInPlace`, `PJWIsELF`, `OneCharTells`: see the list above.

Two runs end with a violation. Each states what the repository says and shows that the
code does something else:

- `fgets_detected`: `waitpid` refuses `WNOHANG | WEXITED`, and the -1 is taken for the end
  of the child (`c/fgets/main.c:121`, `kb/fgets.md:14`).
- `netlink_dst`: with `-a` the address is parsed from the option (`c/netlink/getroute.c:180`).

Other disagreements met while modelling. The models contain the behaviour, no run is
spent on it:

- `c/signal/main.c:151`: `pthread_create` fails with a positive number, the test is `< 0`, and
  main goes on with an id that was never set. `pause()` in the child (line 52) may wait for
  ever with `-n` when the main thread takes the signal.
- `c/raw6/rawudp.c:195`: with `-v` the checksum is that of the zero buffer, while the text is
  sent from elsewhere; a receiver refuses it. `-l` (line 62) takes lengths beyond the buffer.
- `c/common/header.h:210`, `:232`: a sum of all ones leaves a checksum of zero, which should
  be sent as all ones. Over IPv4 it means that there is no checksum, over IPv6 the datagram
  is discarded.
- `c/libssh2/sftpdir.c:254`: after a failed opendir the session is freed while the SFTP session
  made from it is not shut down.
- `c/netlink/getroute.c:106`: `RTA_SRC` is an address and printed as a text, up to the next
  zero byte wherever that is.
- `ace/signal/main.cpp:123`: the results of `register_handler` are not looked at; without a
  handler the fault ends the process.
- `c/libssh2/sftpdir.c:299`: an error ends the listing as its end does; `:178`: a NULL list of
  methods is given to `strstr`.
- `python/playmusic.py:86`: a play that ends within its minute is started again.
- `c/raw4/rawbind.c:30`: the second socket's failure leaves the first one to the exit.
- `c/raw6/flowlabel.c:73` prints the flow information it sent, not what it received.
- `c/cap/main.c:48`: `-a` is handled and not in the list of options; `:74`: descriptor 0 counts
  as a failure; the service never counts (line 112).
- `c/signal/main.c:139` says that the signal is blocked while the handler runs, while
  `SA_NODEFER` leaves it open; `-t` with `-n` passes the signal on although `-n` is
  announced as "no pass".
- `c/fgets/main.c:55` wants the child to exit with its parent, but the parent may end
  before the child's `prctl`; with a zero in the uninitialised `chckpid` a first `fgets` that
  returns NULL makes the parent loop for ever.
- `c/tsn/main.c:14` quotes RFC 1982; at exactly half the range each number is less than
  the other, which the RFC excludes.
- `python/playmusic.py:72` wants the sirens' minutes avoided; a play begun before the hour
  goes on through them.
- `c/common/header.h:110` and its IPv6 twin lose the pseudo header; nothing calls them.
  "TODO: this depends on byte order" (line 93) is so on a big-endian host, for odd lengths.

## Fairness

Safety needs none. The liveness properties assume no more than this:

- the kernel schedules threads and processes that can run, delivers deliverable
  signals and expires timers (`SignalPass`, `FgetsPipe`, `NetlinkRoute`, whose `poll` has a
  timeout and whose `recvfrom` does not wait). Nobody has to send a signal, continue a
  stopped process or kill anything, and no system call has to succeed.
- the clock runs, and both loops of the music player come round (`PlayMusic`). A player's
  early end is never assumed, only the one its own time limit forces.
- the server answers what it was asked, by a refusal perhaps, or the connection is found
  lost (`SftpDir`). The code sets no timeout, so a server that is silent for ever would
  hold it for ever.
- the processes of `CapService`, `Sched`, `FlowLabel` and the threads of `AceSignal` are
  scheduled; nobody has to press a key, send a signal or send a datagram. In `AceSignal` a
  thread that waits for the log's lock gets it because the others log finitely often.
- `Raw6Link` states no liveness and assumes no fairness.

`CHECK_DEADLOCK FALSE` stands where a program ends, and in `SignalPass` also because a
child may pause for ever, in `FlowLabel` because a datagram may never come. `PlayMusic` never
stops and is checked for deadlock.

## Proofs

Each `...Proofs` module defines an inductive invariant for each specification it is about,
proves that the initial states satisfy it and every action keeps it, and from it the
theorems listed in `PROJECT.json`. They hold for every value of the constants. The runs
check the properties a theorem names on a small instance; the type invariants and
`Conservation`, `BlockingReadsAll`, `PauseEndsByHandler`, `SocketClosed`, `ScanAdvances`,
`AmbientOnlyGrows` and `LockHeldWhileLogging` are proved and no run is spent on them. The
only assumptions are those named in the component modules (sizes are natural numbers,
addresses have an even number of bytes, and so on).

- `SignalProofs`: `HandlerRunsOnce` and `PassedSignalKills` are not inductive. `InvInstall`
  ties the disposition to the number of entries; `InvHandler` gives at most one activation;
  `InvPassed` says that a passed signal is still pending and that a thread able to take it
  cannot leave before it does; `InvCount` accounts for each pending signal, which gives
  that only a second signal kills or stops (`KilledBySecondSignal`) and, with `InvNoPass`,
  `NoPassSurvives`; `InvJoin` ties the thread id to the child's life, and `InvPrompt` says
  that a signal sent at the prompt is taken before the child ends, so that the handler is
  done with the id before the join returns (`PromptedNeverFaults`). For `AceSignal`,
  `InvRegistered` and `InvStarted` say that each handler is there or was refused before a
  thread is started and what has been started at each place of the main thread;
  `LockHeldWhileLogging`, which gives that no handler waits for the thread it interrupted,
  is inductive with the places.
- `FgetsPipeProofs`: conservation and completeness of blocking reads are inductive together
  with the types and with the child not being there before fork (`NotForked`), on lemmas
  about concatenation. `Refinement` proves that `FgetsPipe` implements `LineStream`: a step
  of the child is a `Write`, a `WriterEnds` or nothing, one of the parent a `StartReading`,
  `Read`, `StopReading`, `GiveUp` or nothing; that the next line taken is the next of those
  written comes from conservation, that a blocking parent stops only at the end from
  completeness. `OutputOfWholeRun` needs to know what is where at each of the child's
  calls: nothing is in the pipe before the redirection (`InvRedirect`), a full buffer holds
  every line printed so far (`InvFullBuffer`), a line buffer none and the pipe those after
  dup2 (`InvLineBuffer`).
- `RawSocketProofs`: the sender's content is 512 or 2012 bytes in the loop while the header
  says 520 (`InvSender`), so everything under way from it claims 520 (`InvWire`) and so
  does what arrives, which reaches over both places the server looks at. Proved for any
  other hosts, any network and any size of the socket's buffer. For `RawBind`, `BindInv`
  says which sockets are open and which bound at each call.
- `NetlinkRouteProofs`: `InvScan` says that position and remainder add up to the datagram, in
  the inner scan to the message, though either remainder may be negative after an
  unaligned last part; the lemma `AlignUpGrows` carries bounds and progress. What is printed
  lies within its message with as much payload as is read.
- `ArithmeticProofs`, serial numbers: the difference of the wrapped counters is the true
  distance up to one wrap, and the difference of promoted integers is it up to one wrap
  again (`PromotedDifference`). Proved for every width, 16 and 32 bits included. Bit fields:
  in either loop the field is the rounds counted from its start, less whole turns of its
  size (`InvBits`); what it holds after a loop follows because the counter's size is a multiple
  of the field's.
- `ArithmeticProofs`, checksums: for every size of a byte, every pair of addresses and every
  content up to a word's length. The carry loop `Fold` has the closed form `Folded` (zero
  stays, any other x is reduced modulo W - 1 into 1..W - 1). Changing bytes changes a
  sum by their weighted difference (`TotalDiffers`, `FieldReplaced`); 32 bits never overflow
  (`NoOverflow`); so the checksum written over a zero field complements the rest
  (`ComplementVerifies`), and the same bytes summed in the other order give Base times the
  sum modulo W - 1, which is the sum with its bytes swapped (`OtherOrder`, `FoldedSums`). From
  these follow the theorems about each function of `header.h`, and about the program
  `SentRight` and `HelpersAgree`, with the invariant `InvUdp`: the buffer's header
  adds up with as many zero bytes as it was last built for, and everything on the wire was
  sent from such a header. What adds up is accepted unless it has a checksum of zero and
  came over IPv6 (`AddsUp`).
  Sums and carries are recursive functions. The induction they need is over a set in place
  of a predicate (`SetInduction`, `StrongSetInduction`): a set of numbers that is closed under
  the step contains all of them, since a least number outside would exist (`LeastNat`, from
  the well-foundedness of < in the library).
- `ArithmeticProofs`, string hashes: for every width of an unsigned int from 8 bits on and
  strings of any length. `InvHash` says that the hashes of equal strings are equal and
  those of strings with one difference differ, that RSHash's multiplier is odd, and that
  PJWHash and ELFHash have come to one number within the bits they keep. Before % M the
  four multiplying hashes are m * hash + c modulo a power of two with m odd (`TimesAdd`,
  `DJBLinear`, `SDBMLinear`); an odd factor divides out of a multiple of a power of two
  (`OddCancels`, by induction on the power), and two characters are less than a word apart,
  so neither kind of difference is lost (`OddMultiplier`). For PJW and ELF: a word made of
  bits has those bits (`BitsBack`), `HighBits` are the upper eighth (`HighBitsFacts`), and
  what was found there, shifted down by three quarters, does not reach them again
  (`ShiftedDown`); so masking with ~HighBits and with ~x clears the same bits
  (`OneFunction`).
- `PlayMusicProofs`: an idle `detect()` sleeps only in a minute in which nothing is due.
- `SftpDirProofs`: `InvHeld` says what is held at each call, `InvLast` that the SFTP session is
  held past its calls only after a failed opendir, `InvCall` when an answer can be
  under way, `InvLogin` what a positive answer to a login means, `InvListing` that sent and
  printed differ by the one entry under way.
- `AmbientCapsProofs`: the ambient set is the inherited one and the part of the list already
  done; the lemma `DoneIsAsked` turns this into what was asked for at a -1 or the end. In
  `AmbientService` the launcher's steps are those of `AmbientCaps` and the service's leave its
  state alone (`ServiceLaunches`), so the launcher's invariant carries over; `ServiceInv` adds
  what each process of the service knows, and where the copies of the lines about `-s` are:
  all in the parent's buffer, or all out, before fork (`BeforeFork`), and as many afterwards as
  before, or twice as many.

Only model-checked: the liveness properties, `OnlyParentServes`, `ArrivalEnds`,
`SignalShowsStatus` and `FaultingThreadsEnd` among them (the prover has no support for
fairness).

## Not modelled, and why

Logging, the text of messages and the format of a listing. In `NetlinkRoute`, which
attributes are printed and how, and attributes printed as an integer or address that are
shorter than one, which the kernel does not send. In `RawUdp`, content lengths beyond the
buffer of 4096 bytes. In `AmbientCaps`, programs with file capabilities of their own and
the rules for root. In `Raw6Link`, fragmentation: a packet too long for the link is a
failed or lost send. In `CapService`, every printed line but those about `-s`, which fork
can double, and so many of them that stdio's buffer is full. In `SftpDir`,
`libssh2_session_disconnect()` is one step: it sends and waits for no answer.
`ace/udpdgram/iovec.cpp` is a straight line of library calls, and `c++/tls` two threads
with variables that the language itself keeps apart. `c/filefds/main.c` calls a function
without its argument at line 82 and does not compile; `c/setrlimit`, `c/sockbuf`,
`c/udpSendData`, `c/sctp`, `c/malloc`, `c/bss` and `c/stack` print what kernel or allocator
answer and keep no state. Demonstrations of single language features, scripts that only
start other commands, Makefiles, notes, and the libssh2 headers, which are third-party.

## Plan

Done, in order of weight: signal, fgets with its refinement, netlink, tsn, playmusic,
rawudp, sftpdir, ambient with the test service it starts, sender and server over IPv6, the
small programs, bit fields and hashes.

Proved: the safety invariants of every run.

Next, in proofs:

- an abstract login session and `SftpDir` as its refinement.
