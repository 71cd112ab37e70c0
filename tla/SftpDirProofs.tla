----------------------------- MODULE SftpDirProofs -----------------------------
(***************************************************************************)
(* Proofs about SftpDir for directories and logins of every length.        *)
(***************************************************************************)
EXTENDS SftpDir, TLAPS

\* What main() holds at each of its calls, and what it no longer holds.
InvHeld ==
  /\ pc \notin {"libssh2_init", "exit"} => "lib" \in held
  /\ pc \notin {"libssh2_init", "connect", "libssh2_exit", "exit"} => "sock" \in held
  /\ pc \in Blocking \cup {"choose", "disconnect", "free"} =>
       "session" \in held
  /\ pc \in {"close", "libssh2_exit"} => "session" \notin held
  /\ pc = "libssh2_exit" => "sock" \notin held
  /\ pc = "sftp_shutdown" => "sftp_handle" \notin held

\* The SFTP session outlives its calls only after a failed opendir.
Last == {"disconnect", "free", "close", "libssh2_exit"}
InvLast ==
  /\ dirRefused => pc \in Last \cup {"exit"}
  /\ "sftp_handle" \in held => pc \in {"readdir", "closedir"}
  /\ "sftp_session" \in held =>
       pc \in {"opendir", "readdir", "closedir", "sftp_shutdown"} \/ dirRefused
  /\ pc \in Last /\ dirRefused => "sftp_session" \in held
  /\ rc # "none" => pc = "exit"

\* An answer belongs to the blocking call the client is waiting in.
InvCall ==
  /\ answer # "none" => waiting
  /\ waiting => pc \in Blocking

\* The methods left to the client are the server's, and an "ok" to a login is the server's
\* word that it let the user in.
InvLogin ==
  /\ pc \in {"choose", "auth", "sftp_init", "opendir", "readdir", "closedir",
             "sftp_shutdown"} => auth_pw \subseteq offered
  /\ pc \in {"auth", "sftp_init", "opendir", "readdir", "closedir", "sftp_shutdown"} =>
       auth_pw # {}
  /\ pc = "auth" /\ answer = "ok" => accepted

\* Entries handed out and entries printed differ by the one answer under way or lost.
InvListing ==
  /\ sent <= entries
  /\ sent = printed \/ sent = printed + 1
  /\ pc = "readdir" /\ answer = "ok" => sent = printed + 1
  /\ pc \in {"libssh2_init", "connect"} => sent = printed

IInv ==
  /\ TypeOK
  /\ InvHeld
  /\ InvLast
  /\ InvCall
  /\ InvLogin
  /\ InvListing
  /\ Nested
  /\ OnlyAfterLogin
  /\ ListingComplete

\* One step of client, server or network preserves the types.
LEMMA TypeStep == IInv /\ [Next]_vars => TypeOK'
<1> SUFFICES ASSUME IInv, [Next]_vars PROVE TypeOK'
  OBVIOUS
<1> USE SftpAssumption DEF IInv, TypeOK, Blocking, Resources, call, server
<1>1. CASE Acquire
  <2>1. connected' \in BOOLEAN /\ held' \subseteq Resources
    BY <1>1 DEF Acquire, Step
  <2> QED
    BY <1>1, <2>1 DEF Acquire, Step
<1>2. CASE EarlyReturn
  BY <1>2, ZenonT(40) DEF EarlyReturn, Return, Step
<1>3. CASE Choose
  BY <1>3 DEF Choose, Step, Asked
<1>4. CASE KeyFilesMissing
  BY <1>4 DEF KeyFilesMissing, Step
<1>5. CASE Shutdown
  BY <1>5, ZenonT(40) DEF Shutdown, Release, Step
<1>6. CASE Call
  BY <1>6 DEF Call
<1>7. CASE Handshake
  BY <1>7 DEF Handshake, Returns
<1>8. CASE UserauthList
  BY <1>8 DEF UserauthList, Returns
<1>9. CASE KbdCallback
  BY <1>9 DEF KbdCallback
<1>10. CASE Login
  <2>1. dirRefused' \in BOOLEAN
    BY <1>10 DEF Login
  <2>2. pc' \in Blocking \cup {"disconnect"} /\ held' \subseteq Resources
    BY <1>10 DEF Login, Returns, LoginFailed
  <2>3. /\ waiting' = FALSE /\ answer' = "none"
        /\ UNCHANGED <<argv5, auth_pw, printed, rc, connected, server>>
    BY <1>10 DEF Login, Returns
  <2> QED
    BY <2>1, <2>2, <2>3
<1>11. CASE Readdir
  BY <1>11 DEF Readdir, Returns, Prints, AfterError, InvListing
<1>12. CASE Server
  <2>1. accepted' \in BOOLEAN
    BY <1>12 DEF Server, Refuse, Grant, LetIn, Prompt, NextName
  <2>2. rounds' \in 0..MaxRounds /\ sent' \in 0..MaxEntries
    BY <1>12 DEF Server, Refuse, Grant, LetIn, Prompt, NextName
  <2>3. answer' \in {"none", "ok", "error", "end", "prompt", "prompts"}
    BY <1>12 DEF Server, Refuse, Grant, LetIn, Prompt, NextName
  <2> QED
    BY <1>12, <2>1, <2>2, <2>3 DEF Server
<1>13. CASE Loss
  <2>1. connected' \in BOOLEAN
    BY <1>13 DEF Loss
  <2> QED
    BY <1>13, <2>1 DEF Loss
<1>14. CASE UNCHANGED vars
  BY <1>14 DEF vars
<1>15. CASE CloseSftp
  BY <1>15 DEF CloseSftp, Returns
<1> QED
  BY <1>1, <1>2, <1>3, <1>4, <1>5, <1>6, <1>7, <1>8, <1>9, <1>10, <1>11, <1>12, <1>13,
     <1>14, <1>15 DEF Next, Client

\* One step preserves what is known of the resources.
LEMMA HeldStep == IInv /\ [Next]_vars => InvHeld' /\ InvLast'
<1> SUFFICES ASSUME IInv, [Next]_vars PROVE InvHeld' /\ InvLast'
  OBVIOUS
<1> USE DEF IInv, InvHeld, InvLast, Last, Nested, Blocking, call, server
<1>1. CASE Acquire
  BY <1>1 DEF Acquire, Step
<1>2. CASE EarlyReturn
  BY <1>2 DEF EarlyReturn, Return, Step
<1>3. CASE Choose
  BY <1>3 DEF Choose, Step
<1>4. CASE KeyFilesMissing
  BY <1>4 DEF KeyFilesMissing, Step
<1>5. CASE Shutdown
  BY <1>5 DEF Shutdown, Release, Step
<1>6. CASE Call
  BY <1>6 DEF Call
<1>7. CASE Handshake
  BY <1>7 DEF Handshake, Returns
<1>8. CASE UserauthList
  BY <1>8 DEF UserauthList, Returns
<1>9. CASE KbdCallback
  BY <1>9 DEF KbdCallback
<1>10. CASE Login
  BY <1>10 DEF Login, Returns, LoginFailed
<1>11. CASE Readdir
  BY <1>11 DEF Readdir, Returns, AfterError
<1>12. CASE Server
  BY <1>12 DEF Server
<1>13. CASE Loss
  BY <1>13 DEF Loss
<1>14. CASE UNCHANGED vars
  BY <1>14 DEF vars
<1>15. CASE CloseSftp
  BY <1>15 DEF CloseSftp, Returns
<1> QED
  BY <1>1, <1>2, <1>3, <1>4, <1>5, <1>6, <1>7, <1>8, <1>9, <1>10, <1>11, <1>12, <1>13,
     <1>14, <1>15 DEF Next, Client

\* The order of release is what the invariant says of one state, but for the end: there it
\* takes the last step.
LEMMA NestedStep == IInv /\ [Next]_vars => Nested'
<1> SUFFICES ASSUME IInv, [Next]_vars PROVE Nested'
  OBVIOUS
<1> USE DEF IInv, InvHeld, InvLast, Last, Nested, Blocking, call, server
<1>0. TypeOK' /\ InvHeld' /\ InvLast'
  BY TypeStep, HeldStep
<1>1. CASE Acquire
  BY <1>1 DEF Acquire, Step
<1>2. CASE EarlyReturn
  BY <1>2 DEF EarlyReturn, Return, Step
<1>3. CASE Choose
  BY <1>3 DEF Choose, Step
<1>4. CASE KeyFilesMissing
  BY <1>4 DEF KeyFilesMissing, Step
<1>5. CASE Shutdown
  <2>1. CASE pc = "libssh2_exit"
    <3>1. held' = held \ {"lib"} /\ dirRefused' = dirRefused /\ pc' = "exit"
      BY <1>5, <2>1 DEF Shutdown, Release, Step
    <3>2. /\ held \subseteq Resources /\ "session" \notin held /\ "sock" \notin held
          /\ "sftp_handle" \notin held /\ ("sftp_session" \in held <=> dirRefused)
      BY <2>1 DEF TypeOK
    <3>3. held' = IF dirRefused' THEN {"sftp_session"} ELSE {}
      BY ONLY <3>1, <3>2 DEF Resources
    <3> QED
      BY <3>1, <3>2, <3>3
  <2>2. CASE pc # "libssh2_exit"
    <3>1. rc' = rc /\ rc = "none"
      BY <1>5, <2>2 DEF Shutdown, Release, Step
    <3> QED
      BY <1>0, <1>5, <2>2, <3>1 DEF Shutdown, Release, Step
  <2> QED
    BY <2>1, <2>2
<1>6. CASE Call
  BY <1>6 DEF Call
<1>7. CASE Handshake
  BY <1>7 DEF Handshake, Returns
<1>8. CASE UserauthList
  BY <1>8 DEF UserauthList, Returns
<1>9. CASE KbdCallback
  BY <1>9 DEF KbdCallback
<1>10. CASE Login
  BY <1>10 DEF Login, Returns, LoginFailed
<1>11. CASE Readdir
  BY <1>11 DEF Readdir, Returns, AfterError
<1>12. CASE Server
  BY <1>12 DEF Server
<1>13. CASE Loss
  BY <1>13 DEF Loss
<1>14. CASE UNCHANGED vars
  BY <1>14 DEF vars
<1>15. CASE CloseSftp
  BY <1>15 DEF CloseSftp, Returns
<1> QED
  BY <1>1, <1>2, <1>3, <1>4, <1>5, <1>6, <1>7, <1>8, <1>9, <1>10, <1>11, <1>12, <1>13,
     <1>14, <1>15 DEF Next, Client

\* One step preserves what is known of calls and login.
LEMMA LoginStep == IInv /\ [Next]_vars => InvCall' /\ InvLogin' /\ OnlyAfterLogin'
<1> SUFFICES ASSUME IInv, [Next]_vars PROVE InvCall' /\ InvLogin' /\ OnlyAfterLogin'
  OBVIOUS
<1>0. TypeOK'
  BY TypeStep
<1> USE DEF IInv, InvCall, InvLogin, Blocking, call, server
<1>a. InvCall' /\ InvLogin'
  <2>1. CASE Acquire
    BY <2>1 DEF Acquire, Step
  <2>2. CASE EarlyReturn
    BY <2>2 DEF EarlyReturn, Return, Step
  <2>3. CASE Choose
    <3>1. auth_pw' \subseteq offered' /\ (auth_pw # {} => auth_pw' # {})
      BY <2>3 DEF Choose, Step, Asked
    <3> QED
      BY <2>3, <3>1 DEF Choose, Step
  <2>4. CASE KeyFilesMissing
    BY <2>4 DEF KeyFilesMissing, Step
  <2>5. CASE Shutdown
    BY <2>5 DEF Shutdown, Release, Step
  <2>6. CASE Call
    BY <2>6 DEF Call
  <2>7. CASE Handshake
    BY <2>7 DEF Handshake, Returns
  <2>8. CASE UserauthList
    BY <2>8 DEF UserauthList, Returns
  <2>9. CASE KbdCallback
    BY <2>9 DEF KbdCallback
  <2>10. CASE Login
    BY <2>10 DEF Login, Returns, LoginFailed
  <2>11. CASE Readdir
    BY <2>11 DEF Readdir, Returns, AfterError
  <2>12. CASE Server
    BY <2>12 DEF Server, Refuse, Grant, LetIn, Prompt, NextName
  <2>13. CASE Loss
    BY <2>13 DEF Loss
  <2>14. CASE UNCHANGED vars
    BY <2>14 DEF vars
  <2>15. CASE CloseSftp
    BY <2>15 DEF CloseSftp, Returns
  <2> QED
    BY <2>1, <2>2, <2>3, <2>4, <2>5, <2>6, <2>7, <2>8, <2>9, <2>10, <2>11, <2>12, <2>13,
       <2>14, <2>15 DEF Next, Client
<1>b. pc' \in {"sftp_init", "opendir", "readdir", "closedir", "sftp_shutdown"} => accepted'
  BY DEF OnlyAfterLogin, TypeOK, Next, Client, vars, Acquire, EarlyReturn, Return, Choose,
         KeyFilesMissing, Shutdown, Release, Step, Call, Handshake, UserauthList,
         KbdCallback, Login, LoginFailed, Readdir, AfterError, CloseSftp, Returns, Server, Refuse,
         Grant, LetIn, Prompt, NextName, Loss
<1>c. pc' \in {"sftp_init", "opendir", "readdir", "closedir", "sftp_shutdown"} =>
        Method' \in offered'
  BY <1>0, <1>a DEF TypeOK, Method, Methods
<1> QED
  BY <1>a, <1>b, <1>c DEF OnlyAfterLogin

\* One step preserves what is known of the listing.
LEMMA ListingStep == IInv /\ [Next]_vars => InvListing' /\ ListingComplete'
<1> SUFFICES ASSUME IInv, [Next]_vars PROVE InvListing' /\ ListingComplete'
  OBVIOUS
<1> USE SftpAssumption
        DEF IInv, TypeOK, InvCall, InvListing, ListingComplete, Blocking, call, server
<1>1. CASE Acquire
  BY <1>1 DEF Acquire, Step
<1>2. CASE EarlyReturn
  BY <1>2 DEF EarlyReturn, Return, Step
<1>3. CASE Choose
  BY <1>3 DEF Choose, Step
<1>4. CASE KeyFilesMissing
  BY <1>4 DEF KeyFilesMissing, Step
<1>5. CASE Shutdown
  BY <1>5 DEF Shutdown, Release, Step
<1>6. CASE Call
  BY <1>6 DEF Call
<1>7. CASE Handshake
  BY <1>7 DEF Handshake, Returns
<1>8. CASE UserauthList
  BY <1>8 DEF UserauthList, Returns
<1>9. CASE KbdCallback
  BY <1>9 DEF KbdCallback
<1>10. CASE Login
  BY <1>10 DEF Login, Returns, LoginFailed
<1>11. CASE Readdir
  BY <1>11 DEF Readdir, Returns, Prints, AfterError
<1>12. CASE Server
  BY <1>12 DEF Server, Refuse, Grant, LetIn, Prompt, NextName
<1>13. CASE Loss
  BY <1>13 DEF Loss
<1>14. CASE UNCHANGED vars
  BY <1>14 DEF vars
<1>15. CASE CloseSftp
  BY <1>15 DEF CloseSftp, Returns
<1> QED
  BY <1>1, <1>2, <1>3, <1>4, <1>5, <1>6, <1>7, <1>8, <1>9, <1>10, <1>11, <1>12, <1>13,
     <1>14, <1>15 DEF Next, Client

\* The inductive invariant holds of every reachable state.
THEOREM Invariance == Spec => []IInv
<1>1. Init => IInv
  <2> SUFFICES ASSUME Init PROVE IInv
    OBVIOUS
  <2>1. TypeOK
    <3>1. offered \subseteq Methods \/ offered = {"null"}
      BY DEF Init
    <3>2. waiting \in BOOLEAN /\ connected \in BOOLEAN /\ accepted \in BOOLEAN
            /\ dirRefused \in BOOLEAN
            /\ unanswered \in BOOLEAN /\ argv5 \in Methods \cup {"none"}
      BY DEF Init
    <3>3. printed \in 0..MaxEntries /\ rounds \in 0..MaxRounds
            /\ entries \in 0..MaxEntries /\ sent \in 0..MaxEntries
      BY SftpAssumption DEF Init
    <3>4. auth_pw \subseteq Methods /\ held \subseteq Resources
      BY DEF Init
    <3> QED
      BY <3>1, <3>2, <3>3, <3>4 DEF Init, TypeOK, Blocking
  <2>2. InvHeld /\ InvLast /\ InvCall /\ InvLogin /\ Nested /\ OnlyAfterLogin
    BY DEF Init, InvHeld, InvLast, InvCall, InvLogin, Nested, OnlyAfterLogin, Blocking
  <2>3. InvListing /\ ListingComplete
    BY SftpAssumption DEF Init, InvListing, ListingComplete
  <2> QED
    BY <2>1, <2>2, <2>3 DEF IInv
<1>2. IInv /\ [Next]_vars => IInv'
  BY TypeStep, HeldStep, NestedStep, LoginStep, ListingStep DEF IInv
<1> QED
  BY <1>1, <1>2, PTL DEF Spec

\* Type correctness, for directories and logins of any length.
THEOREM TypeCorrect == Spec => []TypeOK
<1>1. IInv => TypeOK
  BY DEF IInv
<1> QED
  BY <1>1, Invariance, PTL

\* main() gives its resources back in an order that leaves nothing without its ground, and all
\* of them at its end, whichever call fails, but for the SFTP session after a failed opendir.
THEOREM ReleasedInOrder == Spec => []Nested
<1>1. IInv => Nested
  BY DEF IInv
<1> QED
  BY <1>1, Invariance, PTL

\* The SFTP calls are made only after the server has accepted a login it offered.
THEOREM LoginFirst == Spec => []OnlyAfterLogin
<1>1. IInv => OnlyAfterLogin
  BY DEF IInv
<1> QED
  BY <1>1, Invariance, PTL

\* Every entry received is printed once.
THEOREM ListingPrinted == Spec => []ListingComplete
<1>1. IInv => ListingComplete
  BY DEF IInv
<1> QED
  BY <1>1, Invariance, PTL

=============================================================================
