-------------------------------- MODULE SftpDir --------------------------------
(***************************************************************************)
(* c/libssh2/sftpdir.c: connects to an SSH server, logs in by the first    *)
(* method the server offers (or the one the fifth argument asks for),      *)
(* lists a directory over SFTP and takes everything down again. The client *)
(* blocks in each libssh2 call until the server's answer is there or the   *)
(* connection is lost. Server and library are external: they are known     *)
(* through what the calls return.                                          *)
(***************************************************************************)
EXTENDS Naturals

CONSTANTS MaxEntries,  \* bound: entries in the directory
          MaxRounds    \* bound: prompts of one keyboard-interactive login

ASSUME SftpAssumption == MaxEntries \in Nat /\ MaxRounds \in Nat

Methods   == {"password", "keyboard-interactive", "publickey"}   \* auth_pw bits 1, 2, 4
Resources == {"lib", "sock", "session", "sftp_session", "sftp_handle"}
Blocking  == {"handshake", "list", "auth", "sftp_init", "opendir", "readdir", "closedir",
              "sftp_shutdown"}

VARIABLES
  pc,           \* the libssh2 call main() is at
  argv5,        \* the method -p, -i or -k asks for, or "none"
  auth_pw,      \* the methods still open to the client
  held,         \* resources main() holds
  printed,      \* how many entries were printed
  rc,           \* main()'s result, or "none"
  dirRefused,   \* history: libssh2_sftp_opendir() failed
  waiting,      \* the client has sent the request of this call and blocks
  answer,       \* what is on its way back, or "none"
  connected,    \* the TCP connection is up
  offered,      \* the server: the methods it offers, or {"null"} for no list at all
  accepted,     \* the server: the user is let in
  rounds, unanswered,  \* the server: prompts so far; one of them got no response
  entries, sent        \* the server: the directory's size; entries handed out

call   == <<waiting, answer>>
server == <<offered, accepted, rounds, unanswered, entries, sent>>
vars   == <<pc, argv5, auth_pw, held, printed, rc, dirRefused, call, connected, server>>

TypeOK ==
  /\ pc \in Blocking \cup {"libssh2_init", "connect", "session_init", "choose", "disconnect",
             "free", "close", "libssh2_exit", "exit", "crash"}
  /\ argv5 \in Methods \cup {"none"} /\ auth_pw \subseteq Methods
  /\ held \subseteq Resources
  /\ printed \in 0..MaxEntries
  /\ rc \in {"none", "0", "1", "-1"}
  /\ dirRefused \in BOOLEAN
  /\ waiting \in BOOLEAN
  /\ answer \in {"none", "ok", "error", "end", "prompt", "prompts"}
  /\ connected \in BOOLEAN
  /\ offered \subseteq Methods \/ offered = {"null"}
  /\ accepted \in BOOLEAN /\ rounds \in 0..MaxRounds /\ unanswered \in BOOLEAN
  /\ entries \in 0..MaxEntries /\ sent \in 0..MaxEntries

Init ==
  /\ pc = "libssh2_init"
  /\ argv5 \in Methods \cup {"none"} /\ auth_pw = {}
  /\ held = {} /\ printed = 0 /\ rc = "none" /\ dirRefused = FALSE
  /\ waiting = FALSE /\ answer = "none" /\ connected = FALSE
  /\ offered \in (SUBSET Methods) \cup {{"null"}}
  /\ accepted = FALSE /\ rounds = 0 /\ unanswered = FALSE
  /\ entries \in 0..MaxEntries /\ sent = 0

\* Password before keyboard-interactive before public key.
Method ==
  IF "password" \in auth_pw THEN "password"
  ELSE IF "keyboard-interactive" \in auth_pw THEN "keyboard-interactive" ELSE "publickey"

-----------------------------------------------------------------------------
(* The server and the network                                              *)

\* Any call may be refused.
Refuse == answer' = "error" /\ UNCHANGED <<accepted, rounds, sent>>

Grant ==
  /\ pc \notin {"auth", "readdir"}
  /\ answer' = "ok" /\ UNCHANGED <<accepted, rounds, sent>>

\* With the keyboard there has been a prompt, and none was left without a response.
LetIn ==
  /\ pc = "auth"
  /\ Method = "keyboard-interactive" => rounds > 0 /\ ~unanswered
  /\ answer' = "ok" /\ accepted' = TRUE
  /\ UNCHANGED <<rounds, sent>>

\* A request with one prompt (or none, which asks for nothing), or one with several.
Prompt ==
  /\ pc = "auth" /\ Method = "keyboard-interactive" /\ rounds < MaxRounds
  /\ answer' \in {"prompt", "prompts"} /\ rounds' = rounds + 1
  /\ UNCHANGED <<accepted, sent>>

\* The next name of the directory, or its end.
NextName ==
  /\ pc = "readdir"
  /\ IF sent < entries THEN answer' = "ok" /\ sent' = sent + 1
                       ELSE answer' = "end" /\ UNCHANGED sent
  /\ UNCHANGED <<accepted, rounds>>

Server ==
  /\ connected /\ waiting /\ answer = "none"
  /\ Refuse \/ Grant \/ LetIn \/ Prompt \/ NextName
  /\ UNCHANGED <<pc, argv5, auth_pw, held, printed, rc, dirRefused, waiting, connected,
                 offered, unanswered, entries>>

\* The connection breaks; an answer under way is lost or has arrived just before.
Loss ==
  /\ connected /\ connected' = FALSE
  /\ answer' \in {answer, "none"}
  /\ UNCHANGED <<pc, argv5, auth_pw, held, printed, rc, dirRefused, waiting, server>>

-----------------------------------------------------------------------------
(* main(): steps that do not wait for the server                           *)

\* One step from a call to the next, holding h after it.
Step(from, to, h) ==
  /\ pc = from /\ pc' = to /\ held' = h
  /\ UNCHANGED <<argv5, printed, dirRefused, call, server>>

Return(from, n) == Step(from, "exit", held) /\ rc' = n /\ UNCHANGED <<auth_pw, connected>>

\* libssh2_init; socket() and connect(), where a failed socket() shows; session_init.
Acquire ==
  \/ /\ \/ Step("libssh2_init", "connect", {"lib"})
        \/ Step("session_init", "handshake", held \cup {"session"})
     /\ UNCHANGED <<auth_pw, connected, rc>>
  \/ /\ Step("connect", "session_init", held \cup {"sock"})
     /\ connected' = TRUE /\ UNCHANGED <<auth_pw, rc>>

\* Failures before there is something to shut down: main() returns at once.
EarlyReturn ==
  Return("libssh2_init", "1") \/ Return("connect", "-1") \/ Return("session_init", "-1")

\* "if we got an 5. argument we set this option if supported"
Asked == IF argv5 \in auth_pw THEN {argv5} ELSE auth_pw

Choose ==
  /\ Step("choose", IF auth_pw = {} THEN "disconnect" ELSE "auth", held)
  /\ auth_pw' = Asked
  /\ UNCHANGED <<connected, rc>>

\* publickey_fromfile fails without a request when it cannot read the key files.
KeyFilesMissing ==
  /\ ~waiting /\ Method = "publickey"
  /\ Step("auth", "disconnect", held)
  /\ UNCHANGED <<auth_pw, connected, rc>>

\* Faulty variant: close() comes before session_free().
ReleaseSockFirst(from, what, to) ==
  Step(from, to, held \ {CASE what = "session" -> "sock" [] what = "sock" -> "session"
                          [] OTHER -> what})

\* A call that gives a resource back.
Release(from, what, to) == Step(from, to, held \ {what})

\* From the label shutdown on. session_disconnect() sends and waits for no answer.
Shutdown ==
  /\ \/ Step("disconnect", "free", held)
     \/ Release("free", "session", "close")
     \/ Release("close", "sock", "libssh2_exit")
     \/ Release("libssh2_exit", "lib", "exit")
  /\ connected' = (connected /\ pc # "close")
  /\ rc' = IF pc = "libssh2_exit" THEN "0" ELSE rc
  /\ UNCHANGED auth_pw

-----------------------------------------------------------------------------
(* main(): calls that block                                                *)

Call ==
  /\ pc \in Blocking /\ ~waiting
  /\ waiting' = TRUE /\ answer' = "none"
  /\ UNCHANGED <<pc, argv5, auth_pw, held, printed, rc, dirRefused, connected, server>>

\* The call returns with an answer, or fails because the connection is lost.
Returns(at, got, to, h) ==
  /\ pc = at /\ waiting
  /\ \/ answer = got
     \/ got = "error" /\ answer = "none" /\ ~connected
  /\ waiting' = FALSE /\ answer' = "none"
  /\ pc' = to /\ held' = h
  /\ UNCHANGED <<argv5, connected, server>>

Handshake ==
  /\ \/ Returns("handshake", "ok", "list", held) /\ UNCHANGED rc
     \/ Returns("handshake", "error", "exit", held) /\ rc' = "-1"
  /\ UNCHANGED <<auth_pw, printed, dirRefused>>

\* Without a list (an error, or a server that needs no login) strstr() is given NULL.
UserauthList ==
  /\ \/ offered # {"null"} /\ Returns("list", "ok", "choose", held) /\ auth_pw' = offered
     \/ offered = {"null"} /\ Returns("list", "ok", "crash", held) /\ UNCHANGED auth_pw
     \/ Returns("list", "error", "crash", held) /\ UNCHANGED auth_pw
  /\ UNCHANGED <<printed, rc, dirRefused>>

\* kbd_callback gives the password to a request with one prompt and nothing to several.
KbdCallback ==
  /\ waiting /\ answer \in {"prompt", "prompts"}
  /\ answer' = "none"
  /\ unanswered' = (unanswered \/ answer = "prompts")
  /\ UNCHANGED <<pc, argv5, auth_pw, held, printed, rc, dirRefused, waiting, connected,
                 offered, accepted, rounds, entries, sent>>

\* Faulty variant: the result of the login not looked at.
LoginFailedGoOn == "sftp_init"

\* Authentication by ... failed: goto shutdown.
LoginFailed == "disconnect"

\* libssh2_sftp_init, libssh2_sftp_opendir: goto shutdown on failure, past sftp_shutdown().
Login ==
  /\ \/ Returns("auth", "ok", "sftp_init", held)
     \/ Returns("auth", "error", LoginFailed, held)
     \/ Returns("sftp_init", "ok", "opendir", held \cup {"sftp_session"})
     \/ Returns("sftp_init", "error", "disconnect", held)
     \/ Returns("opendir", "ok", "readdir", held \cup {"sftp_handle"})
     \/ Returns("opendir", "error", "disconnect", held)
  /\ dirRefused' = (pc = "opendir" /\ pc' = "disconnect")
  /\ UNCHANGED <<auth_pw, printed, rc>>

\* Faulty variant: an entry without a long name is not printed.
PrintsSome == printed' \in {printed, printed + 1}

\* Every entry is printed, by its long name or by its attributes and name.
Prints == printed' = printed + 1

\* Faulty variant: an error is taken for an entry that cannot be shown.
AfterErrorGoOn == "readdir"

\* "loop until we fail": an error ends the loop as the end of the directory does.
AfterError == "closedir"

Readdir ==
  /\ \/ Returns("readdir", "ok", "readdir", held) /\ Prints
     \/ /\ \/ Returns("readdir", "end", "closedir", held)
           \/ Returns("readdir", "error", AfterError, held)
        /\ UNCHANGED printed
  /\ UNCHANGED <<auth_pw, rc, dirRefused>>

\* Both ask the server; the results are not looked at.
CloseSftp ==
  /\ \E got \in {"ok", "error"} :
       \/ Returns("closedir", got, "sftp_shutdown", held \ {"sftp_handle"})
       \/ Returns("sftp_shutdown", got, "disconnect", held \ {"sftp_session"})
  /\ UNCHANGED <<auth_pw, printed, rc, dirRefused>>

-----------------------------------------------------------------------------
Client ==
  \/ Acquire \/ EarlyReturn \/ Choose \/ KeyFilesMissing \/ Shutdown
  \/ Call \/ Handshake \/ UserauthList \/ KbdCallback \/ Login \/ Readdir \/ CloseSftp

Next == Client \/ Server \/ Loss

\* The client runs; the server answers what it is asked, or the connection is lost.
Spec == Init /\ [][Next]_vars /\ WF_vars(Client) /\ WF_vars(Server)

-----------------------------------------------------------------------------
(* Properties                                                              *)

\* Nothing is given back while something made from it is still to be given back, also when
\* the server goes away in the middle, and a run to the end gives back everything; with one
\* exception: after a failed opendir the session is freed under the SFTP session, which then
\* is never given back.
Nested ==
  /\ "sftp_handle" \in held => "sftp_session" \in held
  /\ "sftp_session" \in held => "session" \in held \/ dirRefused
  /\ "session" \in held => "sock" \in held
  /\ "sock" \in held => "lib" \in held
  /\ pc \in Blocking => "session" \in held
  /\ pc \in {"opendir", "readdir", "closedir", "sftp_shutdown"} => "sftp_session" \in held
  /\ rc = "0" => held = IF dirRefused THEN {"sftp_session"} ELSE {}

\* The SFTP part is entered only by a user the server has let in, by a method it offered.
OnlyAfterLogin ==
  pc \in {"sftp_init", "opendir", "readdir", "closedir", "sftp_shutdown"} =>
    accepted /\ Method \in offered

\* Every entry handed out and received is printed, once: of what the server sent only an
\* answer that is under way, or was lost with the connection, is missing.
ListingComplete ==
  /\ printed <= sent /\ sent <= printed + 1
  /\ connected /\ sent = printed + 1 => pc = "readdir" /\ waiting /\ answer = "ok"

\* The program ends, whatever the server refuses and whenever the connection is lost.
Ends == <>(pc \in {"exit", "crash"})

=============================================================================
