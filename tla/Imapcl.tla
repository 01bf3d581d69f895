-------------------------------- MODULE Imapcl --------------------------------
(***************************************************************************)
(* The whole program: main() and the read-eval-print loop of Client drive  *)
(* a Session, whose receiver thread reads what an IMAP server writes.      *)
(*                                                                         *)
(* The actions of Session are used as they are; this module says who calls *)
(* which of them when, and what travels between the session and a server.  *)
(* The server is not part of the repository: it answers one command after  *)
(* the other as the code expects a server to, and may also say something   *)
(* unasked, close the connection, or reset it.                             *)
(***************************************************************************)
EXTENDS Session, SequencesExt

CONSTANTS
    Interactive,   \* -i
    OnlyUnseen,    \* -n
    MailboxName,   \* -b
    Mail,          \* the messages of each mailbox
    Undated,       \* the messages without a Date header
    FaultSets,     \* the faults that may occur together: see Fault
    MaxInputs,     \* lines the user types before ^D
    MaxNoise,      \* responses the server sends unasked
    MaxPieces      \* chunks in which the rest of a torn response comes

(* leave: the server closes the connection unasked, with or without a BYE; *)
(* reset: the connection is reset, recv() fails; preauth: the server greets *)
(* with PREAUTH; torn: a chunk brings the first byte of a response alone,  *)
(* or ends with a CRLF in the middle of a message (see Receiver);          *)
(* latestart: the receiver thread does not run before the first wait has   *)
(* expired.                                                                *)
Fault == {"leave", "reset", "preauth", "torn", "latestart"}

ASSUME ProgramAssumption ==
    /\ Interactive \in BOOLEAN /\ OnlyUnseen \in BOOLEAN
    /\ FaultSets \subseteq SUBSET Fault
    /\ MailboxName \in Mailboxes
    /\ Mail \in [Mailboxes -> SUBSET Messages]
    /\ \A mb \in Mailboxes : IsFiniteSet(Mail[mb])
    /\ Undated \subseteq Messages
    /\ MaxInputs \in Nat /\ MaxNoise \in Nat
    /\ MaxPieces \in Nat \ {0}

VARIABLES
    at,         \* the statement of main() or of Client the main thread is at
    job,        \* the REPL command in progress
    seqset,     \* seq_set
    saved,      \* the messages written to the output directory
    exitcode,   \* what main() returns
    astray,     \* a command was given up after it was sent, or QUIT was typed
    inputs,     \* how many lines were typed
    faults,     \* what may go wrong, of FaultSets
    link,       \* the connection: open, closed or reset by the server
    greeted,    \* the server has sent its greeting
    selected,   \* the mailbox the server has selected
    hits,       \* what the server answered to the last SEARCH
    inbox,      \* commands on their way to the server
    wire,       \* responses on their way to the client
    noise,      \* how many responses were sent unasked
    thr,        \* the receiver thread
    stopped     \* Receiver::stopped

programVars == <<at, job, seqset, saved, exitcode, astray, inputs>>
serverVars  == <<faults, link, greeted, selected, hits, noise>>
netVars     == <<inbox, wire>>
threadVars  == <<thr, stopped>>
allVars     == <<vars, programVars, serverVars, netVars, threadVars>>

Startup == {"greeting", "login", "select", "search", "fetch"}
Place   == Startup \cup {"save", "prompt", "input", "cselect", "csearch", "cfetch",
                         "csave", "cread", "quit", "eof", "return", "join",
                         "exit", "abort"}

Verb == {"DOWNLOADNEW", "DOWNLOADALL", "READNEW", "QUIT", "HELP"}

ProgramInit ==
    /\ Init
    /\ at = "greeting"
    /\ job = [verb |-> "HELP", mb |-> NoMailbox]
    /\ seqset = {} /\ saved = {}
    /\ exitcode = 0
    /\ astray = FALSE
    /\ inputs = 0
    /\ faults \in FaultSets
    /\ link = "open"
    /\ greeted = FALSE
    /\ selected = NoMailbox
    /\ hits = {}
    /\ inbox = <<>> /\ wire = <<>>
    /\ noise = 0
    /\ thr = "starting"
    /\ stopped = FALSE

Dead == at = "abort" \/ pc = "crashed"
-----------------------------------------------------------------------------
(* The main thread: main() from receive_greeting on, and Client. *)

\* What send() does with a command that was not refused: a connection the
\* server gave up swallows it, or kills the process with SIGPIPE.
Transmit ==
    LET sent == pc' # "idle" /\ cmd'.op # "greeting"
    IN  \/ (~sent \/ link # "open") /\ UNCHANGED <<inbox, at>>
        \/ sent /\ link = "open" /\ inbox' = Append(inbox, cmd') /\ UNCHANGED at
        \/ sent /\ link # "open" /\ at' = "abort" /\ UNCHANGED inbox

CallSession ==
    /\ ~Dead
    /\ outcome = "none"
    /\ \/ at = "greeting" /\ ReceiveGreeting
       \/ at = "login"    /\ Login
       \/ at = "select"   /\ Select(MailboxName)
       \/ at = "search"   /\ Search(OnlyUnseen)
       \/ at = "cselect"  /\ Select(job.mb)
       \/ at = "csearch"  /\ Search(job.verb = "DOWNLOADNEW")
       \/ at \in {"fetch", "cfetch"} /\ Fetch(seqset)
       \/ at = "cread"    /\ Read(seqset)
       \/ at \in {"quit", "eof"} /\ Logout
    /\ Transmit
    /\ UNCHANGED <<job, seqset, saved, exitcode, astray, inputs, wire,
                   serverVars, threadVars>>

\* The statement at p has returned normally, or has thrown.
Returned(p) == at = p /\ pc = "idle" /\ outcome = "returned"
Threw(p)    == at = p /\ pc = "idle" /\ outcome \notin {"none", "returned"}

Goto(p) ==
    /\ at' = p
    /\ outcome' = "none"
    /\ UNCHANGED exitcode

Return(code) ==
    /\ at' = "return"
    /\ exitcode' = code
    /\ outcome' = "none"

\* Mutant: a call that failed is tried again.
StartupRetries ==
    /\ \E p \in Startup : Threw(p) /\ Goto(p)
    /\ UNCHANGED seqset

\* Nothing catches an exception of the three interactive start-up calls.
StartupThrows ==
    /\ \E p \in Startup : Threw(p)
    /\ \/ Interactive /\ Goto("abort")
       \/ ~Interactive /\ Return(1)
    /\ UNCHANGED seqset

StartupReturns ==
    \/ Returned("greeting") /\ Goto("login") /\ UNCHANGED seqset
    \/ Returned("login") /\ Goto("select") /\ UNCHANGED seqset
    \/ /\ Returned("select")
       /\ Goto(IF Interactive THEN "prompt" ELSE "search")
       /\ UNCHANGED seqset
    \/ /\ Returned("search")
       /\ seqset' \in found
       /\ IF seqset' = {} THEN Return(0) ELSE Goto("fetch")
    \/ /\ Returned("fetch")
       /\ IF fetched = <<>> THEN Return(0) ELSE Goto("save")
       /\ UNCHANGED seqset

\* save_messages writes one file after the other; a message without a Date
\* header, or a file that cannot be opened, ends it with an exception.
Dated(text) == text # {} /\ text \cap Undated = {}

SaveFirst(n) ==
    /\ \A i \in 1..n : Dated(fetched[i])
    /\ saved' = saved \cup UNION {fetched[i] : i \in 1..n}

\* Mutant: the exception of save_messages does not change the exit code.
SaveAndForget ==
    /\ at = "save" /\ pc = "idle"
    /\ \E n \in 0..Len(fetched) : SaveFirst(n) /\ Return(0)
    /\ UNCHANGED <<job, seqset, astray, inputs>>

\* Mutant: the exit code is the number of messages.
SaveAndCount ==
    /\ at = "save" /\ pc = "idle"
    /\ \E n \in 0..Len(fetched) : SaveFirst(n) /\ Return(Len(fetched))
    /\ UNCHANGED <<job, seqset, astray, inputs>>

SaveMessages ==
    /\ at = "save" /\ pc = "idle"
    /\ \E n \in 0..Len(fetched) :
          SaveFirst(n) /\ Return(IF n = Len(fetched) THEN 0 ELSE 1)
    /\ UNCHANGED <<job, seqset, astray, inputs>>

MainContinues ==
    /\ StartupReturns \/ StartupThrows
    /\ UNCHANGED <<job, saved, astray, inputs>>

\* The loop ends when it finds that the server said BYE.
Prompt ==
    /\ at = "prompt"
    /\ IF state = "SERVER_BYED" THEN Return(0) ELSE Goto("input")
    /\ UNCHANGED <<job, seqset, saved, astray, inputs>>

\* process_command: the first call each command makes.
FirstCall(j) ==
    CASE j.verb = "HELP" -> "prompt"
      [] j.verb = "QUIT" -> "quit"
      [] OTHER           -> IF j.mb = NoMailbox THEN "csearch" ELSE "cselect"

ReadLine ==
    /\ at = "input"
    /\ inputs < MaxInputs
    /\ inputs' = inputs + 1
    /\ \E v \in Verb, mb \in Mailboxes \cup {NoMailbox} :
          /\ v \in {"HELP", "QUIT"} => mb = NoMailbox
          /\ job' = [verb |-> v, mb |-> mb]
          /\ Goto(FirstCall(job'))
    /\ UNCHANGED <<seqset, saved, astray>>

EndOfInput ==
    /\ at = "input"
    /\ Goto("eof")
    /\ UNCHANGED <<job, seqset, saved, astray, inputs>>

\* Mutant: their exceptions are logged and forgotten as well.
CommandGoesOn ==
    /\ \E p \in {"cselect", "csearch", "quit", "eof"} : Threw(p)
    /\ Goto("prompt")
    /\ UNCHANGED <<seqset, saved, astray>>

\* select, search and logout are called outside the try blocks of Client:
\* their exceptions end the loop.
CommandThrows ==
    /\ \E p \in {"cselect", "csearch", "quit", "eof"} : Threw(p)
    /\ Return(1)
    /\ UNCHANGED <<seqset, saved, astray>>

\* The exceptions of fetch, save_messages and read are logged and forgotten.
CommandSwallows ==
    /\ \E p \in {"cfetch", "cread"} : Threw(p)
    /\ Goto("prompt")
    /\ astray' = (astray \/ outcome # "refused")
    /\ UNCHANGED <<seqset, saved>>

CommandReturns ==
    /\ \/ Returned("cselect") /\ Goto("csearch") /\ UNCHANGED <<seqset, astray>>
       \/ /\ Returned("csearch")
          /\ seqset' \in found
          /\ Goto(IF job.verb = "READNEW" THEN "cread"
                  ELSE IF seqset' = {} THEN "prompt" ELSE "cfetch")
          /\ UNCHANGED astray
       \/ Returned("cfetch") /\ Goto("csave") /\ UNCHANGED <<seqset, astray>>
       \/ Returned("cread") /\ Goto("prompt") /\ UNCHANGED <<seqset, astray>>
       \/ Returned("quit") /\ Goto("prompt") /\ astray' = TRUE /\ UNCHANGED seqset
       \/ Returned("eof") /\ Return(0) /\ UNCHANGED <<seqset, astray>>
    /\ UNCHANGED saved

CommandSaves ==
    /\ at = "csave" /\ pc = "idle"
    /\ \E n \in 0..Len(fetched) : SaveFirst(n)
    /\ Goto("prompt")
    /\ UNCHANGED <<seqset, astray>>

ClientContinues ==
    /\ CommandThrows \/ CommandSwallows \/ CommandReturns \/ CommandSaves
    /\ UNCHANGED <<job, inputs>>

\* Mutant: the receiver is joined without being stopped.
JoinOnly ==
    /\ at = "return"
    /\ Goto("join")
    /\ UNCHANGED <<job, seqset, saved, astray, inputs, threadVars>>

\* The destructors: ~Server stops the receiver and joins its thread.
Stop ==
    /\ at = "return"
    /\ stopped' = TRUE
    /\ Goto("join")
    /\ UNCHANGED <<job, seqset, saved, astray, inputs, thr>>

Join ==
    /\ at = "join"
    /\ thr = "ended"
    /\ Goto("exit")
    /\ UNCHANGED <<job, seqset, saved, astray, inputs, threadVars>>

\* What stays as it is outside the calls.
Outside == UNCHANGED <<sharedVars, tag, mailbox, cmd, resp, found, fetched, pc,
                       expired, rpc, serverVars, netVars>>

Program ==
    /\ ~Dead
    /\ \/ /\ MainContinues \/ SaveMessages \/ ClientContinues \/ Prompt
          /\ UNCHANGED threadVars
       \/ Stop \/ Join
    /\ Outside

User ==
    /\ ~Dead
    /\ ReadLine \/ EndOfInput
    /\ UNCHANGED threadVars
    /\ Outside

\* The inside of a call.
SessionStep ==
    /\ ~Dead
    /\ MainStep
    /\ UNCHANGED <<programVars, serverVars, netVars, threadVars>>

WakesForNothing ==
    /\ ~Dead
    /\ SpuriousWakeup
    /\ UNCHANGED <<programVars, serverVars, netVars, threadVars>>

WaitExpires ==
    /\ ~Dead
    /\ thr # "starting" \/ "latestart" \in faults
    /\ Expire
    /\ UNCHANGED <<programVars, serverVars, netVars, threadVars>>
-----------------------------------------------------------------------------
(* The receiver thread: Receiver::receive, one response at a time. *)

ThreadStarts ==
    /\ ~Dead
    /\ thr = "starting"
    /\ thr' = "running"
    /\ stopped' = FALSE
    /\ UNCHANGED <<vars, programVars, serverVars, netVars>>

\* What the parser throws at.
Junk == [type |-> "JUNK"]

\* A response, or what is left of one whose tag was cut.
Whole(r) == r.type # "JUNK" /\ r.tag # CutTag

(* The parser has thrown at the first chunk of r, and the chunk is gone.   *)
(* The rest will not be understood either, in however many chunks it comes;*)
(* but where only characters of a longer tag are gone, it is a response.   *)
Remains(r) ==
    LET junk(n) == [i \in 1..n |-> Junk]
        cut     == Tagged(r.type, CutTag)
        isLong  == r.tag = LoginTag \/ r.tag >= 10
    IN  {junk(n) : n \in 1..MaxPieces}
        \cup {Append(junk(n - 1), cut) : n \in {k \in 1..MaxPieces : isLong}}

\* What follows junk in the same chunk is dropped with it.
ReceiveResponse ==
    /\ ~Dead
    /\ thr = "running"
    /\ wire # <<>>
    /\ \/ /\ "torn" \in faults /\ Whole(Head(wire)) /\ MarkFailed
          /\ \E rest \in Remains(Head(wire)) : wire' = rest \o Tail(wire)
       \/ /\ Head(wire).type = "JUNK" /\ MarkFailed
          /\ \E n \in 1..Len(wire) : wire' = SubSeq(wire, n + 1, Len(wire))
       \/ Head(wire).type = "BYE" /\ NotifyBye /\ wire' = Tail(wire)
       \/ /\ Head(wire).type \notin {"JUNK", "BYE"} /\ NotifyIncoming(Head(wire))
          /\ wire' = Tail(wire)
    /\ UNCHANGED <<programVars, serverVars, inbox, threadVars>>

\* recv() returns 0, or it times out and the loop finds stopped set.
ReceiveNothing ==
    /\ ~Dead
    /\ thr = "running" /\ rpc = "idle"
    /\ wire = <<>>
    /\ link = "closed" \/ (link = "open" /\ stopped)
    /\ stopped' = TRUE
    /\ thr' = "ended"
    /\ UNCHANGED <<vars, programVars, serverVars, netVars>>

\* recv() fails: the callback is the last thing the thread does.
ReceiveFails ==
    /\ ~Dead
    /\ thr = "running"
    /\ wire = <<>>
    /\ link = "reset"
    /\ MarkFailed
    /\ thr' = "failing"
    /\ UNCHANGED <<programVars, serverVars, netVars, stopped>>

CallbackStep ==
    /\ ~Dead
    /\ ReceiverStep
    /\ thr' = IF thr = "failing" THEN "ended" ELSE thr
    /\ UNCHANGED <<programVars, serverVars, netVars, stopped>>

Thread == ThreadStarts \/ ReceiveResponse \/ ReceiveNothing \/ ReceiveFails
            \/ CallbackStep
-----------------------------------------------------------------------------
(* The server. *)

\* A PREAUTH greeting is parsed by parse_greeting, which leaves the CRLF
\* behind for the next round of parse_next.
Greet ==
    /\ link = "open" /\ ~greeted
    /\ greeted' = TRUE
    /\ \/ wire' = <<Untagged("OK", {})>> /\ UNCHANGED link
       \/ /\ "preauth" \in faults
          /\ wire' = <<Untagged("PREAUTH", {}), Junk>>
          /\ UNCHANGED link
       \/ /\ "leave" \in faults
          /\ wire' = <<Untagged("BYE", {})>>
          /\ link' = "closed"
    /\ UNCHANGED <<selected, hits, inbox, noise>>

\* The answers to command c: the responses, and the server's new selected, hits
\* and link.
Reply(rs, mb, h, l) == [rs |-> rs, selected |-> mb, hits |-> h, link |-> l]

\* The FETCH responses to a FETCH of the texts of set, and to a STORE to set.
Texts(set) ==
    [i \in 1..Cardinality(set) |-> Untagged("FETCH", {SetToSeq(set)[i]})]

Flags(set) == [i \in 1..Cardinality(set) |-> Untagged("FETCH", {})]

Answers(c) ==
    LET ok       == Tagged("OK", c.tag)
        same(rs) == Reply(rs, selected, hits, "open")
        here     == Mail[selected]
    IN CASE c.op = "login" ->
              {same(<<Tagged(type, c.tag)>>) : type \in {"OK", "BAD"}}
         [] c.op = "select" ->
              {Reply(<<Untagged("OTHER", {}), ok>>, c.mb, hits, "open"),
               Reply(<<Tagged("NO", c.tag)>>, NoMailbox, hits, "open")}
         [] c.op = "logout" ->
              {Reply(<<Untagged("BYE", {}), ok>>, NoMailbox, hits, "closed")}
         [] c.op \in {"search", "fetch", "read"} /\ selected = NoMailbox ->
              {same(<<Tagged("BAD", c.tag)>>)}
         [] c.op = "search" /\ selected # NoMailbox ->
              {Reply(<<Untagged("SEARCH", h), ok>>, selected, h, "open") :
                  h \in IF c.unseen THEN SUBSET here ELSE {here}}
         [] c.op = "fetch" /\ selected # NoMailbox ->
              {same(Append(Texts(c.set \cap here), ok))}
         [] c.op = "read" /\ selected # NoMailbox ->
              {same(Append(Flags(c.set \cap here), ok))}

Answer ==
    /\ link = "open" /\ greeted
    /\ inbox # <<>>
    /\ \E a \in Answers(Head(inbox)) :
          /\ wire' = wire \o a.rs
          /\ selected' = a.selected
          /\ hits' = a.hits
          /\ link' = a.link
    /\ inbox' = Tail(inbox)
    /\ UNCHANGED <<greeted, noise>>

\* EXISTS and FLAGS updates of a mailbox others use as well.
Unasked ==
    /\ link = "open" /\ greeted
    /\ noise < MaxNoise
    /\ noise' = noise + 1
    /\ \E type \in {"OTHER", "FETCH"} : wire' = Append(wire, Untagged(type, {}))
    /\ UNCHANGED <<link, greeted, selected, hits, inbox>>

\* The server says BYE and leaves, leaves without a word, or resets.
Leave ==
    /\ link = "open"
    /\ wire' \in {wire, Append(wire, Untagged("BYE", {}))}
    /\ \/ "leave" \in faults /\ link' = "closed"
       \/ "reset" \in faults /\ link' = "reset"
    /\ UNCHANGED <<greeted, selected, hits, inbox, noise>>

Server ==
    /\ Greet \/ Answer \/ Unasked \/ Leave
    /\ UNCHANGED <<vars, programVars, threadVars, faults>>
-----------------------------------------------------------------------------
ProgramNext ==
    \/ CallSession \/ Program \/ User \/ SessionStep
    \/ WakesForNothing \/ WaitExpires
    \/ Thread \/ Server

ProgramSpec == ProgramInit /\ [][ProgramNext]_allVars

(* The main thread and the receiver thread run, and the deadline comes.    *)
(* Nothing is assumed of the server, and the user need not type.           *)
ProgramFairness ==
    /\ WF_allVars(CallSession)
    /\ WF_allVars(Program)
    /\ WF_allVars(SessionStep)
    /\ SF_allVars(WaitExpires)
    /\ WF_allVars(Thread)

FairProgramSpec == ProgramSpec /\ ProgramFairness
-----------------------------------------------------------------------------
ProgramTypeOK ==
    /\ TypeOK
    /\ at \in Place
    /\ job \in [verb : Verb, mb : Mailboxes \cup {NoMailbox}]
    /\ seqset \subseteq Messages /\ saved \subseteq Messages
    /\ exitcode \in {0, 1}
    /\ astray \in BOOLEAN
    /\ inputs \in 0..MaxInputs
    /\ faults \in FaultSets
    /\ link \in {"open", "closed", "reset"}
    /\ greeted \in BOOLEAN
    /\ selected \in Mailboxes \cup {NoMailbox}
    /\ hits \subseteq Messages
    /\ inbox \in Seq(Command)
    /\ wire \in Seq(Response \cup {Junk})
    /\ noise \in 0..MaxNoise
    /\ thr \in {"starting", "running", "failing", "ended"}
    /\ stopped \in BOOLEAN

(* Where a response is torn and the connection is reset, RECEIVER_ERROR,   *)
(* SERVER_BYED and RECEIVER_ERROR may follow each other between the two    *)
(* checks of wait_for_response, and a call whose reply was torn goes on as *)
(* if it had not been (run lost_message).                                  *)
Mangled == "torn" \in faults /\ link = "reset"

(* No tag is ever compared after login, yet as long as no exception was    *)
(* swallowed and QUIT not typed, the tagged response that ends a call is   *)
(* the one to its own command, never a leftover of an earlier one.         *)
Accepts == pc = "handle" /\ pc' = "idle" /\ outcome' = "returned"

OwnReply ==
    [][Accepts /\ cmd.op \in {"login", "select", "search", "fetch"}
         /\ ~astray /\ ~Mangled => resp.tag = cmd.tag]_allVars

(* main returns 0 in batch mode only when exactly what the server found    *)
(* was written to the output directory, unless a response was torn and the *)
(* connection reset as well.                                               *)
SuccessMeansSaved ==
    ~Interactive /\ at = "exit" /\ exitcode = 0 => saved = hits \/ Mangled

(* Whenever the prompt shows a selected mailbox, it is the one the server  *)
(* has selected, unless an exception was swallowed before.                 *)
MailboxAgrees ==
    at \in {"prompt", "input"} /\ state = "SELECTED" /\ ~astray /\ link = "open"
        => mailbox = selected

(* SEARCH, FETCH and STORE name no mailbox: one that reaches the server    *)
(* finds selected there what current_mailbox says, so that state was       *)
(* SELECTED because the server had granted that very SELECT, unless an     *)
(* exception was swallowed before.                                         *)
CommandsMeetTheirMailbox ==
    \A i \in 1..Len(inbox) :
        inbox[i].op \in {"search", "fetch", "read"} /\ ~astray /\ link = "open"
            => selected = mailbox /\ mailbox # NoMailbox

(* The program runs into undefined behaviour only after it went astray, or *)
(* its connection was reset, or when one more failure, of the reply to its *)
(* LOGOUT, replaces the BYE in front of it.                                *)
NoCrash ==
    pc = "crashed" => \/ astray
                      \/ link = "reset"
                      \/ "torn" \in faults /\ at \in {"quit", "eof"}

(* Batch mode always ends: with an exit code, or killed by SIGPIPE or by   *)
(* undefined behaviour.                                                    *)
Ended == at \in {"exit", "abort"} \/ pc = "crashed"
Terminates == <>Ended

(* Batch mode implements the promise of Download, whose break is a reset   *)
(* where responses may also be torn.                                       *)
Stage ==
    IF Dead \/ (at \in {"return", "join", "exit"} /\ exitcode = 1) THEN "failed"
    ELSE IF at \in {"return", "join", "exit"} THEN "done" ELSE at

Promise == INSTANCE Download WITH stage <- Stage, wanted <- seqset, broken <- Mangled
ImplementsDownload == Promise!Spec
-----------------------------------------------------------------------------
(* What the repository says of the program and the code does not do.       *)

(* doc/main.tex:339 QUIT prints "Logout.": a logout that the server        *)
(* grants is not reported as a connection the server broke off.            *)
LogoutSucceeds == [][cmd.op = "logout" => outcome' # "byed"]_allVars

(* session.cpp:314 "Result:     OK - fetch completed": when fetch took an OK *)
(* and main returned 0, what the server found was saved.                   *)
FetchCompletes == ~Interactive /\ at = "exit" /\ exitcode = 0 => saved = hits

(* session.cpp:233 "OK - select completed, now in selected state": the     *)
(* mailbox that select records is the one that the server has selected.    *)
SelectCompletes == [][cmd.op = "select" /\ Accepts => selected = cmd.mb]_allVars

(* session.cpp:271 "REQUIRED untagged response: SEARCH", "OK - search      *)
(* completed": a search that took an OK has a SEARCH response to look at,  *)
(* after a READNEW too, which leaves its OK behind.                        *)
SearchHasResponse == [][cmd.op = "search" /\ pc = "handle" => pc' # "crashed"]_allVars

(* doc/main.tex:220 "it is possible to stop the receiver thread at any     *)
(* time": a stopped thread ends.                                           *)
StopEndsThread == at = "join" ~> thr = "ended"
=============================================================================
