---------------------------- MODULE ImapclProofs ----------------------------
(***************************************************************************)
(* The program as a whole is type correct, and the session it drives keeps *)
(* its safety properties, for every mode, every mailbox, every server that *)
(* behaves as Imapcl says, and every interleaving of the two threads.      *)
(*                                                                         *)
(* The inductive invariant joins the one of Session with what the place of *)
(* the main thread says about the call in progress.                        *)
(***************************************************************************)
EXTENDS Imapcl, SessionProofs, SequenceTheorems, FunctionTheorems,
        FiniteSetTheorems

\* The operation of Session that is called at place p is op.
Calls(p, op) ==
    \/ p = op /\ op \in {"greeting", "login", "select", "search", "fetch"}
    \/ p = "cselect" /\ op = "select"
    \/ p = "csearch" /\ op = "search"
    \/ p = "cfetch"  /\ op = "fetch"
    \/ p = "cread"   /\ op = "read"
    \/ p \in {"quit", "eof"} /\ op = "logout"

CallPlace == Startup \cup {"cselect", "csearch", "cfetch", "cread", "quit", "eof"}

(* The call in progress, or just ended, is the one its place makes; a      *)
(* login() after PREAUTH returns without having been one.                  *)
CallInv ==
    /\ at = "cselect" => job.mb \in Mailboxes
    /\ at = "greeting" => outcome # "refused"
    /\ pc # "idle" => at = "abort" \/ Calls(at, cmd.op)
    /\ outcome \notin {"none", "refused"} =>
          \/ Calls(at, cmd.op)
          \/ at = "login" /\ outcome = "returned"
    /\ at \notin CallPlace => outcome = "none" /\ (at # "abort" => pc = "idle")

\* The places of the two modes, and of both.
ModeInv ==
    /\ Interactive => at \notin {"search", "fetch", "save"}
    /\ ~Interactive =>
          at \in Startup \cup {"save", "return", "join", "exit", "abort"}

\* What is on its way to the server are commands it knows.
InboxInv == \A i \in 1..Len(inbox) :
    /\ inbox[i].op # "greeting" /\ inbox[i].tag \in Nat
    /\ inbox[i].op = "select" => inbox[i].mb \in Mailboxes

\* The types of what Imapcl adds to the session.
ProgramVarsOK ==
    /\ at \in Place
    /\ job \in [verb : Verb, mb : Mailboxes \cup {NoMailbox}]
    /\ seqset \subseteq Messages /\ saved \subseteq Messages
    /\ exitcode \in {0, 1} /\ astray \in BOOLEAN /\ inputs \in 0..MaxInputs

ServerVarsOK ==
    /\ faults \in FaultSets
    /\ link \in {"open", "closed", "reset"}
    /\ greeted \in BOOLEAN
    /\ selected \in Mailboxes \cup {NoMailbox}
    /\ hits \subseteq Messages
    /\ noise \in 0..MaxNoise

NetVarsOK == inbox \in Seq(Command) /\ wire \in Seq(Response \cup {Junk})

ThreadVarsOK ==
    /\ thr \in {"starting", "running", "failing", "ended"}
    /\ stopped \in BOOLEAN

PInv ==
    /\ IInv
    /\ ProgramVarsOK /\ ServerVarsOK /\ NetVarsOK /\ ThreadVarsOK
    /\ CallInv /\ ModeInv /\ InboxInv

LEMMA PInvType == PInv => ProgramTypeOK
BY DEF PInv, IInv, ProgramTypeOK, ProgramVarsOK, ServerVarsOK, NetVarsOK,
       ThreadVarsOK
-----------------------------------------------------------------------------
LEMMA InitPInv == ProgramInit => PInv
<1> SUFFICES ASSUME ProgramInit PROVE PInv
  OBVIOUS
<1>1. IInv
  BY InitIInv DEF ProgramInit
<1>0. MaxInputs \in Nat /\ MaxNoise \in Nat
  BY ProgramAssumption
<1>2. ProgramVarsOK
  <2>1. at \in Place
    BY DEF ProgramInit, Place, Startup
  <2>2. job \in [verb : Verb, mb : Mailboxes \cup {NoMailbox}]
    BY DEF ProgramInit, Verb
  <2>3. astray \in BOOLEAN
    BY DEF ProgramInit
  <2>4. seqset \subseteq Messages /\ saved \subseteq Messages /\ exitcode \in {0, 1}
        /\ inputs \in 0..MaxInputs
    BY <1>0 DEF ProgramInit
  <2>5. QED BY <2>1, <2>2, <2>3, <2>4 DEF ProgramVarsOK
<1>3. ServerVarsOK
  <2>1. greeted \in BOOLEAN
    BY DEF ProgramInit
  <2>2. /\ faults \in FaultSets /\ link \in {"open", "closed", "reset"}
        /\ selected \in Mailboxes \cup {NoMailbox} /\ hits \subseteq Messages
        /\ noise \in 0..MaxNoise
    BY <1>0 DEF ProgramInit
  <2>3. QED BY <2>1, <2>2 DEF ServerVarsOK
<1>3a. ThreadVarsOK
  BY DEF ProgramInit, ThreadVarsOK
<1>3b. NetVarsOK
  BY DEF ProgramInit, NetVarsOK
<1>4. CallInv /\ ModeInv /\ InboxInv
  BY DEF ProgramInit, Init, CallInv, CallPlace, Startup, ModeInv, InboxInv
<1>5. QED BY <1>1, <1>2, <1>3, <1>3a, <1>3b, <1>4 DEF PInv
-----------------------------------------------------------------------------
(* Calls.  Every call either ends at once, with nothing sent, or sends the *)
(* command of its place and goes on to wait.                               *)

Unsent ==
    /\ pc' = "idle" /\ outcome' \in {"refused", "returned"}
    /\ outcome' = "returned" => at = "login" /\ state = "AUTHD"
    /\ outcome' = "refused" => at \notin {"greeting", "quit", "eof"}
    /\ UNCHANGED <<cmd, found, fetched, inbox, at>>

\* What the command sent from place at has to say.
Commanded(c) ==
    /\ c \in Command /\ Calls(at, c.op)
    /\ c.op = "select" => c.mb \in Mailboxes
    /\ c.op \in {"fetch", "read"} => c.set = seqset
    /\ c.op \in {"search", "fetch", "read"} => state = "SELECTED"
    /\ c.op = "login" => c.tag = LoginTag
    /\ c.op \notin {"greeting", "login"} => c.tag \in Nat

Sent ==
    /\ pc' = IF cmd'.op = "logout" THEN "mark" ELSE "lock"
    /\ outcome' = "none" /\ found' = {} /\ fetched' = <<>>
    /\ Commanded(cmd')
    /\ \/ cmd'.op = "greeting" /\ UNCHANGED <<inbox, at>>
       \/ /\ cmd'.op # "greeting" /\ link = "open"
          /\ inbox' = Append(inbox, cmd') /\ UNCHANGED at
       \/ /\ cmd'.op # "greeting" /\ link # "open"
          /\ at' \in {at, "abort"} /\ UNCHANGED inbox

LEMMA AwaitSent ==
    ASSUME NEW c, NEW next, Await(c, next), Transmit, Commanded(c),
           next = IF c.op = "logout" THEN "mark" ELSE "lock"
    PROVE  Sent
<1>1. cmd' = c /\ pc' = next /\ outcome' = "none" /\ found' = {} /\ fetched' = <<>>
      /\ next = IF c.op = "logout" THEN "mark" ELSE "lock"
  BY DEF Await
<1>2. Commanded(cmd')
  BY <1>1 DEF Commanded
<1>3. pc' # "idle"
  BY <1>1
<1>4. CASE cmd'.op = "greeting"
  BY <1>1, <1>2, <1>3, <1>4 DEF Transmit, Sent
<1>5. CASE cmd'.op # "greeting" /\ link = "open"
  BY <1>1, <1>2, <1>3, <1>5 DEF Transmit, Sent
<1>6. CASE cmd'.op # "greeting" /\ link # "open"
  BY <1>1, <1>2, <1>3, <1>6 DEF Transmit, Sent
<1>7. QED BY <1>4, <1>5, <1>6

LEMMA SendSent ==
    ASSUME IInv, NEW c \in Command, NEW next, Send(c, next), Transmit,
           Calls(at, c.op), c.op \notin {"greeting", "login"},
           c.op = "select" => c.mb \in Mailboxes,
           c.op \in {"fetch", "read"} => c.set = seqset,
           c.op \in {"search", "fetch", "read"} => state = "SELECTED",
           next = IF c.op = "logout" THEN "mark" ELSE "lock"
    PROVE  Sent
<1> DEFINE d == [c EXCEPT !.tag = tag]
<1>1. tag \in Nat /\ Await(d, next)
  BY DEF Send, IInv, TypeOK
<1>2. /\ d \in Command /\ d.op = c.op /\ d.mb = c.mb /\ d.set = c.set /\ d.tag = tag
  BY <1>1 DEF Command, Tags
<1> HIDE DEF d
<1>3. Commanded(d)
  BY <1>1, <1>2 DEF Commanded
<1>4. next = IF d.op = "logout" THEN "mark" ELSE "lock"
  BY <1>2
<1>5. QED BY <1>1, <1>3, <1>4, AwaitSent

LEMMA SendSetSent ==
    ASSUME IInv, NEW c \in Command, SendSet(c), Transmit, Calls(at, c.op),
           c.op \in {"fetch", "read"}, c.set = seqset, state = "SELECTED"
    PROVE  Sent \/ Unsent
<1>1. CASE Send(c, "lock")
  BY <1>1, SendSent
<1>2. CASE ~Send(c, "lock")
  BY <1>2 DEF SendSet, Finish, Transmit, Unsent, Calls
<1>3. QED BY <1>1, <1>2

LEMMA RefuseUnsent ==
    ASSUME Refuse, Transmit, at \notin {"greeting", "quit", "eof"} PROVE Unsent
BY DEF Refuse, Finish, Transmit, Unsent

\* What a call leaves alone, whether or not it sends.
CallFrame ==
    /\ pc = "idle" /\ outcome = "none" /\ ~Dead
    /\ at \in CallPlace
    /\ UNCHANGED <<sharedVars, mailbox, resp, expired, rpc, job, seqset, saved,
                   exitcode, astray, inputs, wire, serverVars, threadVars>>

LEMMA CallEffect == ASSUME PInv, CallSession PROVE CallFrame /\ (Sent \/ Unsent)
<1> USE DEF PInv
<1>1. ~Dead /\ outcome = "none" /\ Transmit
      /\ UNCHANGED <<job, seqset, saved, exitcode, astray, inputs, wire,
                     serverVars, threadVars>>
  BY DEF CallSession
<1>2. CASE at = "greeting" /\ ReceiveGreeting
  <2>1. Plain("greeting", NoTag) \in Command /\ Plain("greeting", NoTag).op = "greeting"
    BY PlainType DEF Plain, Operation, Tags, NoTag
  <2>2. Commanded(Plain("greeting", NoTag))
    BY <1>2, <2>1 DEF Commanded, Calls
  <2>3. Sent
    BY <1>1, <1>2, <2>1, <2>2, AwaitSent DEF ReceiveGreeting
  <2>4. CallFrame
    BY <1>1, <1>2 DEF CallFrame, ReceiveGreeting, Await, CallPlace, Startup
  <2>5. QED BY <2>3, <2>4
<1>3. CASE at = "login" /\ Login
  <2>1. /\ Plain("login", LoginTag) \in Command /\ Plain("login", LoginTag).op = "login"
        /\ Plain("login", LoginTag).tag = LoginTag
    BY PlainType DEF Plain, Operation, Tags, LoginTag
  <2>2. Commanded(Plain("login", LoginTag))
    BY <1>3, <2>1 DEF Commanded, Calls
  <2>3. CASE state = "NAUTH"
    <3>1. Await(Plain("login", LoginTag), "lock")
      BY <1>3, <2>3 DEF Login, Refuse
    <3>2. Sent
      BY <1>1, <2>1, <2>2, <3>1, AwaitSent
    <3>3. CallFrame
      BY <1>1, <1>3, <3>1 DEF CallFrame, Await, CallPlace, Startup
    <3>4. QED BY <3>2, <3>3
  <2>4. CASE state # "NAUTH"
    BY <1>1, <1>3, <2>4 DEF Login, Refuse, Finish, Transmit, Unsent, CallFrame, CallPlace, Startup
  <2>5. QED BY <2>3, <2>4
<1>4. ASSUME NEW mb \in Mailboxes, at \in {"select", "cselect"}, Select(mb)
      PROVE  CallFrame /\ (Sent \/ Unsent)
  <2> DEFINE c == [Plain("select", NoTag) EXCEPT !.mb = mb]
  <2>1. c \in Command /\ c.op = "select" /\ c.mb = mb
    BY PlainType DEF Plain, Command, Operation, Tags, NoTag
  <2> HIDE DEF c
  <2>2. CASE Refuse
    BY <1>1, <1>4, <2>2, RefuseUnsent DEF Refuse, Finish, CallFrame, CallPlace, Startup
  <2>3. CASE Send(c, "lock")
    <3>1. Calls(at, c.op)
      BY <1>4, <2>1 DEF Calls
    <3>2. Sent
      BY <1>1, <2>1, <2>3, <3>1, SendSent
    <3>3. CallFrame
      BY <1>1, <1>4, <2>3 DEF CallFrame, Send, Await, CallPlace, Startup
    <3>4. QED BY <3>2, <3>3
  <2>4. QED BY <1>4, <2>2, <2>3 DEF Select, c
<1>5. ASSUME NEW u \in BOOLEAN, at \in {"search", "csearch"}, Search(u)
      PROVE  CallFrame /\ (Sent \/ Unsent)
  <2> DEFINE c == [Plain("search", NoTag) EXCEPT !.unseen = u]
  <2>1. c \in Command /\ c.op = "search"
    BY PlainType DEF Plain, Command, Operation, Tags, NoTag
  <2> HIDE DEF c
  <2>2. CASE Refuse
    BY <1>1, <1>5, <2>2, RefuseUnsent DEF Refuse, Finish, CallFrame, CallPlace, Startup
  <2>3. CASE state = "SELECTED" /\ Send(c, "lock")
    <3>1. Calls(at, c.op)
      BY <1>5, <2>1 DEF Calls
    <3>2. Sent
      BY <1>1, <2>1, <2>3, <3>1, SendSent
    <3>3. CallFrame
      BY <1>1, <1>5, <2>3 DEF CallFrame, Send, Await, CallPlace, Startup
    <3>4. QED BY <3>2, <3>3
  <2>4. QED BY <1>5, <2>2, <2>3 DEF Search, c
<1>6. CASE \/ at \in {"fetch", "cfetch"} /\ Fetch(seqset)
           \/ at = "cread" /\ Read(seqset)
  <2> DEFINE op == IF at = "cread" THEN "read" ELSE "fetch"
             c  == [Plain(op, NoTag) EXCEPT !.set = seqset]
  <2>1. op \in {"fetch", "read"} /\ c \in Command /\ c.op = op /\ c.set = seqset
    BY PlainType DEF Plain, Command, Operation, Tags, NoTag, ProgramVarsOK
  <2>2. Calls(at, op) /\ at \in CallPlace /\ at \notin {"greeting", "quit", "eof"}
    BY <1>6 DEF Calls, CallPlace, Startup
  <2>3. Refuse \/ (state = "SELECTED" /\ SendSet(c))
    BY <1>6 DEF Fetch, Read
  <2> HIDE DEF op, c
  <2>4. CASE Refuse
    BY <1>1, <2>2, <2>4, RefuseUnsent DEF Refuse, Finish, CallFrame
  <2>5. CASE state = "SELECTED" /\ SendSet(c)
    <3>1. Sent \/ Unsent
      BY <1>1, <2>1, <2>2, <2>5, SendSetSent
    <3>2. CallFrame
      BY <1>1, <2>2, <2>5 DEF CallFrame, SendSet, Send, Await, Finish
    <3>3. QED BY <3>1, <3>2
  <2>6. QED BY <2>3, <2>4, <2>5
<1>7. CASE at \in {"quit", "eof"} /\ Logout
  <2> DEFINE c == Plain("logout", NoTag)
  <2>1. c \in Command /\ c.op = "logout"
    BY PlainType DEF Plain, Operation, Tags, NoTag
  <2>2. Send(c, "mark")
    BY <1>7 DEF Logout
  <2> HIDE DEF c
  <2>3. Calls(at, c.op)
    BY <1>7, <2>1 DEF Calls
  <2>4. Sent
    BY <1>1, <2>1, <2>2, <2>3, SendSent
  <2>5. CallFrame
    BY <1>1, <1>7, <2>2 DEF CallFrame, Send, Await, CallPlace, Startup
  <2>6. QED BY <2>4, <2>5
<1>8. MailboxName \in Mailboxes /\ OnlyUnseen \in BOOLEAN
      /\ (at = "cselect" => job.mb \in Mailboxes)
  BY ProgramAssumption DEF CallInv
<1>9. QED BY <1>2, <1>3, <1>4, <1>5, <1>6, <1>7, <1>8 DEF CallSession

LEMMA CallPInv == ASSUME PInv, CallSession PROVE PInv'
<1> USE DEF PInv
<1>1. CallFrame /\ (Sent \/ Unsent)
  BY CallEffect
<1>2. at' \in {at, "abort"} /\ (at' = "abort" => Sent)
  BY <1>1 DEF Sent, Unsent, CallFrame, Dead
<1>3. IInv'
  <2>1. MailboxName \in Mailboxes /\ OnlyUnseen \in BOOLEAN
        /\ (at = "cselect" => job.mb \in Mailboxes) /\ seqset \in SUBSET Messages
    BY ProgramAssumption DEF CallInv, ProgramVarsOK
  <2>2. (job.verb = "DOWNLOADNEW") \in BOOLEAN
    OBVIOUS
  <2>3. Call
    BY <2>1, <2>2 DEF CallSession, Call
  <2>4. QED BY <2>3, CallIInv
<1>4. ProgramVarsOK'
  <2>1. at' \in Place
    BY <1>2 DEF ProgramVarsOK, Place
  <2>2. UNCHANGED <<job, seqset, saved, exitcode, astray, inputs>>
    BY <1>1 DEF CallFrame
  <2>3. QED BY <2>1, <2>2 DEF ProgramVarsOK
<1>5. ServerVarsOK' /\ ThreadVarsOK'
  BY <1>1 DEF CallFrame, serverVars, threadVars, ServerVarsOK, ThreadVarsOK
<1>6. inbox' = inbox \/ (inbox' = Append(inbox, cmd') /\ Commanded(cmd') /\ cmd'.op # "greeting")
  BY <1>1 DEF Sent, Unsent
<1>7. NetVarsOK'
  BY <1>1, <1>6 DEF CallFrame, NetVarsOK, Commanded
<1>8. InboxInv'
  BY <1>6 DEF InboxInv, NetVarsOK, Commanded, LoginTag
<1>9. CallInv'
  <2>1. at' = "cselect" => job'.mb \in Mailboxes
    BY <1>1, <1>2 DEF CallInv, CallFrame
  <2>2. pc' # "idle" => at' = "abort" \/ Calls(at', cmd'.op)
    BY <1>1, <1>2 DEF Sent, Unsent, Commanded
  <2>3. outcome' \notin {"none", "refused"} =>
          \/ Calls(at', cmd'.op)
          \/ at' = "login" /\ outcome' = "returned"
    BY <1>1 DEF Sent, Unsent, Outcome, CallInv
  <2>4. at' \notin CallPlace => outcome' = "none" /\ (at' # "abort" => pc' = "idle")
    BY <1>1, <1>2 DEF Sent, Unsent, CallFrame
  <2>5. at' = "greeting" => outcome' # "refused"
    BY <1>1, <1>2 DEF Sent, Unsent
  <2>6. QED BY <2>1, <2>2, <2>3, <2>4, <2>5 DEF CallInv
<1>10. ModeInv'
  BY <1>2 DEF ModeInv
<1>11. QED BY <1>3, <1>4, <1>5, <1>7, <1>8, <1>9, <1>10
-----------------------------------------------------------------------------
(* The inside of a call. *)

LEMMA CallGoesOn ==
    ASSUME MainStep \/ SpuriousWakeup \/ Expire
    PROVE  pc # "idle" /\ UNCHANGED cmd
BY DEF MainStep, MarkLogout, Acquire, TestQueueOrError, TestByed, Reacquire,
       CheckError, CheckByedAndPop, Handle, SpuriousWakeup, Expire, callVars

LEMMA InsidePInv ==
    ASSUME PInv, ~Dead, MainStep \/ SpuriousWakeup \/ Expire,
           UNCHANGED <<programVars, serverVars, netVars, threadVars>>
    PROVE  PInv'
<1> USE DEF PInv
<1>1. IInv'
  BY WaitStepIInv, PopIInv, HandleIInv DEF MainStep
<1>2. pc # "idle" /\ UNCHANGED cmd
  BY CallGoesOn
<1>3. Calls(at, cmd.op)
  BY <1>2 DEF CallInv, Dead
<1>4. at \in CallPlace
  BY <1>3 DEF Calls, CallPlace, Startup
<1>5. ProgramVarsOK' /\ ModeInv'
  BY DEF programVars, ProgramVarsOK, ModeInv
<1>6. ServerVarsOK' /\ ThreadVarsOK' /\ NetVarsOK' /\ InboxInv'
  BY DEF serverVars, threadVars, netVars, ServerVarsOK, ThreadVarsOK, NetVarsOK,
         InboxInv
<1>7. outcome' # "refused"
  <2>1. outcome = "none"
    BY <1>2 DEF IInv, OutcomeInv
  <2>2. QED BY <2>1 DEF MainStep, MarkLogout, Acquire, TestQueueOrError, TestByed, Reacquire,
     CheckError, CheckByedAndPop, SpuriousWakeup, Expire, callVars, Finish, Handle,
     HandleGreeting, HandleLogin, HandleSelect, HandleSearch, HandleFetch, HandleRead,
     HandleLogout, WaitAgain, Accept, Reject
<1>8. CallInv'
  BY <1>2, <1>3, <1>4, <1>7 DEF programVars, CallInv
<1>9. QED BY <1>1, <1>5, <1>6, <1>8
-----------------------------------------------------------------------------
(* What main() and Client do between calls. *)

LEMMA OutsideIInv == ASSUME IInv, Outside, outcome' = "none" PROVE IInv'
<1>1. TypeOK'
  BY DEF IInv, TypeOK, Outside, sharedVars, Outcome
<1>2. MutexInv' /\ WaitInv' /\ OutcomeInv' /\ SelectInv'
  BY DEF IInv, OutcomeInv, MutexInv, WaitInv, NoLostWakeup, PopIsGuarded, Critical,
         Outside, sharedVars, SelectInv, SelectBeforeUse
<1>3. QED BY <1>1, <1>2 DEF IInv

\* Where a step of main() or Client leads, and what it may write.
BetweenCalls ==
    /\ pc = "idle" /\ outcome' = "none"
    /\ at' \in Place \ {"greeting"} /\ exitcode' \in {0, 1}
    /\ at' = "cselect" => job'.mb \in Mailboxes
    /\ job' \in [verb : Verb, mb : Mailboxes \cup {NoMailbox}]
    /\ seqset' \subseteq Messages /\ saved' \subseteq Messages
    /\ astray' \in BOOLEAN /\ inputs' \in 0..MaxInputs
    /\ at' \in {"search", "fetch", "save"} => ~Interactive
    /\ ~Interactive => at' \in Startup \cup {"save", "return", "join", "exit", "abort"}

LEMMA BetweenCallsPInv ==
    ASSUME PInv, Outside, BetweenCalls, thr' \in {"starting", "running", "failing", "ended"},
           stopped' \in BOOLEAN
    PROVE  PInv'
<1> USE DEF PInv
<1>1. IInv'
  BY OutsideIInv DEF BetweenCalls
<1>2. ProgramVarsOK'
  BY DEF BetweenCalls, ProgramVarsOK
<1>3. ServerVarsOK' /\ NetVarsOK' /\ InboxInv'
  BY DEF Outside, serverVars, netVars, ServerVarsOK, NetVarsOK, InboxInv
<1>4. ThreadVarsOK'
  BY DEF ThreadVarsOK
<1>5. CallInv' /\ ModeInv'
  BY DEF BetweenCalls, CallInv, ModeInv, Outside
<1>6. QED BY <1>1, <1>2, <1>3, <1>4, <1>5

\* The texts of a fetch are sets of messages.
LEMMA SaveType ==
    ASSUME PInv, NEW n \in 0..Len(fetched), SaveFirst(n)
    PROVE  saved' \subseteq Messages
<1>1. \A i \in 1..n : fetched[i] \in SUBSET Messages
  BY DEF PInv, IInv, TypeOK
<1>2. QED BY <1>1 DEF SaveFirst, PInv, ProgramVarsOK

LEMMA MainContinuesOK ==
    ASSUME PInv, ~Dead, MainContinues PROVE BetweenCalls
<1> USE DEF PInv
<1>1. UNCHANGED <<job, saved, astray, inputs>>
  BY DEF MainContinues
<1>2. CASE StartupThrows
  <2>1. PICK p \in Startup : Threw(p)
    BY <1>2 DEF StartupThrows
  <2>2. pc = "idle" /\ seqset' = seqset /\ outcome' = "none"
        /\ exitcode' \in {exitcode, 1} /\ at' \in {"abort", "return"}
    BY <1>2, <2>1 DEF StartupThrows, Threw, Goto, Return
  <2>3. QED BY <1>1, <2>2 DEF BetweenCalls, ProgramVarsOK, Place
<1>3. CASE StartupReturns
  <2>1. /\ pc = "idle" /\ outcome' = "none"
        /\ seqset' = seqset \/ seqset' \in found
        /\ exitcode' \in {exitcode, 0}
    BY <1>3 DEF StartupReturns, Returned, Goto, Return
  <2>2. seqset' \subseteq Messages
    BY <2>1 DEF ProgramVarsOK, IInv, TypeOK
  <2>3. /\ at' \in {"login", "select", "prompt", "search", "fetch", "save", "return"}
        /\ at' = "prompt" => Interactive
        /\ at' \in {"search", "fetch", "save"} => ~Interactive
    BY <1>3 DEF StartupReturns, Returned, Goto, Return, ModeInv
  <2>4. at' \in Place /\ (~Interactive => at' \in Startup \cup {"save", "return", "join", "exit", "abort"})
    BY <2>3 DEF Place, Startup
  <2>5. QED BY <1>1, <2>1, <2>2, <2>3, <2>4 DEF BetweenCalls, ProgramVarsOK
<1>4. QED BY <1>2, <1>3 DEF MainContinues

LEMMA SaveMessagesOK ==
    ASSUME PInv, SaveMessages PROVE BetweenCalls
<1> USE DEF PInv
<1>1. PICK n \in 0..Len(fetched) :
        SaveFirst(n) /\ Return(IF n = Len(fetched) THEN 0 ELSE 1)
  BY DEF SaveMessages
<1>2. saved' \subseteq Messages
  BY <1>1, SaveType
<1>3. pc = "idle" /\ outcome' = "none" /\ at' = "return" /\ exitcode' \in {0, 1}
      /\ UNCHANGED <<job, seqset, astray, inputs>>
  BY <1>1 DEF SaveMessages, Return
<1>4. QED BY <1>2, <1>3 DEF BetweenCalls, ProgramVarsOK, Place

\* The places of the loop are those of interactive mode.
LEMMA OnlyInteractive ==
    ASSUME PInv, at \notin Startup \cup {"save", "return", "join", "exit", "abort"}
    PROVE  Interactive
BY DEF PInv, ModeInv

LEMMA ClientContinuesOK ==
    ASSUME PInv, ClientContinues PROVE BetweenCalls
<1> USE DEF PInv
<1>1. UNCHANGED <<job, inputs>>
  BY DEF ClientContinues
<1>2. CASE CommandThrows
  <2>1. pc = "idle" /\ outcome' = "none" /\ at' = "return" /\ exitcode' = 1
        /\ UNCHANGED <<seqset, saved, astray>>
    BY <1>2 DEF CommandThrows, Threw, Return
  <2>2. QED BY <1>1, <2>1 DEF BetweenCalls, ProgramVarsOK, Place
<1>3. CASE CommandSwallows
  <2>1. at \in {"cfetch", "cread"} /\ pc = "idle" /\ outcome' = "none" /\ at' = "prompt"
        /\ UNCHANGED <<seqset, saved, exitcode>>
    BY <1>3 DEF CommandSwallows, Threw, Goto
  <2>2. astray' \in BOOLEAN
    BY <1>3 DEF CommandSwallows
  <2>3. Interactive
    BY <2>1, OnlyInteractive DEF Startup
  <2>4. QED BY <1>1, <2>1, <2>2, <2>3 DEF BetweenCalls, ProgramVarsOK, Place
<1>4. CASE CommandReturns
  <2>1. /\ pc = "idle" /\ outcome' = "none"
        /\ at' \in {"csearch", "cread", "prompt", "cfetch", "csave", "return"}
        /\ seqset' = seqset \/ seqset' \in found
        /\ exitcode' \in {exitcode, 0} /\ saved' = saved
    BY <1>4 DEF CommandReturns, Returned, Goto, Return
  <2>2. astray' = astray \/ astray' = TRUE
    BY <1>4 DEF CommandReturns
  <2>3. seqset' \subseteq Messages
    BY <2>1 DEF ProgramVarsOK, IInv, TypeOK
  <2>4. at \in {"cselect", "csearch", "cfetch", "cread", "quit", "eof"}
    BY <1>4 DEF CommandReturns, Returned
  <2>5. Interactive
    BY <2>4, OnlyInteractive DEF Startup
  <2>6. QED BY <1>1, <2>1, <2>2, <2>3, <2>5 DEF BetweenCalls, ProgramVarsOK, Place
<1>5. CASE CommandSaves
  <2>1. saved' \subseteq Messages
    BY <1>5, SaveType DEF CommandSaves
  <2>2. at = "csave" /\ pc = "idle" /\ outcome' = "none" /\ at' = "prompt"
        /\ UNCHANGED <<seqset, exitcode, astray>>
    BY <1>5 DEF CommandSaves, Goto
  <2>3. Interactive
    BY <2>2, OnlyInteractive DEF Startup
  <2>4. QED BY <1>1, <2>1, <2>2, <2>3 DEF BetweenCalls, ProgramVarsOK, Place
<1>6. QED BY <1>2, <1>3, <1>4, <1>5 DEF ClientContinues

LEMMA PromptOK ==
    ASSUME PInv, Prompt \/ ReadLine \/ EndOfInput PROVE BetweenCalls
<1> USE DEF PInv
<1>1. at \in {"prompt", "input"}
  BY DEF Prompt, ReadLine, EndOfInput
<1>2. pc = "idle" /\ Interactive
  BY <1>1, OnlyInteractive DEF CallInv, CallPlace, Startup
<1>3. CASE Prompt \/ EndOfInput
  <2>1. outcome' = "none" /\ at' \in {"return", "input", "eof"}
        /\ exitcode' \in {exitcode, 0} /\ UNCHANGED <<job, seqset, saved, astray, inputs>>
    BY <1>3 DEF Prompt, EndOfInput, Goto, Return
  <2>2. QED BY <1>2, <2>1 DEF BetweenCalls, ProgramVarsOK, Place
<1>4. CASE ReadLine
  <2>1. PICK v \in Verb, mb \in Mailboxes \cup {NoMailbox} :
          job' = [verb |-> v, mb |-> mb] /\ Goto(FirstCall(job'))
    BY <1>4 DEF ReadLine
  <2>2. FirstCall(job') \in {"prompt", "quit", "csearch", "cselect"}
        /\ (FirstCall(job') = "cselect" => mb # NoMailbox)
    BY <2>1 DEF FirstCall, Verb
  <2>3. inputs' \in 0..MaxInputs
    BY <1>4, ProgramAssumption DEF ReadLine, ProgramVarsOK
  <2>4. outcome' = "none" /\ exitcode' = exitcode /\ at' = FirstCall(job')
        /\ UNCHANGED <<seqset, saved, astray>>
    BY <1>4, <2>1 DEF ReadLine, Goto
  <2>5. QED BY <1>2, <2>1, <2>2, <2>3, <2>4 DEF BetweenCalls, ProgramVarsOK, Place
<1>5. QED BY <1>3, <1>4

LEMMA LeaveOK ==
    ASSUME PInv, Stop \/ Join PROVE BetweenCalls
<1> USE DEF PInv
<1>1. pc = "idle"
  BY DEF Stop, Join, CallInv, CallPlace, Startup
<1>2. outcome' = "none" /\ at' \in {"join", "exit"} /\ UNCHANGED <<exitcode, job, seqset, saved, astray, inputs>>
  BY DEF Stop, Join, Goto
<1>3. QED BY <1>1, <1>2 DEF BetweenCalls, ProgramVarsOK, Place

LEMMA ProgramPInv == ASSUME PInv, Program \/ User PROVE PInv'
<1>1. BetweenCalls
  BY MainContinuesOK, SaveMessagesOK, ClientContinuesOK, PromptOK, LeaveOK
     DEF Program, User
<1>2. Outside
  BY DEF Program, User
<1>3. thr' = thr /\ stopped' \in {stopped, TRUE}
  BY DEF Program, User, Stop, Join, threadVars
<1>4. thr \in {"starting", "running", "failing", "ended"} /\ stopped \in BOOLEAN
  BY DEF PInv, ThreadVarsOK
<1>5. QED BY <1>1, <1>2, <1>3, <1>4, BetweenCallsPInv
-----------------------------------------------------------------------------
(* The receiver thread. *)

\* r is what is left of h when only the first characters of a tag are gone.
CutFrom(r, h) == r = Tagged(h.type, CutTag) /\ h.tag # NoTag /\ h.type # "JUNK"

(* The remains of a torn response: junk, of which the last piece may be a  *)
(* response that lost part of its tag.                                     *)
LEMMA RemainsShape ==
    ASSUME NEW h \in Response \cup {Junk}, Whole(h), NEW rest \in Remains(h)
    PROVE  /\ h \in Response
           /\ rest \in Seq(Response \cup {Junk}) /\ Len(rest) > 0
           /\ \A i \in 1..Len(rest) :
                 rest[i] = Junk \/ (i = Len(rest) /\ CutFrom(rest[i], h))
<1>1. h \in Response
  BY DEF Whole, Junk
<1>2. Tagged(h.type, CutTag) \in Response
  BY <1>1 DEF Response, Tagged, Tags
<1> DEFINE junk(n) == [i \in 1..n |-> Junk]
<1>3. \A n \in Nat : /\ junk(n) \in Seq(Response \cup {Junk}) /\ Len(junk(n)) = n
                     /\ \A i \in 1..n : junk(n)[i] = Junk
  <2>1. TAKE n \in Nat
  <2>2. junk(n) \in [1..n -> Response \cup {Junk}]
    OBVIOUS
  <2>3. QED BY <2>2
<1>4. MaxPieces \in Nat
  BY ProgramAssumption
<1>5. CASE \E n \in 1..MaxPieces : rest = junk(n)
  <2>1. PICK n \in 1..MaxPieces : rest = junk(n)
    BY <1>5
  <2>2. n \in Nat /\ n > 0
    BY <1>4
  <2> HIDE DEF junk
  <2>3. QED BY <1>1, <1>3, <2>1, <2>2
<1>6. CASE \E n \in 1..MaxPieces : /\ h.tag = LoginTag \/ h.tag >= 10
                                 /\ rest = Append(junk(n - 1), Tagged(h.type, CutTag))
  <2>1. PICK n \in 1..MaxPieces : /\ h.tag = LoginTag \/ h.tag >= 10
                                 /\ rest = Append(junk(n - 1), Tagged(h.type, CutTag))
    BY <1>6
  <2>2. n - 1 \in Nat
    BY <1>4
  <2> HIDE DEF junk
  <2>3. rest \in Seq(Response \cup {Junk}) /\ Len(rest) = n
        /\ \A i \in 1..n : rest[i] = IF i = n THEN Tagged(h.type, CutTag) ELSE junk(n - 1)[i]
    BY <1>2, <1>3, <1>4, <2>1, <2>2
  <2>4. h.tag # NoTag
    BY <2>1 DEF NoTag, LoginTag
  <2>5. \A i \in 1..Len(rest) :
           rest[i] = Junk \/ (i = Len(rest) /\ CutFrom(rest[i], h))
    <3>1. TAKE i \in 1..Len(rest)
    <3>2. CASE i = n
      <4>1. rest[i] = Tagged(h.type, CutTag)
        BY <2>3, <3>2
      <4>2. QED BY <2>3, <2>4, <3>2, <4>1 DEF CutFrom, Whole
    <3>3. CASE i # n
      <4>1. i \in 1..(n - 1)
        BY <2>3, <1>4, <3>3
      <4>2. QED BY <1>3, <2>2, <2>3, <3>3, <4>1
    <3>4. QED BY <3>2, <3>3
  <2>6. QED BY <1>1, <1>4, <2>3, <2>5
<1>7. QED BY <1>5, <1>6 DEF Remains

LEMMA ThreadPInv == ASSUME PInv, Thread PROVE PInv'
<1> USE DEF PInv
<1>0. UNCHANGED <<programVars, serverVars, inbox>>
  BY DEF Thread, ThreadStarts, ReceiveResponse, ReceiveNothing, ReceiveFails,
         CallbackStep, netVars
<1>1. /\ pc' = pc \/ (pc = "blocked" /\ pc' = "woken")
      /\ cmd' = cmd /\ outcome' = outcome
  <2>1. CASE ThreadStarts \/ ReceiveNothing
    BY <2>1 DEF ThreadStarts, ReceiveNothing, vars, callVars
  <2>2. CASE ReceiveResponse
    BY <2>2 DEF ReceiveResponse, NotifyIncoming, NotifyBye, MarkFailed, Wake, callVars
  <2>3. CASE ReceiveFails
    BY <2>3 DEF ReceiveFails, MarkFailed, callVars
  <2>4. CASE CallbackStep
    BY <2>4 DEF CallbackStep, ReceiverStep, MarkByed, QueueBye, NotifyFailed, Wake, callVars
  <2>5. QED BY <2>1, <2>2, <2>3, <2>4 DEF Thread
<1>2. IInv' /\ wire' \in Seq(Response \cup {Junk})
  <2>1. CASE ThreadStarts \/ ReceiveNothing
    BY <2>1, StutterIInv DEF ThreadStarts, ReceiveNothing, netVars, NetVarsOK
  <2>2. CASE ReceiveResponse
    <3>1. /\ Head(wire) \in Response \cup {Junk}
          /\ Tail(wire) \in Seq(Response \cup {Junk})
          /\ wire \in Seq(Response \cup {Junk})
      BY <2>2 DEF ReceiveResponse, NetVarsOK
    <3>2. CASE /\ "torn" \in faults /\ Whole(Head(wire)) /\ MarkFailed
               /\ \E rest \in Remains(Head(wire)) : wire' = rest \o Tail(wire)
      <4>1. PICK rest \in Remains(Head(wire)) : wire' = rest \o Tail(wire)
        BY <3>2
      <4>2. rest \in Seq(Response \cup {Junk})
        BY <3>1, <3>2, RemainsShape
      <4>3. rest \o Tail(wire) \in Seq(Response \cup {Junk})
        BY <3>1, <4>2, ConcatProperties
      <4>4. QED BY <3>2, <4>1, <4>3, ReceiverIInv
    <3>3. CASE MarkFailed /\ \E n \in 1..Len(wire) : wire' = SubSeq(wire, n + 1, Len(wire))
      <4>1. PICK n \in 1..Len(wire) : wire' = SubSeq(wire, n + 1, Len(wire))
        BY <3>3
      <4>2. SubSeq(wire, n + 1, Len(wire)) \in Seq(Response \cup {Junk})
        BY <3>1, SubSeqProperties
      <4>3. QED BY <3>3, <4>1, <4>2, ReceiverIInv
    <3>4. CASE NotifyBye /\ wire' = Tail(wire)
      BY <3>1, <3>4, ReceiverIInv
    <3>5. CASE Head(wire).type # "JUNK" /\ NotifyIncoming(Head(wire)) /\ wire' = Tail(wire)
      <4>1. Head(wire) \in Response
        BY <3>1, <3>5 DEF Junk
      <4>2. QED BY <3>1, <3>5, <4>1, NotifyIncomingIInv
    <3>6. QED BY <2>2, <3>2, <3>3, <3>4, <3>5 DEF ReceiveResponse
  <2>3. CASE ReceiveFails \/ CallbackStep
    BY <2>3, ReceiverIInv DEF ReceiveFails, CallbackStep, ReceiverStep, netVars, NetVarsOK
  <2>4. QED BY <2>1, <2>2, <2>3 DEF Thread
<1>3. ThreadVarsOK'
  BY DEF Thread, ThreadStarts, ReceiveResponse, ReceiveNothing, ReceiveFails, CallbackStep,
         ThreadVarsOK, threadVars
<1>4. ProgramVarsOK' /\ ModeInv'
  BY <1>0 DEF programVars, ProgramVarsOK, ModeInv
<1>5. ServerVarsOK' /\ InboxInv'
  BY <1>0 DEF serverVars, ServerVarsOK, InboxInv
<1>6. NetVarsOK'
  BY <1>0, <1>2 DEF NetVarsOK
<1>7. CallInv'
  BY <1>0, <1>1 DEF programVars, CallInv
<1>8. QED BY <1>2, <1>3, <1>4, <1>5, <1>6, <1>7
-----------------------------------------------------------------------------
(* The server. *)

\* SetToSeq lists every element of a finite set once.
LEMMA SetToSeqLists ==
    ASSUME NEW S, IsFiniteSet(S)
    PROVE  /\ Cardinality(S) \in Nat
           /\ SetToSeq(S) \in [1..Cardinality(S) -> S]
           /\ \A x \in S : \E i \in 1..Cardinality(S) : SetToSeq(S)[i] = x
<1> DEFINE D == 1..Cardinality(S)
<1>1. Cardinality(S) \in Nat /\ ExistsBijection(D, S)
  BY FS_CardinalityType
<1>2. PICK f \in Bijection(D, S) : TRUE
  BY <1>1, Fun_ExistsBij
<1>3. f \in [D -> S] /\ \A a, b \in D : f[a] = f[b] => a = b
  BY <1>2, Fun_BijectionProperties
<1> HIDE DEF D
<1>3a. \E g \in [D -> S] : IsInjective(g)
  BY <1>3 DEF IsInjective
<1>4. SetToSeq(S) \in [D -> S] /\ IsInjective(SetToSeq(S))
  BY <1>3a DEF SetToSeq, D
<1>5. SetToSeq(S) \in Injection(D, S)
  BY <1>4, Fun_IsInj DEF IsInjective
<1>6. Cardinality(D) = Cardinality(S)
  BY <1>1, FS_Interval DEF D
<1>7. SetToSeq(S) \in Surjection(D, S)
  BY <1>5, <1>6, FS_Injection
<1>8. QED BY <1>1, <1>4, <1>7, Fun_SurjectionProperties DEF D

\* One FETCH for each message of a finite set.
LEMMA TextsType ==
    ASSUME NEW S \in SUBSET Messages, IsFiniteSet(S)
    PROVE  /\ Texts(S) \in Seq(Response) /\ Flags(S) \in Seq(Response)
           /\ \A i \in 1..Len(Texts(S)) :
                 \E m \in S : Texts(S)[i] = Untagged("FETCH", {m})
           /\ \A m \in S : \E i \in 1..Len(Texts(S)) :
                 Texts(S)[i] = Untagged("FETCH", {m})
           /\ \A i \in 1..Len(Flags(S)) : Flags(S)[i] = Untagged("FETCH", {})
<1>1. /\ Cardinality(S) \in Nat /\ SetToSeq(S) \in [1..Cardinality(S) -> S]
      /\ \A x \in S : \E i \in 1..Cardinality(S) : SetToSeq(S)[i] = x
  BY SetToSeqLists
<1>2. \A i \in 1..Cardinality(S) : Untagged("FETCH", {SetToSeq(S)[i]}) \in Response
  <2>1. \A m \in S : {m} \in SUBSET Messages
    OBVIOUS
  <2>2. \A m \in S : Untagged("FETCH", {m}) \in Response
    BY <2>1, UntaggedType DEF ResponseType
  <2>3. QED BY <1>1, <2>2
<1>3. Untagged("FETCH", {}) \in Response
  BY UntaggedType DEF ResponseType
<1>4. /\ Texts(S) \in Seq(Response) /\ Len(Texts(S)) = Cardinality(S)
      /\ \A i \in 1..Cardinality(S) : Texts(S)[i] = Untagged("FETCH", {SetToSeq(S)[i]})
  <2>1. /\ Texts(S) \in [1..Cardinality(S) -> Response]
        /\ \A i \in 1..Cardinality(S) : Texts(S)[i] = Untagged("FETCH", {SetToSeq(S)[i]})
    BY <1>2 DEF Texts
  <2>2. QED BY <1>1, <2>1
<1>5. /\ Flags(S) \in Seq(Response) /\ Len(Flags(S)) = Cardinality(S)
      /\ \A i \in 1..Cardinality(S) : Flags(S)[i] = Untagged("FETCH", {})
  BY <1>1, <1>3 DEF Flags
<1>6. QED BY <1>1, <1>4, <1>5

(* The answer to a command other than LOGOUT: plain responses that belong  *)
(* to the command, and last the condition that carries its tag.            *)
PlainPart(c, h, mb, r) ==
    /\ r.tag = NoTag
    /\ \/ r.type \in {"OTHER", "FETCH"} /\ r.body = {}
       \/ c.op = "search" /\ r.type = "SEARCH" /\ r.body = h
       \/ /\ c.op = "fetch" /\ r.type = "FETCH"
          /\ \E m \in c.set \cap Mail[mb] : r.body = {m}

PlainParts(c, h, pre) == \A i \in 1..Len(pre) : PlainPart(c, h, selected, pre[i])

Condition(c, r) == \E type \in {"OK", "NO", "BAD"} : r = Tagged(type, c.tag)

WellFormed(c, a) ==
    /\ a.rs \in Seq(Response) /\ a.rs # <<>>
    /\ Condition(c, a.rs[Len(a.rs)])
    /\ \A i \in 1..Len(a.rs) : i < Len(a.rs) => PlainPart(c, a.hits, selected, a.rs[i])
    /\ a.link = "open"

\* What an OK says of the server.
Granted(c, a) ==
    /\ c.op = "select" => a.selected = c.mb
    /\ c.op = "search" =>
          /\ selected # NoMailbox /\ a.hits \subseteq Mail[selected]
          /\ \E i \in 1..Len(a.rs) : i < Len(a.rs) /\ a.rs[i].type = "SEARCH"
    /\ c.op = "fetch" =>
          /\ selected # NoMailbox
          /\ \A m \in c.set \cap Mail[selected] : \E i \in 1..Len(a.rs) :
                i < Len(a.rs) /\ a.rs[i].type = "FETCH" /\ a.rs[i].body = {m}

Answered(c, a) ==
    /\ WellFormed(c, a)
    /\ a.selected \in Mailboxes \cup {NoMailbox}
    /\ c.op # "select" => a.selected = selected
    /\ a.hits \subseteq Messages
    /\ c.op # "search" => a.hits = hits
    /\ a.rs[Len(a.rs)].type = "OK" => Granted(c, a)

LEMMA SingleAnswer ==
    ASSUME NEW c \in Command, c.tag \in Nat, NEW type \in {"OK", "NO", "BAD"},
           NEW mb, NEW h
    PROVE  WellFormed(c, Reply(<<Tagged(type, c.tag)>>, mb, h, "open"))
<1> DEFINE r == Tagged(type, c.tag)
<1>1. r \in Response /\ Condition(c, r)
  BY TaggedType DEF ResponseType, Condition
<1> HIDE DEF r
<1>2. QED BY <1>1 DEF WellFormed, Reply, r

LEMMA PairAnswer ==
    ASSUME NEW c \in Command, c.tag \in Nat, NEW r \in Response, NEW mb, NEW h,
           PlainPart(c, h, selected, r),
           NEW a, a = Reply(<<r, Tagged("OK", c.tag)>>, mb, h, "open")
    PROVE  /\ WellFormed(c, a) /\ a.selected = mb /\ a.hits = h
           /\ Len(a.rs) = 2 /\ a.rs[1] = r
<1> DEFINE t == Tagged("OK", c.tag)
           q == <<r, t>>
<1>1. t \in Response /\ Condition(c, t)
  BY TaggedType DEF ResponseType, Condition
<1>2. a.rs = q /\ a.selected = mb /\ a.hits = h /\ a.link = "open"
  BY DEF Reply
<1> HIDE DEF t
<1>3. q \in Seq(Response) /\ q # <<>> /\ Len(q) = 2 /\ q[1] = r /\ q[2] = t
  BY <1>1
<1> HIDE DEF q
<1>4. \A i \in 1..Len(q) : i < Len(q) => PlainPart(c, h, selected, q[i])
  BY <1>3
<1>5. WellFormed(c, a)
  BY <1>1, <1>2, <1>3, <1>4 DEF WellFormed
<1>6. QED BY <1>2, <1>3, <1>5

\* Appending the condition to well-formed plain responses.
LEMMA AppendedAnswer ==
    ASSUME NEW c \in Command, c.tag \in Nat, NEW pre \in Seq(Response), NEW a,
           PlainParts(c, a.hits, pre),
           a.rs = Append(pre, Tagged("OK", c.tag)), a.link = "open"
    PROVE  /\ WellFormed(c, a)
           /\ Len(a.rs) = Len(pre) + 1
           /\ \A i \in 1..Len(pre) : a.rs[i] = pre[i]
<1>1. Tagged("OK", c.tag) \in Response /\ Condition(c, Tagged("OK", c.tag))
  BY TaggedType DEF ResponseType, Condition
<1>2. /\ a.rs \in Seq(Response) /\ a.rs # <<>> /\ Len(a.rs) = Len(pre) + 1
      /\ \A i \in 1..Len(pre) : a.rs[i] = pre[i]
      /\ a.rs[Len(a.rs)] = Tagged("OK", c.tag)
  <2> DEFINE t == Tagged("OK", c.tag)  s == a.rs
  <2>1. t \in Response /\ s = Append(pre, t)
    BY <1>1
  <2> HIDE DEF t, s
  <2>2. s \in Seq(Response) /\ s # <<>> /\ Len(s) = Len(pre) + 1
    BY <2>1
  <2>3. (\A i \in 1..Len(pre) : s[i] = pre[i]) /\ s[Len(s)] = t
    BY <2>1
  <2>4. QED BY <2>2, <2>3 DEF s, t
<1>3. \A i \in 1..Len(a.rs) : i < Len(a.rs) => PlainPart(c, a.hits, selected, a.rs[i])
  BY <1>2 DEF PlainParts
<1>4. WellFormed(c, a)
  BY <1>1, <1>2, <1>3 DEF WellFormed
<1>5. QED BY <1>2, <1>4

LEMMA AnswersShape ==
    ASSUME ServerVarsOK, NEW c \in Command, c.tag \in Nat,
           c.op \notin {"greeting", "logout"}, c.op = "select" => c.mb \in Mailboxes,
           NEW a \in Answers(c)
    PROVE  Answered(c, a)
<1> USE DEF ServerVarsOK
<1>1. \A mb \in Mailboxes : Mail[mb] \in SUBSET Messages /\ IsFiniteSet(Mail[mb])
  BY ProgramAssumption
<1>2. CASE c.op = "login"
  <2>1. PICK type \in {"OK", "BAD"} :
          a = Reply(<<Tagged(type, c.tag)>>, selected, hits, "open")
    BY <1>2 DEF Answers
  <2>2. WellFormed(c, a) /\ a.selected = selected /\ a.hits = hits
    BY <2>1, SingleAnswer DEF Reply
  <2>3. QED BY <1>2, <2>2 DEF Answered, Granted
<1>3. CASE c.op = "select"
  <2>1. CASE a = Reply(<<Tagged("NO", c.tag)>>, NoMailbox, hits, "open")
    <3>1. WellFormed(c, a) /\ a.selected = NoMailbox /\ a.hits = hits
          /\ a.rs[Len(a.rs)].type = "NO"
      BY <2>1, SingleAnswer DEF Reply, Tagged
    <3>2. QED BY <1>3, <3>1 DEF Answered
  <2>2. CASE a = Reply(<<Untagged("OTHER", {}), Tagged("OK", c.tag)>>, c.mb, hits, "open")
    <3>1. Untagged("OTHER", {}) \in Response /\ PlainPart(c, hits, selected, Untagged("OTHER", {}))
      BY UntaggedType DEF ResponseType, PlainPart, Untagged
    <3>2. WellFormed(c, a) /\ a.selected = c.mb /\ a.hits = hits
      BY <2>2, <3>1, PairAnswer
    <3>3. QED BY <1>3, <3>2 DEF Answered, Granted
  <2>3. QED BY <1>3, <2>1, <2>2 DEF Answers
<1>4. CASE c.op \in {"search", "fetch", "read"} /\ selected = NoMailbox
  <2>1. a = Reply(<<Tagged("BAD", c.tag)>>, selected, hits, "open")
    BY <1>4 DEF Answers
  <2>2. WellFormed(c, a) /\ a.selected = selected /\ a.hits = hits
        /\ a.rs[Len(a.rs)].type = "BAD"
    BY <2>1, SingleAnswer DEF Reply, Tagged
  <2>3. QED BY <1>4, <2>2 DEF Answered
<1>5. CASE c.op = "search" /\ selected # NoMailbox
  <2> DEFINE here == Mail[selected]
  <2>0. here \in SUBSET Messages
    BY <1>1, <1>5
  <2>1. PICK h \in SUBSET here :
          a = Reply(<<Untagged("SEARCH", h), Tagged("OK", c.tag)>>, selected, h, "open")
    BY <1>5 DEF Answers
  <2>2. h \in SUBSET Messages
    BY <2>0
  <2>3. /\ Untagged("SEARCH", h) \in Response /\ PlainPart(c, h, selected, Untagged("SEARCH", h))
        /\ Untagged("SEARCH", h).type = "SEARCH"
    BY <1>5, <2>2, UntaggedType DEF ResponseType, PlainPart, Untagged
  <2>4. /\ WellFormed(c, a) /\ a.selected = selected /\ a.hits = h
        /\ Len(a.rs) = 2 /\ a.rs[1].type = "SEARCH"
    BY <2>1, <2>3, PairAnswer
  <2>5. 1 \in 1..Len(a.rs) /\ 1 < Len(a.rs)
    BY <2>4
  <2>6. Granted(c, a)
    BY <1>5, <2>4, <2>5 DEF Granted
  <2>7. QED BY <1>5, <2>2, <2>4, <2>6 DEF Answered
<1>6. CASE c.op = "fetch" /\ selected # NoMailbox
  <2> DEFINE set == c.set \cap Mail[selected]
             pre == Texts(set)
  <2>1. set \in SUBSET Messages /\ IsFiniteSet(set)
    BY <1>1, <1>6, FS_Subset
  <2>2. /\ a.rs = Append(pre, Tagged("OK", c.tag))
        /\ a.selected = selected /\ a.hits = hits /\ a.link = "open"
    <3>1. a = Reply(Append(pre, Tagged("OK", c.tag)), selected, hits, "open")
      BY <1>6 DEF Answers
    <3>2. QED BY <3>1 DEF Reply
  <2> HIDE DEF set
  <2>3. /\ pre \in Seq(Response)
        /\ \A i \in 1..Len(pre) : \E m \in set : pre[i] = Untagged("FETCH", {m})
        /\ \A m \in set : \E i \in 1..Len(pre) : pre[i] = Untagged("FETCH", {m})
    BY <2>1, TextsType
  <2> HIDE DEF pre
  <2>4. PlainParts(c, a.hits, pre)
    <3>1. \A m \in set : PlainPart(c, a.hits, selected, Untagged("FETCH", {m}))
      BY <1>6 DEF PlainPart, Untagged, set
    <3>2. QED BY <2>3, <3>1 DEF PlainParts
  <2>5. /\ WellFormed(c, a)
        /\ Len(a.rs) = Len(pre) + 1
        /\ \A i \in 1..Len(pre) : a.rs[i] = pre[i]
    BY <2>2, <2>3, <2>4, AppendedAnswer
  <2>6. \A m \in set : \E i \in 1..Len(a.rs) :
          i < Len(a.rs) /\ a.rs[i].type = "FETCH" /\ a.rs[i].body = {m}
    <3>1. \A m \in set : Untagged("FETCH", {m}).type = "FETCH"
                          /\ Untagged("FETCH", {m}).body = {m}
      BY DEF Untagged
    <3> SUFFICES ASSUME NEW m \in set
                 PROVE  \E i \in 1..Len(a.rs) :
                           i < Len(a.rs) /\ a.rs[i].type = "FETCH" /\ a.rs[i].body = {m}
      OBVIOUS
    <3>2. PICK i \in 1..Len(pre) : pre[i] = Untagged("FETCH", {m})
      BY <2>3
    <3>3. a.rs[i].type = "FETCH" /\ a.rs[i].body = {m}
      BY <2>5, <3>1, <3>2
    <3>4. i \in 1..Len(a.rs) /\ i < Len(a.rs)
      BY <2>3, <2>5
    <3>5. QED BY <3>3, <3>4
  <2>7. Granted(c, a)
    BY <1>6, <2>6 DEF Granted, set
  <2>8. QED BY <1>6, <2>2, <2>5, <2>7 DEF Answered
<1>7. CASE c.op = "read" /\ selected # NoMailbox
  <2> DEFINE set == c.set \cap Mail[selected]
             pre == Flags(set)
  <2>1. set \in SUBSET Messages /\ IsFiniteSet(set)
    BY <1>1, <1>7, FS_Subset
  <2>2. /\ a.rs = Append(pre, Tagged("OK", c.tag))
        /\ a.selected = selected /\ a.hits = hits /\ a.link = "open"
    <3>1. a = Reply(Append(pre, Tagged("OK", c.tag)), selected, hits, "open")
      BY <1>7 DEF Answers
    <3>2. QED BY <3>1 DEF Reply
  <2> HIDE DEF set
  <2>3. /\ pre \in Seq(Response)
        /\ \A i \in 1..Len(pre) : pre[i] = Untagged("FETCH", {})
    BY <2>1, TextsType
  <2> HIDE DEF pre
  <2>4. PlainParts(c, a.hits, pre)
    <3>1. PlainPart(c, a.hits, selected, Untagged("FETCH", {}))
      BY DEF PlainPart, Untagged
    <3>2. QED BY <2>3, <3>1 DEF PlainParts
  <2>5. WellFormed(c, a)
    BY <2>2, <2>3, <2>4, AppendedAnswer
  <2>6. QED BY <1>7, <2>2, <2>5 DEF Answered, Granted
<1>8. c.op \in {"login", "select", "search", "fetch", "read"}
  BY DEF Command, Operation
<1>9. QED BY <1>2, <1>3, <1>4, <1>5, <1>6, <1>7, <1>8

\* LOGOUT is answered by a BYE, and the connection closed.
LEMMA LogoutAnswer ==
    ASSUME NEW c \in Command, c.op = "logout", NEW a \in Answers(c)
    PROVE  /\ a.rs = <<Untagged("BYE", {}), Tagged("OK", c.tag)>>
           /\ a.selected = NoMailbox /\ a.hits = hits /\ a.link = "closed"
<1>1. a = Reply(<<Untagged("BYE", {}), Tagged("OK", c.tag)>>, NoMailbox, hits, "closed")
  BY DEF Answers
<1>2. QED BY <1>1 DEF Reply

LEMMA AnswerTypes ==
    ASSUME ServerVarsOK, NEW c \in Command, c.tag \in Nat, c.op # "greeting",
           c.op = "select" => c.mb \in Mailboxes, NEW a \in Answers(c)
    PROVE  /\ a.rs \in Seq(Response) /\ a.selected \in Mailboxes \cup {NoMailbox}
           /\ a.hits \subseteq Messages /\ a.link \in {"open", "closed"}
<1>1. CASE c.op = "logout"
  <2>1. Untagged("BYE", {}) \in Response /\ Tagged("OK", c.tag) \in Response
    BY UntaggedType, TaggedType DEF ResponseType
  <2>2. <<Untagged("BYE", {}), Tagged("OK", c.tag)>> \in Seq(Response)
    BY <2>1
  <2>3. QED BY <1>1, <2>2, LogoutAnswer DEF ServerVarsOK
<1>2. CASE c.op # "logout"
  <2>1. Answered(c, a)
    BY <1>2, AnswersShape
  <2>2. QED BY <2>1 DEF Answered, WellFormed
<1>3. QED BY <1>1, <1>2

\* A step of the server keeps the types and what is on its way to it.
LEMMA ServerTypes ==
    ASSUME PInv, Server
    PROVE  ServerVarsOK' /\ NetVarsOK' /\ InboxInv'
<1> USE DEF PInv
<1>0. UNCHANGED faults /\ inbox \in Seq(Command) /\ wire \in Seq(Response \cup {Junk})
  BY DEF Server, NetVarsOK
<1>1. CASE Greet
  <2>1. /\ UNCHANGED <<selected, hits, inbox, noise>> /\ link' \in {link, "closed"}
    BY <1>1 DEF Greet
  <2>2. greeted' = TRUE
    BY <1>1 DEF Greet
  <2>3. wire' \in Seq(Response \cup {Junk})
    <3>1. \A type \in {"OK", "PREAUTH", "BYE"} : Untagged(type, {}) \in Response
      BY UntaggedType DEF ResponseType
    <3>2. Junk \in Response \cup {Junk}
      OBVIOUS
    <3>3. \/ wire' = <<Untagged("OK", {})>> \/ wire' = <<Untagged("BYE", {})>>
          \/ wire' = <<Untagged("PREAUTH", {}), Junk>>
      BY <1>1 DEF Greet
    <3>4. \A r, t \in Response \cup {Junk} :
             <<r>> \in Seq(Response \cup {Junk}) /\ <<r, t>> \in Seq(Response \cup {Junk})
      OBVIOUS
    <3>5. QED BY <3>1, <3>2, <3>3, <3>4
  <2>4. ServerVarsOK'
    BY <1>0, <2>1, <2>2 DEF ServerVarsOK
  <2>5. NetVarsOK' /\ InboxInv'
    BY <1>0, <2>1, <2>3 DEF NetVarsOK, InboxInv
  <2>6. QED BY <2>4, <2>5
<1>2. CASE Answer
  <2> DEFINE c == Head(inbox)
  <2>1. inbox # <<>> /\ c = inbox[1] /\ 1 \in 1..Len(inbox) /\ c \in Command
    BY <1>0, <1>2 DEF Answer
  <2>2. c.op # "greeting" /\ c.tag \in Nat /\ (c.op = "select" => c.mb \in Mailboxes)
    BY <2>1 DEF InboxInv
  <2>3. PICK a \in Answers(c) : /\ wire' = wire \o a.rs /\ selected' = a.selected
                                /\ hits' = a.hits /\ link' = a.link
    BY <1>2 DEF Answer
  <2>4. /\ a.rs \in Seq(Response) /\ a.selected \in Mailboxes \cup {NoMailbox}
        /\ a.hits \subseteq Messages /\ a.link \in {"open", "closed"}
    BY <2>1, <2>2, AnswerTypes
  <2>5. UNCHANGED <<greeted, noise>> /\ inbox' = Tail(inbox)
    BY <1>2 DEF Answer
  <2>6. ServerVarsOK'
    BY <1>0, <2>3, <2>4, <2>5 DEF ServerVarsOK
  <2>7. inbox' \in Seq(Command) /\ Len(inbox') = Len(inbox) - 1
        /\ \A i \in 1..Len(inbox') : inbox'[i] = inbox[i + 1] /\ i + 1 \in 1..Len(inbox)
    BY <1>0, <2>1, <2>5
  <2>8. wire' \in Seq(Response \cup {Junk})
    <3>1. a.rs \in Seq(Response \cup {Junk})
      BY <2>4
    <3>2. QED BY <1>0, <2>3, <3>1
  <2>9. QED BY <2>6, <2>7, <2>8 DEF NetVarsOK, InboxInv
<1>3. CASE Unasked
  <2>1. UNCHANGED <<link, greeted, selected, hits, inbox>> /\ noise' \in 0..MaxNoise
    BY <1>3, ProgramAssumption DEF Unasked, ServerVarsOK
  <2>2. wire' \in Seq(Response \cup {Junk})
    <3>1. PICK type \in {"OTHER", "FETCH"} : wire' = Append(wire, Untagged(type, {}))
      BY <1>3 DEF Unasked
    <3>2. Untagged(type, {}) \in Response
      BY UntaggedType DEF ResponseType
    <3>3. QED BY <1>0, <3>1, <3>2
  <2>3. QED BY <1>0, <2>1, <2>2 DEF ServerVarsOK, NetVarsOK, InboxInv
<1>4. CASE Leave
  <2>1. UNCHANGED <<greeted, selected, hits, inbox, noise>> /\ link' \in {"closed", "reset"}
    BY <1>4 DEF Leave
  <2>2. wire' \in Seq(Response \cup {Junk})
    <3>1. Untagged("BYE", {}) \in Response
      BY UntaggedType DEF ResponseType
    <3>2. QED BY <1>0, <1>4, <3>1 DEF Leave
  <2>3. QED BY <1>0, <2>1, <2>2 DEF ServerVarsOK, NetVarsOK, InboxInv
<1>5. QED BY <1>1, <1>2, <1>3, <1>4 DEF Server

LEMMA ServerPInv == ASSUME PInv, Server PROVE PInv'
<1> USE DEF PInv
<1>1. UNCHANGED <<vars, programVars, threadVars>>
  BY DEF Server
<1>2. IInv'
  BY <1>1, StutterIInv
<1>3. ProgramVarsOK' /\ ModeInv'
  BY <1>1 DEF programVars, ProgramVarsOK, ModeInv
<1>4. ThreadVarsOK'
  BY <1>1 DEF threadVars, ThreadVarsOK
<1>5. CallInv'
  BY <1>1 DEF programVars, vars, callVars, CallInv
<1>6. QED BY <1>2, <1>3, <1>4, <1>5, ServerTypes
-----------------------------------------------------------------------------
LEMMA StutterPInv == ASSUME PInv, UNCHANGED allVars PROVE PInv'
<1>1. UNCHANGED <<vars, programVars, serverVars, netVars, threadVars>>
  BY DEF allVars
<1>2. IInv'
  BY <1>1, StutterIInv DEF PInv
<1>3. ProgramVarsOK' /\ ModeInv'
  BY <1>1 DEF PInv, programVars, ProgramVarsOK, ModeInv
<1>4. ServerVarsOK' /\ NetVarsOK' /\ InboxInv' /\ ThreadVarsOK'
  BY <1>1 DEF PInv, serverVars, netVars, threadVars, ServerVarsOK, NetVarsOK, InboxInv,
              ThreadVarsOK
<1>5. CallInv'
  BY <1>1 DEF PInv, programVars, vars, callVars, CallInv
<1>6. QED BY <1>2, <1>3, <1>4, <1>5 DEF PInv

LEMMA NextPInv == ASSUME PInv, [ProgramNext]_allVars PROVE PInv'
<1>1. CASE SessionStep \/ WakesForNothing \/ WaitExpires
  BY <1>1, InsidePInv DEF SessionStep, WakesForNothing, WaitExpires
<1>2. QED BY <1>1, CallPInv, ProgramPInv, ThreadPInv, ServerPInv, StutterPInv
             DEF ProgramNext

(* The inductive invariant holds in every reachable state of the program.  *)
THEOREM ProgramInvariance == ProgramSpec => []PInv
<1>1. ProgramInit => PInv
  BY InitPInv
<1>2. PInv /\ [ProgramNext]_allVars => PInv'
  BY NextPInv
<1>3. QED BY <1>1, <1>2, PTL DEF ProgramSpec

(* Every variable of the program keeps its type; the exit code is 0 or 1.  *)
THEOREM ProgramTypeCorrect == ProgramSpec => []ProgramTypeOK
BY ProgramInvariance, PInvType, PTL

(* Driven by main() and Client, a session never sleeps over a response or  *)
(* a BYE, pops an empty queue only when the connection is over, and sends  *)
(* SEARCH, FETCH and STORE only for a mailbox.                             *)
THEOREM ProgramKeepsSession ==
    ProgramSpec => [](NoLostWakeup /\ PopIsGuarded /\ SelectBeforeUse)
<1>1. PInv => NoLostWakeup /\ PopIsGuarded /\ SelectBeforeUse
  BY DEF PInv, IInv, WaitInv, SelectInv
<1>2. QED BY <1>1, ProgramInvariance, PTL
=============================================================================
