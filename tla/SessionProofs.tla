---------------------------- MODULE SessionProofs ----------------------------
(***************************************************************************)
(* Session is type correct and keeps its safety properties for every set   *)
(* of mailboxes and messages, every bound, and every interleaving of the   *)
(* two threads.                                                            *)
(***************************************************************************)
EXTENDS Session, TLAPS

\* The places of wait_for_response at which the main thread holds the mutex.
Critical == {"pred", "pred2", "check", "check2"}

(* A thread is inside a critical section exactly while it holds the mutex; *)
(* undefined behaviour is the one way out without releasing it.            *)
MutexInv ==
    /\ pc \in Critical => mutex = "main"
    /\ mutex = "main" => pc \in Critical \cup {"crashed"}
    /\ mutex = "receiver" <=> rpc \in {"bye", "queueBye"}

(* What each read of the predicate and each check has established, and     *)
(* which no step of the receiver can take back: its only unprotected write *)
(* is RECEIVER_ERROR.                                                      *)
WaitInv ==
    /\ pc = "pred2" => queue = <<>>
    /\ NoLostWakeup
    /\ pc = "check" => queue # <<>> \/ state \in {"SERVER_BYED", "RECEIVER_ERROR"}
    /\ PopIsGuarded

\* SELECT carries the name of a mailbox.
SelectInv ==
    /\ SelectBeforeUse
    /\ cmd.op = "select" => cmd.mb \in Mailboxes

\* A call in progress has not ended yet.
OutcomeInv == pc # "idle" => outcome = "none"

IInv == TypeOK /\ MutexInv /\ WaitInv /\ SelectInv /\ OutcomeInv
-----------------------------------------------------------------------------
(* The constructors of Imap build what their names say. *)

LEMMA PlainType ==
    ASSUME NEW op \in Operation, NEW t \in Tags
    PROVE  Plain(op, t) \in Command
BY DEF Plain, Command

LEMMA UntaggedType ==
    ASSUME NEW type \in ResponseType, NEW body \in SUBSET Messages
    PROVE  Untagged(type, body) \in Response
BY DEF Untagged, Response, Tags

LEMMA TaggedType ==
    ASSUME NEW type \in ResponseType, NEW t \in Nat
    PROVE  Tagged(type, t) \in Response
BY DEF Tagged, Response, Tags

\* Everything the receiver delivers is a response.
LEMMA ArrivalsType == Arrivals \subseteq Response
<1> SUFFICES ASSUME NEW r \in Arrivals PROVE r \in Response
  OBVIOUS
<1>1. CASE r \in {Untagged(type, {}) : type \in {"OK", "NO", "PREAUTH", "OTHER"}}
  BY <1>1, UntaggedType DEF ResponseType
<1>2. CASE r \in {Untagged("SEARCH", hits) : hits \in SUBSET Messages}
  BY <1>2, UntaggedType DEF ResponseType
<1>3. CASE r \in {Untagged("FETCH", text) : text \in {{}} \cup {{m} : m \in Messages}}
  <2>1. PICK text \in {{}} \cup {{m} : m \in Messages} : r = Untagged("FETCH", text)
    BY <1>3
  <2>2. text \in SUBSET Messages
    BY <2>1
  <2>3. QED BY <2>1, <2>2, UntaggedType DEF ResponseType
<1>4. CASE r \in {Tagged(type, t) : type \in {"OK", "BAD"}, t \in {LoginTag, 1}}
  <2>1. PICK type \in {"OK", "BAD"}, t \in {LoginTag, 1} : r = Tagged(type, t)
    BY <1>4
  <2>2. type \in ResponseType /\ t \in Nat
    BY <2>1 DEF ResponseType, LoginTag
  <2>3. QED BY <2>1, <2>2, TaggedType
<1>5. QED BY <1>1, <1>2, <1>3, <1>4 DEF Arrivals

LEMMA NoResponseType == NoResponse \in Response
BY UntaggedType DEF NoResponse, ResponseType
-----------------------------------------------------------------------------
LEMMA InitIInv == Init => IInv
<1> SUFFICES ASSUME Init PROVE IInv
  OBVIOUS
<1>1. cmd \in Command /\ cmd.op = "greeting"
  BY PlainType DEF Init, Operation, Tags, NoTag, Plain
<1>2. queue \in Seq(Response) /\ fetched \in Seq(SUBSET Messages)
  BY DEF Init
<1>3. state \in ImapState /\ pc \in Pc /\ outcome \in Outcome
  BY DEF Init, ImapState, Pc, Outcome
<1>4. TypeOK
  BY <1>1, <1>2, <1>3, NoResponseType DEF Init, TypeOK
<1>5. MutexInv /\ WaitInv /\ OutcomeInv
  BY DEF Init, OutcomeInv, MutexInv, Critical, WaitInv, NoLostWakeup, PopIsGuarded
<1>6. SelectInv
  BY <1>1, NoMailboxIsNone DEF Init, SelectInv, SelectBeforeUse
<1>7. QED BY <1>4, <1>5, <1>6 DEF IInv
-----------------------------------------------------------------------------
(* The steps that begin a call leave state, queue and mutex alone. *)

LEMMA AwaitIInv ==
    ASSUME IInv, NEW c \in Command, NEW next \in {"lock", "mark"},
           Await(c, next), tag' \in Nat,
           c.op = "select" => c.mb \in Mailboxes,
           c.op \in {"search", "fetch", "read"} => state = "SELECTED"
    PROVE  IInv'
<1>1. TypeOK'
  BY DEF IInv, TypeOK, Await, sharedVars, Pc, Outcome
<1>2. MutexInv' /\ WaitInv' /\ OutcomeInv'
  BY DEF IInv, OutcomeInv, MutexInv, WaitInv, NoLostWakeup, PopIsGuarded, Critical, Await, sharedVars
<1>3. SelectInv'
  BY DEF IInv, SelectInv, SelectBeforeUse, Await, sharedVars
<1>4. QED BY <1>1, <1>2, <1>3 DEF IInv

LEMMA FinishIInv ==
    ASSUME IInv, NEW result \in Outcome, pc = "idle", Finish(result), tag' \in Nat,
           UNCHANGED <<sharedVars, mailbox, cmd, resp, found, fetched, expired, rpc>>
    PROVE  IInv'
<1>1. TypeOK'
  BY DEF IInv, TypeOK, Finish, sharedVars, Pc, Outcome
<1>2. MutexInv' /\ WaitInv' /\ SelectInv' /\ OutcomeInv'
  BY DEF IInv, OutcomeInv, MutexInv, WaitInv, NoLostWakeup, PopIsGuarded, Critical,
         Finish, sharedVars, SelectInv, SelectBeforeUse
<1>3. QED BY <1>1, <1>2 DEF IInv

LEMMA RefuseIInv == ASSUME IInv, Refuse PROVE IInv'
BY FinishIInv DEF Refuse, Outcome, IInv, TypeOK

\* Taking a tag leaves the rest of the command as it is.
LEMMA SendIInv ==
    ASSUME IInv, NEW c \in Command, NEW next \in {"lock", "mark"}, Send(c, next),
           c.op = "select" => c.mb \in Mailboxes,
           c.op \in {"search", "fetch", "read"} => state = "SELECTED"
    PROVE  IInv'
<1> DEFINE d == [c EXCEPT !.tag = tag]
<1>1. tag \in Nat /\ tag' = tag + 1 /\ Await(d, next)
  BY DEF Send, IInv, TypeOK
<1>2. d \in Command /\ d.op = c.op /\ d.mb = c.mb
  BY <1>1 DEF Command, Tags
<1> HIDE DEF d
<1>3. QED BY <1>1, <1>2, AwaitIInv

LEMMA SendSetIInv ==
    ASSUME IInv, NEW c \in Command, SendSet(c), c.op \in {"fetch", "read"},
           state = "SELECTED"
    PROVE  IInv'
<1>1. CASE Send(c, "lock")
  BY <1>1, SendIInv
<1>2. CASE ~Send(c, "lock")
  BY <1>2, FinishIInv DEF SendSet, Outcome, IInv, TypeOK
<1>3. QED BY <1>1, <1>2

LEMMA CallIInv == ASSUME IInv, Call PROVE IInv'
<1>1. tag \in Nat
  BY DEF IInv, TypeOK
<1>2. CASE ReceiveGreeting
  <2>1. Plain("greeting", NoTag) \in Command /\ Plain("greeting", NoTag).op = "greeting"
    BY PlainType DEF Plain, Operation, Tags, NoTag
  <2>2. QED BY <1>1, <1>2, <2>1, AwaitIInv DEF ReceiveGreeting
<1>3. CASE Login
  <2>1. Plain("login", LoginTag) \in Command /\ Plain("login", LoginTag).op = "login"
    BY PlainType DEF Plain, Operation, Tags, LoginTag
  <2>2. CASE state = "AUTHD"
    BY <1>1, <1>3, <2>2, FinishIInv, RefuseIInv DEF Login, Outcome
  <2>3. CASE state = "NAUTH"
    BY <1>1, <1>3, <2>1, <2>3, AwaitIInv, RefuseIInv DEF Login
  <2>4. CASE state \notin {"AUTHD", "NAUTH"}
    BY <1>3, <2>4, RefuseIInv DEF Login
  <2>5. QED BY <2>2, <2>3, <2>4
<1>4. CASE Logout
  <2>1. Plain("logout", NoTag) \in Command /\ Plain("logout", NoTag).op = "logout"
    BY PlainType DEF Plain, Operation, Tags, NoTag
  <2>2. QED BY <1>4, <2>1, SendIInv DEF Logout
<1>5. ASSUME NEW mb \in Mailboxes, Select(mb) PROVE IInv'
  <2> DEFINE c == [Plain("select", NoTag) EXCEPT !.mb = mb]
  <2>1. c \in Command /\ c.op = "select" /\ c.mb = mb
    BY PlainType DEF Plain, Command, Operation, Tags, NoTag
  <2>2. CASE Refuse
    BY <2>2, RefuseIInv
  <2>3. CASE Send(c, "lock")
    <3> HIDE DEF c
    <3>1. QED BY <2>1, <2>3, SendIInv
  <2>4. QED BY <1>5, <2>2, <2>3 DEF Select
<1>6. ASSUME NEW u \in BOOLEAN, Search(u) PROVE IInv'
  <2> DEFINE c == [Plain("search", NoTag) EXCEPT !.unseen = u]
  <2>1. c \in Command /\ c.op = "search"
    BY PlainType DEF Plain, Command, Operation, Tags, NoTag
  <2>2. CASE Refuse
    BY <2>2, RefuseIInv
  <2>3. CASE state = "SELECTED" /\ Send(c, "lock")
    <3> HIDE DEF c
    <3>1. QED BY <2>1, <2>3, SendIInv
  <2>4. QED BY <1>6, <2>2, <2>3 DEF Search
<1>7. ASSUME NEW set \in SUBSET Messages, Fetch(set) \/ Read(set) PROVE IInv'
  <2> DEFINE c(op) == [Plain(op, NoTag) EXCEPT !.set = set]
  <2>1. \A op \in {"fetch", "read"} : c(op) \in Command /\ c(op).op = op
    BY PlainType DEF Plain, Command, Operation, Tags, NoTag
  <2>2. CASE Refuse
    BY <2>2, RefuseIInv
  <2>3. CASE state = "SELECTED" /\ \E op \in {"fetch", "read"} : SendSet(c(op))
    <3> HIDE DEF c
    <3>1. QED BY <2>1, <2>3, SendSetIInv
  <2>4. QED BY <1>7, <2>2, <2>3 DEF Fetch, Read
<1>8. QED BY <1>2, <1>3, <1>4, <1>5, <1>6, <1>7 DEF Call
-----------------------------------------------------------------------------
(* The steps inside a call. *)

LEMMA WaitStepIInv ==
    ASSUME IInv,
           \/ MarkLogout \/ Acquire \/ TestQueueOrError \/ TestByed \/ Reacquire
           \/ CheckError \/ SpuriousWakeup \/ Expire
    PROVE  IInv'
<1> USE DEF IInv
<1>1. CASE MarkLogout
  <2>1. TypeOK'
    BY <1>1 DEF TypeOK, MarkLogout, callVars, ImapState, Pc
  <2>2. MutexInv' /\ WaitInv' /\ SelectInv' /\ OutcomeInv'
    BY <1>1 DEF OutcomeInv, MutexInv, WaitInv, NoLostWakeup, PopIsGuarded, Critical, MarkLogout,
                callVars, SelectInv, SelectBeforeUse
  <2>3. QED BY <2>1, <2>2
<1>2. CASE Acquire
  <2>1. TypeOK'
    BY <1>2 DEF TypeOK, Acquire, callVars, Pc
  <2>2. MutexInv' /\ WaitInv' /\ SelectInv' /\ OutcomeInv'
    BY <1>2 DEF OutcomeInv, MutexInv, WaitInv, NoLostWakeup, PopIsGuarded, Critical, Acquire,
                callVars, SelectInv, SelectBeforeUse
  <2>3. QED BY <2>1, <2>2
<1>3. CASE TestQueueOrError
  <2>1. TypeOK'
    BY <1>3 DEF TypeOK, TestQueueOrError, sharedVars, callVars, Pc
  <2>2. MutexInv' /\ WaitInv' /\ SelectInv' /\ OutcomeInv'
    BY <1>3 DEF OutcomeInv, MutexInv, WaitInv, NoLostWakeup, PopIsGuarded, Critical,
                TestQueueOrError, sharedVars, callVars, SelectInv, SelectBeforeUse
  <2>3. QED BY <2>1, <2>2
<1>4. CASE TestByed
  <2>1. TypeOK'
    BY <1>4 DEF TypeOK, TestByed, Finish, Pc, Outcome
  <2>2. MutexInv' /\ WaitInv' /\ SelectInv' /\ OutcomeInv'
    BY <1>4 DEF OutcomeInv, MutexInv, WaitInv, NoLostWakeup, PopIsGuarded, Critical, TestByed,
                Finish, SelectInv, SelectBeforeUse
  <2>3. QED BY <2>1, <2>2
<1>5. CASE Reacquire
  <2>1. TypeOK'
    BY <1>5 DEF TypeOK, Reacquire, callVars, Pc
  <2>2. MutexInv' /\ WaitInv' /\ SelectInv' /\ OutcomeInv'
    BY <1>5 DEF OutcomeInv, MutexInv, WaitInv, NoLostWakeup, PopIsGuarded, Critical, Reacquire,
                callVars, SelectInv, SelectBeforeUse
  <2>3. QED BY <2>1, <2>2
<1>6. CASE CheckError
  <2>1. TypeOK'
    BY <1>6 DEF TypeOK, CheckError, Finish, Pc, Outcome
  <2>2. MutexInv' /\ WaitInv' /\ SelectInv' /\ OutcomeInv'
    BY <1>6 DEF OutcomeInv, MutexInv, WaitInv, NoLostWakeup, PopIsGuarded, Critical, CheckError,
                Finish, SelectInv, SelectBeforeUse
  <2>3. QED BY <2>1, <2>2
<1>7. CASE SpuriousWakeup \/ Expire
  <2>1. TypeOK'
    BY <1>7 DEF TypeOK, SpuriousWakeup, Expire, sharedVars, callVars, Pc
  <2>2. MutexInv' /\ WaitInv' /\ SelectInv' /\ OutcomeInv'
    BY <1>7 DEF OutcomeInv, MutexInv, WaitInv, NoLostWakeup, PopIsGuarded, Critical,
                SpuriousWakeup, Expire, sharedVars, callVars, SelectInv, SelectBeforeUse
  <2>3. QED BY <2>1, <2>2
<1>8. QED BY <1>1, <1>2, <1>3, <1>4, <1>5, <1>6, <1>7

LEMMA PopIInv == ASSUME IInv, CheckByedAndPop PROVE IInv'
<1> USE DEF IInv
<1>1. queue # <<>> => Head(queue) \in Response /\ Tail(queue) \in Seq(Response)
  BY DEF TypeOK
<1>2. TypeOK'
  BY <1>1 DEF TypeOK, CheckByedAndPop, Finish, Pc, Outcome
<1>3. MutexInv' /\ WaitInv' /\ SelectInv' /\ OutcomeInv'
  BY DEF OutcomeInv, MutexInv, WaitInv, NoLostWakeup, PopIsGuarded, Critical, CheckByedAndPop,
         Finish, SelectInv, SelectBeforeUse
<1>4. QED BY <1>2, <1>3

\* What a handler may do: leave the call, crash, or wait again; write state;
\* select a mailbox.
LEMMA HandleIInv == ASSUME IInv, Handle PROVE IInv'
<1> USE DEF IInv
<1>1. /\ pc = "handle"
      /\ UNCHANGED <<queue, mutex, tag, cmd, expired, rpc>>
      /\ resp' = NoResponse
  BY DEF Handle
<1>2. /\ pc' \in {"idle", "lock", "crashed"}
      /\ outcome' \in Outcome
      /\ state' \in ImapState
  BY DEF Handle, HandleGreeting, HandleLogin, HandleSelect, HandleSearch, HandleFetch,
         HandleRead, HandleLogout, WaitAgain, Accept, Reject, Finish, TypeOK,
         Outcome, ImapState
<1>2a. pc' # "idle" => outcome' = outcome
  BY DEF Handle, HandleGreeting, HandleLogin, HandleSelect, HandleSearch, HandleFetch,
         HandleRead, HandleLogout, WaitAgain, Accept, Reject, Finish
<1>3. /\ mailbox' \in Mailboxes \cup {NoMailbox}
      /\ mailbox # NoMailbox => mailbox' # NoMailbox
      /\ state' = "SELECTED" => mailbox' # NoMailbox
  <2>1. CASE cmd.op = "select" /\ HandleSelect
    BY <2>1, NoMailboxIsNone DEF HandleSelect, WaitAgain, Accept, Reject, Finish,
       TypeOK, SelectInv, SelectBeforeUse
  <2>2. CASE ~(cmd.op = "select" /\ HandleSelect)
    BY <2>2 DEF Handle, HandleGreeting, HandleLogin, HandleSearch, HandleFetch,
       HandleRead, HandleLogout, WaitAgain, Accept, Reject, Finish, TypeOK,
       SelectInv, SelectBeforeUse
  <2>3. QED BY <2>1, <2>2
<1>4. found' \subseteq SUBSET Messages /\ fetched' \in Seq(SUBSET Messages)
  <2>1. resp.body \in SUBSET Messages
    BY DEF TypeOK, Response
  <2>2. Append(fetched, resp.body) \in Seq(SUBSET Messages)
    BY <2>1 DEF TypeOK
  <2>3. QED BY <2>1, <2>2 DEF Handle, HandleGreeting, HandleLogin, HandleSelect,
       HandleSearch, HandleFetch, HandleRead, HandleLogout, TypeOK
<1>5. TypeOK'
  BY <1>1, <1>2, <1>3, <1>4, NoResponseType DEF TypeOK, Pc
<1>6. MutexInv' /\ WaitInv' /\ OutcomeInv'
  BY <1>1, <1>2, <1>2a DEF OutcomeInv, MutexInv, WaitInv, NoLostWakeup, PopIsGuarded, Critical
<1>7. SelectInv'
  BY <1>1, <1>3 DEF SelectInv, SelectBeforeUse
<1>8. QED BY <1>5, <1>6, <1>7
-----------------------------------------------------------------------------
(* The steps of the receiver.  Wake moves the main thread from blocked to  *)
(* woken, where nothing is claimed of the queue.                           *)

LEMMA NotifyIncomingIInv ==
    ASSUME IInv, NEW r \in Response, NotifyIncoming(r) PROVE IInv'
<1> USE DEF IInv
<1>1. queue' \in Seq(Response)
  BY DEF NotifyIncoming, TypeOK
<1>2. TypeOK'
  BY <1>1 DEF TypeOK, NotifyIncoming, Wake, callVars, Pc
<1>3. MutexInv' /\ WaitInv' /\ SelectInv' /\ OutcomeInv'
  BY DEF OutcomeInv, MutexInv, WaitInv, NoLostWakeup, PopIsGuarded, Critical, NotifyIncoming,
         Wake, callVars, SelectInv, SelectBeforeUse
<1>4. QED BY <1>2, <1>3

LEMMA ReceiverIInv ==
    ASSUME IInv, NotifyBye \/ MarkByed \/ QueueBye \/ MarkFailed \/ NotifyFailed
    PROVE  IInv'
<1> USE DEF IInv
<1>1. CASE NotifyBye
  <2>1. TypeOK'
    BY <1>1 DEF TypeOK, NotifyBye, callVars
  <2>2. MutexInv' /\ WaitInv' /\ SelectInv' /\ OutcomeInv'
    BY <1>1 DEF OutcomeInv, MutexInv, WaitInv, NoLostWakeup, PopIsGuarded, Critical, NotifyBye,
                callVars, SelectInv, SelectBeforeUse
  <2>3. QED BY <2>1, <2>2
<1>2. CASE MarkByed
  <2>1. TypeOK'
    BY <1>2 DEF TypeOK, MarkByed, Wake, callVars, ImapState, Pc
  <2>2. MutexInv' /\ WaitInv' /\ SelectInv' /\ OutcomeInv'
    BY <1>2 DEF OutcomeInv, MutexInv, WaitInv, NoLostWakeup, PopIsGuarded, Critical, MarkByed,
                Wake, callVars, SelectInv, SelectBeforeUse
  <2>3. QED BY <2>1, <2>2
<1>3. CASE QueueBye
  <2>1. queue' \in Seq(Response)
    BY <1>3, UntaggedType DEF QueueBye, TypeOK, ResponseType
  <2>2. TypeOK'
    BY <1>3, <2>1 DEF TypeOK, QueueBye, Wake, callVars, Pc
  <2>3. MutexInv' /\ WaitInv' /\ SelectInv' /\ OutcomeInv'
    BY <1>3 DEF OutcomeInv, MutexInv, WaitInv, NoLostWakeup, PopIsGuarded, Critical, QueueBye,
                Wake, callVars, SelectInv, SelectBeforeUse
  <2>4. QED BY <2>2, <2>3
<1>4. CASE MarkFailed
  <2>1. TypeOK'
    BY <1>4 DEF TypeOK, MarkFailed, callVars, ImapState
  <2>2. MutexInv' /\ WaitInv' /\ SelectInv' /\ OutcomeInv'
    BY <1>4 DEF OutcomeInv, MutexInv, WaitInv, NoLostWakeup, PopIsGuarded, Critical, MarkFailed,
                callVars, SelectInv, SelectBeforeUse
  <2>3. QED BY <2>1, <2>2
<1>5. CASE NotifyFailed
  <2>1. TypeOK'
    BY <1>5 DEF TypeOK, NotifyFailed, Wake, sharedVars, callVars, Pc
  <2>2. MutexInv' /\ WaitInv' /\ SelectInv' /\ OutcomeInv'
    BY <1>5 DEF OutcomeInv, MutexInv, WaitInv, NoLostWakeup, PopIsGuarded, Critical, NotifyFailed,
                Wake, sharedVars, callVars, SelectInv, SelectBeforeUse
  <2>3. QED BY <2>1, <2>2
<1>6. QED BY <1>1, <1>2, <1>3, <1>4, <1>5
-----------------------------------------------------------------------------
LEMMA StutterIInv == ASSUME IInv, UNCHANGED vars PROVE IInv'
BY DEF IInv, TypeOK, OutcomeInv, MutexInv, WaitInv, NoLostWakeup, PopIsGuarded,
       Critical, SelectInv, SelectBeforeUse, vars, sharedVars, callVars

LEMMA NextIInv == ASSUME IInv, Next PROVE IInv'
<1>1. CASE Call
  BY <1>1, CallIInv
<1>2. CASE MainStep
  BY <1>2, WaitStepIInv, PopIInv, HandleIInv DEF MainStep
<1>3. CASE SpuriousWakeup \/ Expire
  BY <1>3, WaitStepIInv
<1>4. CASE Deliver
  BY <1>4, ArrivalsType, NotifyIncomingIInv, ReceiverIInv DEF Deliver
<1>5. CASE MarkFailed \/ ReceiverStep
  BY <1>5, ReceiverIInv DEF ReceiverStep
<1>6. QED BY <1>1, <1>2, <1>3, <1>4, <1>5 DEF Next

(* The inductive invariant holds in every reachable state.                 *)
THEOREM Invariance == Spec => []IInv
<1>1. Init => IInv
  BY InitIInv
<1>2. IInv /\ [Next]_vars => IInv'
  BY NextIInv, StutterIInv
<1>3. QED BY <1>1, <1>2, PTL DEF Spec

(* Every variable of a session keeps its type.                             *)
THEOREM TypeCorrect == Spec => []TypeOK
BY Invariance, PTL DEF IInv

(* The main thread never sleeps while a response or a BYE is there for it. *)
THEOREM WakeupsAreNotLost == Spec => []NoLostWakeup
BY Invariance, PTL DEF IInv, WaitInv

(* wait_for_response comes to front() with an empty queue only when the    *)
(* connection is over.                                                     *)
THEOREM PopsAreGuarded == Spec => []PopIsGuarded
BY Invariance, PTL DEF IInv, WaitInv

(* SEARCH, FETCH and STORE are only sent when current_mailbox is set, by   *)
(* some tagged OK that select took for its own.                            *)
THEOREM SelectComesFirst == Spec => []SelectBeforeUse
BY Invariance, PTL DEF IInv, SelectInv

(* A wait that gives up leaves nothing behind in the queue.                *)
THEOREM TimeoutsAreSilent == Spec => TimeoutMeansSilence
<1>1. IInv /\ [Next]_vars =>
        [pc = "pred2" /\ outcome' = "timeout"
           => queue = <<>> /\ state # "SERVER_BYED"]_vars
  <2> SUFFICES ASSUME IInv, Next, pc = "pred2", outcome' = "timeout"
               PROVE  queue = <<>> /\ state # "SERVER_BYED"
    OBVIOUS
  <2>1. queue = <<>> /\ outcome = "none"
    BY DEF IInv, WaitInv, OutcomeInv
  <2>2. CASE TestByed
    BY <2>1, <2>2 DEF TestByed
  <2>3. ~Call
    BY DEF Call, ReceiveGreeting, Login, Logout, Select, Search, Fetch, Read,
           Send, SendSet, Await, Refuse
  <2>4. MainStep => TestByed
    BY DEF MainStep, MarkLogout, Acquire, TestQueueOrError, Reacquire, CheckError,
           CheckByedAndPop, Handle
  <2>5. CASE SpuriousWakeup \/ Expire
    BY <2>1, <2>5 DEF SpuriousWakeup, Expire
  <2>6. CASE Deliver \/ MarkFailed \/ ReceiverStep
    BY <2>1, <2>6 DEF Deliver, NotifyIncoming, NotifyBye, MarkFailed, ReceiverStep,
           MarkByed, QueueBye, NotifyFailed, callVars
  <2>7. QED BY <2>2, <2>3, <2>4, <2>5, <2>6 DEF Next
<1>2. QED BY <1>1, Invariance, PTL DEF Spec, TimeoutMeansSilence
=============================================================================
