------------------------------- MODULE Session -------------------------------
(***************************************************************************)
(* class Session: the main thread that issues commands and waits for       *)
(* their replies, and the two callbacks through which the receiver thread  *)
(* hands it responses and failures.                                        *)
(*                                                                         *)
(* The threads share response_queue, guarded by incoming_mutex, and state, *)
(* guarded by nothing: the main thread writes it in transition() without   *)
(* the mutex, receiver_notify_failed writes it and notifies without the    *)
(* mutex.  Hence every unprotected read or write of state that another     *)
(* thread can separate from its neighbours is a step of its own.           *)
(*                                                                         *)
(* Who calls is open: the main thread may call any operation in any order, *)
(* the receiver may deliver any response at any time.  Imapcl closes it.   *)
(***************************************************************************)
EXTENDS Imap

CONSTANTS
    MaxTag,     \* get_new_tag is not called beyond this tag
    MaxQueue    \* nothing is delivered while the session holds this many responses

ASSUME BoundsAreNaturals == MaxTag \in Nat /\ MaxQueue \in Nat

VARIABLES
    state,      \* Session::state
    queue,      \* response_queue
    mutex,      \* who holds incoming_mutex
    tag,        \* Session::tag
    mailbox,    \* current_mailbox
    pc,         \* where the main thread is
    cmd,        \* the operation in progress and its arguments
    expired,    \* the three seconds of wait_for are over
    resp,       \* the response that wait_for_response returned, while it is looked at
    found,      \* search_results_response: {} when null, else {the numbers}
    fetched,    \* fetch_results_responses: the text of each, in order
    outcome,    \* how the last operation ended
    rpc         \* where the receiver thread is in a callback

sharedVars == <<state, queue, mutex>>
callVars   == <<tag, mailbox, cmd, resp, found, fetched, outcome>>
vars == <<sharedVars, callVars, pc, expired, rpc>>

(* returned: normally.  Otherwise an exception: refused - a logic_error    *)
(* before anything was sent; timeout, failed, byed - from wait_for_response; *)
(* rejected - the reply was not the one the operation accepts.             *)
Outcome == {"none", "returned", "refused", "timeout", "failed", "byed", "rejected"}

(* idle: not in a Session call.  mark: LOGOUT sent, state not yet written. *)
(* lock, pred, pred2, blocked, woken, check, check2: wait_for_response.    *)
(* handle: the caller inspects the response.  crashed: undefined behaviour. *)
Pc == {"idle", "mark", "lock", "pred", "pred2", "blocked", "woken",
       "check", "check2", "handle", "crashed"}

\* The local variable response is not assigned, or done with.
NoResponse == Untagged("OTHER", {})

Init ==
    /\ state = "GREETING"
    /\ queue = <<>>
    /\ mutex = "free"
    /\ tag = 1
    /\ mailbox = NoMailbox
    /\ pc = "idle"
    /\ cmd = Plain("greeting", NoTag)
    /\ expired = FALSE
    /\ resp = NoResponse
    /\ found = {}
    /\ fetched = <<>>
    /\ outcome = "none"
    /\ rpc = "idle"
-----------------------------------------------------------------------------
(* The first half of every operation: the guard on state and the sending. *)

Finish(result) ==
    /\ pc' = "idle"
    /\ outcome' = result

\* A guard on state throws before a tag is taken.
Refuse ==
    /\ pc = "idle"
    /\ Finish("refused")
    /\ UNCHANGED <<sharedVars, tag, mailbox, cmd, resp, found, fetched,
                   expired, rpc>>

\* The command is on its way: what follows is next.
Await(c, next) ==
    /\ pc = "idle"
    /\ cmd' = c
    /\ pc' = next
    /\ outcome' = "none"
    /\ found' = {}
    /\ fetched' = <<>>
    /\ UNCHANGED <<sharedVars, mailbox, resp, expired, rpc>>

\* A command under a new tag.
Send(c, next) ==
    /\ tag <= MaxTag
    /\ tag' = tag + 1
    /\ Await([c EXCEPT !.tag = tag], next)

\* make_tcp of FETCH and STORE throws when the set is empty: the tag is spent.
SendSet(c) ==
    \/ c.set # {} /\ Send(c, "lock")
    \/ /\ c.set = {}
       /\ pc = "idle"
       /\ tag <= MaxTag
       /\ tag' = tag + 1
       /\ Finish("refused")
       /\ UNCHANGED <<sharedVars, mailbox, cmd, resp, found, fetched,
                      expired, rpc>>

ReceiveGreeting ==
    /\ Await(Plain("greeting", NoTag), "lock")
    /\ UNCHANGED tag

\* Only the main thread writes AUTHD, so the two reads of state are one.
Login ==
    \/ /\ pc = "idle"
       /\ state = "AUTHD"
       /\ Finish("returned")
       /\ UNCHANGED <<sharedVars, tag, mailbox, cmd, resp, found, fetched,
                      expired, rpc>>
    \/ state \notin {"AUTHD", "NAUTH"} /\ Refuse
    \/ /\ state = "NAUTH"
       /\ Await(Plain("login", LoginTag), "lock")
       /\ UNCHANGED tag

Select(mb) ==
    \/ state = "NAUTH" /\ Refuse
    \/ state # "NAUTH" /\ Send([Plain("select", NoTag) EXCEPT !.mb = mb], "lock")

Search(onlyUnseen) ==
    \/ state # "SELECTED" /\ Refuse
    \/ /\ state = "SELECTED"
       /\ Send([Plain("search", NoTag) EXCEPT !.unseen = onlyUnseen], "lock")

Fetch(set) ==
    \/ state # "SELECTED" /\ Refuse
    \/ state = "SELECTED" /\ SendSet([Plain("fetch", NoTag) EXCEPT !.set = set])

\* Mutant: the guard on state is missing.
ReadAnyway(set) == SendSet([Plain("read", NoTag) EXCEPT !.set = set])

Read(set) ==
    \/ state # "SELECTED" /\ Refuse
    \/ state = "SELECTED" /\ SendSet([Plain("read", NoTag) EXCEPT !.set = set])

Logout == Send(Plain("logout", NoTag), "mark")

\* logout() writes LOGOUT after the send, with the mutex not held.
MarkLogout ==
    /\ pc = "mark"
    /\ state' = "LOGOUT"
    /\ pc' = "lock"
    /\ UNCHANGED <<queue, mutex, callVars, expired, rpc>>
-----------------------------------------------------------------------------
(* wait_for_response *)

Acquire ==
    /\ pc = "lock"
    /\ mutex = "free"
    /\ mutex' = "main"
    /\ pc' = "pred"
    /\ UNCHANGED <<state, queue, callVars, expired, rpc>>

\* Mutant: the predicate does not look for a failure.
TestQueueOnly ==
    /\ pc = "pred"
    /\ pc' = IF queue # <<>> THEN "check" ELSE "pred2"
    /\ expired' = (expired /\ queue = <<>>)
    /\ UNCHANGED <<sharedVars, callVars, rpc>>

\* The predicate reads state twice.
TestQueueOrError ==
    /\ pc = "pred"
    /\ \/ /\ queue # <<>> \/ state = "RECEIVER_ERROR"
          /\ pc' = "check"
          /\ expired' = FALSE
       \/ /\ queue = <<>> /\ state # "RECEIVER_ERROR"
          /\ pc' = "pred2"
          /\ UNCHANGED expired
    /\ UNCHANGED <<sharedVars, callVars, rpc>>

\* Waiting gives the mutex up; a wait that timed out is not resumed.
TestByed ==
    /\ pc = "pred2"
    /\ \/ /\ state = "SERVER_BYED"
          /\ pc' = "check"
          /\ UNCHANGED <<mutex, outcome>>
       \/ /\ state # "SERVER_BYED"
          /\ mutex' = "free"
          /\ \/ ~expired /\ pc' = "blocked" /\ UNCHANGED outcome
             \/ expired /\ Finish("timeout")
    /\ expired' = FALSE
    /\ UNCHANGED <<state, queue, tag, mailbox, cmd, resp, found, fetched, rpc>>

\* Mutant: the notification is forgotten.
WakeNobody == UNCHANGED pc

\* incoming_cv.notify_one(): heard only by a thread that is blocked.
Wake == pc' = IF pc = "blocked" THEN "woken" ELSE pc

SpuriousWakeup ==
    /\ pc = "blocked"
    /\ pc' = "woken"
    /\ UNCHANGED <<sharedVars, callVars, expired, rpc>>

\* wait_for compares the clock with the deadline when it stops blocking,
\* which may be after a notification.
Expire ==
    /\ pc \in {"blocked", "woken"}
    /\ ~expired
    /\ expired' = TRUE
    /\ pc' = "woken"
    /\ UNCHANGED <<sharedVars, callVars, rpc>>

\* Mutant: the predicate is not evaluated again after a wakeup.
ReacquireAndGo ==
    /\ pc = "woken" /\ mutex = "free"
    /\ mutex' = "main"
    /\ pc' = "check"
    /\ UNCHANGED <<state, queue, callVars, expired, rpc>>

\* Mutant: every wakeup gives the wait three new seconds.
ReacquireAndExtend ==
    /\ pc = "woken" /\ mutex = "free"
    /\ mutex' = "main"
    /\ pc' = "pred"
    /\ expired' = FALSE
    /\ UNCHANGED <<state, queue, callVars, rpc>>

Reacquire ==
    /\ pc = "woken"
    /\ mutex = "free"
    /\ mutex' = "main"
    /\ pc' = "pred"
    /\ UNCHANGED <<state, queue, callVars, expired, rpc>>

CheckError ==
    /\ pc = "check"
    /\ \/ /\ state = "RECEIVER_ERROR"
          /\ mutex' = "free"
          /\ Finish("failed")
       \/ /\ state # "RECEIVER_ERROR"
          /\ pc' = "check2"
          /\ UNCHANGED <<mutex, outcome>>
    /\ UNCHANGED <<state, queue, tag, mailbox, cmd, resp, found, fetched,
                   expired, rpc>>

\* Mutant: the response is read but not removed.
CheckByedAndPeek ==
    /\ pc = "check2"
    /\ \/ state = "SERVER_BYED" /\ Finish("byed") /\ UNCHANGED resp
       \/ /\ state # "SERVER_BYED" /\ queue # <<>>
          /\ resp' = Head(queue)
          /\ pc' = "handle"
          /\ UNCHANGED outcome
    /\ mutex' = "free"
    /\ UNCHANGED <<state, queue, tag, mailbox, cmd, found, fetched, expired, rpc>>

\* Mutant: the second check is missing.
PopUnchecked ==
    /\ pc = "check2"
    /\ \/ /\ queue # <<>>
          /\ resp' = Head(queue) /\ queue' = Tail(queue)
          /\ mutex' = "free" /\ pc' = "handle"
       \/ queue = <<>> /\ pc' = "crashed" /\ UNCHANGED <<queue, mutex, resp>>
    /\ UNCHANGED <<state, tag, mailbox, cmd, found, fetched, outcome, expired, rpc>>

\* front() and pop() of an empty queue are undefined.
CheckByedAndPop ==
    /\ pc = "check2"
    /\ \/ /\ state = "SERVER_BYED"
          /\ mutex' = "free"
          /\ Finish("byed")
          /\ UNCHANGED <<queue, resp>>
       \/ /\ state # "SERVER_BYED"
          /\ queue # <<>>
          /\ resp' = Head(queue)
          /\ queue' = Tail(queue)
          /\ mutex' = "free"
          /\ pc' = "handle"
          /\ UNCHANGED outcome
       \/ /\ state # "SERVER_BYED"
          /\ queue = <<>>
          /\ pc' = "crashed"
          /\ UNCHANGED <<queue, mutex, resp, outcome>>
    /\ UNCHANGED <<state, tag, mailbox, cmd, found, fetched, expired, rpc>>
-----------------------------------------------------------------------------
(* The second half of every operation: what it does with the response. *)

\* do { response = wait_for_response(); } while (response->get_tag() == "")
WaitAgain ==
    /\ resp.tag = NoTag
    /\ pc' = "lock"
    /\ UNCHANGED <<state, mailbox, outcome>>

Accept(newState) ==
    /\ state' = newState
    /\ Finish("returned")

Reject ==
    /\ Finish("rejected")
    /\ UNCHANGED <<state, mailbox>>

\* Mutant: the state is named after the greeting.
HandleGreetingByType ==
    /\ \/ resp.type \in {"OK", "PREAUTH"} /\ Accept(resp.type) /\ UNCHANGED mailbox
       \/ resp.type \notin {"OK", "PREAUTH"} /\ Reject
    /\ UNCHANGED <<found, fetched>>

HandleGreeting ==
    /\ \/ resp.type = "OK" /\ Accept("NAUTH") /\ UNCHANGED mailbox
       \/ resp.type = "PREAUTH" /\ Accept("AUTHD") /\ UNCHANGED mailbox
       \/ resp.type \notin {"OK", "PREAUTH"} /\ Reject
    /\ UNCHANGED <<found, fetched>>

HandleLogin ==
    /\ \/ /\ resp.type = "OK" /\ resp.tag = LoginTag
          /\ Accept("AUTHD")
          /\ UNCHANGED mailbox
       \/ /\ resp.type # "OK" \/ resp.tag # LoginTag
          /\ Reject
    /\ UNCHANGED <<found, fetched>>

HandleSelect ==
    /\ \/ WaitAgain
       \/ /\ resp.tag # NoTag /\ resp.type = "OK"
          /\ Accept("SELECTED")
          /\ mailbox' = cmd.mb
       \/ resp.tag # NoTag /\ resp.type # "OK" /\ Reject
    /\ UNCHANGED <<found, fetched>>

\* A SEARCH response is kept, the last one wins; with none the OK branch
\* dereferences a null pointer.
HandleSearch ==
    /\ found' = IF resp.type = "SEARCH" THEN {resp.body} ELSE found
    /\ \/ WaitAgain
       \/ /\ resp.tag # NoTag /\ resp.type = "OK"
          /\ \/ found # {} /\ Finish("returned")
             \/ found = {} /\ pc' = "crashed" /\ UNCHANGED outcome
          /\ UNCHANGED <<state, mailbox>>
       \/ resp.tag # NoTag /\ resp.type # "OK" /\ Reject
    /\ UNCHANGED fetched

HandleFetch ==
    /\ fetched' = IF resp.type = "FETCH" THEN Append(fetched, resp.body) ELSE fetched
    /\ \/ WaitAgain
       \/ /\ resp.tag # NoTag /\ resp.type = "OK"
          /\ Finish("returned")
          /\ UNCHANGED <<state, mailbox>>
       \/ resp.tag # NoTag /\ resp.type # "OK" /\ Reject
    /\ UNCHANGED found

\* One response, whatever its tag.
HandleRead ==
    /\ \/ resp.type = "OK" /\ Accept("SELECTED") /\ UNCHANGED mailbox
       \/ resp.type # "OK" /\ Reject
    /\ UNCHANGED <<found, fetched>>

HandleLogout ==
    /\ Finish("returned")
    /\ UNCHANGED <<state, mailbox, found, fetched>>

Handle ==
    /\ pc = "handle"
    /\ \/ cmd.op = "greeting" /\ HandleGreeting
       \/ cmd.op = "login"    /\ HandleLogin
       \/ cmd.op = "select"   /\ HandleSelect
       \/ cmd.op = "search"   /\ HandleSearch
       \/ cmd.op = "fetch"    /\ HandleFetch
       \/ cmd.op = "read"     /\ HandleRead
       \/ cmd.op = "logout"   /\ HandleLogout
    /\ resp' = NoResponse
    /\ UNCHANGED <<queue, mutex, tag, cmd, expired, rpc>>
-----------------------------------------------------------------------------
(* The receiver thread: notify_incoming and receiver_notify_failed. *)

\* Mutant: the queue is written without the mutex.
NotifyUnlocked(r) ==
    /\ rpc = "idle"
    /\ queue' = Append(queue, r)
    /\ Wake
    /\ UNCHANGED <<state, mutex, callVars, expired, rpc>>

NotifyIncoming(r) ==
    /\ rpc = "idle"
    /\ mutex = "free"
    /\ queue' = Append(queue, r)
    /\ Wake
    /\ UNCHANGED <<state, mutex, callVars, expired, rpc>>

\* A BYE: state is read under the mutex, which does not stop the main thread
\* from writing it before the receiver does.
NotifyBye ==
    /\ rpc = "idle"
    /\ mutex = "free"
    /\ mutex' = "receiver"
    /\ rpc' = IF state # "LOGOUT" THEN "bye" ELSE "queueBye"
    /\ UNCHANGED <<state, queue, callVars, pc, expired>>

MarkByed ==
    /\ rpc = "bye"
    /\ state' = "SERVER_BYED"
    /\ mutex' = "free"
    /\ Wake
    /\ rpc' = "idle"
    /\ UNCHANGED <<queue, callVars, expired>>

QueueBye ==
    /\ rpc = "queueBye"
    /\ queue' = Append(queue, Untagged("BYE", {}))
    /\ mutex' = "free"
    /\ Wake
    /\ rpc' = "idle"
    /\ UNCHANGED <<state, callVars, expired>>

\* receiver_notify_failed writes and notifies without the mutex.
MarkFailed ==
    /\ rpc = "idle"
    /\ state' = "RECEIVER_ERROR"
    /\ rpc' = "failing"
    /\ UNCHANGED <<queue, mutex, callVars, pc, expired>>

NotifyFailed ==
    /\ rpc = "failing"
    /\ Wake
    /\ rpc' = "idle"
    /\ UNCHANGED <<sharedVars, callVars, expired>>
-----------------------------------------------------------------------------
\* A call of the user of the class.
Call ==
    \/ ReceiveGreeting \/ Login \/ Logout
    \/ \E mb \in Mailboxes : Select(mb)
    \/ \E u \in BOOLEAN : Search(u)
    \/ \E set \in SUBSET Messages : Fetch(set) \/ Read(set)

\* What the main thread does inside a call.
MainStep ==
    \/ MarkLogout
    \/ Acquire \/ TestQueueOrError \/ TestByed \/ Reacquire
    \/ CheckError \/ CheckByedAndPop
    \/ Handle

\* The responses other than BYE that the parser can produce: only conditions
\* carry a tag.  NO and BAD are one to every caller, and so are all tags but
\* LoginTag.
Arrivals ==
    {Untagged(type, {}) : type \in {"OK", "NO", "PREAUTH", "OTHER"}}
    \cup {Untagged("SEARCH", hits) : hits \in SUBSET Messages}
    \cup {Untagged("FETCH", text) : text \in {{}} \cup {{m} : m \in Messages}}
    \cup {Tagged(type, t) : type \in {"OK", "BAD"}, t \in {LoginTag, 1}}

Deliver ==
    /\ Len(queue) + Len(fetched) < MaxQueue
    /\ NotifyBye \/ \E r \in Arrivals : NotifyIncoming(r)

ReceiverStep == MarkByed \/ QueueBye \/ NotifyFailed

Next == Call \/ MainStep \/ SpuriousWakeup \/ Expire
          \/ Deliver \/ MarkFailed \/ ReceiverStep

Spec == Init /\ [][Next]_vars

(* Both threads run; the deadline of wait_for is a point in time, so a     *)
(* thread that keeps being woken for nothing still meets it.  Nobody has   *)
(* to call, to answer or to fail.                                          *)
Fairness ==
    /\ WF_vars(MainStep)
    /\ SF_vars(Acquire) /\ SF_vars(Reacquire)
    /\ WF_vars(ReceiverStep)
    /\ SF_vars(Expire)

FairSpec == Spec /\ Fairness
-----------------------------------------------------------------------------
TypeOK ==
    /\ state \in ImapState
    /\ queue \in Seq(Response)
    /\ mutex \in {"free", "main", "receiver"}
    /\ tag \in Nat
    /\ mailbox \in Mailboxes \cup {NoMailbox}
    /\ pc \in Pc
    /\ cmd \in Command
    /\ expired \in BOOLEAN
    /\ resp \in Response
    /\ found \subseteq SUBSET Messages
    /\ fetched \in Seq(SUBSET Messages)
    /\ outcome \in Outcome
    /\ rpc \in {"idle", "bye", "queueBye", "failing"}

(* No wakeup is lost for a response or a BYE: the main thread never sleeps *)
(* in wait_for while one of them is there.  (A failure is different:       *)
(* receiver_notify_failed does not take the mutex, and its notification is *)
(* lost when it falls between the two reads of the predicate.)             *)
NoLostWakeup == pc = "blocked" => queue = <<>> /\ state # "SERVER_BYED"

(* Between the two checks of wait_for_response and its front(), an empty   *)
(* queue can only mean that the connection is over: the one way to pop an  *)
(* empty queue is a failure that replaces SERVER_BYED between the reads.   *)
PopIsGuarded ==
    pc = "check2" /\ queue = <<>> => state \in {"SERVER_BYED", "RECEIVER_ERROR"}

(* SEARCH, FETCH and STORE are only ever in flight once current_mailbox    *)
(* is set, that is once some tagged OK was taken for the reply to a SELECT,*)
(* however the receiver's writes of state interleave.  Whether it was that *)
(* SELECT's reply is CommandsMeetTheirMailbox of Imapcl.                   *)
SelectBeforeUse ==
    /\ state = "SELECTED" => mailbox # NoMailbox
    /\ cmd.op \in {"search", "fetch", "read"} => mailbox # NoMailbox

(* A call gives up only when there is nothing to hand over: at the moment  *)
(* of a timeout the queue is empty and no BYE is on record.                *)
TimeoutMeansSilence ==
    [][pc = "pred2" /\ outcome' = "timeout"
         => queue = <<>> /\ state # "SERVER_BYED"]_vars

(* Every wait_for_response ends, with a response, an exception or the      *)
(* undefined pop, whatever the server and the scheduler do.                *)
EveryWaitEnds == pc = "lock" ~> pc \in {"handle", "idle", "crashed"}

(* Once responses cease, every call ends.  (A server that sends untagged   *)
(* responses for ever keeps select, search and fetch looping for ever.)    *)
EveryCallEnds ==
    <>[][~Deliver]_vars => (pc # "idle" ~> pc \in {"idle", "crashed"})

(* A failure that comes while a call waits ends the call as a failure,     *)
(* at the latest when the wait expires, even though its notification may   *)
(* be lost; only a BYE handled afterwards can hide it.                     *)
FailureSurfaces ==
    pc \in {"blocked", "woken"} /\ state = "RECEIVER_ERROR"
        ~> outcome = "failed" \/ state # "RECEIVER_ERROR"

\* What Handoff sees of a session: whether the main thread waits, and the
\* response it holds.
Waiting == {"lock", "pred", "pred2", "blocked", "woken", "check", "check2"}

Wait == CASE pc \in Waiting   -> "waiting"
          [] pc = "crashed"   -> "broken"
          [] OTHER            -> "no"

Hand == IF pc = "handle" THEN <<resp>> ELSE <<>>

(* wait_for_response keeps the promise of Handoff.                         *)
Queueing == INSTANCE Handoff WITH wait <- Wait, hand <- Hand

ImplementsHandoff == Queueing!Spec
=============================================================================
