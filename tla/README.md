# imapcl in TLA+

A verification project for `imapcl`, an IMAP4rev1 client in C++20: TLA+ models of
its components, TLC configurations that check them on small instances, and proofs
checked by TLAPS. Paths such as `src/session.cpp` are relative to the repository;
`PROJECT.json` maps every definition to the lines it stands for.

## 1. The program

`imapcl` connects to a server, logs in, selects a mailbox, and either downloads
what a SEARCH finds and leaves (batch mode) or reads commands from the user
(interactive mode, `-i`). It runs two threads:

    main thread                               receiver thread
    main -> Client -> Session -> Server.send      Receiver.receive -> ResponseParser
                        ^                               |
                        |     response_queue, state     v
                        +------------------------ Session.notify_incoming
                                                  Session.receiver_notify_failed

The main thread sends a command and waits, at most three seconds, on a condition
variable. The receiver thread reads the socket, parses complete responses, and
calls back into `Session`, which puts them into `response_queue` or records a BYE or
a failure in `state`. `response_queue` is guarded by `incoming_mutex`; `state` is
guarded by nothing.

### Inventory

| Component | State | Operations | What makes it correct |
|---|---|---|---|
| **Session** (`session.*`) | `state`, `tag`, `current_mailbox`, `response_queue`, mutex and condition variable | `receive_greeting login select search fetch read logout`; callbacks `notify_incoming receiver_notify_failed` | no response slept over or popped from an empty queue; commands need their state; every wait ends; a reply belongs to its command |
| **Receiver**, **TLSReceiver** | `received_data`, `stopped` | `receive`, `receive_inner`, `stop` | each response delivered once, in order; the thread stops when told to |
| **Server**, **TLSServer** | socket or SSL, thread | `connect_with_timeout`, `send`, `receive`, destructor | a usable connection or an exception; the destructor returns and frees nothing in use |
| **ResponseParser** | buffer and position | one method per grammar rule, `parse_next` | understands what the server sends; stays within the data; always advances |
| **Client** | session, directory writer | `repl`, five commands | the prompt tells the truth; commands do what the help says |
| **main** | exit code | both modes | exit code 0 means that all was saved; it ends |
| **DirectoryWriter**, **IMFMessage**, **FNV** | output directory | `save_messages`, date, hash | one file per message, none lost |
| **Command**, **Response** | plain data | `make_tcp`, accessors | round trips and empty sets |
| **Credentials**, **Logger**, **ParserLogger**, argument parsing | - | read a file, print, read options | - |
| **TCPStreamBuf** | - | - (only a unit test uses it) | - |

How they interact: calls downward on the main thread (main, Client, Session,
Server), calls upward on the receiver thread (Receiver into Session), shared memory
between the two (`response_queue`, `state`, `stopped`), and bytes to and from the
server.

What is hard, and hard to test:

* *Unprotected state.* The main thread writes `state` without the mutex,
  `receiver_notify_failed` writes and notifies without it. A notification can fall
  between the reads of the wait's predicate; a write can overwrite another; `state`
  can change between the two checks that follow a wait.
* *Pairing.* No tag is compared after login. Replies belong to commands only because
  every caller stops after an exception, and some callers do not.
* *Failure.* A connection may close with or without BYE or be reset at any point. A
  silent close is not reported to the session; `send` looks at no result.
* *Shutdown.* The destructor joins a thread that looks at `stopped` only between reads.
* *Framing.* Data is taken to be complete when it ends in CRLF or is one byte, and is thrown
  away as a whole when a part of it is not understood.
* *Numbers.* A number is an `int` that may overflow, and the length of a literal is not compared with
  what arrived.
* *Set-up and teardown.* Many sockets may be opened and one is used; the destructors depend on
  a timeout of that one, and free what the thread may be using.

`PROJECT.json` lists each hazard at its line with the properties that cover it.

## 2. The modules

| Module | What it is |
|---|---|
| `Imap` | vocabulary: states, responses, commands |
| `Session` | class Session under an open client and an open receiver, one step per access to unprotected memory |
| `Handoff` | what the two threads of a Session promise each other, abstractly |
| `Imapcl` | the program: main and Client, the session, the receiver thread, a server; uses the actions of `Session` unchanged |
| `Download` | what the batch mode promises, abstractly |
| `ResponseParser` | the rules of the parser over tokens |
| `Receiver` | the receiver thread on bytes and chunks, which uses the parser |
| `Feed` | what the receiver thread promises the session, abstractly |
| `Grammar` | the lines of a server that the parser was written for, and what they mean |
| `Server` | construction and destruction of Server and TLSServer |
| `MCSession`, `MCImapcl`, `MCReceiver` | instances for TLC |
| `SessionProofs`, `HandoffProofs` | theorems about `Session`: its invariant, and that it implements `Handoff` |
| `ImapclProofs`, `ReplyProofs`, `DownloadProofs` | theorems about `Imapcl`, each resting on the one before: types and control, replies, and that success means saved |
| `ServerProofs` | theorems about `Server` |
| `ReceiverProofs` | theorems about the parser's rules and `Receiver`, whatever the lines are |
| `FramingProofs` | theorems about `Receiver` and a server that writes lines of `Grammar` |

Three modules meet at the callbacks: `Receiver` shows that the responses handed to
`notify_incoming` are those that were sent, or that the session was told; `Session` takes any responses;
`Imapcl` composes `Session` with a receiver that delivers whole responses or, with the fault `torn`,
fails as `Receiver` says it may.

### Session

| In the model | In the code |
|---|---|
| `state queue tag mailbox` | `state response_queue tag current_mailbox` |
| `mutex` | the holder of `incoming_mutex` |
| `pc` | the position of the main thread inside a call: `mark` between the send and the transition of `logout`; `lock pred pred2 blocked woken check check2` in `wait_for_response`; `handle` with the response in hand; `crashed` after undefined behaviour |
| `cmd resp found fetched` | the arguments and local variables of the operation |
| `expired` | the deadline of `wait_for` has passed |
| `outcome` | how the call ended: normally, or by which exception |
| `rpc` | the position of the receiver thread inside a callback |

An operation is split where another thread can come between. `ReceiveGreeting`, `Login`, ...
are the guard and the send; `Acquire`, `TestQueueOrError`, `TestByed`, `Expire`,
`Reacquire`, `CheckError` and `CheckByedAndPop` are `wait_for_response`, whose
predicate reads `state` twice and whose checks read it twice more; `Handle` is what
the operation does with the response, the loop of `select`, `search` and `fetch`
included. `notify_incoming` is one step where it only touches the queue, and
two for a BYE, whose test and write of `state` the mutex does not protect from the
main thread. `receiver_notify_failed` is a write and, later, a notification.

`state` is an `int`-sized enum read and written by two threads without
synchronisation. That is a data race; at the optimisation level the Makefile uses
each access is one load or store, and the model takes them in every order. The
null pointer of `search` and `front()` of an empty queue lead to `crashed`.

Abstractions. A message is an element of `Messages`, standing for its number and its
text. NO and BAD are one wherever no caller tells them apart; the untagged
responses EXISTS, RECENT and FLAGS are `OTHER`. Tags are numbers. In the open model the
receiver delivers the tags 0 (`a001`) and 1 only, since no caller looks at a tag
beyond "is it empty" and "is it a001". Texts, logging and the arguments of LOGIN
are left out.

### Imapcl

`at` is the statement of `main` or `Client` that the main thread is at. `CallSession` starts
the Session call made there, and `Transmit` says what becomes of the command sent. The
disjuncts of `Program` are what the caller does with the result: `StartupReturns` and
`StartupThrows` are `main`, whose interactive calls are not in a try block;
`CommandReturns`, `CommandThrows` and `CommandSwallows` are the commands of Client,
which catch the exceptions of `fetch`, `save_messages` and `read` but not those of
`select`, `search` and `logout`; `Stop` and `Join` are `~Server`. `Thread` is
`Receiver::receive` with responses already cut: it starts (and clears
`stopped`), delivers, finds the connection closed or failed, or finds itself stopped
after a read that timed out.

The server is not in the repository. It answers commands in order, as the code expects,
may refuse LOGIN and SELECT, and within `MaxNoise` may send an unasked response. Each behaviour picks one of
the `FaultSets`: `leave` (closes with or without BYE), `reset`, `preauth` (greets with PREAUTH), `torn` and `latestart`.

With `torn` any response may fail at its first chunk: `Receiver::receive` takes a chunk for complete when it is a single
byte, which is how every response may begin, or ends in CRLF, which a message body may contain.
The parser throws, the session is told, the chunk is dropped and the response is gone. `Remains` says what
is left of it on the wire: up to `MaxPieces` further pieces that the parser throws at, or, where only the first characters of
a tag are missing and some are left, the response under a tag that is nobody's (`CutTag`). What follows junk in the
same chunk is dropped with it. The junk after PREAUTH is the CRLF that `parse_greeting` leaves unread.

### Download

`Download` promises that the steps come in order, that nothing is written before the FETCH is
complete, that only what SEARCH found is written, that success means all of it was,
and that it ends. `Imapcl` in batch mode implements it under the refinement mapping
`stage <- Stage, wanted <- seqset, broken <- Mangled`; all details of threads, waits and server are
stuttering steps. `Break` is the reset of a connection on which responses are torn. After it the order of
the stages stays, and that nothing is written that was not found, but success no longer means that
all was saved, and `Lose` may end the download at the FETCH (see *Torn and reset*).

### Handoff

`Handoff` is a FIFO queue of which one thread takes: every response put in is taken at most once, in
order, by a wait, and every wait ends, with the oldest response or with none. `Session`
implements it under `queue <- queue, wait <- Waiting, hand <- ` the response at `handle`; the reads of the predicate,
the lock, the block and the deadline are stuttering steps. `Break` is the one thing it allows beside: taking
from an empty queue, which `PopIsGuarded` confines.

### ResponseParser and Receiver

The data is a sequence of tokens, one for a keyword and one for every other byte. The server's words
are whole, so a chunk may end between any two tokens, in front of the line feed of a
CRLF and inside a literal too. A rule is an operator from a set of positions to a set of positions: empty where
the method returns false and restores `curr_pos`, `Thrown` for an exception, `Overrun` for a read
beyond the data; alternatives are tried in the order of the code, and what is matched before a failure is given
back as the code gives it back. Rules with a result return it beside the position. Every rule that
`parse_next` reaches is there, with the odd ones as they are: `parse_nstring` fails on NIL, LIST and LSUB
fail, STATUS and EXPUNGE throw, a continuation yields a null pointer, a BYE and a greeting end before the CRLF. Abstracted
are the contents of texts, flag lists and tags: `x` is any letter. `Number` computes an `int` that wraps at `IntMax`, and
`Literal` reads that many bytes unless the number is negative.

| In the model | In the code |
|---|---|
| `data pos` | `received_data`, `curr_pos` |
| `thr` | where `Receiver::receive` is: in `recv()`, in the inner loop, or at an end |
| `stopped` | `Receiver::stopped` |
| `wire link` | what was written and not yet received, and whether the server ended the connection |
| `given failed` | the calls of `notify_incoming` and `receiver_notify_failed` |

`Inspect` is what follows a read: data that is complete goes to the parser; unfinished data of exactly
`MaxLen` bytes throws out of the thread function; only otherwise is `stopped` looked at. `ParseOne` is one round of the inner
loop, which hands over a response or drops the data and reports a failure. A read beyond the data
either does that or ends the process. `stop()` before the thread has started is left to `Imapcl`
(run `stop`).

### Feed

`Feed` is the promise: responses are handed over in the order they were sent, each once, and in
the end none is left behind, unless a failure was reported or the thread has ended. `Receiver` implements it with
`over <- thr \in Over` and the other variables as they are.

### Grammar

`InGrammar(l)` says that the tokens of `l` are a line of RFC 3501 as the parser expects it and that its response is
what they mean. It describes the line as a whole (where the brackets are, which pieces are digits, that a
literal is as long as its length says) and calls no rule of `ResponseParser`, so that "the parser reads it as
meant" is a statement about the parser. Seven kinds of lines: conditions with `*` (OK, NO, BAD, BYE) and with a tag, with or without
a code in brackets; EXISTS and RECENT; FLAGS; SEARCH with any number of numbers; FETCH of UID or FLAGS
(`NoteLine`) and FETCH of `BODY[...]` with a literal of any length (`BodyLine`). Numbers that are kept must fit an `int`
(`Denotes`). Left out are PREAUTH, the continuation and BODY literals whose length wraps, which the
parser does not read as meant (`EveryLine` of `MCReceiver` has them), FETCH with several attributes, and
what the parser fails on: FETCH of ENVELOPE and its like, LIST, LSUB, STATUS and EXPUNGE. TLC evaluates that the sound lines of `MCReceiver` are in the grammar (`SoundLinesAreGrammatical`).

### Server

One action per step of `connect_with_timeout` (`MakeSocket`, `SetNonblocking`,
`ConnectAtOnce`, `SelectReturns`, ...), of TLSServer's constructor and of the two destructors, beside
the receiver thread as far as they depend on it. A socket is the number of its address; sets hold the sockets that are open,
connected, non-blocking and subject to `SO_RCVTIMEO`. What an address does (`answers`) is fixed at the start; a
signal may interrupt `select`, and the system calls may fail, except `setsockopt`, whose result the
code does not look at and which is taken to succeed: without the timeout the destructor could not end. The loop is the code's: it goes on after a success and
throws at the first failure, although a `continue` follows the throw. `ssl` and `ctx` are the objects of OpenSSL.

## 3. What TLC checks

| Run | Instance | What it shows |
|---|---|---|
| `session` | `MCSession.cfg`: 1 mailbox, 1 message, tags to 3, 2 responses held at a time | `TypeOK`, `NoLostWakeup`, `PopIsGuarded`, `SelectBeforeUse`, `TimeoutMeansSilence` under every caller and every interleaving |
| `session_live` | `MCSessionLive.cfg`: tags to 1, same queue | `EveryWaitEnds`, `EveryCallEnds`, `FailureSurfaces`, `ImplementsHandoff` |
| `batch` | `MCBatch.cfg`: 2 messages, one without a Date, 1 unasked response; a server that leaves, resets and greets with PREAUTH, with and without torn responses | `OwnReply`, `SuccessMeansSaved`, `NoCrash`, `Terminates`, `ImplementsDownload`, `ProgramTypeOK` |
| `repl` | `MCRepl.cfg`: 2 mailboxes of 1 message, 2 typed lines, 1 unasked response; the server leaves or resets, or responses tear | `OwnReply`, `MailboxAgrees`, `CommandsMeetTheirMailbox`, `NoCrash` |
| `receiver` | `MCReceiver.cfg`: 2 of 9 lines, in all chunks, a buffer of 10, ints to 3 | `ReceiverTypeOK`, `NothingLostSilently`, `ParserAdvances`, `PlainLinesParse`, `StopEnds`, `ImplementsFeed` |
| `server` | `MCServer.cfg`: 3 addresses, 2 chunks from the server | `ServerTypeOK`, `UsableSocket`, `NothingFreedInUse`, `Released`, `ConstructorEnds`, `DestructorEnds` |
| `logout_race` `stop` `framing` `lost_message` `leftover` `search_crash` | the smallest instance that shows it | one disagreement each, below |

**Bounds.** `MaxTag` ends the open caller of `Session`: three tagged commands are SELECT,
then a command that uses it, then any third, after any number of greetings and logins. `MaxQueue`
= 2 allows a leftover in front of an answer. What a step does depends on the head of
the queue and on whether it is empty, never on its length. One mailbox and one message are enough there
because `SelectBeforeUse` only tells "none" from "some"; `repl`, where the identity
of the mailbox matters, has two. Two messages in `batch` let a save stop in the
middle. In `Imapcl` `MaxTag` and `MaxQueue` are never reached: the program's own control
ends the calls, `MaxInputs` = 2 being one command and another that meets what the
first left behind. `MaxPieces` = 2 in `batch` and 1 in `repl` is how often one torn response can make the parser fail
again; a second failure is what can replace a BYE, and a third changes nothing that the second did not.
`repl` has torn responses apart from a server that leaves or resets for its size only: with all of them together it was checked
once, on 15.7 million states, and the theorems behind its properties hold for any sets of faults. `MaxLines` = 2 is a line and another that shares its chunk, or
comes after its failure. `MaxLen` = 10 stands for `RECVMESSAGE_MAXLEN`: some lines are shorter, some longer,
and chunks reach it, miss it and jump past it. `IntMax` = 3 makes the literal of five bytes wrap to a
negative length and the numbers of SEARCH stay. `MaxAddresses` = 3 is a first, a middle and a last round
of the loop. `MaxTalk` and `MaxLines` make the server fall silent, which `DestructorEnds`, `StopEnds` and
the last conjunct of `Feed` need. `CHECK_DEADLOCK` is off in each cfg: the open model stops at `MaxTag` or after
undefined behaviour, the program, the thread and the server object at their end.

**Properties that deserve a word.**
`NoLostWakeup` leaves failures out, and must: a failure notified between the two reads of
the predicate is slept over until the deadline; `FailureSurfaces` shows that it is then
reported. `PopIsGuarded` leaves `RECEIVER_ERROR` in: when a failure replaces
`SERVER_BYED` between the two checks, neither throws and an empty queue is popped;
`NoCrash` shows that in the whole program this takes a reset, a command given up before, or a
LOGOUT at the end of the input whose tagged OK is torn: its BYE is on record by then, and one byte of the OK replaces it.
`SelectBeforeUse` says that `current_mailbox` is set, that is that some tagged OK was taken for the reply to a SELECT; that is all a
session with an arbitrary receiver can have. Whether it was that SELECT's reply is `CommandsMeetTheirMailbox` of the program:
a SEARCH, FETCH or STORE on its way to the server finds selected there what `current_mailbox` says.
`OwnReply` holds although no tag is compared, but only while
`astray` is false, that is until Client swallowed the exception of a command it had sent
or QUIT was typed; the runs `leftover` and `search_crash` are what happens after that. `EveryCallEnds` needs
deliveries to cease, since each untagged response gives the loops a fresh deadline.
`PlainLinesParse` names what may make the parser fail on a sound connection: a single byte, a body, a PREAUTH or
a continuation in the stream; everything else is understood in chunks of two bytes and more.
`UsableSocket` holds because the loop gives up at the first address that fails: the last address, whose
socket is used, has then been connected. `Released` speaks of that socket only; the others leak. `DestructorEnds` rests
on `UsableSocket`: without the timeout the thread stays in `recv()`.

**Torn and reset.** One combination of faults breaks what the batch mode promises. A torn response sets
`RECEIVER_ERROR` while the fetch waits, a BYE overwrites it, and a reset overwrites that
between the two checks of `wait_for_response`; neither throws, the OK behind the lost message is popped, and
the program reports success with a message missing. The run `lost_message` shows it. It takes a connection
that tears a response and is then reset, which is `Mangled`; `SuccessMeansSaved`, `OwnReply` and `ImplementsDownload` name it as
their one exception and hold on every other connection, a reset without a torn response and a torn
response without a reset included: `batch` has behaviours with `torn` among their faults and behaviours without.

**Fairness.** Both threads are scheduled (`WF` of `MainStep`, `ReceiverStep`, `Thread`, `Program`,
`CallSession`, `SessionStep`). Taking the mutex is strongly fair in `Session`: the receiver holds it for a
few statements and blocks in `recv()` in between, so a main thread that asks again and again gets it.
Expiry of the wait is strongly fair: the deadline of `wait_for` is a fixed point in time, so
being woken for nothing again and again does not postpone it. In `Receiver` the thread
runs and what was written arrives: `SF` of a `Receive` that brings something, since `recv` does not time
out for ever with data in the socket. In `Server` the main thread runs (`Connect`, `Secure`, `Destruct`), and so do the
timeouts of `select` (`SelectExpires`), of the handshake and of `recv` (`HandshakeExpires`, `ReadExpires`), the last two only
for a socket that has one. Nothing is assumed of the server, of the
network or of the user.

**Disagreements.** Each run finds a behaviour in which the code does not do what the
repository says of it (the quotes are in `PROJECT.json`):

* `logout_race` - LOGOUT is sent before `state` is written; a BYE that arrives in between ends a
  granted logout with "Connection terminated by server.".
* `stop` - the receiver thread clears `stopped` when it starts; a `stop()` made before is lost and the
  join does not return. It takes a thread that starts later than the first wait expires, which is why the passing
  runs leave `latestart` out (`Terminates` would fail).
* `lost_message` - `fetch` returns, and `main` with exit code 0, although a message was lost (*Torn and reset*); the comment
  on `fetch` has an OK mean that the fetch completed.
* `leftover` - after a command that ended with an exception, `select` takes the OK left in the queue for its own
  and records a mailbox that the server has not selected; its comment has the OK mean "now in selected state".
* `search_crash` - `read()` takes the first response to STORE for its result; a server first sends
  untagged FETCH responses, so READNEW prints "STORE Failed" and leaves its OK in the queue. The next command's `search` takes
  that OK and dereferences a SEARCH response that has not come; its comment has that response REQUIRED.
* `framing` - a chunk that ends with a CRLF inside a message body is parsed as if it were complete: the
  message is lost and the session told of a connection failure on a sound connection.

Two more can be read off the model and have no run of their own. QUIT logs out and then prompts again (`CommandReturns`),
where help and banner say that it leaves; `leftover` starts from there. And the greeting rule leaves its CRLF unread (`Greet`), so that
after PREAUTH the parser fails and the session goes to `RECEIVER_ERROR`, where the state diagram has it authenticated.

## 4. What is proved

Every safety invariant and action property that a passing run checks is also a theorem, for all values of
the constants, and so is the safety part of each refinement. The constants are restricted only by the
assumptions of the modules: the empty name is not a mailbox, bounds are natural numbers, the lines are
sequences of tokens and not empty, a mailbox holds finitely many messages. Where a theorem needs more, its
statement says so: `GrammarOnly` (the server writes lines of `Grammar`). Nothing is assumed of the faults.

| Module | Theorem | Property |
|---|---|---|
| `SessionProofs` | `Invariance` | `IInv`, from which the next five follow |
| | `TypeCorrect` | `TypeOK` |
| | `WakeupsAreNotLost` | `NoLostWakeup` |
| | `PopsAreGuarded` | `PopIsGuarded` |
| | `SelectComesFirst` | `SelectBeforeUse` (a tagged OK was taken for a SELECT's) |
| | `TimeoutsAreSilent` | `TimeoutMeansSilence` |
| `HandoffProofs` | `HandoffRefinement` | the safety part of `ImplementsHandoff` |
| `ImapclProofs` | `ProgramInvariance` | `PInv` |
| | `ProgramTypeCorrect` | `ProgramTypeOK` |
| | `ProgramKeepsSession` | `NoLostWakeup`, `PopIsGuarded`, `SelectBeforeUse` in the program |
| `ReplyProofs` | `ReplyInvariance` | `RInv` |
| | `NoUndefinedBehaviour` | `NoCrash` |
| | `PromptTellsTheMailbox` | `MailboxAgrees` |
| | `CommandsMeet` | `CommandsMeetTheirMailbox` |
| | `RepliesAreOwn` | `OwnReply` |
| `DownloadProofs` | `DownloadInvariance` | `DInv` |
| | `SuccessIsSaved` | `SuccessMeansSaved` |
| | `FollowsDownload` | the safety part of `ImplementsDownload`, in batch mode |
| `ServerProofs` | `ServerInvariance` | `ServerInv`, from which the next four follow |
| | `ServerTypeCorrect` | `ServerTypeOK` |
| | `SocketIsUsable` | `UsableSocket` |
| | `ThreadOwnsItsObjects` | `NothingFreedInUse` |
| | `EverythingIsReleased` | `Released` |
| `ReceiverProofs` | `ReceiverInvariance` | `RecvInv` |
| | `ReceiverTypeCorrect` | `ReceiverTypeOK` |
| | `ParsesOnward` | `ParserAdvances` |
| `FramingProofs` | `WholeReads` | a whole line is read as what it means |
| | `TornFails` | a part of a line is not read as anything |
| | `FramingInvariance` | `FrameInv`, if `GrammarOnly` |
| | `NothingIsLost` | `NothingLostSilently`, if `GrammarOnly` |
| | `PlainLinesAreParsed` | `PlainLinesParse`, if `GrammarOnly` |
| | `OnlyBodiesTear` | `SoundConnectionNeverFails`, if `GrammarOnly` and no line has a body |
| | `KeepsThePromise` | the safety part of `ImplementsFeed`, if `GrammarOnly` |

**Session.** None of its properties is inductive. `IInv` adds to the types: `MutexInv` - who holds the mutex at which
statement of which thread; `WaitInv` - what each read of the predicate has established and the mutex
keeps true, e.g. at `pred2` the queue is empty, at `check2` with an empty queue the state is
one of the two terminal ones; `SelectInv` - a mailbox was selected once `state` is
`SELECTED` or a command that needs it is in progress, and stays so whatever the receiver
writes into `state`; `OutcomeInv` - a call in progress has no outcome yet. The crux is that
a BYE and a response are written under the mutex, so the main thread, which holds it from
the predicate to the block, cannot miss them, and that a failure, which is not, only ever
writes `RECEIVER_ERROR`. One lemma per group of actions proves that a step keeps `IInv`.

**Handoff.** Each action of `Session` is mapped: a delivery is `Put`, the start of a wait `Wait`, the pop `Take`, and
so on; reads, locks and wake-ups are stutters. `IInv` is needed for the pop, whose queue
is not empty unless both checks were passed by two different terminal states (`Break`).

**The program.** `PInv` is `IInv` with the place of the main thread: which operation is in progress at which statement
(`CallInv`), which statements belong to which mode (`ModeInv`), and that the server only receives commands it knows.
Since `Imapcl` uses the actions of `Session` unchanged, the lemmas of `SessionProofs` apply to its session steps as they are.

**Replies.** That no reply is mistaken for another is local to no component. The proof reads the response in hand, the
queue and the wire as one sequence, `Stream`: receiving and popping leave it alone, handling takes its first element,
and only the server adds to its end. `PendingInv` says what is in it during a call: parts of the answer to this very command, its condition,
and nothing behind the condition that a later call would look at; `SettledInv` says that between calls only noise is
left. Both hold while the program is `Sound`, i.e. has not swallowed an exception after sending, and its connection is not `Mangled`.
A torn response may be any, a tagged OK as well as a message, and then neither is true of the stream.
Neither need be: such a call is `Forgone`, that is, a failure or a BYE is on record and what is in hand cannot end the call with an
OK; every step leaves it so until the call throws. `RInv` claims that the replies are in order or that the call is `Forgone`.
`MeetInv` ties the mailbox that the server has
selected to the commands on their way. Two further invariants settle
undefined behaviour: behind a BYE the wire holds nothing the parser throws on, but for the condition of a LOGOUT (`ByeInv`), so that the failure which
replaces a BYE between the two checks takes a reset (`ResetInv`) or that condition torn.

**Download.** `DInv` has two parts. `WantedInv` holds on every connection: until `main` is done, nothing is on the wire, queued or
kept that was not asked for. `ClaimInv` is what success claims, while the call in progress is `Clear`, neither `Forgone` nor `Mangled`:
in `FetchingInv` each message asked for is kept already or is in `Stream` in front of the OK
(`Brings`). A call that is `Forgone` stays so until it throws, and then nothing is claimed; `ForgoneGoesOn` is that step.
`FollowsDownload` maps each step of the program to a step of `Download`, the reset of a connection
on which responses are torn to its `Break`, or to a stutter.

**Server.** `ServerInv` relates the statement of the main thread to the sockets (`SocketInv`: the present one is
open from its creation on, connected when it is made blocking again, and blocking when the timeout is set), to the thread (`ThreadInv`:
none before the constructor is through, ended after the join) and to the OpenSSL objects
(`TlsInv`: they exist as long as the thread may use them). It holds for any number of addresses.

**Parser and receiver.** Every rule, from any position, with anything in the buffer, ends where it says: at a position
between its start and one past the end of the data, or with an exception (`Ends`), and most of them at least one
token later. One lemma per rule, up to `ParseNextEnds`. A literal needs care: a length that
wraps below zero throws, one that is too large overruns, and neither moves the
position. `Repeat` and `NumberAt` are recursive functions; that these
exist is proved (`Recursion`, `Growth`), and what they return by induction on the number of rounds (`InductUpTo`).
The induction theorems of the library take an operator as a parameter, which no prover here can instantiate; `LeastNat`
gets the induction on sets from the well-foundedness of `<` instead.

**Framing.** The receiver has no idea where a response ends: it takes data that ends in CRLF, or is one byte, to be whole,
and throws away all of it when a part is not understood. That nothing is lost all the same is an argument about
two things. *The parser*: `WholeReads` follows every rule over every kind of line, at any place in the data, with
any numbers and any literal; the alternatives that come first in the code must fail and give back what they read,
a rule must not stop early, and SEARCH must take all its numbers. `TornFails` says that a line of which the data holds only a
part makes every alternative fail, the rule throw or the literal overrun, so that nothing wrong is handed over; and that
data which passes the test for being complete can end inside a line only if it is a single byte or the
line has a body, for only a literal may hold a CRLF. *The thread*: `FrameInv` says that `Stream`, the
data and the wire read as one sequence, is from `pos` on `Cut` at some positions into the lines of exactly the responses
sent and not yet given, in their order, and that the inner loop is only entered with complete data. Receiving moves the border
between data and wire and leaves `Stream` alone; writing adds a line at its end; a round of the inner loop moves `pos`
over the first line, by `WholeReads`, or ends `Framed` with a failure, by `TornFails`. The invariant stops at the first failure
because the code drops the data there, and with it the knowledge of where a line begins. `NothingIsLost` is `FrameInv` with nothing left to cut;
`PlainLinesAreParsed` and `OnlyBodiesTear` say which lines can make the failure; `KeepsThePromise` maps each step to
`Feed`. `OnlyBodiesTear` is the other side of the disagreement `framing`: what that run refutes holds of every server that sends no bodies.
Without `GrammarOnly` none of this is true: a line that means something else than the parser makes of it is lost at once.

The inductive invariants were checked with TLC on the instances of the runs before they were proved.

**Only model-checked:**

* liveness and fairness, which are beyond the prover: `EveryWaitEnds`, `EveryCallEnds`, `FailureSurfaces`, `Terminates`, `StopEnds`,
  `ConstructorEnds`, `DestructorEnds`, and the fairness part of `ImplementsHandoff`, `ImplementsDownload` and `ImplementsFeed`;
* what becomes of the lines outside `Grammar`: `EveryLine` of `MCReceiver` has a PREAUTH, a continuation and a
  literal whose length wraps, and the properties of the run `receiver` hold with them on that instance;
* the disagreements, which are single behaviours.

## 5. What is not modelled

* The inside of OpenSSL, and the main thread's `SSL_write` beside the receiver's `SSL_read`. `TLSReceiver` differs
  from `Receiver` in the read only, with the same outcomes.
* The order in which the members of Session are destroyed: `receiver_ex` and `logger` go before the
  thread is joined.
* Argument parsing, credentials and logging: sequential and without effect on the rest.
* File names: `save_messages` may fail at any file, but two messages with one name (a 64-bit hash
  and the date) do not collide here, and a file that can be opened can be written.
* What the parser does with the rest of a body that was torn: `Receiver` does it, `Imapcl` takes it for junk that
  the parser throws at, never for responses the server did not send.
* A user who types on after the end of input; signals other than SIGPIPE and an interrupted `select`.
* `TCPStreamBuf`: not part of the program.

## 6. Plan

Done, in this order: `Imap`, `Session`, `SessionProofs`, `Download`, `Imapcl`, `ResponseParser`, `Receiver`
with `Feed`, `Server`, `Handoff`; then the proofs: `HandoffProofs`, `ServerProofs`, `ImapclProofs`, `ReplyProofs`,
`DownloadProofs`, `ReceiverProofs`, and `Grammar` with `FramingProofs`. What may still be done:

1. **A larger grammar**: FETCH with several attributes, which needs an induction over the attributes as
   SEARCH has one over its numbers.
2. **The prompt after a swallowed exception**: what is left of `OwnReply` and `MailboxAgrees` when `astray` is true.
