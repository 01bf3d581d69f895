------------------------------ MODULE Receiver ------------------------------
(***************************************************************************)
(* Receiver::receive, the receiver thread: it reads what the server has    *)
(* written in chunks of any size, takes data that ends in CRLF, or is a    *)
(* single byte, for a number of complete responses, and hands what the     *)
(* parser makes of it to the session.  The session's side of the two       *)
(* callbacks is in Session.                                                *)
(*                                                                         *)
(* The server is external: it writes whole lines, and may close or reset   *)
(* the connection after any of them.                                       *)
(***************************************************************************)
EXTENDS ResponseParser

CONSTANTS
    Lines,      \* what the server may write: the tokens, and the response meant
    MaxLines,   \* how many lines it writes
    MaxLen      \* RECVMESSAGE_MAXLEN

ASSUME ReceiverAssumption ==
    /\ \A l \in Lines : l.tokens \in Seq(Token) /\ l.tokens # <<>>
    /\ MaxLines \in Nat
    /\ MaxLen \in Nat \ {0}

VARIABLES
    wire,       \* tokens written by the server and not yet received
    link,       \* the connection: open, closed or reset by the server
    thr,        \* where the thread is
    stopped,    \* Receiver::stopped
    sent,       \* the responses meant by the lines written
    given,      \* the arguments of notify_incoming, in order
    failed      \* receiver_notify_failed was called

serverVars == <<wire, link, sent>>
logVars    == <<given, failed>>
vars == <<data, pos, serverVars, thr, stopped, logVars>>

\* terminated: an exception left the thread, or undefined behaviour ended it.
Over == {"ended", "terminated"}
Thr  == {"starting", "reading", "parsing"} \cup Over

Init ==
    /\ data = <<>> /\ pos = 1
    /\ wire = <<>> /\ link = "open"
    /\ thr = "starting" /\ stopped = FALSE
    /\ sent = <<>>
    /\ given = <<>> /\ failed = FALSE
-----------------------------------------------------------------------------
(* The thread. *)

Start ==
    /\ thr = "starting"
    /\ thr' = "reading"
    /\ stopped' = FALSE
    /\ UNCHANGED <<data, pos, serverVars, logVars>>

\* The test for complete responses.
Complete(d) ==
    \/ Len(d) = 1 /\ d[1] \in OneByte
    \/ Len(d) >= 2 /\ d[Len(d) - 1] = "CR" /\ d[Len(d)] = "LF"

\* Mutant: unfinished data at the limit is dropped.
InspectDropping(d) ==
    /\ data' = IF ~Complete(d) /\ Len(d) = MaxLen THEN <<>> ELSE d
    /\ thr' = IF Complete(d) THEN "parsing" ELSE IF stopped' THEN "ended" ELSE "reading"
    /\ UNCHANGED <<pos, logVars>>

\* Mutant: only a connection that the server ended ends the loop.
InspectUnstopped(d) ==
    /\ data' = d
    /\ thr' = CASE Complete(d)          -> "parsing"
                [] ~Complete(d) /\ Len(d) = MaxLen -> "terminated"
                [] ~Complete(d) /\ Len(d) # MaxLen ->
                       IF link = "closed" THEN "ended" ELSE "reading"
    /\ UNCHANGED <<pos, logVars>>

\* What receive does after the data was appended to.
Inspect(d) ==
    /\ data' = d
    /\ thr' = CASE Complete(d)          -> "parsing"
                [] ~Complete(d) /\ Len(d) = MaxLen -> "terminated"
                [] ~Complete(d) /\ Len(d) # MaxLen -> IF stopped' THEN "ended" ELSE "reading"
    /\ UNCHANGED <<pos, logVars>>

\* recv returns the first n bytes, or times out.
Receive ==
    /\ thr = "reading"
    /\ \E n \in 0..Len(wire) :
          /\ n <= MaxLen
          /\ n = 0 => link = "open" \/ wire # <<>>
          /\ wire' = SubSeq(wire, n + 1, Len(wire))
          /\ UNCHANGED stopped
          /\ Inspect(data \o SubSeq(wire, 1, n))
    /\ UNCHANGED <<link, sent>>

\* recv returns 0.
ReceiveEnd ==
    /\ thr = "reading"
    /\ wire = <<>> /\ link = "closed"
    /\ stopped' = TRUE
    /\ Inspect(data)
    /\ UNCHANGED serverVars

\* recv fails, and the thread returns.
ReceiveFails ==
    /\ thr = "reading"
    /\ wire = <<>> /\ link = "reset"
    /\ failed' = TRUE
    /\ thr' = "ended"
    /\ UNCHANGED <<data, pos, serverVars, stopped, given>>

\* notify_incoming(r).
Deliver(r) ==
    /\ r.end >= 1 /\ r.value # NullResponse
    /\ pos' = r.end
    /\ given' = Append(given, r.value)
    /\ UNCHANGED <<data, thr, failed>>

\* notify_incoming dereferences the null pointer of a continuation request.
DeliverNull(r) ==
    /\ r.end >= 1 /\ r.value = NullResponse
    /\ thr' = "terminated"
    /\ UNCHANGED <<data, pos, logVars>>

\* Mutant: the next parser starts where this one ended.
ClearData ==
    /\ data' = <<>>
    /\ thr' = "reading"
    /\ UNCHANGED pos

Clear ==
    /\ data' = <<>>
    /\ pos' = 1
    /\ thr' = "reading"

\* An exception ends the loop, and with it goes the rest of the data.
\* A read beyond the data ends in one too, if the process survives it.
Fail(r) ==
    /\ r.end < 1
    /\ \/ failed' = TRUE /\ Clear
       \/ r.end = Overrun /\ thr' = "terminated" /\ UNCHANGED <<data, pos, failed>>
    /\ UNCHANGED given

\* One round of the inner loop.
ParseOne ==
    /\ thr = "parsing"
    /\ pos <= Len(data)
    /\ \E r \in ParseNext : Deliver(r) \/ DeliverNull(r) \/ Fail(r)
    /\ UNCHANGED <<serverVars, stopped>>

\* Mutant: the data is kept.
KeepData ==
    /\ thr = "parsing"
    /\ pos > Len(data)
    /\ thr' = "reading" /\ pos' = 1
    /\ UNCHANGED <<data, serverVars, stopped, logVars>>

ParseEnds ==
    /\ thr = "parsing"
    /\ pos > Len(data)
    /\ Clear
    /\ UNCHANGED <<serverVars, stopped, logVars>>

Thread ==
    \/ Start \/ Receive \/ ReceiveEnd \/ ReceiveFails
    \/ ParseOne \/ ParseEnds
-----------------------------------------------------------------------------
(* The main thread and the server. *)

\* stop() comes from the destructor, once the thread runs.
Stop ==
    /\ thr # "starting"
    /\ stopped' = TRUE
    /\ UNCHANGED <<data, pos, serverVars, thr, logVars>>

Write ==
    /\ link = "open"
    /\ Len(sent) < MaxLines
    /\ \E l \in Lines :
          /\ wire' = wire \o l.tokens
          /\ sent' = Append(sent, l.response)
    /\ UNCHANGED <<data, pos, link, thr, stopped, logVars>>

Leave ==
    /\ link = "open"
    /\ link' \in {"closed", "reset"}
    /\ UNCHANGED <<data, pos, wire, thr, stopped, sent, logVars>>

Next == Thread \/ Stop \/ Write \/ Leave

Spec == Init /\ [][Next]_vars

(* The thread runs, and what was written arrives: recv does not time out   *)
(* for ever while there is something to receive.                           *)
Arrival == Receive /\ wire' # wire

Fairness == WF_vars(Thread) /\ SF_vars(Arrival)

FairSpec == Spec /\ Fairness
-----------------------------------------------------------------------------
ReceiverTypeOK ==
    /\ data \in Seq(Token)
    /\ pos \in 1..(Len(data) + 1)
    /\ wire \in Seq(Token)
    /\ link \in {"open", "closed", "reset"}
    /\ thr \in Thr
    /\ stopped \in BOOLEAN
    /\ Len(sent) <= MaxLines
    /\ failed \in BOOLEAN

(* When the thread waits for more with nothing left to parse, and reported *)
(* no failure, the session has all that was written, however it was cut.   *)
NothingLostSilently ==
    thr = "reading" /\ wire = <<>> /\ data = <<>> /\ ~failed => given = sent

(* Every response that is handed over takes up data that was received and  *)
(* not parsed before.                                                      *)
ParserAdvances ==
    [][given' # given => pos' > pos /\ pos' <= Len(data) + 1]_vars

(* Nothing but a failing connection, a single byte, a message body or a    *)
(* PREAUTH makes the parser fail first: the other responses are understood *)
(* in chunks of any size above one.                                        *)
Plain(r) == r.type \notin {"FETCH", "PREAUTH", "NULL"}

PlainLinesParse ==
    [][failed' /\ ~failed
         => \/ link = "reset"
            \/ Len(data) = 1
            \/ \E i \in DOMAIN sent : ~Plain(sent[i])]_vars

(* After stop() the thread ends, once the server has nothing more to say.  *)
StopEnds == stopped /\ thr # "starting" ~> thr \in Over

(* The thread keeps the promise of Feed.                                   *)
Promise == INSTANCE Feed WITH over <- thr \in Over
ImplementsFeed == Promise!Spec
-----------------------------------------------------------------------------
(* What the repository says of the receiver and the code does not do.      *)

(* doc/main.tex:220 "notifies the Session when there is a new incoming     *)
(* message": a message that arrives over a sound connection is not         *)
(* reported as a failure of it, even if a single byte may be.              *)
SoundConnectionNeverFails ==
    [][failed' /\ ~failed => link = "reset" \/ Len(data) = 1]_vars
=============================================================================
