------------------------------- MODULE Server -------------------------------
(***************************************************************************)
(* The life of a Server or a TLSServer: the connection is made, the        *)
(* receiver thread runs, and the destructors take everything down again.   *)
(*                                                                         *)
(* Resolver, sockets and OpenSSL are external: a call succeeds, fails, or  *)
(* takes its time, as the addresses answer.  A socket stands for the       *)
(* address it was made for.                                                *)
(***************************************************************************)
EXTENDS Naturals

CONSTANTS
    MaxAddresses,   \* how many addresses a name may have
    MaxTalk         \* how often the server says something

ASSUME ServerAssumption == MaxAddresses \in Nat \ {0} /\ MaxTalk \in Nat

VARIABLES
    tls,            \* the object is a TLSServer
    answers,        \* what happens at each address
    pc,             \* the statement of the main thread
    client_socket,
    open,           \* the sockets that are open,
    connected,      \*     connected,
    nonblocking,    \*     in non-blocking mode,
    timed,          \*     and those whose recv() times out
    ctx, ssl,       \* the objects of OpenSSL
    thread,         \* receiving_thread
    stopped,        \* Receiver::stopped
    talk            \* how often the server has said something

connectVars == <<client_socket, open, connected, nonblocking, timed>>
tlsVars     == <<ctx, ssl>>
threadVars  == <<thread, stopped, talk>>
vars == <<tls, answers, pc, connectVars, tlsVars, threadVars>>

\* An address connects at once or later, refuses at once or later, or is silent.
Answer == {"accepts", "acceptslater", "refuses", "refuseslater", "silent"}

\* thrown: Server's constructor threw; failed: TLSServer's did, and the Server
\* in it was destroyed.
Connecting == {"resolve", "socket", "nonblock", "connect", "select", "blocking", "timeout"}
Securing   == {"new", "load", "handshake"}
Closing    == {"stop", "join", "free", "unwind", "close"}
Place == Connecting \cup Securing \cup {"open", "running"} \cup Closing
            \cup {"gone", "thrown", "failed"}

Life == {"none", "allocated", "freed"}

Addresses == DOMAIN answers

Init ==
    /\ tls \in BOOLEAN
    /\ answers \in UNION {[1..n -> Answer] : n \in 1..MaxAddresses}
    /\ pc = "resolve"
    /\ client_socket = 0
    /\ open = {} /\ connected = {} /\ nonblocking = {} /\ timed = {}
    /\ ctx = "none" /\ ssl = "none"
    /\ thread = "none" /\ stopped = FALSE
    /\ talk = 0

Goto(p) == pc' = p

\* Nothing else changes while the connection is made.
Connects == UNCHANGED <<tls, answers, tlsVars, threadVars>>
-----------------------------------------------------------------------------
(* connect_with_timeout. *)

Resolve ==
    /\ pc = "resolve"
    /\ Goto("socket")
    /\ UNCHANGED connectVars /\ Connects

\* One round of the loop for every address.
MakeSocket ==
    /\ pc = "socket"
    /\ client_socket' = client_socket + 1
    /\ open' = open \cup {client_socket'}
    /\ Goto("nonblock")
    /\ UNCHANGED <<connected, nonblocking, timed>> /\ Connects

SetNonblocking ==
    /\ pc = "nonblock"
    /\ nonblocking' = nonblocking \cup {client_socket}
    /\ Goto("connect")
    /\ UNCHANGED <<client_socket, open, connected, timed>> /\ Connects

AnswersWith(set) == answers[client_socket] \in set

Established ==
    /\ connected' = connected \cup {client_socket}
    /\ Goto("blocking")
    /\ UNCHANGED <<client_socket, open, nonblocking, timed>>

ConnectAtOnce ==
    /\ pc = "connect"
    /\ \/ AnswersWith({"accepts"}) /\ Established
       \/ /\ AnswersWith({"acceptslater", "refuseslater", "silent"})
          /\ Goto("select")
          /\ UNCHANGED connectVars
    /\ Connects

\* Mutant: the next address is tried, as the "continue" after the throw suggests.
RefusedGoesOn ==
    /\ pc = "connect"
    /\ AnswersWith({"refuses"})
    /\ open' = open \ {client_socket}
    /\ Goto(IF client_socket + 1 \in Addresses THEN "socket" ELSE "timeout")
    /\ UNCHANGED <<client_socket, connected, nonblocking, timed>> /\ Connects

Refused ==
    /\ pc = "connect"
    /\ AnswersWith({"refuses"})
    /\ open' = open \ {client_socket}
    /\ Goto("thrown")
    /\ UNCHANGED <<client_socket, connected, nonblocking, timed>> /\ Connects

\* select() finds the socket writable, and getsockopt() tells why.
SelectReturns ==
    /\ pc = "select"
    /\ \/ AnswersWith({"acceptslater"}) /\ Established
       \/ AnswersWith({"refuseslater"}) /\ Goto("thrown") /\ UNCHANGED connectVars
    /\ Connects

\* Five seconds without an answer.
SelectExpires ==
    /\ pc = "select"
    /\ Goto("thrown")
    /\ UNCHANGED connectVars /\ Connects

\* Mutant: select() starts again, with all of its five seconds.
InterruptedAgain ==
    /\ pc = "select"
    /\ Goto("connect")
    /\ UNCHANGED connectVars /\ Connects

\* A signal is taken for the end of the five seconds.
Interrupted ==
    /\ pc = "select"
    /\ Goto("thrown")
    /\ UNCHANGED connectVars /\ Connects

\* Mutant: the end of the list is missed.
SetBlockingPastEnd ==
    /\ pc = "blocking"
    /\ nonblocking' = nonblocking \ {client_socket}
    /\ Goto(IF client_socket \in Addresses THEN "socket" ELSE "timeout")
    /\ UNCHANGED <<client_socket, open, connected, timed>> /\ Connects

\* There is no break: the last address decides.
SetBlocking ==
    /\ pc = "blocking"
    /\ nonblocking' = nonblocking \ {client_socket}
    /\ Goto(IF client_socket + 1 \in Addresses THEN "socket" ELSE "timeout")
    /\ UNCHANGED <<client_socket, open, connected, timed>> /\ Connects

\* getaddrinfo, socket, fcntl, select and getsockopt: the socket stays open.
SystemCallFails ==
    /\ pc \in {"resolve", "socket", "nonblock", "select", "blocking"}
    /\ Goto("thrown")
    /\ UNCHANGED connectVars /\ Connects

\* Mutant: the first socket gets the timeout.
SetTimeoutOnFirst ==
    /\ pc = "timeout"
    /\ timed' = timed \cup {1}
    /\ Goto(IF tls THEN "new" ELSE "open")
    /\ UNCHANGED <<client_socket, open, connected, nonblocking>> /\ Connects

\* SO_RCVTIMEO, and the end of Server's constructor.
SetTimeout ==
    /\ pc = "timeout"
    /\ timed' = timed \cup {client_socket}
    /\ Goto(IF tls THEN "new" ELSE "open")
    /\ UNCHANGED <<client_socket, open, connected, nonblocking>> /\ Connects
-----------------------------------------------------------------------------
(* The constructor of TLSServer. *)

Secures == UNCHANGED <<tls, answers, connectVars, threadVars>>

NewContext ==
    /\ pc = "new"
    /\ \/ ctx' = "allocated" /\ Goto("load")
       \/ UNCHANGED ctx /\ Goto("unwind")
    /\ UNCHANGED ssl /\ Secures

\* A certificate that cannot be loaded frees the context.
LoadCertificates ==
    /\ pc = "load"
    /\ \/ ssl' = "allocated" /\ UNCHANGED ctx /\ Goto("handshake")
       \/ ctx' = "freed" /\ UNCHANGED ssl /\ Goto("unwind")
    /\ Secures

\* SSL_connect; a failure leaves both objects behind.
HandshakeSucceeds ==
    /\ pc = "handshake"
    /\ Goto("open")
    /\ UNCHANGED tlsVars /\ Secures

HandshakeFails ==
    /\ pc = "handshake"
    /\ Goto("unwind")
    /\ UNCHANGED tlsVars /\ Secures

\* It reads the socket as well: it waits for ever if that does not time out.
HandshakeExpires ==
    /\ pc = "handshake"
    /\ client_socket \in timed
    /\ Goto("unwind")
    /\ UNCHANGED tlsVars /\ Secures
-----------------------------------------------------------------------------
(* The receiver thread. *)

Runs == UNCHANGED <<tls, answers, connectVars, tlsVars>>

\* Session::connect calls receive(), which starts the thread.
Receive ==
    /\ pc = "open"
    /\ Goto("running")
    /\ thread' = "starting"
    /\ UNCHANGED <<stopped, talk>> /\ Runs

ThreadStarts ==
    /\ thread = "starting"
    /\ thread' = "reading"
    /\ stopped' = FALSE
    /\ UNCHANGED <<pc, talk>> /\ Runs

\* recv() returns data; unless that completes a response, stopped is looked at.
ThreadReads ==
    /\ thread = "reading"
    /\ talk < MaxTalk
    /\ talk' = talk + 1
    /\ thread' \in {"reading"} \cup (IF stopped THEN {"ended"} ELSE {})
    /\ UNCHANGED <<pc, stopped>> /\ Runs

\* The server has ended the connection, properly or not.
ThreadLeaves ==
    /\ thread = "reading"
    /\ thread' = "ended"
    /\ stopped' \in {stopped, TRUE}
    /\ UNCHANGED <<pc, talk>> /\ Runs

ReadExpires ==
    /\ thread = "reading"
    /\ client_socket \in timed
    /\ stopped
    /\ thread' = "ended"
    /\ UNCHANGED <<pc, stopped, talk>> /\ Runs
-----------------------------------------------------------------------------
(* The destructors: ~TLSServer, if it is one, and then ~Server. *)

\* They come long after the thread was started, by way of a session that has
\* waited for the greeting.
Destroy ==
    /\ pc = "running"
    /\ thread # "starting"
    /\ Goto("stop")
    /\ UNCHANGED threadVars /\ Runs

Stop ==
    /\ pc = "stop"
    /\ stopped' = TRUE
    /\ Goto("join")
    /\ UNCHANGED <<thread, talk>> /\ Runs

\* Mutant: ~TLSServer leaves the thread to ~Server.
JoinInBase ==
    /\ pc = "join"
    /\ tls \/ thread = "ended"
    /\ Goto(IF tls THEN "free" ELSE "close")
    /\ UNCHANGED threadVars /\ Runs

Join ==
    /\ pc = "join"
    /\ thread = "ended"
    /\ Goto(IF tls THEN "free" ELSE "close")
    /\ UNCHANGED threadVars /\ Runs

Free ==
    /\ pc = "free"
    /\ ssl' = "freed" /\ ctx' = "freed"
    /\ Goto("unwind")
    /\ UNCHANGED threadVars /\ UNCHANGED <<tls, answers, connectVars>>

\* Mutant: ~Server returns when there is no thread to join.
UnwindEarly ==
    /\ pc = "unwind"
    /\ stopped' = TRUE
    /\ Goto(IF thread = "none" THEN "failed" ELSE "close")
    /\ UNCHANGED <<thread, talk>> /\ Runs

\* ~Server on a TLSServer: the thread has been joined, or there never was one.
Unwind ==
    /\ pc = "unwind"
    /\ stopped' = TRUE
    /\ Goto("close")
    /\ UNCHANGED <<thread, talk>> /\ Runs

Close ==
    /\ pc = "close"
    /\ open' = open \ {client_socket}
    /\ Goto(IF thread = "none" THEN "failed" ELSE "gone")
    /\ UNCHANGED <<client_socket, connected, nonblocking, timed>> /\ Connects
-----------------------------------------------------------------------------
Connect ==
    \/ Resolve \/ MakeSocket \/ SetNonblocking \/ ConnectAtOnce \/ Refused
    \/ SelectReturns \/ SetBlocking \/ SetTimeout

Secure == NewContext \/ LoadCertificates

Destruct == Stop \/ Join \/ Free \/ Unwind \/ Close

Thread == ThreadStarts \/ ThreadReads \/ ThreadLeaves \/ ReadExpires

Next ==
    \/ Connect \/ SelectExpires \/ Interrupted \/ SystemCallFails
    \/ Secure \/ HandshakeSucceeds \/ HandshakeFails \/ HandshakeExpires
    \/ Receive \/ Thread
    \/ Destroy \/ Destruct

Spec == Init /\ [][Next]_vars

(* Both threads run, and what times out does so.  Nothing is assumed of    *)
(* the server, which need not answer; but it does not talk for ever.       *)
Fairness ==
    /\ WF_vars(Connect) /\ WF_vars(SelectExpires)
    /\ WF_vars(Secure) /\ WF_vars(HandshakeExpires)
    /\ WF_vars(ThreadStarts) /\ WF_vars(ReadExpires)
    /\ WF_vars(Destruct)

FairSpec == Spec /\ Fairness
-----------------------------------------------------------------------------
ServerTypeOK ==
    /\ tls \in BOOLEAN
    /\ \E n \in 1..MaxAddresses : answers \in [1..n -> Answer]
    /\ pc \in Place
    /\ client_socket \in {0} \cup Addresses
    /\ open \subseteq Addresses /\ connected \subseteq Addresses
    /\ nonblocking \subseteq Addresses /\ timed \subseteq Addresses
    /\ ctx \in Life /\ ssl \in Life
    /\ thread \in {"none", "starting", "reading", "ended"}
    /\ stopped \in BOOLEAN
    /\ talk \in 0..MaxTalk

(* A constructor that returns leaves a socket that is open, connected,     *)
(* blocking, and whose recv() times out, whatever became of the others.    *)
UsableSocket ==
    pc \in Securing \cup {"open", "running"} =>
        client_socket \in (open \cap connected \cap timed) \ nonblocking

(* The destructors take nothing away that the receiver thread still uses   *)
(* (tls_server.cpp:96).                                                    *)
NothingFreedInUse ==
    thread \in {"starting", "reading"} =>
        client_socket \in open /\ (tls => ssl = "allocated" /\ ctx = "allocated")

(* When the object is gone its connection and its OpenSSL objects are as   *)
(* well; and a TLSServer that could not be made has closed its connection. *)
Released ==
    /\ pc \in {"gone", "failed"} => client_socket \notin open
    /\ pc = "gone" => ssl # "allocated" /\ ctx # "allocated"

(* The constructors end, with a connection or an exception, whatever the   *)
(* addresses do.                                                           *)
ConstructorEnds == pc = "resolve" ~> pc \in {"open", "thrown", "failed"}

(* The destructors end (server.cpp:121: the timeout of the socket "ensures *)
(* that the receiver eventually leaves uninterruptible sleep").            *)
DestructorEnds == pc = "stop" ~> pc = "gone"
=============================================================================
