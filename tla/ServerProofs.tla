----------------------------- MODULE ServerProofs -----------------------------
(***************************************************************************)
(* Server keeps its safety properties for any number of addresses, whatever *)
(* they answer, and however much the server says.                          *)
(***************************************************************************)
EXTENDS Server, TLAPS

(* What is known of client_socket at each statement, from its creation to  *)
(* its use: every step of connect_with_timeout adds one fact.  That the    *)
(* next address exists is the condition of the loop.                       *)
SocketInv ==
    /\ pc = "resolve" => client_socket = 0
    /\ pc = "socket" => client_socket + 1 \in Addresses
    /\ pc \in {"nonblock", "connect", "select"} => client_socket \in open
    /\ pc = "blocking" => client_socket \in open \cap connected
    /\ pc = "timeout" => client_socket \in (open \cap connected) \ nonblocking
    /\ UsableSocket
    /\ pc \in {"stop", "join", "free"} => client_socket \in open

\* Where the thread can be at each statement of the main thread.
ThreadInv ==
    /\ pc \in Connecting \cup Securing \cup {"open", "thrown", "failed"} => thread = "none"
    /\ pc \in {"running", "stop", "join"} => thread # "none"
    /\ pc \in {"free", "gone"} => thread = "ended"
    /\ pc \in {"unwind", "close"} => thread \in {"none", "ended"}

\* The OpenSSL objects of a TLSServer live from its constructor to Free.
TlsInv ==
    /\ ~tls => ssl = "none" /\ ctx = "none" /\ pc \notin Securing \cup {"free"}
    /\ pc \in {"load", "handshake"} => ctx = "allocated"
    /\ pc = "handshake" => ssl = "allocated"
    /\ tls /\ pc \in {"open", "running", "stop", "join", "free"}
         => ssl = "allocated" /\ ctx = "allocated"
    /\ pc \in {"unwind", "close"} /\ thread = "ended"
         => ssl # "allocated" /\ ctx # "allocated"

ServerInv == ServerTypeOK /\ SocketInv /\ ThreadInv /\ TlsInv /\ Released

\* The parts of ServerInv and the sets they speak of.
USE DEF ServerInv, SocketInv, ThreadInv, TlsInv, Released, UsableSocket,
        Connecting, Securing, Closing
-----------------------------------------------------------------------------
LEMMA InitInv == Init => ServerInv
<1> SUFFICES ASSUME Init PROVE ServerInv
  OBVIOUS
<1>1. PICK n \in 1..MaxAddresses : answers \in [1..n -> Answer]
  BY DEF Init
<1>2. 1 \in Addresses
  BY <1>1, ServerAssumption DEF Addresses
<1>3. talk \in 0..MaxTalk
  BY ServerAssumption DEF Init
<1>4. ServerTypeOK
  BY <1>1, <1>3 DEF Init, ServerTypeOK, Place, Life
<1>5. QED BY <1>2, <1>4 DEF Init

\* client_socket is one of 1, 2, ... once there is one.
LEMMA AddressesAreNumbers ==
    ASSUME ServerTypeOK PROVE Addresses \subseteq Nat \ {0} /\ 1 \in Addresses
<1>1. PICK n \in 1..MaxAddresses : answers \in [1..n -> Answer]
  BY DEF ServerTypeOK
<1>2. QED BY <1>1, ServerAssumption DEF Addresses

LEMMA ConnectInv ==
    ASSUME ServerInv, Connect \/ SelectExpires \/ Interrupted \/ SystemCallFails
    PROVE  ServerInv'
<1> USE AddressesAreNumbers DEF Goto, Connects, connectVars, tlsVars, threadVars
<1> Addresses' = Addresses
  BY DEF Connect, Resolve, MakeSocket, SetNonblocking, ConnectAtOnce, Refused,
         SelectReturns, SelectExpires, Interrupted, SetBlocking, SystemCallFails,
         SetTimeout, Addresses
<1>1. CASE Resolve
  BY <1>1 DEF Resolve, ServerTypeOK, Place
<1>2. CASE MakeSocket
  BY <1>2 DEF MakeSocket, ServerTypeOK, Place
<1>3. CASE SetNonblocking
  BY <1>3 DEF SetNonblocking, ServerTypeOK, Place
<1>4. CASE ConnectAtOnce
  BY <1>4 DEF ConnectAtOnce, Established, ServerTypeOK, Place
<1>5. CASE Refused
  BY <1>5 DEF Refused, ServerTypeOK, Place
<1>6. CASE SelectReturns
  BY <1>6 DEF SelectReturns, Established, ServerTypeOK, Place
<1>7. CASE SelectExpires \/ Interrupted
  BY <1>7 DEF SelectExpires, Interrupted, ServerTypeOK, Place
<1>8. CASE SetBlocking
  BY <1>8 DEF SetBlocking, ServerTypeOK, Place
<1>9. CASE SystemCallFails
  BY <1>9 DEF SystemCallFails, ServerTypeOK, Place
<1>10. CASE SetTimeout
  BY <1>10 DEF SetTimeout, ServerTypeOK, Place
<1>11. QED BY <1>1, <1>2, <1>3, <1>4, <1>5, <1>6, <1>7, <1>8, <1>9, <1>10 DEF Connect

LEMMA SecureInv ==
    ASSUME ServerInv,
           Secure \/ HandshakeSucceeds \/ HandshakeFails \/ HandshakeExpires
    PROVE  ServerInv'
<1> USE DEF Goto, Secures, connectVars, tlsVars, threadVars, ServerTypeOK, Place, Life,
            Addresses
<1>1. CASE NewContext
  BY <1>1 DEF NewContext
<1>2. CASE LoadCertificates
  BY <1>2 DEF LoadCertificates
<1>3. CASE HandshakeSucceeds
  BY <1>3 DEF HandshakeSucceeds
<1>4. CASE HandshakeFails \/ HandshakeExpires
  BY <1>4 DEF HandshakeFails, HandshakeExpires
<1>5. QED BY <1>1, <1>2, <1>3, <1>4 DEF Secure

LEMMA ReceiverThreadInv ==
    ASSUME ServerInv, Receive \/ Thread PROVE ServerInv'
<1> USE DEF Goto, Runs, connectVars, tlsVars, ServerTypeOK, Place, Addresses
<1>1. CASE Receive
  BY <1>1 DEF Receive
<1>2. CASE ThreadStarts
  BY <1>2 DEF ThreadStarts
<1>3. CASE ThreadReads
  BY <1>3, ServerAssumption DEF ThreadReads
<1>4. CASE ThreadLeaves
  BY <1>4 DEF ThreadLeaves
<1>5. CASE ReadExpires
  BY <1>5 DEF ReadExpires
<1>6. QED BY <1>1, <1>2, <1>3, <1>4, <1>5 DEF Thread

LEMMA DestructInv ==
    ASSUME ServerInv, Destroy \/ Destruct PROVE ServerInv'
<1> USE DEF Goto, Runs, Connects, connectVars, tlsVars, threadVars, ServerTypeOK, Place,
            Life, Addresses
<1>1. CASE Destroy
  BY <1>1 DEF Destroy
<1>2. CASE Stop
  BY <1>2 DEF Stop
<1>3. CASE Join
  BY <1>3 DEF Join
<1>4. CASE Free
  BY <1>4 DEF Free
<1>5. CASE Unwind
  BY <1>5 DEF Unwind
<1>6. CASE Close
  BY <1>6 DEF Close
<1>7. QED BY <1>1, <1>2, <1>3, <1>4, <1>5, <1>6 DEF Destruct

LEMMA StutterInv == ASSUME ServerInv, UNCHANGED vars PROVE ServerInv'
BY DEF vars, connectVars, tlsVars, threadVars, ServerTypeOK, Addresses

HIDE DEF ServerInv, SocketInv, ThreadInv, TlsInv, Released, UsableSocket,
         Connecting, Securing, Closing

(* The inductive invariant holds in every reachable state.                 *)
THEOREM ServerInvariance == Spec => []ServerInv
<1>1. ServerInv /\ [Next]_vars => ServerInv'
  BY ConnectInv, SecureInv, ReceiverThreadInv, DestructInv, StutterInv DEF Next
<1>2. QED BY <1>1, InitInv, PTL DEF Spec

(* Every variable of a server keeps its type.                              *)
THEOREM ServerTypeCorrect == Spec => []ServerTypeOK
BY ServerInvariance, PTL DEF ServerInv

(* A constructor that returns leaves a socket that is open, connected,     *)
(* blocking, and whose recv() times out (server.cpp:45-125).               *)
THEOREM SocketIsUsable == Spec => []UsableSocket
BY ServerInvariance, PTL DEF ServerInv, SocketInv

(* Nothing is closed or freed while the receiver thread may use it         *)
(* (tls_server.cpp:96).                                                    *)
THEOREM ThreadOwnsItsObjects == Spec => []NothingFreedInUse
<1>1. ServerInv => NothingFreedInUse
  BY DEF NothingFreedInUse, ServerInv, SocketInv, ThreadInv, TlsInv, UsableSocket,
         ServerTypeOK, Place, Connecting, Securing, Closing
<1>2. QED BY <1>1, ServerInvariance, PTL

(* A server object that is gone, or was never made, has closed the socket  *)
(* it used and freed what it allocated.                                    *)
THEOREM EverythingIsReleased == Spec => []Released
BY ServerInvariance, PTL DEF ServerInv
=============================================================================
