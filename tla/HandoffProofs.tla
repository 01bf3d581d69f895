---------------------------- MODULE HandoffProofs ----------------------------
(***************************************************************************)
(* Session implements the safety part of Handoff: its initial states map   *)
(* to initial states, and every step maps to a step or to a stutter.       *)
(***************************************************************************)
EXTENDS SessionProofs

(* The refinement mapping, one group of places of the main thread after   *)
(* the other, before and after a step.                                     *)
LEMMA WaitValue ==
    /\ pc \in Waiting => Wait = "waiting" /\ Hand = <<>>
    /\ pc = "crashed" => Wait = "broken" /\ Hand = <<>>
    /\ pc \in {"idle", "mark"} => Wait = "no" /\ Hand = <<>>
    /\ pc = "handle" => Wait = "no" /\ Hand = <<resp>>
BY DEF Wait, Hand, Waiting

LEMMA WaitValueNext ==
    /\ pc' \in Waiting => Wait' = "waiting" /\ Hand' = <<>>
    /\ pc' = "crashed" => Wait' = "broken" /\ Hand' = <<>>
    /\ pc' \in {"idle", "mark"} => Wait' = "no" /\ Hand' = <<>>
    /\ pc' = "handle" => Wait' = "no" /\ Hand' = <<resp'>>
BY DEF Wait, Hand, Waiting

\* A step that leaves the queue alone and stays within one group is a stutter.
Stutters ==
    /\ queue' = queue
    /\ \/ pc \in Waiting /\ pc' \in Waiting
       \/ pc \in {"idle", "mark"} /\ pc' \in {"idle", "mark"}
       \/ pc' = pc /\ resp' = resp

LEMMA StuttersMaps == Stutters => UNCHANGED Queueing!vars
BY DEF Stutters, Queueing!vars, Wait, Hand, Waiting
-----------------------------------------------------------------------------
(* The main thread.  A call that sends begins to wait, or will.            *)
LEMMA CallMaps == ASSUME Call PROVE Queueing!Next \/ UNCHANGED Queueing!vars
<1>1. /\ pc = "idle" /\ queue' = queue
      /\ pc' \in {"idle", "mark", "lock"}
  BY DEF Call, ReceiveGreeting, Login, Logout, Select, Search, Fetch, Read, Send,
         SendSet, Await, Refuse, Finish, sharedVars
<1>2. CASE pc' = "lock"
  BY <1>1, <1>2, WaitValue, WaitValueNext DEF Waiting, Queueing!Next, Queueing!Wait
<1>3. CASE pc' # "lock"
  BY <1>1, <1>3, StuttersMaps DEF Stutters
<1>4. QED BY <1>2, <1>3

LEMMA MainStepMaps ==
    ASSUME IInv, MainStep PROVE Queueing!Next \/ UNCHANGED Queueing!vars
<1>1. CASE MarkLogout
  BY <1>1, WaitValue, WaitValueNext
     DEF MarkLogout, Waiting, Queueing!Next, Queueing!Wait
<1>2. CASE Acquire \/ TestQueueOrError \/ Reacquire
  BY <1>2, StuttersMaps DEF Acquire, TestQueueOrError, Reacquire, Stutters, Waiting,
     sharedVars
\* An exception ends the wait.
<1>3. ASSUME pc \in Waiting, Finish("timeout") \/ Finish("failed") \/ Finish("byed"),
             queue' = queue
      PROVE  Queueing!Next
  BY <1>3, WaitValue, WaitValueNext
     DEF Finish, Queueing!Next, Queueing!GiveUp
<1>4. CASE TestByed
  BY <1>3, <1>4, StuttersMaps DEF TestByed, Stutters, Waiting
<1>5. CASE CheckError
  BY <1>3, <1>5, StuttersMaps DEF CheckError, Stutters, Waiting
<1>6. CASE CheckByedAndPop
  <2>1. CASE state = "SERVER_BYED"
    BY <1>3, <1>6, <2>1 DEF CheckByedAndPop, Waiting
  <2>2. CASE state # "SERVER_BYED" /\ queue # <<>>
    BY <1>6, <2>2, WaitValue, WaitValueNext
       DEF CheckByedAndPop, Waiting, Queueing!Next, Queueing!Take
  <2>3. CASE state # "SERVER_BYED" /\ queue = <<>>
    BY <1>6, <2>3, WaitValue, WaitValueNext
       DEF CheckByedAndPop, Waiting, Queueing!Next, Queueing!Break
  <2>4. QED BY <2>1, <2>2, <2>3
<1>7. CASE Handle
  <2>1. /\ pc = "handle" /\ queue' = queue
        /\ pc' \in {"idle", "lock", "crashed"}
    BY <1>7 DEF Handle, HandleGreeting, HandleLogin, HandleSelect, HandleSearch,
       HandleFetch, HandleRead, HandleLogout, WaitAgain, Accept, Reject, Finish
  <2>2. QED BY <2>1, WaitValue, WaitValueNext
               DEF Waiting, Queueing!Next, Queueing!Drop
<1>8. QED BY <1>1, <1>2, <1>4, <1>5, <1>6, <1>7 DEF MainStep

(* The receiver.  A wakeup does not end the wait.                          *)
LEMMA WakeMaps ==
    ASSUME Wake, resp' = resp PROVE Wait' = Wait /\ Hand' = Hand
BY DEF Wake, Wait, Hand, Waiting

LEMMA PutMaps ==
    ASSUME IInv, NEW r, Wake, resp' = resp, queue' = Append(queue, r)
    PROVE  Queueing!Next
<1>1. queue \in Seq(Response)
  BY DEF IInv, TypeOK
<1>2. Len(queue') = Len(queue) + 1 /\ SubSeq(queue', 1, Len(queue)) = queue
  BY <1>1
<1>3. QED BY <1>2, WakeMaps DEF Queueing!Next, Queueing!Put

LEMMA ReceiverMaps ==
    ASSUME IInv, Deliver \/ MarkFailed \/ ReceiverStep
    PROVE  Queueing!Next \/ UNCHANGED Queueing!vars
<1>1. CASE \E r \in Arrivals : NotifyIncoming(r)
  BY <1>1, PutMaps DEF NotifyIncoming, callVars
<1>2. CASE NotifyBye \/ MarkFailed
  BY <1>2, StuttersMaps DEF NotifyBye, MarkFailed, Stutters, callVars
<1>3. CASE MarkByed \/ NotifyFailed
  BY <1>3, WakeMaps DEF MarkByed, NotifyFailed, callVars, sharedVars, Queueing!vars
<1>4. CASE QueueBye
  BY <1>4, PutMaps DEF QueueBye, callVars
<1>5. QED BY <1>1, <1>2, <1>3, <1>4 DEF Deliver, ReceiverStep
-----------------------------------------------------------------------------
(* Responses pass from the receiver to the main thread in order, each at   *)
(* most once, and only a wait takes them: the safety of Handoff.           *)
THEOREM HandoffRefinement == Spec => Queueing!Safety
<1>1. Init => Queueing!Init
  BY WaitValue DEF Init, Queueing!Init
<1>2. IInv /\ [Next]_vars => [Queueing!Next]_(Queueing!vars)
  <2> SUFFICES ASSUME IInv, [Next]_vars
               PROVE  Queueing!Next \/ UNCHANGED Queueing!vars
    OBVIOUS
  <2>1. CASE Next
    <3>1. CASE SpuriousWakeup \/ Expire
      BY <3>1, StuttersMaps DEF SpuriousWakeup, Expire, Stutters, Waiting, sharedVars
    <3>2. QED BY <2>1, <3>1, CallMaps, MainStepMaps, ReceiverMaps DEF Next
  <2>2. CASE UNCHANGED vars
    BY <2>2, StuttersMaps DEF vars, sharedVars, callVars, Stutters
  <2>3. QED BY <2>1, <2>2
<1>3. QED BY <1>1, <1>2, Invariance, PTL DEF Spec, Queueing!Safety
=============================================================================
