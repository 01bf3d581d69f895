--------------------------- MODULE DownloadProofs ---------------------------
(***************************************************************************)
(* Success means that everything was saved: when main() returns 0 in batch *)
(* mode, the files it wrote are exactly the messages that the server found,*)
(* and on the way it went through the stages of Download.                  *)
(*                                                                         *)
(* It rests on ReplyProofs: the OK that fetch accepts is its own, so every *)
(* message came before it; or else a response was torn, and then no step   *)
(* of the call leads to its OK (Forgone).  Where the connection is reset   *)
(* as well it may (Mangled): of such a run it is only claimed that nothing *)
(* is fetched that was not asked for.                                      *)
(***************************************************************************)
EXTENDS ReplyProofs

\* The texts that were fetched.
Kept == {fetched[k] : k \in 1..Len(fetched)}

\* The server searched a mailbox, and found what is in it.
Searched == selected # NoMailbox /\ hits \subseteq Mail[selected]

\* The responses s hold every message of set before an OK, but for those kept.
Brings(s, set, kept) == \A i \in 1..Len(s) : s[i].type = "OK" =>
    \A m \in set :
        {m} \in kept \/ \E j \in 1..(i - 1) : s[j].type = "FETCH" /\ s[j].body = {m}

\* The answer to the call in progress was not torn.
Clear == ~Mangled /\ ~Forgone

BatchInv == ~Interactive => ~astray /\ (at \in Startup \cup {"save"} => saved = {})

\* What can be asked for, and what can come, before main() is done.
Scope   == IF at \in {"fetch", "save"} THEN seqset ELSE {}
Asking  == {c \in Command : c.op = "fetch" => c.set \subseteq Scope}
Fitting == {r \in Response : r.type = "FETCH" => r.body \subseteq Scope}

\* Where it can be: on its way to the server, coming from it, or kept.
Kinds == inbox \in Seq(Asking) /\ fetched \in Seq(SUBSET Scope)
Wires == wire \in Seq(Fitting \cup {Junk}) /\ queue \in Seq(Fitting) /\ resp \in Fitting

WantedInv == ~Interactive /\ at \in Startup \cup {"save"} => Wires /\ Kinds

HasOK == \E i \in 1..Len(Stream) : Stream[i].type = "OK"

SearchedInv == at = "search" /\ Clear =>
    /\ pc # "idle" /\ HasOK => Searched
    /\ pc = "idle" /\ outcome = "returned" => Searched /\ found \subseteq {hits}

FetchingInv == at = "fetch" /\ Clear =>
    /\ pc # "idle" \/ outcome \in {"none", "returned"} =>
          seqset = hits /\ seqset # {} /\ Searched
    /\ pc # "idle" => cmd.set = seqset /\ Brings(Stream, seqset, Kept)
    /\ pc = "idle" /\ outcome = "returned" => UNION Kept = seqset

SavingInv == at = "save" /\ ~Mangled => seqset = hits /\ UNION Kept = hits

DoneInv == ~Interactive /\ at \in {"return", "join", "exit"} /\ exitcode = 0 =>
    Mangled \/ (saved = hits /\ inbox = <<>>)

ClaimInv == SearchedInv /\ FetchingInv /\ SavingInv /\ DoneInv

DownloadInv == BatchInv /\ WantedInv /\ ClaimInv

DInv == RInv /\ DownloadInv
-----------------------------------------------------------------------------
(* What the steps do to the answer that is under way. *)

LEMMA BringsCut ==
    ASSUME NEW s \in Seq(Piece), NEW t \in Seq(Piece), NEW n, Cut(s, t, n, 1),
           n < Len(s), s[n + 1].type # "FETCH", NEW set, NEW kept, Brings(s, set, kept)
    PROVE  Brings(t, set, kept)
<1>1. /\ n \in Nat /\ n + 1 <= Len(s) /\ Len(t) = Len(s) - 1 /\ Len(s) \in Nat
      /\ \A i \in 1..Len(t) : t[i] = s[IF i <= n THEN i ELSE i + 1]
  BY DEF Cut
<1> SUFFICES ASSUME NEW i \in 1..Len(t), t[i].type = "OK", NEW m \in set
             PROVE  \/ {m} \in kept
                    \/ \E j \in 1..(i - 1) : t[j].type = "FETCH" /\ t[j].body = {m}
  BY DEF Brings
<1> DEFINE k == IF i <= n THEN i ELSE i + 1
<1>2. k \in 1..Len(s) /\ t[i] = s[k]
  BY <1>1
<1>3. {m} \in kept \/ \E j \in 1..(k - 1) : s[j].type = "FETCH" /\ s[j].body = {m}
  BY <1>2 DEF Brings
<1>4. ASSUME NEW j \in 1..(k - 1), s[j].type = "FETCH", s[j].body = {m}
      PROVE  \E x \in 1..(i - 1) : t[x].type = "FETCH" /\ t[x].body = {m}
  <2>1. j # n + 1
    BY <1>4
  <2>2. CASE j <= n
    <3>1. j \in 1..(i - 1) /\ j \in 1..Len(t)
      BY <1>1, <2>2
    <3>2. t[j] = s[j]
      BY <1>1, <2>2, <3>1
    <3>3. QED BY <1>4, <3>1, <3>2
  <2>3. CASE j > n + 1
    <3>1. j - 1 \in 1..(i - 1) /\ j - 1 \in 1..Len(t) /\ ~(j - 1 <= n) /\ (j - 1) + 1 = j
      BY <1>1, <2>3
    <3>2. t[j - 1] = s[j]
      BY <1>1, <3>1
    <3>3. QED BY <1>4, <3>1, <3>2
  <2>4. j <= n \/ j > n + 1
    <3>1. j \in Nat
      BY <1>1, <1>2
    <3>2. QED BY <1>1, <2>1, <3>1
  <2>5. QED BY <2>2, <2>3, <2>4
<1> HIDE DEF k
<1>5. QED BY <1>3, <1>4

LEMMA BringsGrown ==
    ASSUME NEW s \in Seq(Piece), NEW t, NEW rs \in Seq(Piece), Grown(s, t, rs),
           NEW set, NEW kept, Brings(s, set, kept), Brings(rs, set, kept)
    PROVE  Brings(t, set, kept)
<1>0. Len(s) \in Nat /\ Len(rs) \in Nat
  OBVIOUS
<1>1. /\ Len(t) = Len(s) + Len(rs)
      /\ \A i \in 1..Len(s) : t[i] = s[i]
      /\ \A i \in 1..Len(rs) : t[Len(s) + i] = rs[i]
      /\ \A i \in 1..Len(t) : i \in 1..Len(s) \/ i - Len(s) \in 1..Len(rs)
  BY DEF Grown
<1> SUFFICES ASSUME NEW i \in 1..Len(t), t[i].type = "OK", NEW m \in set
             PROVE  \/ {m} \in kept
                    \/ \E j \in 1..(i - 1) : t[j].type = "FETCH" /\ t[j].body = {m}
  BY DEF Brings
<1>2. CASE i \in 1..Len(s)
  <2>1. t[i] = s[i] /\ \A j \in 1..(i - 1) : t[j] = s[j]
    BY <1>0, <1>1, <1>2
  <2>2. {m} \in kept \/ \E j \in 1..(i - 1) : s[j].type = "FETCH" /\ s[j].body = {m}
    BY <1>2, <2>1 DEF Brings
  <2>3. QED BY <2>1, <2>2
<1>3. CASE i - Len(s) \in 1..Len(rs)
  <2> DEFINE k == i - Len(s)
  <2>1. k \in 1..Len(rs) /\ Len(s) + k = i
    BY <1>0, <1>1, <1>3
  <2>2. t[i] = rs[k]
    BY <1>0, <1>1, <2>1
  <2>3. \A j \in 1..(k - 1) : Len(s) + j \in 1..(i - 1) /\ t[Len(s) + j] = rs[j]
    BY <1>0, <1>1, <2>1
  <2>4. {m} \in kept \/ \E j \in 1..(k - 1) : rs[j].type = "FETCH" /\ rs[j].body = {m}
    BY <2>1, <2>2 DEF Brings
  <2> HIDE DEF k
  <2>5. QED BY <2>3, <2>4
<1>4. QED BY <1>1, <1>2, <1>3

LEMMA BringsRest ==
    ASSUME NEW s \in Seq(Piece), NEW t, Len(t) = Len(s) - 1,
           \A i \in 1..Len(t) : i + 1 \in 2..Len(s) /\ t[i] = s[i + 1],
           NEW set, NEW kept, Brings(s, set, kept), NEW kept2, kept \subseteq kept2,
           s[1].type = "FETCH" => s[1].body \in kept2
    PROVE  Brings(t, set, kept2)
<1>1. Len(s) \in Nat
  OBVIOUS
<1> SUFFICES ASSUME NEW i \in 1..Len(t), t[i].type = "OK", NEW m \in set
             PROVE  \/ {m} \in kept2
                    \/ \E j \in 1..(i - 1) : t[j].type = "FETCH" /\ t[j].body = {m}
  BY DEF Brings
<1>2. i + 1 \in 1..Len(s) /\ t[i] = s[i + 1]
  BY <1>1
<1> DEFINE k == i + 1
<1>3. {m} \in kept \/ \E j \in 1..(k - 1) : s[j].type = "FETCH" /\ s[j].body = {m}
  <2>1. k \in 1..Len(s) /\ s[k].type = "OK"
    BY <1>2
  <2> HIDE DEF k
  <2>2. QED BY <2>1 DEF Brings
<1>4. ASSUME NEW j \in 1..(k - 1), s[j].type = "FETCH", s[j].body = {m}
      PROVE  \/ {m} \in kept2
             \/ \E x \in 1..(i - 1) : t[x].type = "FETCH" /\ t[x].body = {m}
  <2>1. CASE j = 1
    BY <1>4, <2>1
  <2>2. CASE j # 1
    <3>1. j - 1 \in 1..(i - 1) /\ j - 1 \in 1..Len(t) /\ (j - 1) + 1 = j
      BY <1>1, <2>2
    <3>2. t[j - 1] = s[j]
      BY <3>1
    <3>3. QED BY <1>4, <3>1, <3>2
  <2>3. QED BY <2>1, <2>2
<1> HIDE DEF k
<1>5. QED BY <1>3, <1>4

\* Without an OK nothing is asked of the responses.
LEMMA BringsNothing ==
    ASSUME NEW s, \A i \in 1..Len(s) : s[i].type # "OK", NEW set, NEW kept
    PROVE  Brings(s, set, kept)
BY DEF Brings

\* Up to its OK the answer stays as it was, if the OK was received before a tear.
LEMMA MangledKeeps ==
    ASSUME PInv, ReplyInv, Sound, Welcome, Pending, Stream' \in Seq(Piece),
           Mangles(Stream, Stream', Len(Received)),
           \E k \in 1..Len(Received) : ~Part(Stream[k]),
           NEW i \in 1..Len(Stream'), Stream'[i].type = "OK"
    PROVE  /\ i \in 1..Len(Stream) /\ Stream'[i] = Stream[i]
           /\ \A j \in 1..(i - 1) : Stream'[j] = Stream[j]
<1> DEFINE s == Stream  t == Stream'  n == Len(Received)
<1>2. n \in Nat /\ Len(s) \in Nat /\ Len(t) \in Nat
  BY StreamType
<1>3. n + 1 \in 1..Len(s) /\ n <= Len(t) /\ \A j \in 1..n : t[j] = s[j]
  BY DEF Mangles
<1>4. i <= n \/ t[i] = Junk \/ CutFrom(t[i], s[n + 1])
         \/ \E j \in (n + 2)..Len(s) : t[i] = s[j]
  BY DEF Mangles
<1>5. PICK k \in 1..n : ~Part(s[k])
  OBVIOUS
<1>6. \A x \in 1..Len(s) : \/ Part(s[x])
                           \/ \A j \in (x + 1)..Len(s) : Idle(s[j])
  BY DEF ReplyInv, PendingInv
<1> HIDE DEF s, t, n
<1>7. k \in 1..Len(s) /\ n + 1 \in (k + 1)..Len(s)
      /\ \A j \in (n + 2)..Len(s) : j \in (k + 1)..Len(s)
  BY <1>2, <1>3
<1>8. \A j \in (k + 1)..Len(s) : Idle(s[j])
  BY <1>5, <1>6, <1>7
<1>9. \A r : Idle(r) => r.type # "OK" /\ (r.tag = NoTag \/ IsJunk(r))
  BY DEF Idle, Noise, IsJunk
<1>10. i <= n
  <2>1. ~CutFrom(t[i], s[n + 1])
    BY <1>7, <1>8, <1>9 DEF CutFrom, IsJunk
  <2>2. t[i] # Junk
    BY DEF t, Junk
  <2>3. ~\E j \in (n + 2)..Len(s) : t[i] = s[j]
    BY <1>7, <1>8, <1>9 DEF t
  <2>4. QED BY <1>4, <2>1, <2>2, <2>3
<1>11. i \in 1..n /\ i \in 1..Len(s) /\ \A j \in 1..(i - 1) : j \in 1..n
  BY <1>2, <1>3, <1>10 DEF t
<1>12. QED BY <1>3, <1>11 DEF s, t
-----------------------------------------------------------------------------
(* What ReplyProofs says of the calls that batch mode makes. *)

LEMMA BatchCall ==
    ASSUME DInv, ReplyInv, ~Mangled, at \in {"search", "fetch"}, pc # "idle"
    PROVE  /\ Sound /\ Welcome /\ Pending /\ cmd.op = at /\ outcome = "none"
           /\ greeted /\ (inbox = <<>> \/ inbox = <<cmd>>) /\ pc # "mark"
<1> USE DEF DInv, RInv
<1>1. ~Interactive
  BY DEF PInv, ModeInv
<1>2. Sound /\ Welcome /\ Pending
  BY <1>1 DEF DownloadInv, BatchInv, Sound, Live, Place, Startup, Welcome, Pending
<1>3. Calls(at, cmd.op) /\ outcome = "none"
  BY DEF PInv, CallInv, IInv, OutcomeInv
<1>4. cmd.op = at
  BY <1>3 DEF Calls
<1>5. QED BY <1>2, <1>3, <1>4 DEF ReplyInv, PendingInv, QuitInv

LEMMA BatchSettled ==
    ASSUME DInv, ReplyInv, ~Mangled, at \in {"search", "fetch", "save"}, pc = "idle",
           outcome \in {"none", "returned"}
    PROVE  Sound /\ inbox = <<>> /\ \A i \in 1..Len(Stream) : Stream[i].type # "OK"
<1> USE DEF DInv, RInv
<1>1. ~Interactive
  BY DEF PInv, ModeInv
<1>2. Sound /\ Welcome /\ Settled
  BY <1>1 DEF DownloadInv, BatchInv, Sound, Live, Place, Startup, Welcome, Settled
<1>3. inbox = <<>> /\ \A i \in 1..Len(Stream) : Rest(Stream[i])
  BY <1>2 DEF ReplyInv, SettledInv
<1>4. \A i \in 1..Len(Stream) : Stream[i].type # "OK"
  BY <1>3 DEF Rest, Idle, Noise, IsJunk
<1>5. QED BY <1>2, <1>3, <1>4
-----------------------------------------------------------------------------
(* Nothing is saved too early, and nothing comes that was not asked for:   *)
(* this holds whatever happens to the connection.                          *)

LEMMA NextBatchInv ==
    ASSUME PInv, BatchInv, [ProgramNext]_allVars PROVE BatchInv'
<1> SUFFICES ASSUME ~Interactive
             PROVE  ~astray' /\ (at' \in Startup \cup {"save"} => saved' = {})
  BY DEF BatchInv
<1>1. /\ ~astray /\ (at \in Startup \cup {"save"} => saved = {})
      /\ at \in Startup \cup {"save", "return", "join", "exit", "abort"}
  BY DEF BatchInv, PInv, ModeInv
<1>2. CASE CallSession
  <2>1. CallFrame /\ (Sent \/ Unsent)
    BY <1>2, CallEffect
  <2>2. UNCHANGED <<saved, astray>> /\ at' \in {at, "abort"}
    BY <2>1 DEF CallFrame, Sent, Unsent
  <2>3. QED BY <1>1, <2>2 DEF Startup
<1>3. CASE Program \/ User
  <2>1. CASE MainContinues
    <3>1. at \in Startup /\ UNCHANGED <<saved, astray>>
      BY <2>1 DEF MainContinues, StartupReturns, StartupThrows, Returned, Threw, Startup
    <3>2. QED BY <1>1, <3>1
  <2>2. CASE SaveMessages \/ Stop \/ Join
    <3>1. astray' = astray /\ at' \in {"return", "join", "exit"}
      BY <2>2 DEF SaveMessages, Stop, Join, Goto, Return
    <3>2. QED BY <1>1, <3>1 DEF Startup
  <2>3. CASE ClientContinues \/ Prompt \/ ReadLine \/ EndOfInput
    <3>1. at \in {"cselect", "csearch", "cfetch", "csave", "cread", "quit", "eof", "prompt", "input"}
      BY <2>3 DEF ClientContinues, CommandThrows, CommandSwallows, CommandReturns,
         CommandSaves, Threw, Returned, Prompt, ReadLine, EndOfInput
    <3>2. QED BY <1>1, <3>1 DEF Startup
  <2>4. QED BY <1>3, <2>1, <2>2, <2>3 DEF Program, User
<1>4. CASE \/ SessionStep \/ WakesForNothing \/ WaitExpires \/ Thread \/ Server
           \/ UNCHANGED allVars
  <2>1. UNCHANGED programVars
    BY <1>4 DEF SessionStep, WakesForNothing, WaitExpires, Thread, Server, ThreadStarts,
       ReceiveResponse, ReceiveNothing, ReceiveFails, CallbackStep, allVars
  <2>2. QED BY <1>1, <2>1 DEF programVars
<1>5. QED BY <1>2, <1>3, <1>4 DEF ProgramNext

LEMMA SameScope ==
    ASSUME UNCHANGED <<at, seqset>>
    PROVE  Scope' = Scope /\ Asking' = Asking /\ Fitting' = Fitting
BY DEF Scope, Asking, Fitting

\* The receiver thread takes from the wire, tears, and queues.
LEMMA ThreadWires ==
    ASSUME PInv, Wires, Thread PROVE Wires' /\ UNCHANGED <<at, seqset, inbox, fetched>>
<1>1. UNCHANGED <<at, seqset, inbox, fetched, resp>>
  BY DEF Thread, ThreadStarts, ReceiveResponse, ReceiveNothing, ReceiveFails, CallbackStep,
     ReceiverStep, MarkFailed, NotifyBye, NotifyIncoming, MarkByed, QueueBye, NotifyFailed,
     programVars, serverVars, netVars, vars, callVars
<1>2. Fitting' = Fitting
  BY <1>1, SameScope
<1> DEFINE F == Fitting
<1>3. wire \in Seq(F \cup {Junk}) /\ queue \in Seq(F) /\ resp \in F
  BY DEF Wires
<1>4. \A type \in ResponseType : Untagged(type, {}) \in F
  BY UntaggedType DEF Fitting, Untagged
<1> HIDE DEF F
<1>5. CASE UNCHANGED <<queue, wire>>
  BY <1>1, <1>2, <1>3, <1>5 DEF Wires, F
<1>6. CASE CallbackStep /\ QueueBye
  <2>1. queue' = Append(queue, Untagged("BYE", {})) /\ wire' = wire
    BY <1>6 DEF CallbackStep, QueueBye, netVars
  <2>2. queue' \in Seq(F)
    BY <1>3, <1>4, <2>1 DEF ResponseType
  <2>3. QED BY <1>1, <1>2, <1>3, <2>1, <2>2 DEF Wires, F
<1>7. CASE ReceiveResponse
  <2>1. wire # <<>>
    BY <1>7 DEF ReceiveResponse
  <2>2. Tail(wire) \in Seq(F \cup {Junk}) /\ Head(wire) \in F \cup {Junk}
    BY <1>3, <2>1
  <2>3. CASE /\ Whole(Head(wire)) /\ MarkFailed
             /\ \E rest \in Remains(Head(wire)) : wire' = rest \o Tail(wire)
    <3>1. PICK rest \in Remains(Head(wire)) : wire' = rest \o Tail(wire)
      BY <2>3
    <3>2. Head(wire) \in Response \cup {Junk}
      BY <2>2 DEF F, Fitting
    <3>3. /\ rest \in Seq(Response \cup {Junk})
          /\ \A i \in 1..Len(rest) : rest[i] = Junk \/ CutFrom(rest[i], Head(wire))
      BY <2>3, <3>1, <3>2, RemainsShape
    <3>4. \A i \in 1..Len(rest) : rest[i] \in F \cup {Junk}
      <4>1. \A i \in 1..Len(rest) : rest[i] \in Response \cup {Junk}
        BY <3>3
      <4>2. \A r : CutFrom(r, Head(wire)) => r.body = {}
        BY DEF CutFrom, Tagged
      <4>3. QED BY <3>3, <4>1, <4>2 DEF F, Fitting
    <3>5. rest \in Seq(F \cup {Junk})
      BY <3>3, <3>4
    <3>6. rest \o Tail(wire) \in Seq(F \cup {Junk})
      BY <2>2, <3>5
    <3>7. queue' = queue
      BY <2>3 DEF MarkFailed
    <3>8. QED BY <1>1, <1>2, <1>3, <3>1, <3>6, <3>7 DEF Wires, F
  <2>4. CASE MarkFailed /\ \E n \in 1..Len(wire) : wire' = SubSeq(wire, n + 1, Len(wire))
    <3>1. queue' = queue
      BY <2>4 DEF MarkFailed
    <3>2. wire' \in Seq(F \cup {Junk})
      BY <1>3, <2>4
    <3>3. QED BY <1>1, <1>2, <1>3, <3>1, <3>2 DEF Wires, F
  <2>5. CASE NotifyBye /\ wire' = Tail(wire)
    BY <1>1, <1>2, <1>3, <2>2, <2>5 DEF Wires, F, NotifyBye
  <2>6. CASE Head(wire).type # "JUNK" /\ NotifyIncoming(Head(wire)) /\ wire' = Tail(wire)
    <3>1. Head(wire) \in F
      BY <2>2, <2>6 DEF Junk
    <3>2. queue' = Append(queue, Head(wire))
      BY <2>6 DEF NotifyIncoming
    <3>3. queue' \in Seq(F)
      BY <1>3, <3>1, <3>2
    <3>4. QED BY <1>1, <1>2, <1>3, <2>2, <2>6, <3>3 DEF Wires, F
  <2>7. QED BY <1>7, <2>3, <2>4, <2>5, <2>6 DEF ReceiveResponse
<1>8. ThreadStarts \/ ReceiveNothing \/ ReceiveFails \/ (CallbackStep /\ ~QueueBye)
         => UNCHANGED <<queue, wire>>
  BY DEF ThreadStarts, ReceiveNothing, ReceiveFails, CallbackStep, ReceiverStep, MarkFailed,
     MarkByed, NotifyFailed, vars, sharedVars, netVars
<1>9. QED BY <1>1, <1>5, <1>6, <1>7, <1>8 DEF Thread

\* The server sends texts only of messages that it was asked for.
LEMMA AnswerFits ==
    ASSUME PInv, NEW c \in Asking, c.tag \in Nat, c.op # "greeting",
           c.op = "select" => c.mb \in Mailboxes, NEW a \in Answers(c)
    PROVE  a.rs \in Seq(Fitting)
<1> DEFINE rs == a.rs
<1>1. c \in Command /\ (c.op = "fetch" => c.set \subseteq Scope)
  BY DEF Asking
<1>2. rs \in Seq(Response)
  BY <1>1, AnswerTypes DEF PInv
<1>3. ASSUME NEW i \in 1..Len(rs), rs[i].type = "FETCH" PROVE rs[i].body \subseteq Scope
  <2>1. CASE c.op = "logout"
    <3>1. rs = <<Untagged("BYE", {}), Tagged("OK", c.tag)>>
      BY <1>1, <2>1, LogoutAnswer
    <3>2. rs[i].type # "FETCH"
      BY <3>1 DEF Untagged, Tagged
    <3>3. QED BY <1>3, <3>2
  <2>2. CASE c.op # "logout"
    <3>1. WellFormed(c, a)
      BY <1>1, <2>2, AnswersShape DEF PInv, Answered
    <3>2. Len(rs) \in Nat
      BY <1>2
    <3> DEFINE r == rs[i]
    <3>3. Condition(c, r) \/ PlainPart(c, a.hits, selected, r)
      BY <3>1, <3>2 DEF WellFormed
    <3> HIDE DEF r, rs
    <3>4. ~Condition(c, r)
      BY <1>3 DEF Condition, Tagged, r
    <3>5. r.body = {} \/ (c.op = "fetch" /\ \E m \in c.set : r.body = {m})
      BY <1>3, <3>3, <3>4 DEF PlainPart, r
    <3>6. QED BY <1>1, <3>5 DEF r
  <2>3. QED BY <2>1, <2>2
<1> HIDE DEF rs
<1>4. \A i \in 1..Len(rs) : rs[i] \in Fitting
  BY <1>2, <1>3 DEF Fitting
<1>5. rs \in Seq(Fitting)
  BY <1>2, <1>4
<1>6. QED BY <1>5 DEF rs

LEMMA ServerWires ==
    ASSUME PInv, Wires, Kinds, Server PROVE Wires' /\ Kinds'
<1>1. UNCHANGED <<at, seqset, fetched, queue, resp>>
  BY DEF Server, vars, sharedVars, callVars, programVars
<1>2. Scope' = Scope /\ Asking' = Asking /\ Fitting' = Fitting
  BY <1>1, SameScope
<1> DEFINE F == Fitting  A == Asking
<1>3. /\ wire \in Seq(F \cup {Junk}) /\ queue \in Seq(F) /\ resp \in F
      /\ inbox \in Seq(A) /\ fetched \in Seq(SUBSET Scope)
  BY DEF Wires, Kinds
<1>4. \A type \in ResponseType : Untagged(type, {}) \in F
  BY UntaggedType DEF Fitting, Untagged
<1> HIDE DEF F, A
<1>5. CASE Greet \/ Unasked \/ Leave
  <2>1. inbox' = inbox
    BY <1>5 DEF Greet, Unasked, Leave
  <2>2. CASE Greet
    <3>1. \E r \in F : wire' = <<r>> \/ wire' = <<r, Junk>>
      BY <1>4, <2>2 DEF Greet, ResponseType
    <3> DEFINE G == F \cup {Junk}
    <3>2. \A r \in F : r \in G /\ Junk \in G
      OBVIOUS
    <3> HIDE DEF G
    <3>3. \A r, j \in G : <<r>> \in Seq(G) /\ <<r, j>> \in Seq(G)
      OBVIOUS
    <3>4. wire' \in Seq(G)
      BY <3>1, <3>2, <3>3
    <3>5. QED BY <1>1, <1>2, <1>3, <2>1, <3>4 DEF Wires, Kinds, F, A, G
  <2>3. CASE Unasked \/ Leave
    <3>1. wire' = wire \/ \E r \in F : wire' = Append(wire, r)
      BY <1>4, <2>3 DEF Unasked, Leave, ResponseType
    <3> DEFINE G == F \cup {Junk}
    <3>2. wire \in Seq(G) /\ \A r \in F : r \in G
      BY <1>3
    <3> HIDE DEF G
    <3>3. \A r \in G : Append(wire, r) \in Seq(G)
      BY <3>2
    <3>4. wire' \in Seq(G)
      BY <3>1, <3>2, <3>3
    <3>5. QED BY <1>1, <1>2, <1>3, <2>1, <3>4 DEF Wires, Kinds, F, A, G
  <2>4. QED BY <1>5, <2>2, <2>3
<1>6. CASE Answer
  <2>1. inbox # <<>> /\ inbox' = Tail(inbox)
    BY <1>6 DEF Answer
  <2>2. Head(inbox) \in A /\ inbox' \in Seq(A) /\ Head(inbox) = inbox[1] /\ 1 \in 1..Len(inbox)
    BY <1>3, <2>1
  <2>3. PICK a \in Answers(Head(inbox)) : wire' = wire \o a.rs
    BY <1>6 DEF Answer
  <2>4. a.rs \in Seq(F)
    <3> DEFINE c == Head(inbox)
    <3>1. c.op # "greeting" /\ c.tag \in Nat /\ (c.op = "select" => c.mb \in Mailboxes)
      BY <2>2 DEF PInv, InboxInv
    <3>2. c \in Asking /\ a \in Answers(c)
      BY <2>2, <2>3 DEF A
    <3> HIDE DEF c
    <3>3. QED BY <3>1, <3>2, AnswerFits DEF F
  <2>5. wire' \in Seq(F \cup {Junk})
    BY <1>3, <2>3, <2>4
  <2>6. QED BY <1>1, <1>2, <1>3, <2>2, <2>5 DEF Wires, Kinds, F, A
<1>7. QED BY <1>5, <1>6 DEF Server

\* The main thread moves the first of the queue into its hand, and keeps texts.
LEMMA InsideWires ==
    ASSUME PInv, Wires, Kinds, SessionStep \/ WakesForNothing \/ WaitExpires
    PROVE  Wires' /\ Kinds'
<1>1. UNCHANGED <<at, seqset, inbox, wire>>
  BY DEF SessionStep, WakesForNothing, WaitExpires, programVars, serverVars, netVars
<1>2. Scope' = Scope /\ Asking' = Asking /\ Fitting' = Fitting
  BY <1>1, SameScope
<1> DEFINE F == Fitting  S == SUBSET Scope
<1>3. /\ wire \in Seq(F \cup {Junk}) /\ queue \in Seq(F) /\ resp \in F
      /\ inbox \in Seq(Asking) /\ fetched \in Seq(S)
  BY DEF Wires, Kinds
<1> HIDE DEF F, S
<1>4. queue' \in Seq(F) /\ resp' \in F
  <2>1. CASE CheckByedAndPop /\ pc' = "handle"
    <3>1. queue # <<>> /\ resp' = Head(queue) /\ queue' = Tail(queue)
      BY <2>1 DEF CheckByedAndPop, Finish
    <3>2. QED BY <1>3, <3>1
  <2>2. CASE ~(CheckByedAndPop /\ pc' = "handle")
    <3>1. queue' = queue
      BY <2>2 DEF SessionStep, WakesForNothing, WaitExpires, MainStep, MarkLogout,
         Acquire, TestQueueOrError, TestByed, Reacquire, CheckError, CheckByedAndPop,
         SpuriousWakeup, Expire, Handle, sharedVars, Finish
    <3>2. resp' = resp \/ resp' = NoResponse
      BY <2>2 DEF SessionStep, WakesForNothing, WaitExpires, MainStep, MarkLogout,
         Acquire, TestQueueOrError, TestByed, Reacquire, CheckError, CheckByedAndPop,
         SpuriousWakeup, Expire, Handle, callVars, Finish
    <3>3. NoResponse \in F
      BY UntaggedType DEF F, Fitting, NoResponse, Untagged, ResponseType
    <3>4. QED BY <1>3, <3>1, <3>2, <3>3
  <2>3. QED BY <2>1, <2>2
<1>5. fetched' \in Seq(S)
  <2>1. CASE Handle /\ cmd.op = "fetch"
    <3>1. fetched' = IF resp.type = "FETCH" THEN Append(fetched, resp.body) ELSE fetched
      BY <2>1 DEF Handle, HandleFetch
    <3>2. resp.type = "FETCH" => resp.body \in S
      BY <1>3 DEF F, S, Fitting
    <3>3. QED BY <1>3, <3>1, <3>2
  <2>2. CASE ~(Handle /\ cmd.op = "fetch")
    <3>1. fetched' = fetched
      BY <2>2 DEF SessionStep, WakesForNothing, WaitExpires, MainStep, MarkLogout,
         Acquire, TestQueueOrError, TestByed, Reacquire, CheckError, CheckByedAndPop,
         SpuriousWakeup, Expire, callVars, Finish, Handle, HandleGreeting, HandleLogin,
         HandleSelect, HandleSearch, HandleRead, HandleLogout
    <3>2. QED BY <1>3, <3>1
  <2>3. QED BY <2>1, <2>2
<1>6. QED BY <1>1, <1>2, <1>3, <1>4, <1>5 DEF Wires, Kinds, F, S

LEMMA CallKinds ==
    ASSUME PInv, ~Interactive, Wires, Kinds, CallSession, at' # "abort" PROVE Wires' /\ Kinds'
<1>1. CallFrame /\ (Sent \/ Unsent)
  BY CallEffect
<1>2. at' = at /\ UNCHANGED <<seqset, queue, wire, resp>>
  BY <1>1 DEF CallFrame, Sent, Unsent, sharedVars
<1>3. Scope' = Scope /\ Asking' = Asking /\ Fitting' = Fitting
  BY <1>2, SameScope
<1>4. fetched' \in Seq(SUBSET Scope)
  <2>1. fetched' = <<>> \/ fetched' = fetched
    BY <1>1 DEF Sent, Unsent
  <2> DEFINE S == SUBSET Scope
  <2>2. fetched \in Seq(S)
    BY DEF Kinds
  <2> HIDE DEF S
  <2>2a. <<>> \in Seq(S)
    OBVIOUS
  <2>3. fetched' \in Seq(S)
    BY <2>1, <2>2, <2>2a, Zenon
  <2>4. QED BY <2>3 DEF S
<1>5. inbox' \in Seq(Asking)
  <2>1. CASE inbox' = inbox
    BY <2>1 DEF Kinds
  <2>2. CASE inbox' = Append(inbox, cmd') /\ Commanded(cmd')
    <3>1. cmd'.op = "fetch" => at = "fetch"
      <4>1. at # "cfetch"
        BY <1>1 DEF CallFrame, PInv, ModeInv, Startup
      <4>2. QED BY <2>2, <4>1 DEF Commanded, Calls
    <3>2. cmd' \in Asking
      BY <2>2, <3>1 DEF Asking, Commanded, Scope
    <3>3. QED BY <2>2, <3>2 DEF Kinds
  <2>3. QED BY <1>1, <2>1, <2>2 DEF Sent, Unsent
<1>6. QED BY <1>2, <1>3, <1>4, <1>5 DEF Wires, Kinds

\* main() goes on: more may be asked for than before.
LEMMA BetweenKinds ==
    ASSUME PInv, ~Interactive, Wires, Kinds, Program \/ User, at' \in Startup \cup {"save"}
    PROVE  Wires' /\ Kinds'
<1>1. Outside
  BY DEF Program, User
<1>2. UNCHANGED <<queue, wire, resp, inbox, fetched>>
  BY <1>1 DEF Outside, sharedVars, netVars
<1>3. Scope \subseteq Scope'
  <2>1. CASE at \notin {"fetch", "save"}
    BY <2>1 DEF Scope
  <2>2. CASE at \in {"fetch", "save"}
    <3>1. seqset' = seqset /\ at' = "save"
      BY <2>2 DEF Program, User, MainContinues, StartupReturns, StartupThrows, SaveMessages,
         ClientContinues, CommandThrows, CommandSwallows, CommandReturns, CommandSaves,
         Prompt, Stop, Join, ReadLine, EndOfInput, Threw, Returned, Goto, Return, Startup
    <3>2. QED BY <2>2, <3>1 DEF Scope
  <2>3. QED BY <2>1, <2>2
<1>4. /\ Asking \subseteq Asking' /\ Fitting \subseteq Fitting'
      /\ SUBSET Scope \subseteq SUBSET Scope'
  BY <1>3 DEF Asking, Fitting
<1> DEFINE F == Fitting  F2 == Fitting'  A == Asking  A2 == Asking'
           S == SUBSET Scope  S2 == SUBSET Scope'
<1>5. /\ wire \in Seq(F \cup {Junk}) /\ queue \in Seq(F) /\ resp \in F
      /\ inbox \in Seq(A) /\ fetched \in Seq(S)
      /\ F \subseteq F2 /\ A \subseteq A2 /\ S \subseteq S2
  BY <1>4 DEF Wires, Kinds
<1> HIDE DEF F, F2, A, A2, S, S2
<1>6. /\ wire \in Seq(F2 \cup {Junk}) /\ queue \in Seq(F2) /\ resp \in F2
      /\ inbox \in Seq(A2) /\ fetched \in Seq(S2)
  BY <1>5
<1>7. QED BY <1>2, <1>6 DEF Wires, Kinds, F2, A2, S2

LEMMA NextWantedInv ==
    ASSUME PInv, WantedInv, [ProgramNext]_allVars PROVE WantedInv'
<1> SUFFICES ASSUME ~Interactive, at' \in Startup \cup {"save"} PROVE Wires' /\ Kinds'
  BY DEF WantedInv
<1>1. at' # "abort"
  BY DEF Startup
<1>2. ASSUME at \in Startup \cup {"save"} PROVE Wires /\ Kinds
  BY <1>2 DEF WantedInv
<1>3. CASE CallSession
  <2>1. at' \in {at, "abort"}
    BY <1>3, CallEffect DEF Sent, Unsent
  <2>2. QED BY <1>1, <1>2, <1>3, <2>1, CallKinds
<1>4. CASE Program \/ User
  <2>1. at \in Startup \cup {"save"}
    <3>1. at \in Startup \cup {"save", "return", "join", "exit", "abort"}
      BY DEF PInv, ModeInv
    <3>2. at \in {"return", "join", "exit", "abort"} => at' \in {"join", "exit"}
      BY <1>4 DEF Program, User, MainContinues, StartupReturns, StartupThrows, SaveMessages,
         ClientContinues, CommandThrows, CommandSwallows, CommandReturns, CommandSaves,
         Prompt, Stop, Join, ReadLine, EndOfInput, Threw, Returned, Goto, Return, Startup, Dead
    <3>3. QED BY <3>1, <3>2 DEF Startup
  <2>2. QED BY <1>2, <1>4, <2>1, BetweenKinds
<1>5. CASE SessionStep \/ WakesForNothing \/ WaitExpires
  <2>1. at' = at
    BY <1>5 DEF SessionStep, WakesForNothing, WaitExpires, programVars
  <2>2. QED BY <1>2, <1>5, <2>1, InsideWires
<1>6. CASE Thread
  <2>1. at' = at
    BY <1>6 DEF Thread, ThreadStarts, ReceiveResponse, ReceiveNothing, ReceiveFails,
       CallbackStep, programVars
  <2>2. Wires' /\ UNCHANGED <<at, seqset, inbox, fetched>> /\ Kinds
    BY <1>2, <1>6, <2>1, ThreadWires
  <2>3. QED BY <2>2, SameScope DEF Kinds
<1>7. CASE Server
  <2>1. at' = at
    BY <1>7 DEF Server, programVars
  <2>2. QED BY <1>2, <1>7, <2>1, ServerWires
<1>8. CASE UNCHANGED allVars
  <2>1. UNCHANGED <<at, seqset, inbox, fetched, wire, queue, resp>>
    BY <1>8 DEF allVars, vars, callVars, sharedVars, programVars, netVars
  <2>2. QED BY <1>2, <2>1, SameScope DEF Wires, Kinds
<1>9. QED BY <1>3, <1>4, <1>5, <1>6, <1>7, <1>8 DEF ProgramNext

\* What is kept is of the set that was asked for.
LEMMA KeptWanted ==
    ASSUME WantedInv, ~Interactive, at \in {"fetch", "save"}
    PROVE  UNION Kept \subseteq seqset
<1>1. fetched \in Seq(SUBSET seqset)
  BY DEF WantedInv, Kinds, Scope, Startup
<1>2. \A k \in 1..Len(fetched) : fetched[k] \subseteq seqset
  BY <1>1
<1>3. QED BY <1>2 DEF Kept
-----------------------------------------------------------------------------
(* Steps that leave alone what main() knows and what the server found. *)

Facts == <<at, outcome, seqset, hits, selected, cmd, fetched, found, saved, exitcode,
           astray, faults, inbox>>

LEMMA SteadyClaims ==
    ASSUME ClaimInv, Clear, UNCHANGED Facts, pc' = "idle" <=> pc = "idle",
           at = "search" /\ pc # "idle" /\ HasOK' => HasOK,
           at = "fetch" /\ pc # "idle" /\ Brings(Stream, seqset, Kept)
              => Brings(Stream', seqset, Kept)
    PROVE  ClaimInv'
<1> USE DEF ClaimInv, Facts
<1>1. Kept' = Kept /\ (Searched' <=> Searched) /\ ~Mangled
  BY DEF Kept, Searched, Clear
<1>2. SearchedInv'
  BY <1>1 DEF SearchedInv
<1>3. FetchingInv'
  BY <1>1 DEF FetchingInv
<1>4. SavingInv' /\ DoneInv'
  BY <1>1 DEF SavingInv, DoneInv
<1>5. QED BY <1>2, <1>3, <1>4

\* A call that fails leaves nothing to claim.
LEMMA FailedClaims ==
    ASSUME PInv', pc' = "idle", outcome' \notin {"none", "returned"} PROVE ClaimInv'
<1>1. at' \in CallPlace
  BY DEF PInv, CallInv
<1>2. at' \notin {"save", "return", "join", "exit"}
  BY <1>1 DEF CallPlace, Startup
<1>3. QED BY <1>2 DEF ClaimInv, SearchedInv, FetchingInv, SavingInv, DoneInv

\* Nor does one that is bound to fail.
LEMMA ForgoneClaims ==
    ASSUME PInv', Forgone' PROVE ClaimInv'
<1>1. pc' # "idle" /\ at' \in Live
  BY DEF Forgone, Pending, Sound
<1>2. at' \notin {"save", "return", "join", "exit"}
  BY <1>1 DEF PInv, CallInv, CallPlace, Startup, Live
<1>3. QED BY <1>2 DEF ClaimInv, SearchedInv, FetchingInv, SavingInv, DoneInv, Clear

LEMMA MangledClaims ==
    ASSUME Mangled' PROVE ClaimInv'
BY DEF ClaimInv, SearchedInv, FetchingInv, SavingInv, DoneInv, Clear

LEMMA WaitingClaims ==
    ASSUME DInv, Clear, PInv', SessionStep \/ WakesForNothing \/ WaitExpires, ~Handle
    PROVE  ClaimInv'
<1> USE DEF DInv, RInv
<1>1. /\ UNCHANGED <<astray, at, seqset, saved, exitcode, hits, selected, inbox, link,
                     wire, faults>>
      /\ ~Dead /\ (MainStep \/ SpuriousWakeup \/ Expire)
  BY DEF SessionStep, WakesForNothing, WaitExpires, programVars, serverVars, netVars
<1>2. /\ UNCHANGED <<cmd, found, fetched>> /\ pc # "idle"
      /\ \/ outcome' = outcome /\ pc' # "idle"
         \/ pc' = "idle" /\ outcome' \in {"timeout", "failed", "byed"}
  BY <1>1 DEF MainStep, MarkLogout, Acquire, TestQueueOrError, TestByed, Reacquire,
     CheckError, CheckByedAndPop, SpuriousWakeup, Expire, callVars, Finish
<1>3. CASE pc' = "idle" /\ outcome' \in {"timeout", "failed", "byed"}
  BY <1>3, FailedClaims
<1>4. CASE outcome' = outcome /\ pc' # "idle"
  <2>1. Stream' = Stream
    <3>1. CASE CheckByedAndPop /\ pc' = "handle"
      BY <1>1, <3>1, PoppedStream DEF CheckByedAndPop, Finish
    <3>2. CASE ~(CheckByedAndPop /\ pc' = "handle")
      <4>1. queue' = queue /\ pc # "handle" /\ pc' # "handle"
        BY <1>1, <3>2 DEF MainStep, MarkLogout, Acquire, TestQueueOrError, TestByed,
           Reacquire, CheckError, CheckByedAndPop, SpuriousWakeup, Expire, sharedVars, Finish
      <4>2. QED BY <1>1, <4>1, KeptStream
    <3>3. QED BY <3>1, <3>2
  <2>2. HasOK' <=> HasOK
    BY <2>1 DEF HasOK
  <2>3. QED BY <1>1, <1>2, <1>4, <2>1, <2>2, SteadyClaims DEF Facts, DownloadInv
<1>5. QED BY <1>2, <1>3, <1>4
-----------------------------------------------------------------------------
(* The receiver thread. *)

LEMMA ThreadClaims ==
    ASSUME DInv, ReplyInv, Clear, PInv', ~Forgone', Thread PROVE ClaimInv'
<1> USE DEF DInv, RInv, DownloadInv
<1>1. /\ UNCHANGED Facts /\ UNCHANGED Views /\ resp' = resp
  BY DEF Thread, ThreadStarts, ReceiveResponse, ReceiveNothing, ReceiveFails, CallbackStep,
     ReceiverStep, MarkFailed, NotifyBye, NotifyIncoming, MarkByed, QueueBye, NotifyFailed,
     programVars, serverVars, netVars, vars, callVars, Facts, Views
<1>2. pc' = pc \/ (pc = "blocked" /\ pc' = "woken")
  BY DEF Thread, ThreadStarts, ReceiveResponse, ReceiveNothing, ReceiveFails, CallbackStep,
     ReceiverStep, MarkFailed, NotifyBye, NotifyIncoming, MarkByed, QueueBye,
     NotifyFailed, Wake, vars
<1>3. (pc' = "idle" <=> pc = "idle") /\ (pc' = "handle" <=> pc = "handle")
  BY <1>2
<1>4. CASE Stream' = Stream
  <2>1. HasOK' <=> HasOK
    BY <1>4 DEF HasOK
  <2>2. QED BY <1>1, <1>3, <1>4, <2>1, SteadyClaims
<1>5. CASE UNCHANGED <<queue, wire>>
  BY <1>1, <1>3, <1>4, <1>5 DEF Stream, Received, Hand
<1>6. CASE ~(at \in {"search", "fetch"} /\ pc # "idle")
  BY <1>1, <1>3, <1>6, SteadyClaims
<1>7. CASE at \in {"search", "fetch"} /\ pc # "idle"
  <2>1. /\ Sound /\ Welcome /\ Pending /\ cmd.op \in {"search", "fetch"} /\ ~QueueBye
    <3>1. Sound /\ Welcome /\ Pending /\ cmd.op = at
      BY <1>7, BatchCall DEF Clear
    <3>2. QED BY <1>7, <3>1 DEF QuitInv, QueueBye
  <2>2. CASE ReceiveResponse
    <3> DEFINE w == wire
    <3>1. w \in Seq(Piece) /\ w # <<>>
      BY <2>2, StreamType DEF ReceiveResponse
    <3> HIDE DEF w
    <3>2. 1 \in 1..Len(wire) /\ Tail(wire) = SubSeq(wire, 1 + 1, Len(wire)) /\ wire # <<>>
      BY <3>1 DEF w
    <3>3. queue' = queue => Received' = Received
      BY <1>1, <1>3 DEF Received, Hand
    <3>4. ASSUME NEW k \in 1..Len(wire), wire' = SubSeq(wire, k + 1, Len(wire)), queue' = queue
          PROVE  /\ Stream' \in Seq(Piece) /\ Cut(Stream, Stream', Len(Received), k)
                 /\ Len(Received) < Len(Stream) /\ Stream[Len(Received) + 1] = Head(wire)
      BY <3>3, <3>4, DroppedStream
    <3>5. ASSUME "torn" \in faults, MarkFailed, Stream' \in Seq(Piece),
                 Mangles(Stream, Stream', Len(Received))
          PROVE  ClaimInv'
      <4>1. \E k \in 1..Len(Received) : ~Part(Stream[k])
        <5> SUFFICES ASSUME \A k \in 1..Len(Received) : Part(Stream[k]) PROVE FALSE
          OBVIOUS
        <5>1. Len(Received) \in Nat /\ Len(wire) \in Nat
          BY StreamType
        <5>2. \A k \in 1..Len(Received) : k \in 1..Len(Stream) /\ k <= Len(Received)
          BY <5>1, StreamParts
        <5>3. \A k \in 1..Len(Received) : Stream[k] = Received[k]
          BY <5>2, StreamParts
        <5>4. QED BY <1>1, <2>1, <3>5, <5>3, ForgoneBegins
      <4>2. ASSUME NEW i \in 1..Len(Stream'), Stream'[i].type = "OK"
            PROVE  /\ i \in 1..Len(Stream) /\ Stream'[i] = Stream[i]
                   /\ \A j \in 1..(i - 1) : Stream'[j] = Stream[j]
        BY <2>1, <3>5, <4>1, <4>2, MangledKeeps
      <4>3. HasOK' => HasOK
        BY <4>2 DEF HasOK
      <4>4. Brings(Stream, seqset, Kept) => Brings(Stream', seqset, Kept)
        <5> SUFFICES ASSUME Brings(Stream, seqset, Kept),
                            NEW i \in 1..Len(Stream'), Stream'[i].type = "OK", NEW m \in seqset
                     PROVE  \/ {m} \in Kept
                            \/ \E j \in 1..(i - 1) :
                                  Stream'[j].type = "FETCH" /\ Stream'[j].body = {m}
          BY DEF Brings
        <5>1. /\ i \in 1..Len(Stream) /\ Stream[i].type = "OK"
              /\ \A j \in 1..(i - 1) : Stream'[j] = Stream[j]
          BY <4>2
        <5>2. {m} \in Kept \/ \E j \in 1..(i - 1) : Stream[j].type = "FETCH" /\ Stream[j].body = {m}
          BY <5>1 DEF Brings
        <5>3. QED BY <5>1, <5>2
      <4>5. QED BY <1>1, <1>3, <4>3, <4>4, SteadyClaims
    <3>6. CASE /\ "torn" \in faults /\ Whole(Head(wire)) /\ MarkFailed
               /\ \E rest \in Remains(Head(wire)) : wire' = rest \o Tail(wire)
      <4>1. Received' = Received
        BY <3>3, <3>6 DEF MarkFailed
      <4>2. Stream' \in Seq(Piece) /\ Mangles(Stream, Stream', Len(Received))
        BY <3>2, <3>6, <4>1, TornStream
      <4>3. QED BY <3>5, <3>6, <4>2
    <3>7. CASE Head(wire).type = "JUNK" /\ MarkFailed
               /\ \E n \in 1..Len(wire) : wire' = SubSeq(wire, n + 1, Len(wire))
      <4>1. PICK k \in 1..Len(wire) : wire' = SubSeq(wire, k + 1, Len(wire))
        BY <3>7
      <4>2. /\ Stream' \in Seq(Piece) /\ Cut(Stream, Stream', Len(Received), k)
            /\ Len(Received) < Len(Stream) /\ Stream[Len(Received) + 1] = Head(wire)
        BY <3>4, <3>7, <4>1 DEF MarkFailed
      <4>3. "torn" \in faults
        <5>1. Len(Received) + 1 \in 1..Len(Stream)
          BY <4>2, StreamType
        <5>2. IsJunk(Stream[Len(Received) + 1])
          BY <3>7, <4>2 DEF IsJunk
        <5>3. ~Condition(cmd, Stream[Len(Received) + 1])
          BY <5>2 DEF Condition, IsJunk, Tagged
        <5>4. Part(Stream[Len(Received) + 1])
          BY <2>1, <5>1, <5>3 DEF ReplyInv, PendingInv
        <5>5. QED BY <2>1, <5>2, <5>4 DEF Part, Belongs, Idle, Noise, IsJunk
      <4>4. Mangles(Stream, Stream', Len(Received))
        BY <4>1, <4>2, StreamType, CutMangles
      <4>5. QED BY <3>5, <3>7, <4>2, <4>3, <4>4
    <3>8. CASE Head(wire).type = "BYE" /\ NotifyBye /\ wire' = Tail(wire)
      <4> DEFINE n == Len(Received)
      <4>1. /\ Stream' \in Seq(Piece) /\ Cut(Stream, Stream', n, 1) /\ n < Len(Stream)
            /\ Stream[n + 1] = Head(wire) /\ Stream \in Seq(Piece) /\ n \in Nat
        BY <3>2, <3>4, <3>8, StreamType DEF NotifyBye
      <4> HIDE DEF n
      <4>2. HasOK' => HasOK
        <5>1. \A i \in 1..Len(Stream') : \E j \in 1..Len(Stream) : Stream'[i] = Stream[j]
          BY <4>1, CutOrder
        <5>2. QED BY <5>1 DEF HasOK
      <4>3. Brings(Stream, seqset, Kept) => Brings(Stream', seqset, Kept)
        BY <3>8, <4>1, BringsCut
      <4>4. QED BY <1>1, <1>3, <4>2, <4>3, SteadyClaims
    <3>9. CASE Head(wire).type # "JUNK" /\ NotifyIncoming(Head(wire)) /\ wire' = Tail(wire)
      <4>1. Head(wire) \in Response
        <5>1. Head(w) \in Response \cup {Junk}
          BY <3>1 DEF Piece
        <5>2. QED BY <3>9, <5>1 DEF Junk, w
      <4>2. Received' = Append(Received, Head(wire))
        BY <1>1, <1>3, <3>9, <4>1, QueuedStream DEF NotifyIncoming
      <4>3. Stream' = Stream
        BY <3>2, <3>9, <4>2, MovedStream
      <4>4. QED BY <1>4, <4>3
    <3>10. QED BY <2>2, <3>6, <3>7, <3>8, <3>9 DEF ReceiveResponse
  <2>3. ThreadStarts \/ ReceiveNothing \/ ReceiveFails \/ (CallbackStep /\ ~QueueBye)
           => UNCHANGED <<queue, wire>>
    BY DEF ThreadStarts, ReceiveNothing, ReceiveFails, CallbackStep, ReceiverStep, MarkFailed,
       MarkByed, NotifyFailed, vars, sharedVars, netVars
  <2>4. QED BY <1>5, <2>1, <2>2, <2>3 DEF Thread
<1>8. QED BY <1>6, <1>7
-----------------------------------------------------------------------------
(* The server. *)

LEMMA NoiseClaims ==
    ASSUME DInv, ReplyInv, Clear, Greet \/ Unasked \/ Leave,
           UNCHANGED <<vars, programVars, faults>>
    PROVE  ClaimInv'
<1> USE DEF DInv, RInv, DownloadInv
<1>1. UNCHANGED Facts /\ UNCHANGED <<pc, state, queue, resp>> /\ Received' = Received
  BY DEF Greet, Unasked, Leave, vars, callVars, sharedVars, programVars, Facts, Received, Hand
<1>4. CASE ~(at \in {"search", "fetch"} /\ pc # "idle")
  BY <1>1, <1>4, SteadyClaims
<1>5. CASE wire' = wire
  <2>1. Stream' = Stream
    BY <1>1, <1>5 DEF Stream
  <2>2. HasOK' <=> HasOK
    BY <2>1 DEF HasOK
  <2>3. QED BY <1>1, <2>1, <2>2, SteadyClaims
<1>6. ASSUME NEW r \in Response, wire' = Append(wire, r), r.type \notin {"OK", "JUNK"}
      PROVE  ClaimInv'
  <2> DEFINE s == Stream  t == Stream'  rs == <<r>>
  <2>1. rs \in Seq(Piece) /\ Len(rs) = 1 /\ rs[1] = r
    BY DEF Piece
  <2>2. wire' = wire \o rs
    <3> DEFINE w == wire
    <3>1. w \in Seq(Piece) /\ r \in Piece
      BY StreamType DEF Piece
    <3> HIDE DEF w
    <3>2. Append(w, r) = w \o <<r>>
      BY <3>1
    <3>3. QED BY <1>6, <3>2 DEF w
  <2>3. Grown(s, t, rs) /\ s \in Seq(Piece)
    BY <1>1, <2>1, <2>2, GrownStream, StreamType
  <2>4. Brings(rs, seqset, Kept)
    <3>1. \A i \in 1..Len(rs) : rs[i].type # "OK"
      BY <1>6, <2>1
    <3> HIDE DEF rs
    <3>2. QED BY <3>1, BringsNothing
  <2>5. HasOK' => HasOK
    <3>1. \A i \in 1..Len(t) : t[i].type = "OK" => i \in 1..Len(s) /\ t[i] = s[i]
      <4> HIDE DEF s, t
      <4>1. /\ Len(s) \in Nat /\ Len(t) = Len(s) + 1 /\ t[Len(s) + 1] = r
            /\ \A i \in 1..Len(s) : t[i] = s[i]
        BY <2>1, <2>3 DEF Grown
      <4>2. \A i \in 1..Len(t) : i \in 1..Len(s) \/ i = Len(s) + 1
        BY <4>1
      <4>3. QED BY <1>6, <4>1, <4>2
    <3>2. QED BY <3>1 DEF HasOK, s, t
  <2> HIDE DEF rs
  <2>6. Brings(s, seqset, Kept) => Brings(t, seqset, Kept)
    BY <2>1, <2>3, <2>4, BringsGrown
  <2>7. QED BY <1>1, <2>5, <2>6, SteadyClaims
<1>7. CASE Greet
  <2>1. CASE at \in {"search", "fetch"} /\ pc # "idle"
    BY <1>7, <2>1, BatchCall DEF Greet, Clear
  <2>2. QED BY <1>4, <2>1
<1>8. \A type \in {"OTHER", "FETCH", "BYE"} :
         Untagged(type, {}) \in Response /\ Untagged(type, {}).type \notin {"OK", "JUNK"}
  BY UntaggedType DEF ResponseType, Untagged
<1>9. QED BY <1>5, <1>6, <1>7, <1>8 DEF Unasked, Leave

LEMMA AnswerClaims ==
    ASSUME DInv, ReplyInv, Clear, Answer, UNCHANGED <<vars, programVars, faults>>
    PROVE  ClaimInv'
<1> USE DEF DInv, RInv, DownloadInv, Clear
<1>1. /\ UNCHANGED <<at, outcome, seqset, cmd, fetched, found, saved, exitcode, astray,
                     faults, pc, state, queue, resp>>
      /\ inbox # <<>> /\ link' \in {"open", "closed"}
  <2>1. link' \in {"open", "closed"}
    <3> DEFINE c == Head(inbox)
    <3>1. inbox # <<>> /\ inbox \in Seq(Command)
      BY DEF Answer, PInv, NetVarsOK
    <3>2. c = inbox[1] /\ 1 \in 1..Len(inbox) /\ c \in Command
      BY <3>1
    <3>3. c.op # "greeting" /\ c.tag \in Nat /\ (c.op = "select" => c.mb \in Mailboxes)
      BY <3>2 DEF PInv, InboxInv
    <3>4. QED BY <3>2, <3>3, AnswerTypes DEF Answer, PInv
  <2>2. QED BY <2>1 DEF Answer, vars, callVars, sharedVars, programVars
<1>2. Kept' = Kept
  BY <1>1 DEF Kept
<1>3. at = "save" => pc = "idle" /\ outcome = "none"
  BY DEF PInv, CallInv, CallPlace, Startup
<1>4. at # "save" /\ (at \in {"search", "fetch"} /\ pc = "idle" => outcome \notin {"none", "returned"})
  BY <1>1, <1>3, BatchSettled
<1>5. SavingInv' /\ DoneInv'
  BY <1>1, <1>4 DEF ClaimInv, SavingInv, DoneInv
<1>6. CASE ~(at \in {"search", "fetch"} /\ pc # "idle")
  <2>1. SearchedInv' /\ FetchingInv'
    BY <1>1, <1>4, <1>6 DEF SearchedInv, FetchingInv
  <2>2. QED BY <1>5, <2>1 DEF ClaimInv
<1>7. CASE at \in {"search", "fetch"} /\ pc # "idle"
  <2> DEFINE s == Stream  t == Stream'
  <2>1. Sound /\ Welcome /\ Pending /\ cmd.op = at /\ outcome = "none"
    BY <1>7, BatchCall
  <2>2. inbox' = <<>> /\ \A i \in 1..Len(s) : Part(s[i])
    BY <2>1, AnsweredStream
  <2>3. PICK a \in Answers(cmd) :
           /\ Answered(cmd, a) /\ a.rs \in Seq(Piece) /\ Grown(Stream, Stream', a.rs)
           /\ selected' = a.selected /\ hits' = a.hits
    BY <2>1, AnsweredStream
  <2> DEFINE rs == a.rs
  <2>4. /\ Grown(s, t, rs) /\ s \in Seq(Piece) /\ rs \in Seq(Piece)
        /\ rs \in Seq(Response) /\ rs # <<>>
        /\ \A i \in 1..Len(rs) : i < Len(rs) => PlainPart(cmd, a.hits, selected, rs[i])
    BY <2>3, StreamType DEF Answered, WellFormed
  <2>5. selected' = selected
    BY <1>7, <2>1, <2>3 DEF Answered
  <2>6. rs[Len(rs)].type = "OK" => Granted(cmd, a)
    BY <2>3 DEF Answered
  <2>7. \A i \in 1..Len(rs) : rs[i].type = "OK" => i = Len(rs)
    <3>1. ASSUME NEW i \in 1..Len(rs), i < Len(rs) PROVE rs[i].type # "OK"
      BY <2>4, <3>1 DEF PlainPart
    <3> HIDE DEF rs
    <3>2. Len(rs) \in Nat
      BY <2>4
    <3>3. QED BY <3>1, <3>2
  <2> HIDE DEF rs, s, t
  <2>8. CASE at = "search"
    <3>1. \A i \in 1..Len(t) : t[i].type = "OK" => Granted(cmd, a)
      <4>1. \A i \in 1..Len(s) : s[i].type # "OK"
        BY <2>2 DEF Part, Belongs, Idle, Noise, IsJunk, PlainPart
      <4>2. /\ Len(s) \in Nat /\ Len(rs) \in Nat
        BY <2>4
      <4>3. \A i \in 1..Len(t) :
               \/ i \in 1..Len(s) /\ t[i] = s[i]
               \/ i - Len(s) \in 1..Len(rs) /\ t[i] = rs[i - Len(s)]
        <5>1. /\ \A i \in 1..Len(s) : t[i] = s[i]
              /\ \A i \in 1..Len(rs) : t[Len(s) + i] = rs[i]
              /\ \A i \in 1..Len(t) : i \in 1..Len(s) \/ i - Len(s) \in 1..Len(rs)
          BY <2>4 DEF Grown
        <5>2. \A i \in 1..Len(t) : Len(s) + (i - Len(s)) = i
          BY <4>2
        <5>3. QED BY <5>1, <5>2
      <4>4. QED BY <2>6, <2>7, <4>1, <4>3
    <3>2. HasOK' => Granted(cmd, a)
      BY <3>1 DEF HasOK, t
    <3>3. Granted(cmd, a) => Searched'
      BY <2>1, <2>3, <2>5, <2>8 DEF Granted, Searched
    <3>4. SearchedInv' /\ FetchingInv'
      BY <1>1, <1>7, <2>8, <3>2, <3>3 DEF SearchedInv, FetchingInv
    <3>5. QED BY <1>5, <3>4 DEF ClaimInv
  <2>9. CASE at = "fetch"
    <3>1. hits' = hits /\ (Searched' <=> Searched)
      BY <2>1, <2>3, <2>5, <2>9 DEF Answered, Searched
    <3>2. /\ seqset = hits /\ seqset # {} /\ Searched
          /\ cmd.set = seqset /\ Brings(s, seqset, Kept)
      BY <1>7, <2>9 DEF ClaimInv, FetchingInv, s
    <3>4. Brings(rs, seqset, Kept)
      <4> SUFFICES ASSUME NEW i \in 1..Len(rs), rs[i].type = "OK", NEW m \in seqset
                   PROVE  \E j \in 1..(i - 1) : rs[j].type = "FETCH" /\ rs[j].body = {m}
        BY DEF Brings
      <4>1. i = Len(rs) /\ Granted(cmd, a)
        BY <2>6, <2>7
      <4>2. m \in cmd.set \cap Mail[selected]
        BY <3>2 DEF Searched
      <4>3. PICK j \in 1..Len(rs) : j < Len(rs) /\ rs[j].type = "FETCH" /\ rs[j].body = {m}
        BY <2>1, <2>9, <4>1, <4>2 DEF Granted, rs
      <4>4. Len(rs) \in Nat
        BY <2>4
      <4>5. QED BY <4>1, <4>3, <4>4
    <3>5. Brings(s, seqset, Kept) => Brings(t, seqset, Kept)
      BY <2>4, <3>4, BringsGrown
    <3>6. SearchedInv' /\ FetchingInv'
      BY <1>1, <1>2, <1>7, <2>9, <3>1, <3>2, <3>5 DEF SearchedInv, FetchingInv, t
    <3>7. QED BY <1>5, <3>6 DEF ClaimInv
  <2>10. QED BY <1>7, <2>8, <2>9
<1>8. QED BY <1>6, <1>7
-----------------------------------------------------------------------------
(* What the main thread does with a response. *)

LEMMA KeptGrows ==
    ASSUME PInv, NEW b \in SUBSET Messages, fetched' = Append(fetched, b)
    PROVE  Kept' = Kept \cup {b}
<1> DEFINE f == fetched  g == Append(f, b)
<1>1. f \in Seq(SUBSET Messages) /\ fetched' = g
  BY DEF PInv, IInv, TypeOK
<1> HIDE DEF f
<1>2. Len(g) = Len(f) + 1 /\ Len(f) \in Nat /\ g[Len(f) + 1] = b
      /\ \A k \in 1..Len(f) : g[k] = f[k]
  BY <1>1
<1> HIDE DEF g
<1>3. {g[k] : k \in 1..Len(g)} = {f[k] : k \in 1..Len(f)} \cup {b}
  <2>1. \A k \in 1..Len(g) : k \in 1..Len(f) \/ k = Len(f) + 1
    BY <1>2
  <2>2. \A k \in 1..Len(f) : k \in 1..Len(g)
    BY <1>2
  <2>3. Len(f) + 1 \in 1..Len(g)
    BY <1>2
  <2>4. QED BY <1>2, <2>1, <2>2, <2>3
<1>4. QED BY <1>1, <1>3 DEF Kept, f

\* What fetch does with a response.
LEMMA FetchHandles ==
    ASSUME PInv, Handle, cmd.op = "fetch"
    PROVE  /\ Kept' = IF resp.type = "FETCH" THEN Kept \cup {resp.body} ELSE Kept
           /\ \/ Again /\ state' = state
              \/ pc' = "idle" /\ outcome' = "rejected"
              \/ pc' = "idle" /\ outcome' = "returned" /\ resp.type = "OK"
<1>1. HandleFetch
  BY DEF Handle
<1>2. resp.body \in SUBSET Messages
  BY DEF PInv, IInv, TypeOK, Response
<1>3. CASE resp.type = "FETCH"
  <2>1. fetched' = Append(fetched, resp.body)
    BY <1>1, <1>3 DEF HandleFetch
  <2>2. QED BY <1>1, <1>2, <1>3, <2>1, KeptGrows
            DEF HandleFetch, WaitAgain, Again, Finish, Reject
<1>4. CASE resp.type # "FETCH"
  <2>1. fetched' = fetched
    BY <1>1, <1>4 DEF HandleFetch
  <2>2. Kept' = Kept
    BY <2>1 DEF Kept
  <2>3. QED BY <1>1, <1>4, <2>2 DEF HandleFetch, WaitAgain, Again, Finish, Reject
<1>5. QED BY <1>3, <1>4

LEMMA HandleClaims ==
    ASSUME DInv, ReplyInv, Clear, PInv', Handle, ~Dead,
           UNCHANGED <<programVars, serverVars, netVars, threadVars>>
    PROVE  ClaimInv'
<1> USE DEF DInv, RInv, DownloadInv, ClaimInv
<1>1. /\ UNCHANGED <<at, seqset, saved, exitcode, astray, hits, selected, faults, link,
                     inbox, wire, cmd>>
      /\ pc = "handle"
  BY DEF programVars, serverVars, netVars, Handle
<1>2. at \in CallPlace
  BY <1>1 DEF PInv, CallInv, Calls, CallPlace, Startup, Dead
<1>3. SavingInv' /\ DoneInv'
  <2>1. at \notin {"save", "return", "join", "exit"}
    BY <1>2 DEF CallPlace, Startup
  <2>2. QED BY <1>1, <2>1 DEF SavingInv, DoneInv
<1>4. CASE at \notin {"search", "fetch"}
  BY <1>1, <1>3, <1>4 DEF SearchedInv, FetchingInv
<1>5. CASE pc' = "idle" /\ outcome' = "rejected"
  BY <1>5, FailedClaims
<1>6. CASE at \in {"search", "fetch"} /\ ~(pc' = "idle" /\ outcome' = "rejected")
  <2> DEFINE s == Stream  t == Stream'
  <2>1. Sound /\ Welcome /\ Pending /\ cmd.op = at /\ outcome = "none" /\ ~Interactive
    BY <1>1, <1>6, BatchCall DEF Clear, PInv, ModeInv
  <2>2. pc' # "crashed"
    BY <2>1, SearchDoesNotCrash DEF Sound
  <2>3. Again \/ Accepted
    BY <1>6, <2>2, HandleEffect
  <2>4. /\ Len(s) \in Nat /\ Len(t) = Len(s) - 1
        /\ \A i \in 1..Len(t) : i + 1 \in 2..Len(s) /\ t[i] = s[i + 1]
        /\ 1 \in 1..Len(s) /\ s[1] = resp
    BY <1>1, <2>3, HandleStream DEF Again, Accepted
  <2>5. s \in Seq(Piece)
    BY StreamType
  <2>6. Searched' <=> Searched
    BY <1>1 DEF Searched
  <2> HIDE DEF s, t
  <2>7. CASE at = "search"
    <3>1. CASE Again
      <4>1. pc' = "lock"
        BY <3>1 DEF Again
      <4>2. HasOK' => HasOK
        <5>1. \A i \in 1..Len(t) : i + 1 \in 1..Len(s) /\ t[i] = s[i + 1]
          BY <2>4
        <5>2. QED BY <5>1 DEF HasOK, s, t
      <4>3. QED BY <1>1, <1>3, <2>6, <2>7, <4>1, <4>2 DEF SearchedInv, FetchingInv
    <3>2. CASE Accepted
      <4>1. resp.type = "OK" /\ pc' = "idle"
        BY <2>1, <2>7, <3>2 DEF Accepted
      <4>2. HasOK
        BY <2>4, <4>1 DEF HasOK, s
      <4>3. found' = found
        BY <1>1, <2>1, <2>7, <4>1 DEF Handle, HandleSearch
      <4>4. Searched /\ found \subseteq {hits}
        BY <1>1, <2>1, <2>7, <4>2 DEF SearchedInv, ReplyInv, SearchInv
      <4>5. QED BY <1>1, <1>3, <2>6, <2>7, <4>1, <4>3, <4>4 DEF SearchedInv, FetchingInv
    <3>3. QED BY <2>3, <3>1, <3>2
  <2>8. CASE at = "fetch"
    <3>1. seqset = hits /\ seqset # {} /\ Searched /\ cmd.set = seqset /\ Brings(s, seqset, Kept)
      BY <1>1, <2>8 DEF FetchingInv, s
    <3>2. UNION Kept \subseteq seqset
      BY <2>1, <2>8, KeptWanted
    <3>3. /\ Kept' = IF resp.type = "FETCH" THEN Kept \cup {resp.body} ELSE Kept
          /\ \/ Again /\ state' = state
             \/ pc' = "idle" /\ outcome' = "returned" /\ resp.type = "OK"
      BY <1>6, <2>1, <2>8, FetchHandles
    <3>4. CASE Again
      <4>1. Brings(t, seqset, Kept')
        <5> DEFINE kept2 == Kept'
        <5>1. Kept \subseteq kept2 /\ (s[1].type = "FETCH" => s[1].body \in kept2)
          BY <2>4, <3>3
        <5> HIDE DEF kept2
        <5>2. Brings(t, seqset, kept2)
          BY <2>4, <2>5, <3>1, <5>1, BringsRest
        <5>3. QED BY <5>2 DEF kept2
      <4>2. pc' = "lock" /\ outcome' = outcome
        BY <3>4 DEF Again
      <4>3. FetchingInv'
        BY <1>1, <2>1, <2>6, <2>8, <3>1, <4>1, <4>2 DEF FetchingInv, t
      <4>4. QED BY <1>1, <1>3, <2>8, <4>3 DEF SearchedInv
    <3>5. CASE pc' = "idle" /\ outcome' = "returned" /\ resp.type = "OK"
      <4>1. \A m \in seqset : {m} \in Kept
        <5>1. \A m \in seqset :
                 {m} \in Kept \/ \E j \in 1..(1 - 1) : s[j].type = "FETCH" /\ s[j].body = {m}
          BY <2>4, <3>1, <3>5 DEF Brings
        <5>2. \A j \in 1..(1 - 1) : FALSE
          OBVIOUS
        <5>3. QED BY <5>1, <5>2
      <4>2. UNION Kept = seqset /\ Kept' = Kept
        BY <3>2, <3>3, <3>5, <4>1
      <4>3. FetchingInv'
        BY <1>1, <2>6, <2>8, <3>1, <3>5, <4>2 DEF FetchingInv
      <4>4. QED BY <1>1, <1>3, <2>8, <4>3 DEF SearchedInv
    <3>6. QED BY <3>3, <3>4, <3>5
  <2>9. QED BY <1>6, <2>7, <2>8
<1>7. QED BY <1>4, <1>5, <1>6
-----------------------------------------------------------------------------
(* Calls, and what main() does between them. *)

LEMMA CallClaims ==
    ASSUME DInv, ReplyInv, Clear, PInv', CallSession PROVE ClaimInv'
<1> USE DEF DInv, RInv, DownloadInv, ClaimInv
<1>1. CallFrame /\ (Sent \/ Unsent)
  BY CallEffect
<1>2. /\ UNCHANGED <<seqset, saved, exitcode, astray, hits, selected, faults, link, wire, queue>>
      /\ pc = "idle" /\ outcome = "none" /\ at \in CallPlace /\ at' \in {at, "abort"}
      /\ pc' # "handle"
  BY <1>1 DEF CallFrame, serverVars, sharedVars, Sent, Unsent
<1>3. SavingInv' /\ DoneInv'
  <2>1. at' \notin {"save", "return", "join", "exit"}
    BY <1>2 DEF CallPlace, Startup
  <2>2. QED BY <2>1 DEF SavingInv, DoneInv
<1>4. CASE at' \notin {"search", "fetch"}
  BY <1>3, <1>4 DEF SearchedInv, FetchingInv
<1>5. CASE at' = at /\ at \in {"search", "fetch"}
  <2>1. \A i \in 1..Len(Stream) : Stream[i].type # "OK"
    BY <1>2, <1>5, BatchSettled DEF Clear
  <2>2. Stream' = Stream
    BY <1>2, KeptStream
  <2>3. ~HasOK' /\ Brings(Stream, seqset, {})
    BY <2>1, <2>2, BringsNothing DEF HasOK
  <2>4. Searched' <=> Searched
    BY <1>2 DEF Searched
  <2>5. CASE Unsent
    <3>1. pc' = "idle" /\ outcome' = "refused"
      BY <1>5, <2>5 DEF Unsent
    <3>2. QED BY <3>1, FailedClaims
  <2>6. CASE Sent
    <3>1. pc' # "idle" /\ outcome' = "none" /\ fetched' = <<>> /\ Commanded(cmd')
      BY <2>6 DEF Sent
    <3>2. Kept' = {}
      BY <3>1 DEF Kept
    <3>3. at = "search" => SearchedInv' /\ FetchingInv'
      BY <1>5, <2>3, <3>1 DEF SearchedInv, FetchingInv
    <3>4. ASSUME at = "fetch" PROVE SearchedInv' /\ FetchingInv'
      <4>1. cmd'.set = seqset
        BY <3>1, <3>4 DEF Commanded, Calls
      <4>2. seqset = hits /\ seqset # {} /\ Searched
        BY <1>2, <3>4 DEF FetchingInv
      <4>3. Brings(Stream', seqset', Kept')
        BY <1>2, <2>2, <2>3, <3>2
      <4>4. QED BY <1>2, <1>5, <2>4, <3>1, <3>4, <4>1, <4>2, <4>3
                DEF SearchedInv, FetchingInv
    <3>5. QED BY <1>3, <1>5, <3>3, <3>4
  <2>7. QED BY <1>1, <2>5, <2>6
<1>6. QED BY <1>2, <1>4, <1>5

\* What main() knows when it goes on to the next statement.
LEMMA GoesOnClaims ==
    ASSUME UNCHANGED <<pc, link, faults, hits, selected, fetched, inbox>>,
           pc = "idle", outcome' = "none",
           at' = "fetch" => seqset' = hits /\ seqset' # {} /\ Searched,
           at' = "save" => seqset' = hits /\ UNION Kept = hits,
           ~Interactive /\ at' \in {"return", "join", "exit"} /\ exitcode' = 0
              => saved' = hits /\ inbox = <<>>
    PROVE  ClaimInv'
<1>1. Kept' = Kept /\ (Searched' <=> Searched)
  BY DEF Kept, Searched
<1>2. SearchedInv' /\ FetchingInv'
  BY <1>1 DEF SearchedInv, FetchingInv
<1>3. SavingInv' /\ DoneInv'
  BY <1>1 DEF SavingInv, DoneInv
<1>4. QED BY <1>2, <1>3 DEF ClaimInv

\* Texts in the order they are saved, and as a set.
LEMMA KeptSaved ==
    ASSUME PInv PROVE UNION {fetched[i] : i \in 1..Len(fetched)} = UNION Kept
BY DEF Kept

LEMMA BetweenClaims ==
    ASSUME DInv, ReplyInv, Clear, Program \/ User PROVE ClaimInv'
<1> USE DEF DInv, RInv, DownloadInv, ClaimInv, Clear
<1>1. /\ BetweenCalls /\ Outside
  BY MainContinuesOK, SaveMessagesOK, ClientContinuesOK, PromptOK, LeaveOK
     DEF Program, User
<1>2. /\ UNCHANGED <<pc, link, faults, hits, selected, fetched, found, inbox>>
      /\ pc = "idle" /\ outcome' = "none"
  BY <1>1 DEF Outside, BetweenCalls, serverVars, netVars
<1>3. ~Interactive /\ at \in Startup \cup {"save"} => saved = {}
  BY DEF BatchInv
<1>4. CASE Interactive
  <2>1. at' \notin {"search", "fetch", "save"}
    BY <1>1, <1>4 DEF BetweenCalls
  <2>2. QED BY <1>2, <1>4, <2>1, GoesOnClaims
<1>5. CASE ~Interactive /\ MainContinues
  <2>1. saved' = saved
    BY <1>5 DEF MainContinues
  <2>2. CASE StartupThrows
    <3>1. at' \in {"abort", "return"} /\ (at' = "return" => exitcode' = 1)
      BY <1>5, <2>2 DEF StartupThrows, Goto, Return
    <3>2. QED BY <1>2, <3>1, GoesOnClaims
  <2>3. CASE Returned("search") /\ seqset' \in found
             /\ IF seqset' = {} THEN Return(0) ELSE Goto("fetch")
    <3>1. Searched /\ seqset' = hits /\ inbox = <<>> /\ saved = {}
      <4>1. at = "search" /\ pc = "idle" /\ outcome = "returned"
        BY <2>3 DEF Returned
      <4>2. Searched /\ found \subseteq {hits} /\ inbox = <<>>
        BY <4>1, BatchSettled DEF SearchedInv
      <4>3. QED BY <1>3, <1>5, <2>3, <4>1, <4>2 DEF Startup
    <3>2. CASE seqset' = {}
      <4>1. at' = "return"
        BY <2>3, <3>2 DEF Return
      <4>2. QED BY <1>2, <2>1, <3>1, <3>2, <4>1, GoesOnClaims
    <3>3. CASE seqset' # {}
      <4>1. at' = "fetch"
        BY <2>3, <3>3 DEF Goto
      <4>2. QED BY <1>2, <3>1, <3>3, <4>1, GoesOnClaims
    <3>4. QED BY <3>2, <3>3
  <2>4. CASE Returned("fetch") /\ UNCHANGED seqset
             /\ IF fetched = <<>> THEN Return(0) ELSE Goto("save")
    <3>1. at = "fetch" /\ seqset = hits /\ seqset # {} /\ UNION Kept = seqset
      BY <2>4 DEF Returned, FetchingInv
    <3>2. fetched # <<>>
      BY <3>1 DEF Kept
    <3>3. at' = "save"
      BY <2>4, <3>2 DEF Goto
    <3>4. QED BY <1>2, <2>4, <3>1, <3>3, GoesOnClaims
  <2>5. CASE StartupReturns /\ at \in {"greeting", "login", "select"}
    <3>1. at' \in {"login", "select", "search"}
      BY <1>5, <2>5 DEF StartupReturns, Returned, Goto
    <3>2. QED BY <1>2, <3>1, GoesOnClaims
  <2>6. QED BY <1>5, <2>2, <2>3, <2>4, <2>5 DEF MainContinues, StartupReturns, Returned
<1>6. CASE ~Interactive /\ SaveMessages
  <2>1. PICK n \in 0..Len(fetched) :
          SaveFirst(n) /\ Return(IF n = Len(fetched) THEN 0 ELSE 1)
    BY <1>6 DEF SaveMessages
  <2>2. at = "save" /\ at' = "return"
    BY <1>6, <2>1 DEF SaveMessages, Return
  <2>3. outcome = "none"
    BY <2>2 DEF Startup, PInv, CallInv, CallPlace
  <2>4. exitcode' = 0 => n = Len(fetched)
    BY <2>1 DEF Return
  <2>5. n = Len(fetched) => saved' = hits
    <3>1. n = Len(fetched) => saved' = saved \cup UNION Kept
      BY <2>1, KeptSaved DEF SaveFirst
    <3>2. saved = {} /\ UNION Kept = hits
      BY <1>3, <1>6, <2>2 DEF SavingInv
    <3>3. QED BY <3>1, <3>2
  <2>6. inbox = <<>>
    BY <1>2, <2>2, <2>3, BatchSettled
  <2>7. QED BY <1>2, <2>2, <2>4, <2>5, <2>6, GoesOnClaims
<1>7. CASE ~Interactive /\ (Stop \/ Join)
  <2>1. /\ at \in {"return", "join"} /\ at' \in {"join", "exit"}
        /\ UNCHANGED <<exitcode, saved, astray>>
    BY <1>7 DEF Stop, Join, Goto
  <2>2. exitcode = 0 => saved = hits /\ inbox = <<>>
    BY <1>7, <2>1 DEF DoneInv
  <2>3. QED BY <1>2, <2>1, <2>2, GoesOnClaims
<1>8. CASE ~Interactive /\ (ClientContinues \/ Prompt \/ ReadLine \/ EndOfInput)
  <2>1. at \in {"cselect", "csearch", "cfetch", "csave", "cread", "quit", "eof", "prompt", "input"}
    BY <1>8 DEF ClientContinues, CommandThrows, CommandSwallows, CommandReturns,
       CommandSaves, Threw, Returned, Prompt, ReadLine, EndOfInput
  <2>2. QED BY <1>8, <2>1, OnlyInteractive DEF Startup
<1>9. QED BY <1>4, <1>5, <1>6, <1>7, <1>8 DEF Program, User
-----------------------------------------------------------------------------
LEMMA InitDInv == ProgramInit => DInv
<1> SUFFICES ASSUME ProgramInit PROVE DInv
  OBVIOUS
<1>1. RInv
  BY InitRInv
<1>2. at = "greeting" /\ saved = {} /\ ~astray
  BY DEF ProgramInit
<1>3. Wires /\ Kinds
  <2>1. inbox = <<>> /\ wire = <<>> /\ queue = <<>> /\ fetched = <<>> /\ resp = NoResponse
    BY DEF ProgramInit, Init
  <2>2. NoResponse \in Fitting
    BY UntaggedType DEF Fitting, NoResponse, Untagged, ResponseType
  <2>3. \A S : <<>> \in Seq(S)
    OBVIOUS
  <2>4. QED BY <2>1, <2>2, <2>3, Zenon DEF Wires, Kinds
<1>4. QED BY <1>1, <1>2, <1>3 DEF DInv, DownloadInv, BatchInv, WantedInv, ClaimInv, SearchedInv,
             FetchingInv, SavingInv, DoneInv

LEMMA StutterClaims == ASSUME ClaimInv, Clear, UNCHANGED allVars PROVE ClaimInv'
<1>1. UNCHANGED <<vars, programVars, serverVars, netVars>>
  BY DEF allVars
<1>2. UNCHANGED <<pc, queue, resp, wire>> /\ UNCHANGED Facts
  BY <1>1 DEF vars, sharedVars, callVars, programVars, serverVars, netVars, Facts
<1>3. Stream' = Stream /\ (HasOK' <=> HasOK)
  BY <1>2 DEF Stream, Received, Hand, HasOK
<1>4. QED BY <1>2, <1>3, SteadyClaims

\* What was bound to fail still is, or has failed, or the connection is reset.
LEMMA ForgoneGoesOn ==
    ASSUME DInv, Forgone, PInv', BatchInv', [ProgramNext]_allVars PROVE ClaimInv'
<1> USE DEF DInv, RInv
<1>1. ~Sound' \/ Forgone' \/ Failed'
  BY ForgoneEnds
<1>2. at' = at /\ at \in Live /\ pc # "idle"
  <2>1. pc # "idle" /\ at \in Live
    BY DEF Forgone, Pending, Sound
  <2>2. ~CallSession /\ ~Program /\ ~User
    <3>1. CallSession => pc = "idle"
      BY CallEffect DEF CallFrame
    <3>2. Program \/ User => pc = "idle"
      BY MainContinuesOK, SaveMessagesOK, ClientContinuesOK, PromptOK, LeaveOK
         DEF Program, User, BetweenCalls
    <3>3. QED BY <2>1, <3>1, <3>2
  <2>3. at' = at
    BY <2>2 DEF ProgramNext, SessionStep, WakesForNothing, WaitExpires, Thread, Server,
       ThreadStarts, ReceiveResponse, ReceiveNothing, ReceiveFails, CallbackStep, allVars,
       programVars
  <2>4. QED BY <2>1, <2>3
<1>3. CASE Forgone'
  BY <1>3, ForgoneClaims
<1>4. CASE Failed'
  BY <1>4, FailedClaims DEF Failed
<1>5. CASE Mangled'
  BY <1>5, MangledClaims
<1>6. CASE ~Sound' /\ ~Mangled'
  <2>1. astray'
    BY <1>2, <1>6 DEF Sound
  <2>2. Interactive
    BY <2>1 DEF BatchInv
  <2>3. at' \notin {"search", "fetch", "save"}
    BY <2>2 DEF PInv, ModeInv
  <2>4. QED BY <2>2, <2>3 DEF ClaimInv, SearchedInv, FetchingInv, SavingInv, DoneInv
<1>7. QED BY <1>1, <1>3, <1>4, <1>5, <1>6

LEMMA NextDInv ==
    ASSUME DInv, [ProgramNext]_allVars PROVE DInv'
<1>1. RInv' /\ PInv'
  BY NextRInv DEF DInv, RInv
<1>2. BatchInv' /\ WantedInv'
  BY NextBatchInv, NextWantedInv DEF DInv, RInv, DownloadInv
<1>3. ClaimInv'
  <2>1. CASE Forgone
    BY <1>1, <1>2, <2>1, ForgoneGoesOn
  <2>2. CASE Mangled'
    BY <2>2, MangledClaims
  <2>3. CASE Forgone'
    BY <1>1, <2>3, ForgoneClaims
  <2>4. CASE ~Forgone /\ ~Mangled' /\ ~Forgone'
    <3>1. ReplyInv /\ Clear
      BY <2>4, LinkStays DEF DInv, RInv, Clear, Mangled
    <3>2. CASE SessionStep \/ WakesForNothing \/ WaitExpires
      <4>1. CASE Handle
        <5>1. ~Dead /\ UNCHANGED <<programVars, serverVars, netVars, threadVars>>
          BY <3>2 DEF SessionStep, WakesForNothing, WaitExpires
        <5>2. QED BY <1>1, <3>1, <4>1, <5>1, HandleClaims
      <4>2. CASE ~Handle
        BY <1>1, <3>1, <3>2, <4>2, WaitingClaims
      <4>3. QED BY <4>1, <4>2
    <3>3. CASE Thread
      BY <1>1, <2>4, <3>1, <3>3, ThreadClaims
    <3>4. CASE Server
      <4>1. UNCHANGED <<vars, programVars, faults>> /\ (Greet \/ Answer \/ Unasked \/ Leave)
        BY <3>4 DEF Server
      <4>2. QED BY <3>1, <4>1, NoiseClaims, AnswerClaims
    <3>5. CASE CallSession \/ Program \/ User
      BY <1>1, <3>1, <3>5, CallClaims, BetweenClaims
    <3>6. CASE UNCHANGED allVars
      BY <3>1, <3>6, StutterClaims DEF DInv, DownloadInv
    <3>7. QED BY <3>2, <3>3, <3>4, <3>5, <3>6 DEF ProgramNext
  <2>5. QED BY <2>1, <2>2, <2>3, <2>4
<1>4. QED BY <1>1, <1>2, <1>3 DEF DInv, DownloadInv

(* What batch mode relies on holds in every reachable state, on every      *)
(* connection: before main() is done nothing comes that was not asked for, *)
(* and a call of search or fetch that returns has the server's answer or,  *)
(* where a response was torn, the connection was reset as well.            *)
THEOREM DownloadInvariance == ProgramSpec => []DInv
<1>1. ProgramInit => DInv
  BY InitDInv
<1>2. DInv /\ [ProgramNext]_allVars => DInv'
  BY NextDInv
<1>3. QED BY <1>1, <1>2, PTL DEF ProgramSpec

(* main returns 0 in batch mode only when exactly what the server found    *)
(* was written: no message is missing because a leftover OK ended the      *)
(* FETCH early, because its text was torn, or because a file failed.  The  *)
(* one exception is a connection that both tore a response and was reset.  *)
THEOREM SuccessIsSaved == ProgramSpec => []SuccessMeansSaved
<1>1. DInv => SuccessMeansSaved
  BY DEF DInv, DownloadInv, ClaimInv, DoneInv, SuccessMeansSaved
<1>2. QED BY <1>1, DownloadInvariance, PTL
-----------------------------------------------------------------------------
(* Batch mode goes through the stages of Download. *)

Fixed == UNCHANGED <<faults, link>>

Stay == Stage' = Stage /\ UNCHANGED <<seqset, saved>> /\ Fixed

LEMMA StayRefines == ASSUME Stay PROVE UNCHANGED Promise!vars
BY DEF Stay, Fixed, Mangled, Promise!vars

\* A call that is given up fails the download.
LEMMA FailRefines ==
    ASSUME Stage \in Startup \cup {"save"}, Stage' = "failed",
           UNCHANGED <<seqset, saved>>, Fixed
    PROVE  Promise!Work
<1>1. Stage \notin {"done", "failed"}
  BY DEF Startup
<1>2. QED BY <1>1 DEF Promise!Work, Promise!Fail, Fixed, Mangled

LEMMA StageOfCall ==
    ASSUME ~Dead, at \in Startup \cup {"save"} PROVE Stage = at
BY DEF Stage, Startup

LEMMA BatchCallPlace ==
    ASSUME DInv, ~Interactive, at \in CallPlace PROVE at \in Startup
BY DEF DInv, RInv, PInv, ModeInv, CallPlace

LEMMA InsideRefines ==
    ASSUME DInv, ~Interactive, ~Dead, UNCHANGED programVars, Fixed,
           pc = "idle" => pc' # "crashed"
    PROVE  [Promise!Work]_(Promise!vars)
<1> USE DEF DInv, RInv
<1>1. UNCHANGED <<at, exitcode, seqset, saved>> /\ at # "abort" /\ pc # "crashed"
  BY DEF programVars, Dead
<1>2. CASE pc' # "crashed"
  <2>1. ~Dead'
    BY <1>1, <1>2 DEF Dead
  <2>2. Stage' = Stage
    BY <1>1, <2>1 DEF Stage
  <2>3. QED BY <1>1, <2>2, StayRefines DEF Stay
<1>3. CASE pc' = "crashed"
  <2>1. Dead'
    BY <1>3 DEF Dead
  <2>2. Stage' = "failed"
    BY <2>1 DEF Stage
  <2>3. at \in CallPlace
    BY <1>1, <1>3 DEF PInv, CallInv, Calls, CallPlace, Startup
  <2>4. Stage = at /\ at \in Startup
    BY <2>3, BatchCallPlace, StageOfCall
  <2>5. QED BY <1>1, <2>2, <2>4, FailRefines
<1>4. QED BY <1>2, <1>3

LEMMA CallRefines ==
    ASSUME DInv, ~Interactive, CallSession, Fixed PROVE [Promise!Work]_(Promise!vars)
<1> USE DEF DInv, RInv
<1>1. CallFrame /\ (Sent \/ Unsent)
  BY CallEffect
<1>2. /\ at \in CallPlace /\ ~Dead /\ at' \in {at, "abort"} /\ pc' # "crashed"
      /\ UNCHANGED <<seqset, saved, exitcode>>
  BY <1>1 DEF CallFrame, Sent, Unsent
<1>3. at \in Startup /\ Stage = at
  BY <1>2, BatchCallPlace, StageOfCall
<1>4. CASE at' = at
  <2>1. ~Dead'
    BY <1>2, <1>4 DEF Dead
  <2>2. Stage' = Stage
    BY <1>2, <1>4, <2>1 DEF Stage, Dead
  <2>3. QED BY <1>2, <2>2, StayRefines DEF Stay
<1>5. CASE at' = "abort"
  <2>1. Dead'
    BY <1>5 DEF Dead
  <2>2. Stage' = "failed"
    BY <2>1 DEF Stage
  <2>3. QED BY <1>2, <1>3, <2>2, FailRefines
<1>6. QED BY <1>2, <1>4, <1>5

LEMMA BetweenRefines ==
    ASSUME DInv, ~Interactive, Program \/ User, Fixed PROVE [Promise!Work]_(Promise!vars)
<1> USE DEF DInv, RInv
<1>1. ~Dead /\ Outside /\ BetweenCalls
  BY MainContinuesOK, SaveMessagesOK, ClientContinuesOK, PromptOK, LeaveOK
     DEF Program, User
<1>2. pc' = "idle" /\ (at' # "abort" => ~Dead')
  BY <1>1 DEF Outside, BetweenCalls, Dead
<1>3. at \in Startup \cup {"save"} => Stage = at
  BY <1>1, StageOfCall
<1>4. at' = "return" => Stage' = IF exitcode' = 1 THEN "failed" ELSE "done"
  BY <1>2 DEF Stage
<1>5. at' \in Startup \cup {"save"} => Stage' = at'
  BY <1>2 DEF Stage, Startup
<1>6. CASE MainContinues
  <2>1. saved' = saved /\ at \in Startup
    BY <1>6 DEF MainContinues, StartupThrows, StartupReturns, Threw, Returned, Startup
  <2>2. CASE StartupThrows
    <3>1. seqset' = seqset /\ (at' = "abort" \/ (at' = "return" /\ exitcode' = 1))
      BY <2>2 DEF StartupThrows, Goto, Return
    <3>2. Stage' = "failed"
      BY <3>1 DEF Stage, Dead
    <3>3. QED BY <1>3, <2>1, <3>1, <3>2, FailRefines
  <2>3. CASE Returned("search") /\ seqset' \in found
             /\ IF seqset' = {} THEN Return(0) ELSE Goto("fetch")
    <3>1. Stage = "search"
      BY <1>3, <2>1, <2>3 DEF Returned
    <3>2. seqset' \in SUBSET Messages
      BY <1>1 DEF BetweenCalls
    <3>3. Stage' = IF seqset' = {} THEN "done" ELSE "fetch"
      BY <1>4, <1>5, <2>3 DEF Return, Goto, Startup
    <3>4. QED BY <2>1, <3>1, <3>2, <3>3 DEF Promise!Work, Promise!Find, Fixed, Mangled
  <2>4. CASE Returned("fetch") /\ UNCHANGED seqset
             /\ IF fetched = <<>> THEN Return(0) ELSE Goto("save")
    <3>1. at = "fetch" /\ pc = "idle" /\ outcome = "returned" /\ Stage = "fetch"
      BY <1>3, <2>1, <2>4 DEF Returned
    <3>2. CASE fetched = <<>>
      <4>1. Kept = {}
        BY <3>2 DEF Kept
      <4>2. ~Forgone
        BY <3>1 DEF Forgone, Pending
      <4>3. Mangled
        BY <3>1, <4>1, <4>2 DEF DownloadInv, ClaimInv, FetchingInv, Clear
      <4>4. Stage' = "done"
        BY <1>4, <2>4, <3>2 DEF Return
      <4>5. QED BY <2>1, <2>4, <3>1, <4>3, <4>4
                DEF Promise!Work, Promise!Lose, Fixed, Mangled
    <3>3. CASE fetched # <<>>
      <4>1. Stage' = "save"
        BY <1>5, <2>4, <3>3 DEF Goto
      <4>2. QED BY <2>1, <2>4, <3>1, <4>1
                DEF Promise!Work, Promise!Proceed, Promise!After, Fixed, Mangled
    <3>4. QED BY <3>2, <3>3
  <2>5. CASE StartupReturns /\ at \in {"greeting", "login", "select"}
    <3>1. /\ at' = Promise!After(at) /\ at' \in Startup /\ seqset' = seqset
      BY <2>5 DEF StartupReturns, Returned, Goto, Startup, Promise!After
    <3>2. Stage = at /\ Stage' = at'
      BY <1>3, <1>5, <2>1, <3>1
    <3>3. QED BY <2>1, <2>5, <3>1, <3>2 DEF Promise!Work, Promise!Proceed, Fixed, Mangled
  <2>6. QED BY <1>6, <2>2, <2>3, <2>4, <2>5 DEF MainContinues, StartupReturns, Returned
<1>7. CASE SaveMessages
  <2>1. PICK n \in 0..Len(fetched) :
          SaveFirst(n) /\ Return(IF n = Len(fetched) THEN 0 ELSE 1)
    BY <1>7 DEF SaveMessages
  <2>2. at = "save" /\ at' = "return" /\ seqset' = seqset /\ exitcode' \in {0, 1}
    BY <1>7, <2>1 DEF SaveMessages, Return
  <2>3. saved = {} /\ UNION Kept \subseteq seqset
    BY <2>2, KeptWanted DEF DownloadInv, BatchInv
  <2>4. saved' \subseteq seqset
    <3>1. saved' = saved \cup UNION {fetched[i] : i \in 1..n}
      BY <2>1 DEF SaveFirst
    <3>2. Len(fetched) \in Nat
      BY DEF PInv, IInv, TypeOK
    <3>3. 1..n \subseteq 1..Len(fetched)
      BY <3>2
    <3>4. UNION {fetched[i] : i \in 1..n} \subseteq UNION Kept
      BY <3>3 DEF Kept
    <3>5. QED BY <2>3, <3>1, <3>4
  <2>5. exitcode' # 1 => saved' = seqset \/ Mangled
    <3>1. exitcode' # 1 => n = Len(fetched)
      BY <2>1 DEF Return
    <3>2. n = Len(fetched) => saved' = saved \cup UNION Kept
      BY <2>1, KeptSaved DEF SaveFirst
    <3>3. Mangled \/ UNION Kept = seqset
      BY <2>2 DEF DownloadInv, ClaimInv, SavingInv
    <3>4. QED BY <2>3, <3>1, <3>2, <3>3
  <2>6. Stage = "save" /\ Stage' = IF exitcode' = 1 THEN "failed" ELSE "done"
    BY <1>3, <1>4, <2>2
  <2>7. QED BY <2>2, <2>4, <2>5, <2>6 DEF Promise!Work, Promise!Write, Fixed, Mangled
<1>8. CASE Stop \/ Join
  <2>1. /\ at \in {"return", "join"} /\ at' \in {"join", "exit"}
        /\ UNCHANGED <<exitcode, saved, seqset>>
    BY <1>8 DEF Stop, Join, Goto
  <2>2. Stage' = Stage
    BY <1>1, <1>2, <2>1 DEF Stage
  <2>3. QED BY <2>1, <2>2, StayRefines DEF Stay
<1>9. CASE ClientContinues \/ Prompt \/ ReadLine \/ EndOfInput
  <2>1. at \in {"cselect", "csearch", "cfetch", "csave", "cread", "quit", "eof", "prompt", "input"}
    BY <1>9 DEF ClientContinues, CommandThrows, CommandSwallows, CommandReturns,
       CommandSaves, Threw, Returned, Prompt, ReadLine, EndOfInput
  <2>2. QED BY <2>1, OnlyInteractive DEF Startup
<1>10. QED BY <1>6, <1>7, <1>8, <1>9 DEF Program, User

LEMMA StepRefines ==
    ASSUME DInv, ~Interactive, [ProgramNext]_allVars PROVE [Promise!Work \/ Promise!Break]_(Promise!vars)
<1>1. CASE SessionStep \/ WakesForNothing \/ WaitExpires \/ Thread
  <2>1. ~Dead /\ UNCHANGED programVars /\ Fixed
    BY <1>1 DEF SessionStep, WakesForNothing, WaitExpires, Thread, ThreadStarts,
       ReceiveResponse, ReceiveNothing, ReceiveFails, CallbackStep,
       serverVars, netVars, Fixed
  <2>2. pc = "idle" => pc' # "crashed"
    BY <1>1 DEF SessionStep, MainStep, MarkLogout, Acquire, TestQueueOrError, TestByed,
       Reacquire, CheckError, CheckByedAndPop, Handle, WakesForNothing, WaitExpires,
       SpuriousWakeup, Expire, Thread, ThreadStarts, ReceiveResponse, ReceiveNothing,
       ReceiveFails, CallbackStep, ReceiverStep, MarkFailed, NotifyBye, NotifyIncoming,
       MarkByed, QueueBye, NotifyFailed, Wake, vars
  <2>3. pc # "crashed"
    BY <2>1 DEF Dead
  <2>4. QED BY <2>1, <2>2, <2>3, InsideRefines
<1>2. CASE Server \/ UNCHANGED allVars
  <2>1. UNCHANGED <<at, pc, exitcode, seqset, saved>>
    BY <1>2 DEF Server, allVars, vars, programVars
  <2>2. Stage' = Stage
    BY <2>1 DEF Stage, Dead
  <2>3. faults' = faults /\ (link # "open" => link' = link)
    BY LinkStays
  <2>4. CASE link' = link
    BY <2>1, <2>2, <2>3, <2>4, StayRefines DEF Stay, Fixed
  <2>5. CASE link' # link
    <3>1. ~Mangled
      BY <2>3, <2>5 DEF Mangled
    <3>2. CASE Mangled'
      <4>1. Promise!Break
        BY <2>1, <2>2, <3>1, <3>2 DEF Promise!Break
      <4>2. QED BY <4>1
    <3>3. CASE ~Mangled'
      <4>1. UNCHANGED Promise!vars
        <5>1. Mangled = FALSE /\ Mangled' = FALSE
          BY <3>1, <3>3, Zenon DEF Mangled
        <5>2. Mangled' = Mangled
          BY <5>1, Zenon
        <5>3. QED BY <2>1, <2>2, <5>2, Zenon DEF Promise!vars
      <4>2. QED BY <4>1
    <3>4. QED BY <3>2, <3>3
  <2>6. QED BY <2>4, <2>5
<1>3. CASE CallSession \/ Program \/ User
  <2>1. Fixed
    BY <1>3 DEF CallSession, Program, User, Outside, serverVars, netVars, Fixed
  <2>2. QED BY <1>3, <2>1, CallRefines, BetweenRefines
<1>4. QED BY <1>1, <1>2, <1>3 DEF ProgramNext

(* Batch mode implements the safety part of Download on every connection: *)
(* it takes the stages in their order, writes nothing before the FETCH has *)
(* returned and nothing that was not found, and until a connection on      *)
(* which responses are torn is reset, which is the break of Download, it   *)
(* is done only when everything that was found was written.                *)
THEOREM FollowsDownload == ASSUME ~Interactive PROVE ProgramSpec => Promise!Safety
<1>1. ProgramInit => Promise!Init
  <2> SUFFICES ASSUME ProgramInit PROVE Promise!Init
    OBVIOUS
  <2>1. ~Mangled
    BY DEF ProgramInit, Mangled
  <2>2. QED BY <2>1 DEF ProgramInit, Init, Promise!Init, Stage, Dead
<1>2. DInv /\ [ProgramNext]_allVars => [Promise!Work \/ Promise!Break]_(Promise!vars)
  BY StepRefines
<1>3. QED BY <1>1, <1>2, DownloadInvariance, PTL DEF ProgramSpec, Promise!Safety
=============================================================================
