---------------------------- MODULE ReplyProofs -----------------------------
(***************************************************************************)
(* No reply is mistaken for another, the program does not run into         *)
(* undefined behaviour on a sound connection, the mailbox of the prompt is *)
(* the server's, and a command meets there the mailbox it was meant for.   *)
(*                                                                         *)
(* Nothing in Session compares the tags of two commands, so none of this   *)
(* is local to it.  It rests on what is under way between the server and   *)
(* the main thread: the response being handled, the queue, and the wire,   *)
(* read as one sequence.  Receiving and popping leave that sequence as it  *)
(* is, handling takes its first element, and only the server adds to it.   *)
(* A torn response breaks the sequence; but where the end of the answer    *)
(* had not been received by then, the call is bound to fail (Forgone).     *)
(***************************************************************************)
EXTENDS ImapclProofs

Received == Hand \o queue
Stream   == Received \o wire

\* Until a command was given up after it was sent, or a LOGOUT, and while the
\* connection is not one where a failure may hide another.
Live  == Place \ {"quit", "eof", "return", "join", "exit", "abort"}
Sound == ~astray /\ at \in Live /\ ~Mangled

\* No call is in progress, and none has failed after its command was sent.
Settled == pc = "idle" /\ outcome \in {"none", "returned", "refused"}

Pending == pc # "idle"

\* The greeting was taken.
Welcome == at # "greeting" \/ outcome = "returned"

\* What the server may say at any time.
Noise(r) == r.type \in {"OTHER", "FETCH", "BYE"} /\ r.tag = NoTag /\ r.body = {}

IsJunk(r) == r.type = "JUNK"

IsGreeting(r) == r.type \in {"OK", "PREAUTH"} /\ r.tag = NoTag

\* What may be under way at any time: noise, and remains of what was torn.
Idle(r) == Noise(r) \/ (IsJunk(r) /\ "torn" \in faults)

\* What belongs to the answer to c, before its condition.
Belongs(c, h, mb, r) ==
    \/ Idle(r)
    \/ c.op \in {"login", "select"} /\ IsJunk(r)
    \/ c.op \in {"search", "fetch"} /\ ~IsJunk(r) /\ PlainPart(c, h, mb, r)

Part(r) == Belongs(cmd, hits, selected, r)

\* The junk behind a PREAUTH greeting may stay until SELECT is answered.
Rest(r) ==
    \/ Idle(r)
    \/ IsJunk(r) /\ (at \in {"greeting", "login"} \/ (at = "select" /\ outcome # "returned"))

(* Until the greeting was taken it can only be the first of the stream,    *)
(* and nothing comes before the server has spoken.                         *)
GreetingInv == Sound /\ ~Welcome /\ outcome = "none" =>
    /\ inbox = <<>>
    /\ link = "open" /\ ~greeted => Stream = <<>>
    /\ \A i \in 1..Len(Stream) :
          \/ Noise(Stream[i]) \/ IsJunk(Stream[i])
          \/ i = 1 /\ greeted /\ IsGreeting(Stream[i])

(* With no call in progress nothing is under way that could be taken for a *)
(* reply.                                                                  *)
SettledInv == Sound /\ Welcome /\ Settled =>
    /\ greeted /\ inbox = <<>>
    /\ \A i \in 1..Len(Stream) : Rest(Stream[i])

(* During a call its command is on its way to the server, or was answered  *)
(* or lost; the only tagged response under way is the command's own, and   *)
(* behind it comes nothing that a call would look at.                      *)
PendingInv == Sound /\ Welcome /\ Pending =>
    /\ greeted
    /\ inbox = <<>> \/ inbox = <<cmd>>
    /\ \A i \in 1..Len(Stream) :
          \/ Part(Stream[i])
          \/ /\ Condition(cmd, Stream[i]) /\ inbox = <<>>
             /\ \A j \in (i + 1)..Len(Stream) : Idle(Stream[j])

(* An OK to SEARCH comes behind the numbers; both are the server's last.   *)
SearchInv == Sound /\ Pending /\ cmd.op = "search" =>
    /\ found \subseteq {hits}
    /\ inbox # <<>> =>
          found = {} /\ \A i \in 1..Len(Stream) : Stream[i].type # "SEARCH"
    /\ \A i \in 1..Len(Stream) : Stream[i].type = "OK" =>
          found # {} \/ \E j \in 1..(i - 1) : Stream[j].type = "SEARCH"

(* current_mailbox is what the server has selected, except while a SELECT  *)
(* is answered: then an OK is for the name that the command carries.       *)
AgreeInv ==
    /\ Sound /\ (Settled \/ (Pending /\ cmd.op # "select")) => mailbox = selected
    /\ Sound /\ Pending /\ cmd.op = "select" =>
          \A i \in 1..Len(Stream) : Stream[i].type = "OK" => selected = cmd.mb

ReplyInv == GreetingInv /\ SettledInv /\ PendingInv /\ SearchInv /\ AgreeInv

\* What no call accepts as the end of its answer.
Dull(r) == r.tag = NoTag /\ r.type \notin {"OK", "PREAUTH"}

(* A response was torn before the end of the answer was received.  The     *)
(* next check of the state ends the call with an exception; before that,   *)
(* at most one response that does not end it is looked at.                 *)
Forgone ==
    /\ "torn" \in faults /\ Sound /\ Pending
    /\ state \in {"RECEIVER_ERROR", "SERVER_BYED"}
    /\ pc = "check2" => state = "SERVER_BYED" \/ (queue # <<>> /\ Dull(Head(queue)))
    /\ pc = "handle" => Dull(resp)

(* After a LOGOUT nothing is claimed any more: a BYE may then be queued.    *)
QuitInv ==
    /\ state = "LOGOUT" \/ rpc = "queueBye" \/ pc = "mark" => ~Sound
    /\ Sound => \A i \in 1..Len(inbox) : inbox[i].op # "logout"

\* What the parser may throw at.
Fatal(r) == "torn" \in faults \/ IsJunk(r)

(* A BYE is the last thing the server says, but for the condition of a     *)
(* LOGOUT: the connection is over, and what follows it is parsed, unless   *)
(* that condition is torn.                                                 *)
ByeEnds ==
    /\ state = "SERVER_BYED" \/ rpc = "bye" =>
          link # "open" /\ \A i \in 1..Len(wire) : ~Fatal(wire[i])
    /\ \A i \in 1..Len(wire) : wire[i].type = "BYE" =>
          link # "open" /\ \A j \in (i + 1)..Len(wire) : ~Fatal(wire[j])

ByeInv == Sound \/ "torn" \notin faults => ByeEnds

(* Only a connection that was reset, or a torn answer to LOGOUT, lets      *)
(* wait_for_response pop an empty queue.                                   *)
ResetInv ==
    /\ pc = "check2" /\ queue = <<>> /\ state = "RECEIVER_ERROR" =>
          link = "reset" \/ ("torn" \in faults /\ ~Sound)
    /\ NoCrash

\* A command that names no mailbox is meant for the one the server has selected.
Meets(c) == c.op \in {"search", "fetch", "read"} =>
                selected = mailbox /\ mailbox # NoMailbox

(* At most one command is on its way to the server, and it finds there     *)
(* what it was sent for; none is on its way when QUIT or ^D is read.       *)
MeetInv == ~astray /\ link = "open" =>
    /\ Len(inbox) <= 1
    /\ \A i \in 1..Len(inbox) : Meets(inbox[i])
    /\ at \in {"quit", "eof"} /\ pc = "idle" /\ outcome = "none" => inbox = <<>>

RInv == /\ PInv /\ (ReplyInv \/ Forgone)
        /\ QuitInv /\ ByeInv /\ ResetInv /\ MeetInv
-----------------------------------------------------------------------------
(* What the steps do to the stream. *)

Piece == Response \cup {Junk}

\* t is s without the k elements behind the first n.
Cut(s, t, n, k) ==
    /\ n \in Nat /\ k \in Nat /\ n + k <= Len(s)
    /\ Len(t) = Len(s) - k
    /\ \A i \in 1..Len(t) : t[i] = s[IF i <= n THEN i ELSE i + k]

LEMMA Joined ==
    ASSUME NEW p \in Seq(Piece), NEW q \in Seq(Piece)
    PROVE  /\ p \o q \in Seq(Piece) /\ Len(p \o q) = Len(p) + Len(q)
           /\ \A i \in 1..Len(p) : (p \o q)[i] = p[i]
           /\ \A i \in 1..Len(q) : (p \o q)[Len(p) + i] = q[i]
           /\ \A i \in 1..Len(p \o q) :
                 (p \o q)[i] = IF i <= Len(p) THEN p[i] ELSE q[i - Len(p)]
OBVIOUS

LEMMA SamePieces ==
    ASSUME NEW s \in Seq(Piece), NEW t \in Seq(Piece), Len(s) = Len(t),
           \A i \in 1..Len(s) : s[i] = t[i]
    PROVE  s = t
OBVIOUS

LEMMA StreamType ==
    ASSUME PInv
    PROVE  Received \in Seq(Piece) /\ wire \in Seq(Piece) /\ Stream \in Seq(Piece)
<1>1. resp \in Response /\ queue \in Seq(Response) /\ wire \in Seq(Piece)
  BY DEF PInv, IInv, TypeOK, NetVarsOK, Piece
<1>1a. resp \in Piece /\ queue \in Seq(Piece)
  BY <1>1 DEF Piece
<1>2. Hand \in Seq(Piece) /\ queue \in Seq(Piece)
  BY <1>1a DEF Hand
<1>3. QED BY <1>1, <1>2, Joined DEF Received, Stream

LEMMA StreamParts ==
    ASSUME PInv
    PROVE  /\ Len(Stream) = Len(Received) + Len(wire)
           /\ \A i \in 1..Len(Stream) :
                 Stream[i] = IF i <= Len(Received) THEN Received[i]
                             ELSE wire[i - Len(Received)]
BY StreamType, Joined DEF Stream

\* Receiving moves a response within the stream.
LEMMA MovedStream ==
    ASSUME PInv, PInv', wire # <<>>, Received' = Append(Received, Head(wire)),
           wire' = Tail(wire)
    PROVE  Stream' = Stream
<1> DEFINE p == Received  w == wire
<1>1. p \in Seq(Piece) /\ w \in Seq(Piece) /\ w # <<>>
  BY StreamType
<1>2. Stream' = Append(p, Head(w)) \o Tail(w) /\ Stream = p \o w
  BY DEF Stream
<1> HIDE DEF p, w
<1>3. Append(p, Head(w)) \in Seq(Piece) /\ Tail(w) \in Seq(Piece) /\ Len(w) > 0
  BY <1>1
<1>4. /\ Len(Append(p, Head(w)) \o Tail(w)) = Len(p \o w)
      /\ \A i \in 1..Len(p \o w) : (Append(p, Head(w)) \o Tail(w))[i] = (p \o w)[i]
  BY <1>1, <1>3
<1>5. Append(p, Head(w)) \o Tail(w) \in Seq(Piece) /\ p \o w \in Seq(Piece)
  BY <1>1, <1>3, Joined
<1>6. QED BY <1>2, <1>4, <1>5, SamePieces

\* Handling takes the first element.
LEMMA HandledStream ==
    ASSUME PInv, pc = "handle", Received' = Tail(Received), wire' = wire
    PROVE  Stream' \in Seq(Piece) /\ Cut(Stream, Stream', 0, 1)
<1> DEFINE p == Received  w == wire
<1>1. p \in Seq(Piece) /\ w \in Seq(Piece) /\ Stream = p \o w /\ Stream' = Tail(p) \o w
  BY StreamType DEF Stream
<1>2. p # <<>> /\ p[1] = resp
  BY DEF Received, Hand, PInv, IInv, TypeOK
<1> HIDE DEF p, w
<1>3. Tail(p) \in Seq(Piece) /\ Len(p) > 0
  BY <1>1, <1>2
<1>4. QED BY <1>1, <1>2, <1>3, Joined DEF Cut

LEMMA HeldStream ==
    ASSUME PInv, pc = "handle"
    PROVE  1 \in 1..Len(Stream) /\ Stream[1] = resp
<1>1. Received \in Seq(Piece) /\ wire \in Seq(Piece)
  BY StreamType
<1>2. Len(Received) > 0 /\ Received[1] = resp
  BY DEF Received, Hand, PInv, IInv, TypeOK
<1>3. QED BY <1>1, <1>2, StreamParts

\* Dropping the first k elements of the wire.
LEMMA DroppedStream ==
    ASSUME PInv, NEW k \in 1..Len(wire), wire' = SubSeq(wire, k + 1, Len(wire)),
           Received' = Received
    PROVE  /\ Stream' \in Seq(Piece) /\ Cut(Stream, Stream', Len(Received), k)
           /\ Len(Received) < Len(Stream)
           /\ Stream[Len(Received) + 1] = Head(wire)
<1> DEFINE p == Received  w == wire  v == SubSeq(w, k + 1, Len(w))
<1>1. p \in Seq(Piece) /\ w \in Seq(Piece) /\ Stream = p \o w /\ Stream' = p \o v
  BY StreamType DEF Stream
<1> HIDE DEF p, w
<1>2. v \in Seq(Piece) /\ Len(v) = Len(w) - k /\ \A i \in 1..Len(v) : v[i] = w[i + k]
  BY <1>1 DEF w
<1> HIDE DEF v
<1>3. k \in 1..Len(w) /\ w[1] = Head(w)
  BY <1>1 DEF w
<1>4. /\ Len(p) \in Nat /\ Len(p) + k <= Len(p \o w)
      /\ Len(p \o v) = Len(p \o w) - k
      /\ \A i \in 1..Len(p \o v) :
            (p \o v)[i] = (p \o w)[IF i <= Len(p) THEN i ELSE i + k]
  <2>1. Len(p) \in Nat /\ Len(v) \in Nat /\ Len(w) \in Nat
    BY <1>1, <1>2
  <2>2. Len(p \o v) = Len(p) + Len(v) /\ Len(p \o w) = Len(p) + Len(w)
    BY <1>1, <1>2, Joined
  <2>3. ASSUME NEW i \in 1..Len(p \o v), i > Len(p)
        PROVE  (p \o v)[i] = (p \o w)[i + k]
    <3>1. (p \o v)[i] = v[i - Len(p)] /\ i - Len(p) \in 1..Len(v)
      BY <1>1, <1>2, <2>1, <2>2, <2>3, Joined
    <3>2. (p \o w)[i + k] = w[i + k - Len(p)]
      BY <1>1, <1>2, <1>3, <2>1, <2>2, <2>3, Joined
    <3>3. v[i - Len(p)] = w[i - Len(p) + k]
      BY <1>2, <3>1
    <3>4. i - Len(p) + k = i + k - Len(p)
      BY <1>3, <2>1
    <3>5. QED BY <3>1, <3>2, <3>3, <3>4
  <2>4. ASSUME NEW i \in 1..Len(p \o v), i <= Len(p)
        PROVE  (p \o v)[i] = (p \o w)[i]
    BY <1>1, <1>2, <2>1, <2>2, <2>4, Joined
  <2>5. /\ Len(p) + k <= Len(p \o w)
        /\ Len(p \o v) = Len(p \o w) - k
    BY <1>2, <1>3, <2>1, <2>2
  <2>6. ASSUME NEW i \in 1..Len(p \o v)
        PROVE  (p \o v)[i] = (p \o w)[IF i <= Len(p) THEN i ELSE i + k]
    <3>1. CASE i <= Len(p)
      BY <2>4, <3>1
    <3>2. CASE ~(i <= Len(p))
      <4>1. i > Len(p)
        BY <2>1, <2>2, <3>2
      <4>2. (p \o v)[i] = (p \o w)[i + k]
        BY <2>3, <4>1
      <4>3. QED BY <3>2, <4>2
    <3>3. QED BY <3>1, <3>2
  <2>7. QED BY <2>1, <2>5, <2>6
<1>5. Len(p) < Len(p \o w) /\ (p \o w)[Len(p) + 1] = Head(w)
  BY <1>1, <1>3, Joined
<1>6. p \o v \in Seq(Piece)
  BY <1>1, <1>2, Joined
<1>7. k \in Nat
  BY <1>3
<1>8. Cut(p \o w, p \o v, Len(p), k)
  BY <1>4, <1>7, Zenon DEF Cut
<1>9. QED BY <1>1, <1>5, <1>6, <1>8 DEF p, w

(* t is s but for the element behind the first n, of which only junk or a  *)
(* response with a cut tag may be left, and what was dropped with it.      *)
Mangles(s, t, n) ==
    /\ n + 1 \in 1..Len(s) /\ n <= Len(t)
    /\ \A i \in 1..n : t[i] = s[i]
    /\ \A i \in 1..Len(t) :
          i <= n \/ t[i] = Junk \/ CutFrom(t[i], s[n + 1])
             \/ \E j \in (n + 2)..Len(s) : t[i] = s[j]

LEMMA CutMangles ==
    ASSUME NEW s \in Seq(Piece), NEW t, NEW n, NEW k, Cut(s, t, n, k), k > 0
    PROVE  Mangles(s, t, n)
<1>1. /\ n \in Nat /\ k \in Nat /\ n + k <= Len(s)
      /\ Len(t) = Len(s) - k /\ \A i \in 1..Len(t) : t[i] = s[IF i <= n THEN i ELSE i + k]
  BY DEF Cut
<1>1a. Len(s) \in Nat
  OBVIOUS
<1>2. n + 1 \in 1..Len(s) /\ n <= Len(t) /\ \A i \in 1..n : t[i] = s[i]
  BY <1>1, <1>1a
<1>3. \A i \in 1..Len(t) : i > n => i + k \in (n + 2)..Len(s) /\ t[i] = s[i + k]
  BY <1>1, <1>1a
<1>4. \A i \in 1..Len(t) : i <= n \/ i > n
  BY <1>1, <1>1a
<1>5. QED BY <1>2, <1>3, <1>4 DEF Mangles

\* A response is torn.
LEMMA TornStream ==
    ASSUME PInv, wire # <<>>, Whole(Head(wire)), NEW rest \in Remains(Head(wire)),
           wire' = rest \o Tail(wire), Received' = Received
    PROVE  /\ Stream' \in Seq(Piece) /\ Mangles(Stream, Stream', Len(Received))
           /\ Stream[Len(Received) + 1] = Head(wire)
<1> DEFINE p == Received  w == wire  v == rest \o Tail(w)
<1>1. p \in Seq(Piece) /\ w \in Seq(Piece) /\ w # <<>> /\ Stream = p \o w /\ Stream' = p \o v
  BY StreamType DEF Stream
<1>2. rest \in Seq(Piece) /\ Len(rest) > 0
      /\ \A i \in 1..Len(rest) : rest[i] = Junk \/ CutFrom(rest[i], Head(w))
  <2>1. Head(wire) \in Response \cup {Junk}
    BY <1>1 DEF Piece
  <2>2. QED BY <2>1, RemainsShape DEF Piece
<1> HIDE DEF p, w
<1>3. /\ Tail(w) \in Seq(Piece) /\ Len(Tail(w)) = Len(w) - 1 /\ Len(w) \in Nat /\ Len(w) > 0
      /\ Len(p) \in Nat /\ Len(rest) \in Nat /\ w[1] = Head(w)
      /\ \A i \in 1..Len(Tail(w)) : Tail(w)[i] = w[i + 1]
  BY <1>1, <1>2
<1>4. /\ v \in Seq(Piece) /\ Len(v) = Len(rest) + Len(w) - 1
      /\ \A i \in 1..Len(v) : v[i] = IF i <= Len(rest) THEN rest[i] ELSE Tail(w)[i - Len(rest)]
  BY <1>2, <1>3, Joined
<1> HIDE DEF v
<1>5. /\ p \o v \in Seq(Piece) /\ Len(p \o v) = Len(p) + Len(v)
      /\ \A i \in 1..Len(p \o v) : (p \o v)[i] = IF i <= Len(p) THEN p[i] ELSE v[i - Len(p)]
  BY <1>1, <1>4, Joined
<1>6. /\ Len(p \o w) = Len(p) + Len(w)
      /\ \A i \in 1..Len(p \o w) : (p \o w)[i] = IF i <= Len(p) THEN p[i] ELSE w[i - Len(p)]
  BY <1>1, Joined
<1>7. /\ Len(p) + 1 \in 1..Len(p \o w) /\ (p \o w)[Len(p) + 1] = Head(w)
  BY <1>3, <1>6
<1>8. Len(p) <= Len(p \o v) /\ \A i \in 1..Len(p) : (p \o v)[i] = (p \o w)[i]
  BY <1>3, <1>4, <1>5, <1>6
<1>9. ASSUME NEW i \in 1..Len(p \o v), i > Len(p)
      PROVE  \/ (p \o v)[i] = Junk \/ CutFrom((p \o v)[i], (p \o w)[Len(p) + 1])
             \/ \E j \in (Len(p) + 2)..Len(p \o w) : (p \o v)[i] = (p \o w)[j]
  <2> DEFINE k == i - Len(p)
  <2>1. k \in 1..Len(v) /\ (p \o v)[i] = v[k] /\ i = Len(p) + k
    BY <1>3, <1>4, <1>5, <1>9
  <2> HIDE DEF k
  <2>2. CASE k <= Len(rest)
    <3>1. k \in 1..Len(rest) /\ v[k] = rest[k]
      BY <1>3, <1>4, <2>1, <2>2
    <3>2. QED BY <1>2, <1>7, <2>1, <3>1
  <2>3. CASE k > Len(rest)
    <3>1. v[k] = Tail(w)[k - Len(rest)]
      <4>1. ~(k <= Len(rest))
        <5>1. Len(rest) \in Nat /\ k \in Nat
          BY <1>3, <1>4, <2>1
        <5>2. QED BY <2>3, <5>1
      <4>2. v[k] = IF k <= Len(rest) THEN rest[k] ELSE Tail(w)[k - Len(rest)]
        BY <1>4, <2>1
      <4>3. QED BY <4>1, <4>2
    <3>1a. k - Len(rest) \in 1..Len(Tail(w))
      <4>1. k \in 1..(Len(rest) + Len(w) - 1) /\ Len(Tail(w)) = Len(w) - 1
        BY <1>3, <1>4, <2>1
      <4>2. QED BY <1>3, <2>3, <4>1
    <3>2. v[k] = w[k - Len(rest) + 1]
      BY <1>3, <3>1, <3>1a
    <3> DEFINE x == Len(p) + (k - Len(rest) + 1)
    <3>3. x \in (Len(p) + 2)..Len(p \o w) /\ (p \o w)[x] = w[x - Len(p)]
          /\ x - Len(p) = k - Len(rest) + 1
      BY <1>3, <1>6, <3>1a
    <3> HIDE DEF x
    <3>4. (p \o v)[i] = (p \o w)[x]
      BY <2>1, <3>2, <3>3
    <3>5. \E j \in (Len(p) + 2)..Len(p \o w) : (p \o v)[i] = (p \o w)[j]
      BY <3>3, <3>4
    <3>6. QED BY <3>5
  <2>4. k <= Len(rest) \/ k > Len(rest)
    <3>1. Len(rest) \in Nat /\ k \in Nat
      BY <1>3, <1>4, <2>1
    <3>2. QED BY <3>1
  <2>5. QED BY <2>2, <2>3, <2>4
<1>10. Mangles(p \o w, p \o v, Len(p))
  <2>1. \A i \in 1..Len(p \o v) : i <= Len(p) \/ i > Len(p)
    BY <1>3
  <2>2. QED BY <1>7, <1>8, <1>9, <2>1 DEF Mangles
<1>11. QED BY <1>1, <1>5, <1>7, <1>10 DEF p, w
-----------------------------------------------------------------------------
(* Steps that leave the stream, and all that the claims look at, alone. *)

Views == <<astray, at, outcome, cmd, found, hits, mailbox, selected, inbox, link,
           greeted, faults>>

LEMMA SteadyReply ==
    ASSUME ReplyInv, Stream' = Stream, UNCHANGED Views, pc' = "idle" <=> pc = "idle"
    PROVE  ReplyInv'
<1> USE DEF ReplyInv, Views
<1>1. /\ Sound' <=> Sound
      /\ Welcome' <=> Welcome
      /\ Settled' <=> Settled
      /\ Pending' <=> Pending
  BY DEF Sound, Mangled, Welcome, Settled, Pending
<1>2. GreetingInv'
  BY <1>1 DEF GreetingInv
<1>3. SettledInv'
  BY <1>1 DEF SettledInv, Rest, Idle
<1>4. PendingInv'
  BY <1>1 DEF PendingInv, Part, Belongs, Idle, PlainPart
<1>5. SearchInv'
  BY <1>1 DEF SearchInv
<1>6. AgreeInv'
  BY <1>1 DEF AgreeInv
<1>7. QED BY <1>2, <1>3, <1>4, <1>5, <1>6

\* Nothing is claimed once the program is not sound, or a call has failed.
LEMMA VacuousReply == ASSUME ~Sound' PROVE ReplyInv'
BY DEF ReplyInv, GreetingInv, SettledInv, PendingInv, SearchInv, AgreeInv

LEMMA FailedReply ==
    ASSUME pc' = "idle", outcome' \notin {"none", "returned", "refused"}
    PROVE  ReplyInv'
<1>1. ~Settled' /\ ~Pending' /\ outcome' # "none"
  BY DEF Settled, Pending
<1>2. QED BY <1>1 DEF ReplyInv, GreetingInv, SettledInv, PendingInv, SearchInv, AgreeInv

LEMMA LinkStays ==
    ASSUME [ProgramNext]_allVars
    PROVE  /\ faults' = faults
           /\ link # "open" => link' = link
<1>1. CASE Server
  <2>1. CASE Answer \/ Greet \/ Unasked \/ Leave
    BY <1>1, <2>1 DEF Server, Answer, Greet, Unasked, Leave
  <2>2. QED BY <1>1, <2>1 DEF Server
<1>2. CASE ~Server
  <2>1. UNCHANGED <<faults, link>>
    BY <1>2 DEF ProgramNext, CallSession, Program, User, Outside, SessionStep,
     WakesForNothing, WaitExpires, Thread, ThreadStarts, ReceiveResponse, ReceiveNothing,
     ReceiveFails, CallbackStep, serverVars, allVars
  <2>2. QED BY <2>1
<1>3. QED BY <1>1, <1>2

LEMMA AstrayStays == ASSUME PInv, [ProgramNext]_allVars, astray PROVE astray'
<1>1. CASE CommandSwallows
  BY <1>1 DEF CommandSwallows
<1>2. CASE (Program \/ User) /\ ~CommandSwallows
  BY <1>2 DEF Program, User, MainContinues, SaveMessages, ClientContinues,
     CommandThrows, CommandReturns, CommandSaves, Prompt, Stop, Join,
     ReadLine, EndOfInput
<1>3. CASE CallSession
  BY <1>3, CallEffect DEF CallFrame
<1>4. CASE \/ SessionStep \/ WakesForNothing \/ WaitExpires \/ Thread \/ Server
           \/ UNCHANGED allVars
  BY <1>4 DEF SessionStep, WakesForNothing, WaitExpires, Thread, Server, ThreadStarts,
     ReceiveResponse, ReceiveNothing, ReceiveFails, CallbackStep, allVars, programVars
<1>5. QED BY <1>1, <1>2, <1>3, <1>4 DEF ProgramNext

\* The program does not become sound again.
LEMMA SoundStays ==
    ASSUME PInv, [ProgramNext]_allVars, Sound'
    PROVE  Sound
<1>0. ~Mangled
  BY LinkStays DEF Sound, Mangled
<1>1. CASE UNCHANGED <<at, astray>>
  BY <1>0, <1>1 DEF Sound
<1>2. CASE CallSession
  <2>1. CallFrame /\ (Sent \/ Unsent)
    BY <1>2, CallEffect
  <2>2. at' \in {at, "abort"} /\ astray' = astray
    BY <2>1 DEF Sent, Unsent, CallFrame
  <2>3. QED BY <1>0, <2>2 DEF Sound, Live
<1>3. CASE Program \/ User
  <2>1. astray => astray'
    BY AstrayStays
  <2>2. CASE at \in {"quit", "eof"}
    <3>1. astray' = TRUE \/ at' \in {"return"}
      BY <1>3, <2>2 DEF Program, User, MainContinues, StartupThrows, StartupReturns,
         SaveMessages, ClientContinues,
         CommandThrows, CommandSwallows, CommandReturns, CommandSaves, Prompt, Stop, Join,
         ReadLine, EndOfInput, Threw, Returned, Goto, Return, Startup
    <3>2. QED BY <3>1 DEF Sound, Live
  <2>3. CASE at \in {"return", "join", "exit"}
    <3>1. at' \in {"join", "exit"}
      BY <1>3, <2>3 DEF Program, User, MainContinues, StartupThrows, StartupReturns,
         SaveMessages, ClientContinues,
         CommandThrows, CommandSwallows, CommandReturns, CommandSaves, Prompt, Stop, Join,
         ReadLine, EndOfInput, Threw, Returned, Goto, Return, Startup
    <3>2. QED BY <3>1 DEF Sound, Live
  <2>4. at # "abort"
    BY <1>3 DEF Program, User, Dead
  <2>5. CASE at \in Live
    BY <1>0, <2>1, <2>5 DEF Sound
  <2>6. at \in Place
    BY DEF PInv, ProgramVarsOK
  <2>7. QED BY <2>2, <2>3, <2>4, <2>5, <2>6 DEF Live
<1>4. CASE \/ SessionStep \/ WakesForNothing \/ WaitExpires \/ Thread \/ Server
           \/ UNCHANGED allVars
  <2>1. UNCHANGED programVars
    BY <1>4 DEF SessionStep, WakesForNothing, WaitExpires, Thread, Server, ThreadStarts,
       ReceiveResponse, ReceiveNothing, ReceiveFails, CallbackStep, allVars
  <2>2. QED BY <1>1, <2>1 DEF programVars
<1>5. QED BY <1>2, <1>3, <1>4 DEF ProgramNext
-----------------------------------------------------------------------------
LEMMA NextQuitInv ==
    ASSUME PInv, QuitInv, [ProgramNext]_allVars PROVE QuitInv'
<1> SUFFICES ASSUME Sound'
             PROVE  /\ state' # "LOGOUT" /\ rpc' # "queueBye" /\ pc' # "mark"
                    /\ \A i \in 1..Len(inbox') : inbox'[i].op # "logout"
  BY DEF QuitInv
<1>1. /\ Sound /\ state # "LOGOUT" /\ rpc # "queueBye" /\ pc # "mark"
      /\ \A i \in 1..Len(inbox) : inbox[i].op # "logout"
  BY SoundStays DEF QuitInv
<1>1a. inbox \in Seq(Command)
  BY DEF PInv, NetVarsOK
<1>2. CASE CallSession
  <2>1. CallFrame /\ (Sent \/ Unsent)
    BY <1>2, CallEffect
  <2>2. at \notin {"quit", "eof"}
    BY <1>1 DEF Sound, Live
  <2>3. Sent => cmd' \in Command /\ cmd'.op # "logout"
    BY <2>2 DEF Sent, Commanded, Calls
  <2>4. pc' # "mark"
    BY <2>1, <2>3 DEF Sent, Unsent
  <2>5. inbox' = inbox \/ (Sent /\ inbox' = Append(inbox, cmd'))
    BY <2>1 DEF Sent, Unsent
  <2>6. \A i \in 1..Len(inbox') : inbox'[i].op # "logout"
    BY <1>1, <1>1a, <2>3, <2>5
  <2>7. QED BY <1>1, <2>1, <2>4, <2>6 DEF CallFrame, sharedVars
<1>3. CASE SessionStep \/ WakesForNothing \/ WaitExpires
  <2>1. inbox' = inbox
    BY <1>3 DEF SessionStep, WakesForNothing, WaitExpires, netVars
  <2>2. QED BY <1>1, <1>3, <2>1 DEF SessionStep, WakesForNothing, WaitExpires, MainStep, MarkLogout,
     Acquire, TestQueueOrError, TestByed, Reacquire, CheckError, CheckByedAndPop,
     SpuriousWakeup, Expire, sharedVars, callVars, Finish, Handle, HandleGreeting,
     HandleLogin, HandleSelect, HandleSearch, HandleFetch, HandleRead, HandleLogout,
     WaitAgain, Accept, Reject
<1>4. CASE Thread
  BY <1>1, <1>4 DEF Thread, ThreadStarts, ReceiveResponse, ReceiveNothing, ReceiveFails,
     CallbackStep, ReceiverStep, MarkFailed, NotifyBye, NotifyIncoming, MarkByed, QueueBye,
     NotifyFailed, Wake, vars, sharedVars, callVars, netVars
<1>5. CASE Server
  <2>1. inbox' = inbox \/ (inbox' = Tail(inbox) /\ inbox # <<>>)
    <3>1. CASE Answer
      BY <3>1 DEF Answer
    <3>2. Greet \/ Unasked => inbox' = inbox
      BY DEF Greet, Unasked
    <3>3. Leave => inbox' = inbox
      BY DEF Leave
    <3>4. Greet \/ Answer \/ Unasked \/ Leave
      BY <1>5 DEF Server
    <3>5. QED BY <3>1, <3>2, <3>3, <3>4
  <2>2. \A i \in 1..Len(inbox') : inbox'[i].op # "logout"
    BY <1>1, <1>1a, <2>1
  <2>3. QED BY <1>1, <1>5, <2>2 DEF Server, vars, sharedVars
<1>6. CASE Program \/ User \/ UNCHANGED allVars
  BY <1>1, <1>6 DEF Program, User, Outside, allVars, vars, sharedVars, netVars
<1>7. QED BY <1>2, <1>3, <1>4, <1>5, <1>6 DEF ProgramNext
-----------------------------------------------------------------------------
(* A BYE is the end of the connection. *)

LEMMA SteadyBye ==
    ASSUME ByeEnds, UNCHANGED <<wire, link, rpc, faults>>,
           state' = "SERVER_BYED" => state = "SERVER_BYED"
    PROVE  ByeEnds'
BY DEF ByeEnds, Fatal

LEMMA ThreadBye == ASSUME PInv, ByeEnds, Thread PROVE ByeEnds'
<1>0. UNCHANGED <<link, faults>>
  BY DEF Thread, ThreadStarts, ReceiveResponse, ReceiveNothing, ReceiveFails,
         CallbackStep, serverVars
<1>1. CASE ThreadStarts \/ ReceiveNothing \/ ReceiveFails
  BY <1>1, SteadyBye DEF ThreadStarts, ReceiveNothing, ReceiveFails, MarkFailed,
     vars, sharedVars, serverVars, netVars, ByeEnds
<1>2. CASE CallbackStep
  <2>1. UNCHANGED <<wire, link>> /\ rpc' # "bye"
    BY <1>2 DEF CallbackStep, ReceiverStep, MarkByed, QueueBye, NotifyFailed, netVars,
       serverVars
  <2>2. state' = state \/ rpc = "bye"
    BY <1>2 DEF CallbackStep, ReceiverStep, MarkByed, QueueBye, NotifyFailed, sharedVars
  <2>3. QED BY <1>0, <2>1, <2>2 DEF ByeEnds, Fatal
<1>3. CASE ReceiveResponse
  <2> DEFINE w == wire
  <2>1. w \in Seq(Piece) /\ w # <<>>
    BY <1>3, StreamType DEF ReceiveResponse
  <2> HIDE DEF w
  <2>2. CASE /\ "torn" \in faults /\ Whole(Head(wire)) /\ MarkFailed
             /\ \E rest \in Remains(Head(wire)) : wire' = rest \o Tail(wire)
    <3>1. \A r : Fatal(r)
      BY <2>2 DEF Fatal
    <3>2. Len(w) \in Nat /\ 1 \in 1..Len(w) /\ Head(w) = w[1]
      BY <2>1
    <3>3. state' # "SERVER_BYED" /\ rpc' # "bye"
      BY <2>2 DEF MarkFailed
    <3>4. ASSUME NEW i \in 1..Len(w), w[i].type = "BYE"
          PROVE  link # "open" /\ i = Len(w)
      <4>1. link # "open" /\ \A j \in (i + 1)..Len(w) : ~Fatal(w[j])
        BY <3>4 DEF ByeEnds, w
      <4>2. i + 1 \notin (i + 1)..Len(w)
        BY <3>1, <4>1
      <4>3. QED BY <3>2, <4>1, <4>2
    <3>5. PICK rest \in Remains(Head(wire)) : wire' = rest \o Tail(wire)
      BY <2>2
    <3>6. /\ rest \in Seq(Piece) /\ Len(rest) > 0
          /\ \A i \in 1..Len(rest) :
                rest[i] = Junk \/ (i = Len(rest) /\ CutFrom(rest[i], Head(w)))
      <4>1. Head(w) \in Response \cup {Junk}
        BY <2>1 DEF Piece
      <4>2. QED BY <2>2, <4>1, RemainsShape DEF Piece, w
    <3>7. /\ Tail(w) \in Seq(Piece) /\ Len(Tail(w)) = Len(w) - 1
          /\ \A i \in 1..Len(Tail(w)) : Tail(w)[i] = w[i + 1]
      BY <2>1
    <3> DEFINE v == rest \o Tail(w)
    <3>8. /\ Len(v) = Len(rest) + (Len(w) - 1) /\ Len(rest) \in Nat
          /\ \A i \in 1..Len(v) : v[i] = IF i <= Len(rest) THEN rest[i] ELSE Tail(w)[i - Len(rest)]
      BY <3>6, <3>7, Joined
    <3> HIDE DEF v
    <3>9. ASSUME NEW i \in 1..Len(v), v[i].type = "BYE"
          PROVE  link # "open" /\ i = Len(v)
      <4>1. CASE i <= Len(rest)
        <5>1. i \in 1..Len(rest) /\ v[i] = rest[i]
          BY <3>8, <4>1
        <5>2. rest[i] # Junk
          BY <3>9, <5>1 DEF Junk
        <5>3. i = Len(rest) /\ Head(w).type = "BYE"
          BY <3>6, <3>9, <5>1, <5>2 DEF CutFrom, Tagged
        <5>4. link # "open" /\ 1 = Len(w)
          BY <3>2, <3>4, <5>3
        <5>5. Len(v) = Len(rest) + (Len(w) - 1) /\ Len(rest) \in Nat
          BY <3>8
        <5>5a. Len(rest) + (1 - 1) = Len(rest)
          BY <3>8
        <5>5b. Len(v) = Len(rest) + (1 - 1)
          BY <5>4, <5>5, Zenon
        <5>6. Len(v) = Len(rest)
          BY <5>5a, <5>5b
        <5>7. QED BY <5>3, <5>4, <5>6
      <4>2. CASE i > Len(rest)
        <5> DEFINE k == i - Len(rest)
        <5>1. v[i] = Tail(w)[k] /\ i = Len(rest) + k
          BY <3>8, <4>2
        <5>2. k \in 1..Len(Tail(w))
          BY <3>2, <3>7, <3>8, <4>2
        <5>3. v[i] = w[k + 1] /\ k + 1 \in 1..Len(w)
          BY <3>2, <3>7, <5>1, <5>2
        <5>4. link # "open" /\ k + 1 = Len(w)
          BY <3>4, <3>9, <5>3
        <5>5. QED BY <3>2, <3>8, <5>1, <5>4
      <4>3. QED BY <3>8, <4>1, <4>2
    <3>10. wire' = v
      BY <3>5 DEF v, w
    <3>11. Len(v) \in Nat
      BY <3>2, <3>8
    <3>12. \A i \in 1..Len(wire') : wire'[i].type = "BYE" =>
             link' # "open" /\ \A j \in (i + 1)..Len(wire') : FALSE
      BY <1>0, <3>9, <3>10, <3>11
    <3>13. QED BY <3>3, <3>12 DEF ByeEnds
  <2>3. ASSUME NEW k \in 1..Len(wire), wire' = SubSeq(wire, k + 1, Len(wire)),
               \/ /\ rpc' # "bye"
                  /\ state' = "SERVER_BYED" => state = "SERVER_BYED"
               \/ wire[k].type = "BYE" /\ rpc' = "bye" /\ state' = state
        PROVE  ByeEnds'
    <3>1. /\ \A i \in 1..Len(w) : w[i].type = "BYE" =>
                link # "open" /\ \A j \in (i + 1)..Len(w) : ~Fatal(w[j])
          /\ state = "SERVER_BYED" =>
                link # "open" /\ \A i \in 1..Len(w) : ~Fatal(w[i])
      BY DEF ByeEnds, w
    <3>2. k \in 1..Len(w) /\ wire' = SubSeq(w, k + 1, Len(w)) /\ link' = link
      BY <1>0, <2>3 DEF w
    <3> DEFINE v == SubSeq(w, k + 1, Len(w))
    <3>3. Len(w) \in Nat /\ Len(v) = Len(w) - k /\ \A i \in 1..Len(v) : v[i] = w[i + k]
      BY <2>1, <3>2
    <3> HIDE DEF v
    <3>4. \A i \in 1..Len(v) : i + k \in (k + 1)..Len(w) /\ i + k \in 1..Len(w)
      BY <3>2, <3>3
    <3>5. \A i \in 1..Len(v) : v[i].type = "BYE" =>
             link # "open" /\ \A j \in (i + 1)..Len(v) : ~Fatal(v[j])
      <4> SUFFICES ASSUME NEW i \in 1..Len(v), v[i].type = "BYE"
                   PROVE  link # "open" /\ \A j \in (i + 1)..Len(v) : ~Fatal(v[j])
        OBVIOUS
      <4>1. i + k \in 1..Len(w) /\ w[i + k].type = "BYE"
        BY <3>3, <3>4
      <4>2. link # "open" /\ \A j \in (i + k + 1)..Len(w) : ~Fatal(w[j])
        BY <3>1, <4>1
      <4>3. \A j \in (i + 1)..Len(v) : j \in 1..Len(v) /\ j + k \in (i + k + 1)..Len(w)
        BY <3>2, <3>3
      <4>4. QED BY <3>3, <4>2, <4>3
    <3>6. CASE rpc' # "bye" /\ (state' = "SERVER_BYED" => state = "SERVER_BYED")
      <4>1. state' = "SERVER_BYED" =>
               link # "open" /\ \A i \in 1..Len(v) : ~Fatal(v[i])
        BY <3>1, <3>3, <3>4, <3>6
      <4>2. QED BY <1>0, <3>2, <3>5, <3>6, <4>1 DEF ByeEnds, Fatal, v
    <3>7. CASE wire[k].type = "BYE"
      <4>1. link # "open" /\ \A j \in (k + 1)..Len(w) : ~Fatal(w[j])
        BY <3>1, <3>2, <3>7 DEF w
      <4>2. \A i \in 1..Len(v) : ~Fatal(v[i])
        BY <3>3, <3>4, <4>1
      <4>3. QED BY <1>0, <3>2, <3>5, <4>1, <4>2 DEF ByeEnds, Fatal, v
    <3>8. QED BY <2>3, <3>6, <3>7
  <2>4. 1 \in 1..Len(wire) /\ Head(wire) = wire[1] /\ Tail(wire) = SubSeq(wire, 1 + 1, Len(wire))
    BY <2>1 DEF w
  <2>5. CASE Head(wire).type = "JUNK" /\ MarkFailed
             /\ \E n \in 1..Len(wire) : wire' = SubSeq(wire, n + 1, Len(wire))
    BY <2>3, <2>5 DEF MarkFailed
  <2>6. CASE Head(wire).type = "BYE" /\ NotifyBye /\ wire' = Tail(wire)
    <3>1. state' = state /\ rpc' \in {"bye", "queueBye"}
      BY <2>6 DEF NotifyBye
    <3>2. QED BY <2>3, <2>4, <2>6, <3>1
  <2>7. CASE NotifyIncoming(Head(wire)) /\ wire' = Tail(wire)
    <3>1. state' = state /\ rpc' = "idle"
      BY <2>7 DEF NotifyIncoming
    <3>2. QED BY <2>3, <2>4, <2>7, <3>1
  <2>8. QED BY <1>3, <2>2, <2>5, <2>6, <2>7 DEF ReceiveResponse
<1>4. QED BY <1>1, <1>2, <1>3 DEF Thread

\* Appending what does not parse badly, or a BYE that ends the connection.
LEMMA ExtendedBye ==
    ASSUME PInv, ByeEnds, link = "open", NEW rs \in Seq(Piece),
           wire' = wire \o rs, UNCHANGED <<state, rpc, faults>>,
           \A i \in 1..Len(rs) : rs[i].type = "BYE" =>
              link' # "open" /\ \A j \in (i + 1)..Len(rs) : ~Fatal(rs[j])
    PROVE  ByeEnds'
<1> DEFINE w == wire
<1>1. w \in Seq(Piece) /\ wire' = w \o rs
  BY StreamType
<1>2. state # "SERVER_BYED" /\ rpc # "bye" /\ \A i \in 1..Len(w) : w[i].type # "BYE"
  BY DEF ByeEnds
<1> HIDE DEF w
<1>3. Len(w) \in Nat /\ Len(rs) \in Nat /\ Len(w \o rs) = Len(w) + Len(rs)
  BY <1>1, Joined
<1>4. ASSUME NEW i \in 1..Len(w \o rs), (w \o rs)[i].type = "BYE"
      PROVE  link' # "open" /\ \A j \in (i + 1)..Len(w \o rs) : ~Fatal((w \o rs)[j])
  <2>1. i > Len(w)
    BY <1>1, <1>2, <1>3, <1>4, Joined
  <2>2. i - Len(w) \in 1..Len(rs) /\ (w \o rs)[i] = rs[i - Len(w)]
    BY <1>1, <1>3, <2>1, Joined
  <2>3. link' # "open" /\ \A j \in (i - Len(w) + 1)..Len(rs) : ~Fatal(rs[j])
    BY <1>4, <2>2
  <2>4. ASSUME NEW j \in (i + 1)..Len(w \o rs)
        PROVE  ~Fatal((w \o rs)[j])
    <3>1. j - Len(w) \in (i - Len(w) + 1)..Len(rs) /\ j \in 1..Len(w \o rs) /\ j > Len(w)
      BY <1>3, <2>1
    <3>2. (w \o rs)[j] = rs[j - Len(w)]
      BY <1>1, <1>3, <3>1, Joined
    <3>3. QED BY <2>3, <3>1, <3>2
  <2>5. QED BY <2>3, <2>4
<1>5. QED BY <1>1, <1>2, <1>4 DEF ByeEnds, Fatal

LEMMA AnswerBye ==
    ASSUME PInv, ByeEnds, Answer, UNCHANGED <<state, rpc, faults>>,
           QuitInv, Sound \/ "torn" \notin faults
    PROVE  ByeEnds'
<1> USE DEF PInv
<1> DEFINE c == Head(inbox)
<1>1. inbox \in Seq(Command) /\ inbox # <<>> /\ link = "open"
  BY DEF Answer, NetVarsOK
<1>2. c \in Command /\ c = inbox[1] /\ 1 \in 1..Len(inbox)
  BY <1>1
<1>3. c.op # "greeting" /\ c.tag \in Nat /\ (c.op = "select" => c.mb \in Mailboxes)
  BY <1>2 DEF InboxInv
<1>4. PICK a \in Answers(c) : wire' = wire \o a.rs /\ link' = a.link
  BY DEF Answer
<1>5. a.rs \in Seq(Piece)
  <2>1. a.rs \in Seq(Response)
    BY <1>2, <1>3, AnswerTypes
  <2>2. QED BY <2>1 DEF Piece
<1>6. \A i \in 1..Len(a.rs) : a.rs[i].type = "BYE" =>
         link' # "open" /\ \A j \in (i + 1)..Len(a.rs) : ~Fatal(a.rs[j])
  <2>1. CASE c.op = "logout"
    <3>1. a.rs = <<Untagged("BYE", {}), Tagged("OK", c.tag)>> /\ a.link = "closed"
      BY <1>2, <2>1, LogoutAnswer
    <3>2. ~Fatal(Tagged("OK", c.tag))
      BY <1>2, <2>1 DEF QuitInv, Fatal, IsJunk, Tagged
    <3>3. \A i \in 1..2 : \A j \in (i + 1)..2 : j = 2
      OBVIOUS
    <3>4. QED BY <1>4, <3>1, <3>2, <3>3
  <2>2. CASE c.op # "logout"
    <3>1. WellFormed(c, a)
      BY <1>2, <1>3, <2>2, AnswersShape DEF Answered
    <3>2. Len(a.rs) \in Nat /\ Condition(c, a.rs[Len(a.rs)])
          /\ \A i \in 1..Len(a.rs) : i < Len(a.rs) => PlainPart(c, a.hits, selected, a.rs[i])
      BY <3>1 DEF WellFormed
    <3>3. \A r : Condition(c, r) \/ PlainPart(c, a.hits, selected, r) => r.type # "BYE"
      BY DEF Condition, PlainPart, Tagged
    <3>4. \A i \in 1..Len(a.rs) : a.rs[i].type # "BYE"
      BY <3>2, <3>3
    <3>5. QED BY <3>4
  <2>3. QED BY <2>1, <2>2
<1>7. QED BY <1>1, <1>4, <1>5, <1>6, ExtendedBye

LEMMA OneBye ==
    ASSUME PInv, ByeEnds, link = "open", NEW r \in Response, wire' = Append(wire, r),
           r.type = "BYE" => link' # "open", UNCHANGED <<state, rpc, faults>>
    PROVE  ByeEnds'
<1> DEFINE rs == <<r>>
<1>1. rs \in Seq(Piece) /\ Len(rs) = 1 /\ rs[1] = r
  BY DEF Piece
<1>2. wire' = wire \o rs
  BY StreamType
<1> HIDE DEF rs
<1>3. \A i \in 1..Len(rs) : rs[i].type = "BYE" =>
         link' # "open" /\ \A j \in (i + 1)..Len(rs) : ~Fatal(rs[j])
  BY <1>1
<1>4. QED BY <1>1, <1>2, <1>3, ExtendedBye

LEMMA ServerBye ==
    ASSUME PInv, ByeEnds, Server, QuitInv, Sound \/ "torn" \notin faults
    PROVE  ByeEnds'
<1>1. UNCHANGED <<state, rpc, faults>>
  BY DEF Server, vars, sharedVars
<1>2. CASE Greet
  <2>1. link = "open" /\ state # "SERVER_BYED" /\ rpc # "bye"
    BY <1>2 DEF Greet, ByeEnds
  <2>2. CASE wire' = <<Untagged("OK", {})>> \/ wire' = <<Untagged("PREAUTH", {}), Junk>>
    <3>1. \A i \in 1..Len(wire') : wire'[i].type # "BYE"
      BY <2>2 DEF Untagged, Junk
    <3>2. QED BY <1>1, <2>1, <3>1 DEF ByeEnds
  <2>3. CASE wire' = <<Untagged("BYE", {})>> /\ link' = "closed"
    <3>1. \A i \in 1..Len(wire') : \A j \in (i + 1)..Len(wire') : FALSE
      BY <2>3
    <3>2. QED BY <1>1, <2>1, <2>3, <3>1 DEF ByeEnds
  <2>4. QED BY <1>2, <2>2, <2>3 DEF Greet
<1>3. CASE Answer
  BY <1>1, <1>3, AnswerBye
<1>4. CASE Unasked
  <2>1. PICK type \in {"OTHER", "FETCH"} : wire' = Append(wire, Untagged(type, {}))
    BY <1>4 DEF Unasked
  <2>2. Untagged(type, {}) \in Response /\ Untagged(type, {}).type # "BYE"
    BY UntaggedType DEF ResponseType, Untagged
  <2>3. QED BY <1>1, <1>4, <2>1, <2>2, OneBye DEF Unasked
<1>5. CASE Leave
  <2>1. link = "open" /\ link' # "open"
    BY <1>5 DEF Leave
  <2>2. CASE wire' = wire
    BY <1>1, <2>1, <2>2 DEF ByeEnds, Fatal
  <2>3. CASE wire' = Append(wire, Untagged("BYE", {}))
    <3>1. Untagged("BYE", {}) \in Response
      BY UntaggedType DEF ResponseType
    <3>2. QED BY <1>1, <2>1, <2>3, <3>1, OneBye
  <2>4. QED BY <1>5, <2>2, <2>3 DEF Leave
<1>6. QED BY <1>2, <1>3, <1>4, <1>5 DEF Server

\* What the main thread writes into state is never SERVER_BYED.
LEMMA MainBye ==
    ASSUME PInv, ByeEnds,
           CallSession \/ Program \/ User \/ SessionStep \/ WakesForNothing \/ WaitExpires
    PROVE  ByeEnds'
<1>1. CASE CallSession
  <2>1. CallFrame
    BY <1>1, CallEffect
  <2>2. QED BY <2>1, SteadyBye DEF CallFrame, sharedVars, serverVars
<1>2. CASE Program \/ User
  BY <1>2, SteadyBye DEF Program, User, Outside, sharedVars, serverVars, netVars
<1>3. CASE SessionStep \/ WakesForNothing \/ WaitExpires
  <2>1. UNCHANGED <<wire, link, rpc, faults>>
    BY <1>3 DEF SessionStep, WakesForNothing, WaitExpires, MainStep, MarkLogout,
     Acquire, TestQueueOrError, TestByed, Reacquire, CheckError, CheckByedAndPop,
     SpuriousWakeup, Expire, Handle, serverVars, netVars
  <2>2. state' = "SERVER_BYED" => state = "SERVER_BYED"
    BY <1>3 DEF SessionStep, WakesForNothing, WaitExpires, MainStep, MarkLogout,
     Acquire, TestQueueOrError, TestByed, Reacquire, CheckError, CheckByedAndPop,
     SpuriousWakeup, Expire, sharedVars, Handle, HandleGreeting,
     HandleLogin, HandleSelect, HandleSearch, HandleFetch, HandleRead, HandleLogout,
     WaitAgain, Accept, Reject
  <2>3. QED BY <2>1, <2>2, SteadyBye
<1>4. QED BY <1>1, <1>2, <1>3

LEMMA NextByeInv ==
    ASSUME PInv, QuitInv, ByeInv, [ProgramNext]_allVars PROVE ByeInv'
<1> SUFFICES ASSUME Sound' \/ "torn" \notin faults' PROVE ByeEnds'
  BY DEF ByeInv
<1>1. Sound \/ "torn" \notin faults
  BY SoundStays, LinkStays
<1>2. ByeEnds
  BY <1>1 DEF ByeInv
<1>3. CASE UNCHANGED allVars
  BY <1>2, <1>3, SteadyBye DEF allVars, vars, sharedVars, netVars, serverVars
<1>4. QED BY <1>1, <1>2, <1>3, ThreadBye, ServerBye, MainBye DEF ProgramNext
-----------------------------------------------------------------------------
(* Undefined behaviour. *)

\* Only the end of recv() itself replaces a BYE before the main thread sees it.
LEMMA ByedStays ==
    ASSUME PInv, ByeEnds, Thread, pc = "check2", state = "SERVER_BYED",
           state' = "RECEIVER_ERROR"
    PROVE  link = "reset"
<1>1. mutex = "main" /\ rpc \notin {"bye", "queueBye"}
  BY DEF PInv, IInv, MutexInv, Critical
<1>2. ~NotifyBye /\ ~MarkByed /\ ~QueueBye /\ \A r : ~NotifyIncoming(r)
  BY <1>1 DEF NotifyBye, MarkByed, QueueBye, NotifyIncoming
<1>3. \A i \in 1..Len(wire) : ~Fatal(wire[i])
  BY DEF ByeEnds
<1>4. ~ReceiveResponse
  <2> SUFFICES ASSUME ReceiveResponse PROVE FALSE
    OBVIOUS
  <2>1. wire # <<>> /\ wire \in Seq(Piece)
    BY StreamType DEF ReceiveResponse
  <2>2. Head(wire) = wire[1] /\ 1 \in 1..Len(wire)
    BY <2>1
  <2>3. Fatal(Head(wire))
    BY <1>2 DEF ReceiveResponse, Fatal, IsJunk
  <2>4. QED BY <1>3, <2>2, <2>3
<1>5. ReceiveFails
  BY <1>2, <1>4 DEF Thread, ThreadStarts, ReceiveNothing, CallbackStep, ReceiverStep,
     NotifyFailed, vars, sharedVars
<1>6. QED BY <1>5 DEF ReceiveFails

LEMMA ThreadResetInv == ASSUME PInv, ByeInv, ResetInv, Thread PROVE ResetInv'
<1>1. UNCHANGED <<link, astray, at, faults>> /\ pc # "crashed"
  BY DEF Thread, ThreadStarts, ReceiveResponse, ReceiveNothing, ReceiveFails, CallbackStep,
     serverVars, programVars, Dead
<1>2. pc' = pc \/ (pc = "blocked" /\ pc' = "woken")
  BY DEF Thread, ThreadStarts, ReceiveResponse, ReceiveNothing, ReceiveFails, CallbackStep,
     ReceiverStep, MarkFailed, NotifyBye, NotifyIncoming, MarkByed, QueueBye,
     NotifyFailed, Wake, vars
<1>3. ASSUME pc = "check2", queue' = <<>>, state' = "RECEIVER_ERROR"
      PROVE  link = "reset" \/ ("torn" \in faults /\ ~Sound)
  <2>1. mutex = "main" /\ rpc \notin {"bye", "queueBye"}
    BY <1>3 DEF PInv, IInv, MutexInv, Critical
  <2>2. ~NotifyBye /\ ~MarkByed /\ ~QueueBye /\ \A r : ~NotifyIncoming(r)
    BY <2>1 DEF NotifyBye, MarkByed, QueueBye, NotifyIncoming
  <2>3. queue' = queue
    BY <2>2 DEF Thread, ThreadStarts, ReceiveResponse, ReceiveNothing, ReceiveFails,
       CallbackStep, ReceiverStep, MarkFailed, NotifyFailed, vars, sharedVars
  <2>4. state \in {"SERVER_BYED", "RECEIVER_ERROR"}
    BY <1>3, <2>3 DEF PInv, IInv, WaitInv, PopIsGuarded
  <2>5. state = "SERVER_BYED" => link = "reset" \/ ("torn" \in faults /\ ~Sound)
    BY <1>3, ByedStays DEF ByeInv
  <2>6. QED BY <1>3, <2>3, <2>4, <2>5 DEF ResetInv
<1>4. QED BY <1>1, <1>2, <1>3 DEF ResetInv, NoCrash, Sound, Mangled

\* An OK to SEARCH finds the numbers there, unless replies are mixed up.
LEMMA SearchDoesNotCrash ==
    ASSUME PInv, ReplyInv \/ Forgone, Handle, ~astray, ~Mangled, ~Dead
    PROVE  pc' # "crashed"
<1> SUFFICES ASSUME pc' = "crashed" PROVE FALSE
  OBVIOUS
<1>1. /\ pc = "handle" /\ cmd.op = "search" /\ found = {}
      /\ resp.type = "OK" /\ resp.tag # NoTag
  BY DEF Handle, HandleGreeting, HandleLogin, HandleSelect, HandleSearch, HandleFetch,
     HandleRead, HandleLogout, WaitAgain, Accept, Reject, Finish
<1>2. at \in {"search", "csearch"}
  BY <1>1 DEF PInv, CallInv, Calls, Dead
<1>3. Sound /\ Pending
  BY <1>1, <1>2 DEF Sound, Live, Pending, Place, Startup
<1>4. 1 \in 1..Len(Stream) /\ Stream[1].type = "OK"
  BY <1>1, HeldStream
<1>4a. ReplyInv
  BY <1>1 DEF Forgone, Dull
<1>5. \A i \in 1..Len(Stream) : Stream[i].type = "OK" =>
         found # {} \/ \E j \in 1..(i - 1) : Stream[j].type = "SEARCH"
  BY <1>1, <1>3, <1>4a DEF ReplyInv, SearchInv
<1>6. found # {} \/ \E j \in 1..(1 - 1) : Stream[j].type = "SEARCH"
  BY <1>4, <1>5
<1>7. QED BY <1>1, <1>6

LEMMA InsideResetInv ==
    ASSUME PInv, ReplyInv \/ Forgone, ResetInv, SessionStep PROVE ResetInv'
<1>1. UNCHANGED <<link, astray, at, faults>> /\ MainStep /\ ~Dead
  BY DEF SessionStep, serverVars, programVars, Dead
<1>2. CASE CheckByedAndPop
  <2>1. pc' # "check2"
    BY <1>2 DEF CheckByedAndPop, Finish
  <2>2. pc' = "crashed" => pc = "check2" /\ queue = <<>> /\ state # "SERVER_BYED"
    BY <1>2 DEF CheckByedAndPop, Finish
  <2>3. pc' = "crashed" => link = "reset" \/ ("torn" \in faults /\ ~Sound)
    BY <2>2 DEF PInv, IInv, WaitInv, PopIsGuarded, ResetInv
  <2>4. pc' = "crashed" => at \in CallPlace
    BY <1>1, <2>2 DEF PInv, CallInv, Dead
  <2>5. at \in CallPlace /\ ~Sound => astray \/ link = "reset" \/ at \in {"quit", "eof"}
    BY DEF Sound, Mangled, Live, CallPlace, Place, Startup
  <2>6. QED BY <1>1, <2>1, <2>3, <2>4, <2>5 DEF ResetInv, NoCrash
<1>3. CASE Handle
  <2>1. pc' # "check2"
    BY <1>3 DEF Handle, HandleGreeting, HandleLogin, HandleSelect, HandleSearch,
       HandleFetch, HandleRead, HandleLogout, WaitAgain, Accept, Reject, Finish
  <2>2. pc' = "crashed" => astray \/ link = "reset"
    BY <1>1, <1>3, SearchDoesNotCrash DEF Mangled
  <2>3. QED BY <1>1, <2>1, <2>2 DEF ResetInv, NoCrash
<1>4. CASE ~CheckByedAndPop /\ ~Handle
  <2>1. pc' # "crashed" /\ (pc' = "check2" => state' # "RECEIVER_ERROR")
    BY <1>1, <1>4 DEF MainStep, MarkLogout, Acquire, TestQueueOrError, TestByed, Reacquire,
       CheckError, Finish
  <2>2. QED BY <2>1 DEF ResetInv, NoCrash
<1>5. QED BY <1>2, <1>3, <1>4

LEMMA NextResetInv ==
    ASSUME PInv, ReplyInv \/ Forgone, ByeInv, ResetInv, [ProgramNext]_allVars
    PROVE  ResetInv'
<1>1. CASE CallSession
  <2>1. CallFrame /\ (Sent \/ Unsent)
    BY <1>1, CallEffect
  <2>2. pc' \in {"idle", "mark", "lock"}
    BY <2>1 DEF Sent, Unsent
  <2>3. QED BY <2>2 DEF ResetInv, NoCrash
<1>2. CASE Program \/ User
  <2>1. pc' = pc /\ pc # "crashed" /\ UNCHANGED <<queue, state>>
    BY <1>2 DEF Program, User, Outside, Dead, sharedVars
  <2>2. QED BY <2>1, LinkStays, SoundStays DEF ResetInv, NoCrash
<1>3. CASE WakesForNothing \/ WaitExpires
  <2>1. pc' = "woken"
    BY <1>3 DEF WakesForNothing, WaitExpires, SpuriousWakeup, Expire
  <2>2. QED BY <2>1 DEF ResetInv, NoCrash
<1>4. CASE Server \/ UNCHANGED allVars
  <2>1. UNCHANGED <<pc, queue, state, astray, at>>
    BY <1>4 DEF Server, allVars, vars, programVars, sharedVars
  <2>2. QED BY <2>1, LinkStays, SoundStays DEF ResetInv, NoCrash
<1>5. QED BY <1>1, <1>2, <1>3, <1>4, ThreadResetInv, InsideResetInv DEF ProgramNext
-----------------------------------------------------------------------------
(* Waiting and receiving. *)

LEMMA KeptStream ==
    ASSUME pc # "handle", pc' # "handle", UNCHANGED <<queue, wire>>
    PROVE  Stream' = Stream
BY DEF Stream, Received, Hand

LEMMA PoppedStream ==
    ASSUME PInv, pc # "handle", pc' = "handle", queue # <<>>, resp' = Head(queue),
           queue' = Tail(queue), wire' = wire
    PROVE  Stream' = Stream
<1> DEFINE q == queue
<1>1. q \in Seq(Response) /\ q # <<>>
  BY DEF PInv, IInv, TypeOK
<1>2. Received' = <<Head(q)>> \o Tail(q) /\ Received = <<>> \o q
  BY DEF Received, Hand
<1> HIDE DEF q
<1>3. <<Head(q)>> \o Tail(q) = q /\ <<>> \o q = q
  BY <1>1
<1>4. QED BY <1>2, <1>3 DEF Stream

LEMMA QueuedStream ==
    ASSUME PInv, NEW r \in Response, queue' = Append(queue, r), resp' = resp,
           pc' = "handle" <=> pc = "handle"
    PROVE  Received' = Append(Received, r)
<1> DEFINE q == queue
<1>1. q \in Seq(Response) /\ resp \in Response
  BY DEF PInv, IInv, TypeOK
<1>2. queue' = Append(q, r)
  OBVIOUS
<1> HIDE DEF q
<1>3. <<>> \o Append(q, r) = Append(<<>> \o q, r)
      /\ <<resp>> \o Append(q, r) = Append(<<resp>> \o q, r)
  BY <1>1
<1>4. QED BY <1>2, <1>3 DEF Received, Hand, q

\* The steps of wait_for_response that do not end the call.
LEMMA WaitingReply ==
    ASSUME PInv, ReplyInv, SessionStep \/ WakesForNothing \/ WaitExpires, ~Handle
    PROVE  ReplyInv'
<1>1. UNCHANGED <<astray, at, hits, selected, inbox, link, greeted, faults, wire>>
  BY DEF SessionStep, WakesForNothing, WaitExpires, programVars, serverVars, netVars
<1>2. CASE CheckByedAndPop /\ pc' = "handle"
  <2>1. /\ pc = "check2" /\ UNCHANGED <<cmd, found, mailbox>>
        /\ queue # <<>> /\ resp' = Head(queue) /\ queue' = Tail(queue)
        /\ outcome' = outcome
    BY <1>2 DEF CheckByedAndPop, Finish
  <2>2. Stream' = Stream
    BY <1>1, <1>2, <2>1, PoppedStream
  <2>3. QED BY <1>1, <1>2, <2>1, <2>2, SteadyReply DEF Views
<1>3. CASE ~(CheckByedAndPop /\ pc' = "handle")
  <2>1. /\ UNCHANGED <<cmd, found, mailbox, queue>>
        /\ pc # "idle" /\ pc # "handle" /\ pc' # "handle"
        /\ \/ outcome' = outcome /\ pc' # "idle"
           \/ pc' = "idle" /\ outcome' \in {"timeout", "failed", "byed"}
    BY <1>3 DEF SessionStep, WakesForNothing, WaitExpires, MainStep, MarkLogout,
       Acquire, TestQueueOrError, TestByed, Reacquire, CheckError, CheckByedAndPop,
       SpuriousWakeup, Expire, sharedVars, callVars, Finish
  <2>2. Stream' = Stream
    BY <1>1, <2>1, KeptStream
  <2>3. CASE outcome' = outcome /\ pc' # "idle"
    BY <1>1, <2>1, <2>2, <2>3, SteadyReply DEF Views
  <2>4. CASE pc' = "idle" /\ outcome' \in {"timeout", "failed", "byed"}
    BY <2>4, FailedReply
  <2>5. QED BY <2>1, <2>3, <2>4
<1>4. QED BY <1>2, <1>3

\* What is left of a sequence that was cut stands in the same order.
LEMMA CutOrder ==
    ASSUME NEW s \in Seq(Piece), NEW t \in Seq(Piece), NEW n, NEW k, Cut(s, t, n, k),
           NEW i \in 1..Len(t)
    PROVE  \E j \in 1..Len(s) :
              /\ t[i] = s[j] /\ (i <= n => j = i) /\ (i > n => j = i + k)
              /\ \A i2 \in (i + 1)..Len(t) : \E j2 \in (j + 1)..Len(s) : t[i2] = s[j2]
<1> DEFINE f(x) == IF x <= n THEN x ELSE x + k
<1>1. /\ n \in Nat /\ k \in Nat /\ n + k <= Len(s) /\ Len(t) = Len(s) - k
      /\ \A x \in 1..Len(t) : t[x] = s[f(x)]
  BY DEF Cut
<1>2. \A x \in 1..Len(t) : f(x) \in 1..Len(s)
  BY <1>1
<1>3. \A x \in (i + 1)..Len(t) : x \in 1..Len(t) /\ f(x) \in (f(i) + 1)..Len(s)
  BY <1>1
<1>4. (i <= n => f(i) = i) /\ (i > n => f(i) = i + k)
  BY <1>1
<1> HIDE DEF f
<1>5. \A i2 \in (i + 1)..Len(t) : \E j2 \in (f(i) + 1)..Len(s) : t[i2] = s[j2]
  BY <1>1, <1>3
<1>6. t[i] = s[f(i)] /\ f(i) \in 1..Len(s)
  BY <1>1, <1>2
<1>7. QED BY <1>4, <1>5, <1>6

\* A BYE, or the junk behind a PREAUTH and what follows it, is taken from the wire.
LEMMA CutReply ==
    ASSUME PInv, ReplyInv, UNCHANGED Views, pc' = "idle" <=> pc = "idle",
           NEW n, NEW k, Cut(Stream, Stream', n, k), Stream' \in Seq(Piece),
           n < Len(Stream),
           \/ k = 1 /\ Stream[n + 1].type = "BYE"
           \/ IsJunk(Stream[n + 1]) /\ "torn" \notin faults
    PROVE  ReplyInv'
<1> USE DEF ReplyInv, Views
<1> DEFINE s == Stream  t == Stream'
<1>0. /\ s \in Seq(Piece) /\ t \in Seq(Piece) /\ Cut(s, t, n, k) /\ n < Len(s)
      /\ \/ k = 1 /\ s[n + 1].type = "BYE"
         \/ IsJunk(s[n + 1]) /\ "torn" \notin faults
  BY StreamType
<1>1. /\ Sound' <=> Sound
      /\ Welcome' <=> Welcome
      /\ Settled' <=> Settled
      /\ Pending' <=> Pending
  BY DEF Sound, Mangled, Welcome, Settled, Pending
<1>2. \A i \in 1..Len(t) : \E j \in 1..Len(s) :
         /\ t[i] = s[j] /\ (i <= n => j = i) /\ (i > n => j = i + k)
         /\ \A i2 \in (i + 1)..Len(t) : \E j2 \in (j + 1)..Len(s) : t[i2] = s[j2]
  BY <1>0, CutOrder
<1>3. n \in Nat /\ k \in Nat /\ Len(t) = Len(s) - k /\ n + k <= Len(s) /\ Len(s) \in Nat
  BY <1>0 DEF Cut
<1>4. n + 1 \in 1..Len(s)
  BY <1>0, <1>3
<1> HIDE DEF s, t
<1>5. ASSUME Sound, ~Welcome, outcome = "none" PROVE GreetingInv'
  <2>1. /\ inbox = <<>>
        /\ link = "open" /\ ~greeted => s = <<>>
        /\ \A i \in 1..Len(s) :
              Noise(s[i]) \/ IsJunk(s[i]) \/ (i = 1 /\ greeted /\ IsGreeting(s[i]))
    BY <1>5 DEF GreetingInv, s
  <2>2. ~(link = "open" /\ ~greeted)
    BY <1>0, <1>3, <2>1
  <2>3. ASSUME NEW i \in 1..Len(t)
        PROVE  Noise(t[i]) \/ IsJunk(t[i]) \/ (i = 1 /\ greeted /\ IsGreeting(t[i]))
    <3>1. PICK j \in 1..Len(s) : t[i] = s[j] /\ (i <= n => j = i) /\ (i > n => j = i + k)
      BY <1>2
    <3>2. j = 1 => i = 1
      BY <1>3, <3>1
    <3>3. Noise(s[j]) \/ IsJunk(s[j]) \/ (j = 1 /\ greeted /\ IsGreeting(s[j]))
      BY <2>1, <3>1
    <3>4. QED BY <3>1, <3>2, <3>3
  <2>4. QED BY <1>1, <2>1, <2>2, <2>3 DEF GreetingInv, t
<1>6. GreetingInv'
  <2>1. CASE Sound /\ ~Welcome /\ outcome = "none"
    BY <1>5, <2>1
  <2>2. QED BY <1>1, <2>1 DEF GreetingInv
<1>7. SettledInv'
  <2>1. Sound /\ Welcome /\ Settled => \A i \in 1..Len(s) : Rest(s[i])
    BY DEF SettledInv, s
  <2>2. Sound /\ Welcome /\ Settled => \A i \in 1..Len(t) : Rest(t[i])
    BY <1>2, <2>1
  <2>3. QED BY <1>1, <2>2 DEF SettledInv, Rest, Idle, t
<1>8. PendingInv'
  <2> SUFFICES ASSUME Sound, Welcome, Pending PROVE PendingInv'
    BY <1>1 DEF PendingInv
  <2>1. /\ greeted /\ (inbox = <<>> \/ inbox = <<cmd>>)
        /\ \A i \in 1..Len(s) :
              \/ Part(s[i])
              \/ /\ Condition(cmd, s[i]) /\ inbox = <<>>
                 /\ \A j \in (i + 1)..Len(s) : Idle(s[j])
    BY DEF PendingInv, s
  <2>2. \A i \in 1..Len(t) :
              \/ Part(t[i])
              \/ /\ Condition(cmd, t[i]) /\ inbox = <<>>
                 /\ \A j \in (i + 1)..Len(t) : Idle(t[j])
    <3> SUFFICES ASSUME NEW i \in 1..Len(t), ~Part(t[i])
                 PROVE  /\ Condition(cmd, t[i]) /\ inbox = <<>>
                        /\ \A j \in (i + 1)..Len(t) : Idle(t[j])
      OBVIOUS
    <3>1. PICK j \in 1..Len(s) :
             /\ t[i] = s[j]
             /\ \A i2 \in (i + 1)..Len(t) : \E j2 \in (j + 1)..Len(s) : t[i2] = s[j2]
      BY <1>2
    <3>2. /\ Condition(cmd, s[j]) /\ inbox = <<>>
          /\ \A j2 \in (j + 1)..Len(s) : Idle(s[j2])
      BY <2>1, <3>1
    <3>3. QED BY <3>1, <3>2
  <2>3. QED BY <1>1, <2>1, <2>2 DEF PendingInv, Part, Belongs, Idle, PlainPart, t
<1>9. SearchInv'
  <2> SUFFICES ASSUME Sound, Pending, cmd.op = "search" PROVE SearchInv'
    BY <1>1 DEF SearchInv
  <2>1. Welcome
    BY DEF Welcome, PInv, CallInv, Calls, Pending
  <2>2. ASSUME IsJunk(s[n + 1]), "torn" \notin faults PROVE FALSE
    <3>1. Part(s[n + 1]) \/ Condition(cmd, s[n + 1])
      BY <1>4, <2>1 DEF PendingInv, s
    <3>2. ~Part(s[n + 1])
      BY <2>2 DEF Part, Belongs, Idle, Noise, IsJunk
    <3>3. ~Condition(cmd, s[n + 1])
      BY <2>2 DEF Condition, Tagged, IsJunk
    <3>4. QED BY <3>1, <3>2, <3>3
  <2>3. k = 1 /\ s[n + 1].type = "BYE"
    BY <1>0, <2>2
  <2>4. /\ found \subseteq {hits}
        /\ inbox # <<>> =>
              found = {} /\ \A i \in 1..Len(s) : s[i].type # "SEARCH"
    BY DEF SearchInv, s
  <2>5. \A i \in 1..Len(s) : s[i].type = "OK" =>
             found # {} \/ \E j \in 1..(i - 1) : s[j].type = "SEARCH"
    BY DEF SearchInv, s
  <2>6. ASSUME NEW i \in 1..Len(t), t[i].type = "OK", found = {}
        PROVE  \E j \in 1..(i - 1) : t[j].type = "SEARCH"
    <3>1. CASE i <= n
      <4>1. t[i] = s[i] /\ i \in 1..Len(s)
        BY <1>2, <3>1
      <4>2. PICK j \in 1..(i - 1) : s[j].type = "SEARCH"
        BY <2>5, <2>6, <4>1
      <4>3. j \in 1..Len(t) /\ j <= n
        BY <1>3, <3>1
      <4>4. t[j] = s[j]
        BY <1>2, <4>3
      <4>5. QED BY <4>2, <4>4
    <3>2. CASE i > n
      <4>1. t[i] = s[i + 1] /\ i + 1 \in 1..Len(s)
        BY <1>2, <2>3, <3>2
      <4>2. PICK j \in 1..i : s[j].type = "SEARCH"
        BY <2>5, <2>6, <4>1
      <4>3. j # n + 1
        BY <2>3, <4>2
      <4>4. CASE j <= n
        <5>1. j \in 1..Len(t) /\ j \in 1..(i - 1)
          BY <1>3, <3>2, <4>4
        <5>2. t[j] = s[j]
          BY <1>2, <4>4, <5>1
        <5>3. QED BY <4>2, <5>1, <5>2
      <4>5. CASE j > n + 1
        <5>1. j - 1 \in 1..Len(t) /\ j - 1 \in 1..(i - 1) /\ j - 1 > n
          BY <1>3, <3>2, <4>5
        <5>2. t[j - 1] = s[j]
          BY <1>2, <2>3, <5>1
        <5>3. QED BY <4>2, <5>1, <5>2
      <4>6. QED BY <1>3, <4>3, <4>4, <4>5
    <3>3. QED BY <1>3, <3>1, <3>2
  <2>8. inbox # <<>> => \A i \in 1..Len(t) : t[i].type # "SEARCH"
    BY <1>2, <2>4
  <2>9. QED BY <1>1, <2>4, <2>6, <2>8 DEF SearchInv, t
<1>10. AgreeInv'
  <2>1. Sound /\ Pending /\ cmd.op = "select" =>
          \A i \in 1..Len(s) : s[i].type = "OK" => selected = cmd.mb
    BY DEF AgreeInv, s
  <2>2. Sound /\ Pending /\ cmd.op = "select" =>
          \A i \in 1..Len(t) : t[i].type = "OK" => selected = cmd.mb
    BY <1>2, <2>1
  <2>3. Sound /\ (Settled \/ (Pending /\ cmd.op # "select")) => mailbox = selected
    BY DEF AgreeInv
  <2>4. QED BY <1>1, <2>2, <2>3 DEF AgreeInv, t
<1>11. QED BY <1>6, <1>7, <1>8, <1>9, <1>10

(* A response is torn, or what is left of one is thrown away, but not the  *)
(* end of the answer to the call in progress: that was received.           *)
LEMMA MangledReply ==
    ASSUME PInv, ReplyInv, UNCHANGED Views, pc' = "idle" <=> pc = "idle",
           "torn" \in faults, Stream' \in Seq(Piece),
           Mangles(Stream, Stream', Len(Received)),
           Sound /\ Welcome /\ Pending => \E k \in 1..Len(Received) : ~Part(Stream[k])
    PROVE  ReplyInv'
<1> USE DEF ReplyInv, Views
<1> DEFINE s == Stream  t == Stream'  n == Len(Received)
<1>1. /\ Sound' <=> Sound
      /\ Welcome' <=> Welcome
      /\ Settled' <=> Settled
      /\ Pending' <=> Pending
  BY DEF Sound, Mangled, Welcome, Settled, Pending
<1>2. n \in Nat /\ Len(s) \in Nat /\ Len(t) \in Nat
  BY StreamType
<1>3. n + 1 \in 1..Len(s) /\ n <= Len(t) /\ \A i \in 1..n : t[i] = s[i]
  BY DEF Mangles
<1>4. \A i \in 1..Len(t) :
         i <= n \/ t[i] = Junk \/ CutFrom(t[i], s[n + 1])
            \/ \E j \in (n + 2)..Len(s) : t[i] = s[j]
  BY DEF Mangles
<1> HIDE DEF s, t, n
<1>5. \A r : IsJunk(Junk)
  BY DEF IsJunk, Junk
<1>6. \A r : r.tag = NoTag \/ IsJunk(r) => \A r2 : ~CutFrom(r2, r)
  BY DEF CutFrom, IsJunk
<1>7. GreetingInv'
  <2> SUFFICES ASSUME Sound, ~Welcome, outcome = "none" PROVE GreetingInv'
    BY <1>1 DEF GreetingInv
  <2>1. /\ inbox = <<>>
        /\ link = "open" /\ ~greeted => s = <<>>
        /\ \A i \in 1..Len(s) :
              Noise(s[i]) \/ IsJunk(s[i]) \/ (i = 1 /\ greeted /\ IsGreeting(s[i]))
    BY DEF GreetingInv, s
  <2>2. ~(link = "open" /\ ~greeted)
    BY <1>2, <1>3, <2>1
  <2>3. s[n + 1].tag = NoTag \/ IsJunk(s[n + 1])
    BY <1>3, <2>1 DEF Noise, IsGreeting
  <2>4. ASSUME NEW i \in 1..Len(t)
        PROVE  Noise(t[i]) \/ IsJunk(t[i]) \/ (i = 1 /\ greeted /\ IsGreeting(t[i]))
    <3>1. CASE i <= n
      <4>1. i \in 1..Len(s) /\ t[i] = s[i]
        BY <1>2, <1>3, <3>1
      <4>2. QED BY <2>1, <4>1
    <3>2. CASE t[i] = Junk
      BY <1>5, <3>2
    <3>3. CASE \E j \in (n + 2)..Len(s) : t[i] = s[j]
      <4>1. PICK j \in (n + 2)..Len(s) : t[i] = s[j]
        BY <3>3
      <4>2. j \in 1..Len(s) /\ j # 1
        BY <1>2
      <4>3. QED BY <2>1, <4>1, <4>2
    <3>4. QED BY <1>4, <1>6, <2>3, <3>1, <3>2, <3>3
  <2>5. QED BY <1>1, <2>1, <2>2, <2>4 DEF GreetingInv, t
<1>8. SettledInv'
  <2> SUFFICES ASSUME Sound, Welcome, Settled PROVE SettledInv'
    BY <1>1 DEF SettledInv
  <2>1. greeted /\ inbox = <<>> /\ \A i \in 1..Len(s) : Rest(s[i])
    BY DEF SettledInv, s
  <2>2. s[n + 1].tag = NoTag \/ IsJunk(s[n + 1])
    BY <1>3, <2>1 DEF Rest, Idle, Noise
  <2>3. Rest(Junk)
    BY <1>5 DEF Rest, Idle
  <2>4. ASSUME NEW i \in 1..Len(t) PROVE Rest(t[i])
    <3>1. CASE i <= n
      <4>1. i \in 1..Len(s) /\ t[i] = s[i]
        BY <1>2, <1>3, <3>1
      <4>2. QED BY <2>1, <4>1
    <3>2. CASE \E j \in (n + 2)..Len(s) : t[i] = s[j]
      <4>1. PICK j \in (n + 2)..Len(s) : t[i] = s[j]
        BY <3>2
      <4>2. j \in 1..Len(s)
        BY <1>2
      <4>3. QED BY <2>1, <4>1, <4>2
    <3>3. QED BY <1>4, <1>6, <2>2, <2>3, <3>1, <3>2
  <2>5. QED BY <1>1, <2>1, <2>4 DEF SettledInv, Rest, Idle, t
<1>9. ASSUME Sound, Welcome, Pending
      PROVE  /\ greeted /\ inbox = <<>>
             /\ \A i \in 1..Len(t) : (i > n => Idle(t[i])) /\ (i <= n => t[i] = s[i])
             /\ \A i \in 1..n :
                   \/ Part(t[i])
                   \/ /\ Condition(cmd, t[i])
                      /\ \A j \in (i + 1)..Len(t) : Idle(t[j])
  <2>1. /\ greeted
        /\ \A i \in 1..Len(s) :
              \/ Part(s[i])
              \/ /\ Condition(cmd, s[i]) /\ inbox = <<>>
                 /\ \A j \in (i + 1)..Len(s) : Idle(s[j])
    BY <1>9 DEF PendingInv, s
  <2>2. PICK k \in 1..n : ~Part(s[k])
    BY <1>9 DEF s, n
  <2>3. k \in 1..Len(s) /\ n + 1 \in (k + 1)..Len(s)
        /\ \A j \in (n + 2)..Len(s) : j \in (k + 1)..Len(s)
    BY <1>2, <1>3
  <2>4. inbox = <<>> /\ \A j \in (k + 1)..Len(s) : Idle(s[j])
    BY <2>1, <2>2, <2>3
  <2>5. s[n + 1].tag = NoTag \/ IsJunk(s[n + 1])
    BY <2>3, <2>4 DEF Idle, Noise
  <2>6. Idle(Junk)
    BY <1>5 DEF Idle
  <2>7. ASSUME NEW i \in 1..Len(t), i > n PROVE Idle(t[i])
    <3>1. ~(i <= n)
      BY <1>2, <2>7
    <3>2. CASE \E j \in (n + 2)..Len(s) : t[i] = s[j]
      BY <2>3, <2>4, <3>2
    <3>3. QED BY <1>4, <1>6, <2>5, <2>6, <3>1, <3>2
  <2>8. ASSUME NEW i \in 1..n
        PROVE  \/ Part(t[i])
               \/ /\ Condition(cmd, t[i])
                  /\ \A j \in (i + 1)..Len(t) : Idle(t[j])
    <3>1. i \in 1..Len(s) /\ t[i] = s[i]
      BY <1>2, <1>3
    <3>2. CASE \A j \in (i + 1)..Len(s) : Idle(s[j])
      <4>1. ASSUME NEW j \in (i + 1)..Len(t) PROVE Idle(t[j])
        <5>1. CASE j <= n
          <6>1. j \in (i + 1)..Len(s) /\ j \in 1..n
            BY <1>2, <1>3, <5>1
          <6>2. QED BY <1>3, <3>2, <6>1
        <5>2. CASE j > n
          <6>1. j \in 1..Len(t)
            BY <1>2
          <6>2. QED BY <2>7, <5>2, <6>1
        <5>3. QED BY <1>2, <5>1, <5>2
      <4>2. QED BY <2>1, <3>1, <4>1
    <3>3. QED BY <2>1, <3>1, <3>2
  <2>9. \A i \in 1..Len(t) : i <= n => t[i] = s[i]
    BY <1>2, <1>3
  <2>10. QED BY <2>1, <2>4, <2>7, <2>8, <2>9
<1>10. PendingInv'
  <2> SUFFICES ASSUME Sound, Welcome, Pending PROVE PendingInv'
    BY <1>1 DEF PendingInv
  <2>1. \A i \in 1..Len(t) : i > n \/ i \in 1..n
    BY <1>2
  <2>2. \A r : Idle(r) => Part(r)
    BY DEF Part, Belongs
  <2>3. \A i \in 1..Len(t) :
              \/ Part(t[i])
              \/ /\ Condition(cmd, t[i]) /\ inbox = <<>>
                 /\ \A j \in (i + 1)..Len(t) : Idle(t[j])
    BY <1>9, <2>1, <2>2
  <2>4. QED BY <1>1, <1>9, <2>3 DEF PendingInv, Part, Belongs, Idle, PlainPart, t
<1>11. Sound /\ Pending /\ cmd.op \in {"search", "select"} => Welcome
  BY DEF PInv, CallInv, Calls, Welcome, Pending, Sound, Live
<1>12. \A r : Idle(r) => r.type # "OK"
  BY DEF Idle, Noise, IsJunk
<1>13. ASSUME Sound, Welcome, Pending, NEW i \in 1..Len(t), t[i].type = "OK"
       PROVE  i <= n /\ i \in 1..Len(s) /\ t[i] = s[i]
  <2>1. ~(i > n)
    BY <1>9, <1>12, <1>13
  <2>2. i <= n
    BY <1>2, <2>1
  <2>3. QED BY <1>2, <1>3, <2>2
<1>14. SearchInv'
  <2> SUFFICES ASSUME Sound, Pending, cmd.op = "search" PROVE SearchInv'
    BY <1>1 DEF SearchInv
  <2>1. Welcome /\ inbox = <<>>
    BY <1>9, <1>11
  <2>2. /\ found \subseteq {hits}
        /\ \A i \in 1..Len(s) : s[i].type = "OK" =>
              found # {} \/ \E j \in 1..(i - 1) : s[j].type = "SEARCH"
    BY DEF SearchInv, s
  <2>3. ASSUME NEW i \in 1..Len(t), t[i].type = "OK", found = {}
        PROVE  \E j \in 1..(i - 1) : t[j].type = "SEARCH"
    <3>1. i <= n /\ i \in 1..Len(s) /\ t[i] = s[i]
      BY <1>13, <2>1, <2>3
    <3>2. PICK j \in 1..(i - 1) : s[j].type = "SEARCH"
      BY <2>2, <2>3, <3>1
    <3>3. j \in 1..n
      BY <1>2, <3>1
    <3>4. QED BY <1>3, <3>2, <3>3
  <2>4. QED BY <1>1, <2>1, <2>2, <2>3 DEF SearchInv, t
<1>15. AgreeInv'
  <2>1. Sound /\ (Settled \/ (Pending /\ cmd.op # "select")) => mailbox = selected
    BY DEF AgreeInv
  <2>2. ASSUME Sound, Pending, cmd.op = "select", NEW i \in 1..Len(t), t[i].type = "OK"
        PROVE  selected = cmd.mb
    <3>1. Welcome
      BY <1>11, <2>2
    <3>2. i \in 1..Len(s) /\ s[i].type = "OK"
      BY <1>13, <2>2, <3>1
    <3>3. QED BY <2>2, <3>2 DEF AgreeInv, s
  <2>3. QED BY <1>1, <2>1, <2>2 DEF AgreeInv, t
<1>16. QED BY <1>7, <1>8, <1>10, <1>14, <1>15

(* A response is torn, or what is left of one is thrown away, while the    *)
(* end of the answer to the call in progress may still be on its way.      *)
LEMMA ForgoneBegins ==
    ASSUME PInv, ByeInv, ResetInv, Sound, Pending, "torn" \in faults,
           Thread, MarkFailed, UNCHANGED Views, resp' = resp,
           \A k \in 1..Len(Received) : Part(Received[k])
    PROVE  Forgone'
<1>1. /\ state' = "RECEIVER_ERROR" /\ queue' = queue
      /\ pc' = pc \/ (pc = "blocked" /\ pc' = "woken")
  BY DEF MarkFailed, Wake
<1>2. "torn" \in faults' /\ Sound' /\ Pending' /\ link # "reset"
  BY <1>1 DEF Views, Sound, Mangled, Pending
<1> DEFINE q == queue
<1>3. q \in Seq(Response) /\ resp \in Response
  BY DEF PInv, IInv, TypeOK
<1>4. ASSUME NEW r \in Response, Part(r) PROVE Dull(r)
  <2>1. ~IsJunk(r)
    BY DEF Response, ResponseType, IsJunk
  <2>2. QED BY <1>4, <2>1 DEF Part, Belongs, Idle, Noise, PlainPart, Dull
<1>5. ASSUME pc = "check2" PROVE queue # <<>> /\ Dull(Head(queue))
  <2>1. queue # <<>>
    <3> SUFFICES ASSUME queue = <<>> PROVE FALSE
      OBVIOUS
    <3>1. state \in {"SERVER_BYED", "RECEIVER_ERROR"}
      BY <1>5 DEF PInv, IInv, WaitInv, PopIsGuarded
    <3>2. state # "SERVER_BYED"
      BY <1>1, <1>2, <1>5, ByedStays DEF ByeInv
    <3>3. QED BY <1>2, <1>5, <3>1, <3>2 DEF ResetInv
  <2>2. Received = <<>> \o q
    BY <1>5 DEF Received, Hand
  <2> HIDE DEF q
  <2>3. <<>> \o q = q
    BY <1>3
  <2>4. 1 \in 1..Len(q) /\ Head(q) = q[1] /\ q[1] \in Response
    BY <1>3, <2>1 DEF q
  <2>5. QED BY <1>4, <2>1, <2>2, <2>3, <2>4 DEF q
<1>6. ASSUME pc = "handle" PROVE Dull(resp)
  <2>1. Received = <<resp>> \o q
    BY <1>6 DEF Received, Hand
  <2> HIDE DEF q
  <2>2. 1 \in 1..Len(<<resp>> \o q) /\ (<<resp>> \o q)[1] = resp
    BY <1>3
  <2>3. QED BY <1>3, <1>4, <2>1, <2>2
<1>7. QED BY <1>1, <1>2, <1>5, <1>6 DEF Forgone, Dull

\* The call that is bound to fail has no better end than an exception.
Failed == pc = "idle" /\ outcome \notin {"none", "returned", "refused"}

LEMMA ForgoneEnds ==
    ASSUME PInv, Forgone, QuitInv, ByeInv, [ProgramNext]_allVars
    PROVE  ~Sound' \/ Forgone' \/ Failed'
<1> SUFFICES ASSUME Sound' PROVE Forgone' \/ Failed'
  OBVIOUS
<1>1. /\ "torn" \in faults' /\ Sound /\ link # "reset" /\ pc # "idle"
      /\ state \in {"RECEIVER_ERROR", "SERVER_BYED"}
      /\ pc = "check2" => state = "SERVER_BYED" \/ (queue # <<>> /\ Dull(Head(queue)))
      /\ pc = "handle" => Dull(resp)
  BY LinkStays DEF Forgone, Pending, Sound, Mangled
<1>2. ASSUME state' \in {"RECEIVER_ERROR", "SERVER_BYED"}, pc' # "idle",
             pc' = "check2" =>
                state' = "SERVER_BYED" \/ (queue' # <<>> /\ Dull(Head(queue'))),
             pc' = "handle" => Dull(resp')
      PROVE  Forgone'
  BY <1>1, <1>2 DEF Forgone, Pending, Dull
<1>3. CASE CallSession
  BY <1>1, <1>3, CallEffect DEF CallFrame
<1>4. CASE Program \/ User
  <2>1. BetweenCalls
    BY <1>4, MainContinuesOK, SaveMessagesOK, ClientContinuesOK, PromptOK, LeaveOK
       DEF Program, User
  <2>2. QED BY <1>1, <2>1 DEF BetweenCalls
<1>5. CASE SessionStep /\ Handle
  <2>1. pc = "handle" /\ resp.tag = NoTag /\ resp.type \notin {"OK", "PREAUTH"}
    BY <1>1, <1>5 DEF Handle, Dull
  <2>2. cmd.op # "logout"
    BY <1>1 DEF PInv, CallInv, Calls, Sound, Live
  <2>3. \/ pc' = "lock" /\ state' = state
        \/ pc' = "idle" /\ outcome' = "rejected"
    BY <1>5, <2>1, <2>2 DEF Handle, HandleGreeting, HandleLogin, HandleSelect, HandleSearch,
       HandleFetch, HandleRead, WaitAgain, Reject, Finish
  <2>4. CASE pc' = "lock" /\ state' = state
    BY <1>1, <1>2, <2>4
  <2>5. CASE pc' = "idle" /\ outcome' = "rejected"
    BY <2>5 DEF Failed
  <2>6. QED BY <2>3, <2>4, <2>5
<1>6. CASE SessionStep /\ CheckByedAndPop
  <2>1. CASE pc' = "idle"
    <3>1. outcome' = "byed"
      BY <1>6, <2>1 DEF CheckByedAndPop, Finish
    <3>2. QED BY <2>1, <3>1 DEF Failed
  <2>2. CASE pc' # "idle"
    <3>1. pc = "check2" /\ state # "SERVER_BYED" /\ state' = state
          /\ (queue # <<>> => pc' = "handle" /\ resp' = Head(queue))
      BY <1>6, <2>2 DEF CheckByedAndPop, Finish
    <3>2. queue # <<>> /\ Dull(Head(queue))
      BY <1>1, <3>1
    <3>3. pc' = "handle" /\ Dull(resp')
      BY <3>1, <3>2
    <3>4. QED BY <1>1, <1>2, <3>1, <3>3
  <2>3. QED BY <2>1, <2>2
<1>7. CASE SessionStep /\ CheckError
  <2>1. CASE state = "RECEIVER_ERROR"
    <3>1. pc' = "idle" /\ outcome' = "failed"
      BY <1>7, <2>1 DEF CheckError, Finish
    <3>2. QED BY <3>1 DEF Failed
  <2>2. CASE state # "RECEIVER_ERROR"
    <3>1. pc' = "check2" /\ state' = state
      BY <1>7, <2>2 DEF CheckError
    <3>2. QED BY <1>1, <1>2, <2>2, <3>1
  <2>3. QED BY <2>1, <2>2
<1>8. CASE \/ WakesForNothing \/ WaitExpires
           \/ (SessionStep /\ ~Handle /\ ~CheckByedAndPop /\ ~CheckError)
  <2>1. pc # "mark"
    BY <1>1 DEF QuitInv
  <2>2. state' = state /\ pc' \notin {"check2", "handle"}
        /\ (pc' = "idle" => outcome' = "timeout")
    BY <1>8, <2>1 DEF WakesForNothing, WaitExpires, SpuriousWakeup, Expire, SessionStep,
       MainStep, MarkLogout, Acquire, TestQueueOrError, TestByed, Reacquire, Finish, sharedVars
  <2>3. CASE pc' = "idle"
    BY <2>2, <2>3 DEF Failed
  <2>4. QED BY <1>1, <1>2, <2>2, <2>3
<1>9. CASE Thread
  <2>1. /\ state' \in {state, "RECEIVER_ERROR", "SERVER_BYED"} /\ resp' = resp
        /\ pc' = pc \/ (pc = "blocked" /\ pc' = "woken")
    BY <1>9 DEF Thread, ThreadStarts, ReceiveResponse, ReceiveNothing, ReceiveFails,
       CallbackStep, ReceiverStep, MarkFailed, NotifyBye, NotifyIncoming, MarkByed, QueueBye,
       NotifyFailed, Wake, vars, sharedVars, callVars
  <2>2. ASSUME pc = "check2", state' # "SERVER_BYED"
        PROVE  queue' # <<>> /\ Dull(Head(queue'))
    <3>1. state # "SERVER_BYED"
      <4> SUFFICES ASSUME state = "SERVER_BYED" PROVE FALSE
        OBVIOUS
      <4>1. state' = "RECEIVER_ERROR"
        BY <2>1, <2>2
      <4>2. QED BY <1>1, <1>9, <2>2, <4>1, ByedStays DEF ByeInv
    <3>2. mutex = "main" /\ rpc \notin {"bye", "queueBye"}
      BY <2>2 DEF PInv, IInv, MutexInv, Critical
    <3>3. ~NotifyBye /\ ~MarkByed /\ ~QueueBye /\ \A r : ~NotifyIncoming(r)
      BY <3>2 DEF NotifyBye, MarkByed, QueueBye, NotifyIncoming
    <3>4. queue' = queue
      BY <1>9, <3>3 DEF Thread, ThreadStarts, ReceiveResponse, ReceiveNothing, ReceiveFails,
         CallbackStep, ReceiverStep, MarkFailed, NotifyFailed, vars, sharedVars
    <3>5. QED BY <1>1, <2>2, <3>1, <3>4
  <2>3. QED BY <1>1, <1>2, <2>1, <2>2
<1>10. CASE Server \/ UNCHANGED allVars
  <2>1. UNCHANGED <<state, pc, queue, resp>>
    BY <1>10 DEF Server, allVars, vars, sharedVars, callVars
  <2>2. QED BY <1>1, <1>2, <2>1
<1>11. QED BY <1>3, <1>4, <1>5, <1>6, <1>7, <1>8, <1>9, <1>10 DEF ProgramNext

LEMMA ForgoneStays ==
    ASSUME PInv, Forgone, QuitInv, ByeInv, [ProgramNext]_allVars
    PROVE  ReplyInv' \/ Forgone'
BY ForgoneEnds, VacuousReply, FailedReply DEF Failed

LEMMA ThreadReply ==
    ASSUME PInv, PInv', ReplyInv, QuitInv, ByeInv, ResetInv, Thread
    PROVE  ReplyInv' \/ Forgone'
<1>1. UNCHANGED Views /\ resp' = resp
  BY DEF Thread, ThreadStarts, ReceiveResponse, ReceiveNothing, ReceiveFails, CallbackStep,
     ReceiverStep, MarkFailed, NotifyBye, NotifyIncoming, MarkByed, QueueBye, NotifyFailed,
     programVars, serverVars, netVars, vars, callVars, Views
<1>2. pc' = pc \/ (pc = "blocked" /\ pc' = "woken")
  BY DEF Thread, ThreadStarts, ReceiveResponse, ReceiveNothing, ReceiveFails, CallbackStep,
     ReceiverStep, MarkFailed, NotifyBye, NotifyIncoming, MarkByed, QueueBye,
     NotifyFailed, Wake, vars
<1>3. (pc' = "idle" <=> pc = "idle") /\ (pc' = "handle" <=> pc = "handle")
  BY <1>2
<1>4. CASE UNCHANGED <<queue, wire>>
  <2>1. Stream' = Stream
    BY <1>1, <1>3, <1>4 DEF Stream, Received, Hand
  <2>2. QED BY <1>1, <1>3, <2>1, SteadyReply
<1>5. CASE CallbackStep /\ QueueBye
  <2>1. ~Sound'
    BY <1>1, <1>5 DEF QueueBye, QuitInv, Sound, Mangled, Views
  <2>2. QED BY <2>1, VacuousReply
<1>6. CASE ReceiveResponse
  <2> DEFINE w == wire
  <2>1. w \in Seq(Piece) /\ w # <<>>
    BY <1>6, StreamType DEF ReceiveResponse
  <2> HIDE DEF w
  <2>2. 1 \in 1..Len(wire) /\ Tail(wire) = SubSeq(wire, 1 + 1, Len(wire)) /\ wire # <<>>
    BY <2>1 DEF w
  <2>3. queue' = queue => Received' = Received
    BY <1>1, <1>3 DEF Received, Hand
  <2>4. ASSUME "torn" \in faults, MarkFailed, Stream' \in Seq(Piece),
               Mangles(Stream, Stream', Len(Received))
        PROVE  ReplyInv' \/ Forgone'
    <3>1. CASE /\ Sound /\ Welcome /\ Pending
               /\ \A k \in 1..Len(Received) : Part(Stream[k])
      <4>1. \A k \in 1..Len(Received) : Stream[k] = Received[k]
        <5>1. Len(Received) \in Nat /\ Len(wire) \in Nat
          BY StreamType
        <5>2. \A k \in 1..Len(Received) : k \in 1..Len(Stream) /\ k <= Len(Received)
          BY <5>1, StreamParts
        <5>3. QED BY <5>2, StreamParts
      <4>2. QED BY <1>1, <2>4, <3>1, <4>1, ForgoneBegins
    <3>2. CASE ~(/\ Sound /\ Welcome /\ Pending
                 /\ \A k \in 1..Len(Received) : Part(Stream[k]))
      BY <1>1, <1>3, <2>4, <3>2, MangledReply
    <3>3. QED BY <3>1, <3>2
  <2>5. CASE /\ "torn" \in faults /\ Whole(Head(wire)) /\ MarkFailed
             /\ \E rest \in Remains(Head(wire)) : wire' = rest \o Tail(wire)
    <3>1. Received' = Received
      BY <2>3, <2>5 DEF MarkFailed
    <3>2. Stream' \in Seq(Piece) /\ Mangles(Stream, Stream', Len(Received))
      BY <2>2, <2>5, <3>1, TornStream
    <3>3. QED BY <2>4, <2>5, <3>2
  <2>6. ASSUME NEW k \in 1..Len(wire), wire' = SubSeq(wire, k + 1, Len(wire)),
               queue' = queue
        PROVE  /\ Stream' \in Seq(Piece) /\ Cut(Stream, Stream', Len(Received), k)
               /\ Len(Received) < Len(Stream) /\ Stream[Len(Received) + 1] = Head(wire)
    BY <2>3, <2>6, DroppedStream
  <2>7. CASE Head(wire).type = "JUNK" /\ MarkFailed
             /\ \E n \in 1..Len(wire) : wire' = SubSeq(wire, n + 1, Len(wire))
    <3>1. PICK k \in 1..Len(wire) : wire' = SubSeq(wire, k + 1, Len(wire))
      BY <2>7
    <3>2. /\ Stream' \in Seq(Piece) /\ Cut(Stream, Stream', Len(Received), k)
          /\ Len(Received) < Len(Stream) /\ Stream[Len(Received) + 1] = Head(wire)
      BY <2>6, <2>7, <3>1 DEF MarkFailed
    <3>3. CASE "torn" \in faults
      <4>1. Mangles(Stream, Stream', Len(Received))
        BY <3>1, <3>2, StreamType, CutMangles
      <4>2. QED BY <2>4, <2>7, <3>2, <3>3, <4>1
    <3>4. CASE "torn" \notin faults
      BY <1>1, <1>3, <2>7, <3>2, <3>4, CutReply DEF IsJunk
    <3>5. QED BY <3>3, <3>4
  <2>8. CASE Head(wire).type = "BYE" /\ NotifyBye /\ wire' = Tail(wire)
    <3>1. /\ Stream' \in Seq(Piece) /\ Cut(Stream, Stream', Len(Received), 1)
          /\ Len(Received) < Len(Stream) /\ Stream[Len(Received) + 1] = Head(wire)
      BY <2>2, <2>6, <2>8 DEF NotifyBye
    <3>2. QED BY <1>1, <1>3, <2>8, <3>1, CutReply
  <2>9. CASE Head(wire).type # "JUNK" /\ NotifyIncoming(Head(wire)) /\ wire' = Tail(wire)
    <3>1. Head(wire) \in Response
      <4>1. Head(w) \in Response \cup {Junk}
        BY <2>1 DEF Piece
      <4>2. QED BY <2>9, <4>1 DEF Junk, w
    <3>2. Received' = Append(Received, Head(wire))
      BY <1>1, <1>3, <2>9, <3>1, QueuedStream DEF NotifyIncoming
    <3>3. Stream' = Stream
      BY <2>2, <2>9, <3>2, MovedStream
    <3>4. QED BY <1>1, <1>3, <3>3, SteadyReply
  <2>10. QED BY <1>6, <2>5, <2>7, <2>8, <2>9 DEF ReceiveResponse
<1>7. ThreadStarts \/ ReceiveNothing \/ ReceiveFails \/ (CallbackStep /\ ~QueueBye)
         => UNCHANGED <<queue, wire>>
  BY DEF ThreadStarts, ReceiveNothing, ReceiveFails, CallbackStep, ReceiverStep, MarkFailed,
     MarkByed, NotifyFailed, vars, sharedVars, netVars
<1>8. QED BY <1>4, <1>5, <1>6, <1>7 DEF Thread
-----------------------------------------------------------------------------
(* What the server says. *)

\* Reading s and t: t is s with rs behind it.
Grown(s, t, rs) ==
    /\ Len(t) = Len(s) + Len(rs)
    /\ \A i \in 1..Len(s) : t[i] = s[i]
    /\ \A i \in 1..Len(rs) : t[Len(s) + i] = rs[i]
    /\ \A i \in 1..Len(t) : i \in 1..Len(s) \/ i - Len(s) \in 1..Len(rs)

LEMMA GrownStream ==
    ASSUME PInv, NEW rs \in Seq(Piece), wire' = wire \o rs, Received' = Received
    PROVE  Grown(Stream, Stream', rs)
<1> DEFINE p == Received  w == wire
<1>1. p \in Seq(Piece) /\ w \in Seq(Piece) /\ Stream = p \o w
      /\ Stream' = p \o (w \o rs)
  BY StreamType DEF Stream
<1> HIDE DEF p, w
<1>2. p \o (w \o rs) = (p \o w) \o rs
  <2>1. (w \o rs) \in Seq(Piece) /\ (p \o w) \in Seq(Piece)
    BY <1>1, Joined
  <2>2. Len(p \o (w \o rs)) = Len((p \o w) \o rs)
        /\ Len(p) \in Nat /\ Len(w) \in Nat /\ Len(rs) \in Nat
    BY <1>1, <2>1, Joined
  <2>3. ASSUME NEW i \in 1..Len(p \o (w \o rs))
        PROVE  (p \o (w \o rs))[i] = ((p \o w) \o rs)[i]
    <3>1. /\ Len(p \o (w \o rs)) = Len(p) + Len(w) + Len(rs)
          /\ Len(p \o w) = Len(p) + Len(w) /\ Len(w \o rs) = Len(w) + Len(rs)
      BY <1>1, <2>1, Joined
    <3>2. CASE i <= Len(p)
      BY <1>1, <2>1, <2>2, <3>1, <3>2, Joined
    <3>3. CASE i > Len(p) /\ i <= Len(p) + Len(w)
      <4>1. (p \o (w \o rs))[i] = (w \o rs)[i - Len(p)]
        BY <1>1, <2>1, <2>2, <3>3, Joined
      <4>2. i - Len(p) \in 1..Len(w) /\ i \in 1..Len(p \o w)
        BY <2>2, <3>1, <3>3
      <4>3. (w \o rs)[i - Len(p)] = w[i - Len(p)]
        BY <1>1, <4>2, Joined
      <4>4. ((p \o w) \o rs)[i] = (p \o w)[i] /\ (p \o w)[i] = w[i - Len(p)]
        BY <1>1, <2>1, <2>2, <3>3, <4>2, Joined
      <4>5. QED BY <4>1, <4>3, <4>4
    <3>4. CASE i > Len(p) + Len(w)
      <4>1. i > Len(p) /\ i - Len(p) > Len(w) /\ i - Len(p) \in 1..Len(w \o rs)
            /\ i - (Len(p) + Len(w)) = (i - Len(p)) - Len(w)
        BY <2>2, <3>1, <3>4
      <4>2. (p \o (w \o rs))[i] = (w \o rs)[i - Len(p)]
        BY <1>1, <2>1, <2>2, <4>1, Joined
      <4>3. (w \o rs)[i - Len(p)] = rs[(i - Len(p)) - Len(w)]
        BY <1>1, <2>2, <4>1, Joined
      <4>4. ((p \o w) \o rs)[i] = rs[i - (Len(p) + Len(w))]
        BY <1>1, <2>1, <2>2, <3>1, <3>4, Joined
      <4>5. QED BY <4>1, <4>2, <4>3, <4>4
    <3>5. i \in Nat /\ Len(p) \in Nat /\ Len(w) \in Nat
      BY <2>2, <3>1
    <3>6. i <= Len(p) \/ (i > Len(p) /\ i <= Len(p) + Len(w)) \/ i > Len(p) + Len(w)
      BY <3>5
    <3>7. QED BY <3>2, <3>3, <3>4, <3>6
  <2>4. (p \o (w \o rs)) \in Seq(Piece) /\ ((p \o w) \o rs) \in Seq(Piece)
    BY <1>1, <2>1, Joined
  <2>5. QED BY <2>2, <2>3, <2>4, SamePieces
<1> DEFINE s == p \o w
<1>3. s \in Seq(Piece) /\ Stream = s /\ Stream' = s \o rs
  BY <1>1, <1>2, Joined
<1> HIDE DEF s
<1>4. Len(s) \in Nat /\ Len(rs) \in Nat
  BY <1>3
<1>5. Len(s \o rs) = Len(s) + Len(rs) /\ \A i \in 1..Len(s) : (s \o rs)[i] = s[i]
  BY <1>3, Joined
<1>6. \A i \in 1..Len(rs) : (s \o rs)[Len(s) + i] = rs[i]
  BY <1>3, Joined
<1>7. \A i \in 1..Len(s \o rs) : i \in 1..Len(s) \/ i - Len(s) \in 1..Len(rs)
  BY <1>4, <1>5
<1>8. Grown(s, s \o rs, rs)
  BY <1>5, <1>6, <1>7, Zenon DEF Grown
<1>9. QED BY <1>3, <1>8

\* The server says something at a time of its choice.
LEMMA NoiseReply ==
    ASSUME PInv, ReplyInv, link = "open",
           \/ wire' = Append(wire, Untagged("BYE", {})) /\ link' # "open"
           \/ /\ greeted /\ link' = "open"
              /\ \E type \in {"OTHER", "FETCH"} : wire' = Append(wire, Untagged(type, {})),
           UNCHANGED <<vars, programVars, faults, greeted, selected, hits, inbox>>
    PROVE  ReplyInv'
<1> USE DEF ReplyInv
<1> SUFFICES ASSUME Sound' PROVE ReplyInv'
  BY VacuousReply
<1>1. PICK r \in Response :
         /\ wire' = Append(wire, r) /\ Noise(r)
         /\ (r = Untagged("BYE", {}) /\ link' # "open") \/ (greeted /\ link' = "open")
  <2>1. \A type \in {"OTHER", "FETCH", "BYE"} :
           Untagged(type, {}) \in Response /\ Noise(Untagged(type, {}))
    BY UntaggedType DEF ResponseType, Noise, Untagged
  <2>2. QED BY <2>1
<1> DEFINE s == Stream  t == Stream'
<1>2. /\ Len(t) = Len(s) + 1 /\ t[Len(s) + 1] = r
      /\ \A i \in 1..Len(s) : t[i] = s[i]
      /\ \A i \in 1..Len(t) : i \in 1..Len(s) \/ i = Len(s) + 1
      /\ Len(s) \in Nat
  <2> DEFINE rs == <<r>>
  <2>1. rs \in Seq(Piece) /\ Len(rs) = 1 /\ rs[1] = r
    BY DEF Piece
  <2>2. wire' = wire \o rs /\ Received' = Received /\ Len(s) \in Nat
    BY <1>1, StreamType DEF Received, Hand, vars, sharedVars, callVars
  <2> HIDE DEF rs
  <2>3. Grown(s, t, rs)
    BY <2>1, <2>2, GrownStream
  <2> HIDE DEF s, t
  <2>4. QED BY <2>1, <2>2, <2>3 DEF Grown
<1>3. /\ Sound
      /\ Welcome' <=> Welcome
      /\ Settled' <=> Settled
      /\ Pending' <=> Pending
  BY DEF Sound, Mangled, Welcome, Settled, Pending, vars, callVars, programVars
<1>4. UNCHANGED <<outcome, cmd, found, mailbox, at, faults, greeted, selected, hits, inbox>>
  BY DEF vars, callVars, programVars
<1>5. r.type \notin {"SEARCH", "OK"}
  BY <1>1 DEF Noise
<1> HIDE DEF s, t
<1>6. GreetingInv'
  <2> SUFFICES ASSUME ~Welcome, outcome = "none" PROVE GreetingInv'
    BY <1>3, <1>4 DEF GreetingInv
  <2>1. /\ inbox = <<>>
        /\ \A i \in 1..Len(s) :
              Noise(s[i]) \/ IsJunk(s[i]) \/ (i = 1 /\ greeted /\ IsGreeting(s[i]))
    BY <1>3 DEF GreetingInv, s
  <2>2. \A i \in 1..Len(t) :
              Noise(t[i]) \/ IsJunk(t[i]) \/ (i = 1 /\ greeted /\ IsGreeting(t[i]))
    BY <1>1, <1>2, <2>1
  <2>3. ~(link' = "open" /\ ~greeted)
    BY <1>1
  <2>4. QED BY <1>4, <2>1, <2>2, <2>3 DEF GreetingInv, t
<1>7. SettledInv'
  <2>1. Sound /\ Welcome /\ Settled => greeted /\ inbox = <<>> /\ \A i \in 1..Len(s) : Rest(s[i])
    BY DEF SettledInv, s
  <2>2. Rest(r)
    BY <1>1 DEF Rest, Idle
  <2>3. Sound /\ Welcome /\ Settled => \A i \in 1..Len(t) : Rest(t[i])
    BY <1>2, <2>1, <2>2
  <2>4. QED BY <1>3, <1>4, <2>1, <2>3 DEF SettledInv, Rest, Idle, t
<1>8. PendingInv'
  <2> SUFFICES ASSUME Welcome, Pending PROVE PendingInv'
    BY <1>3 DEF PendingInv
  <2>1. /\ greeted /\ (inbox = <<>> \/ inbox = <<cmd>>)
        /\ \A i \in 1..Len(s) :
              \/ Part(s[i])
              \/ /\ Condition(cmd, s[i]) /\ inbox = <<>>
                 /\ \A j \in (i + 1)..Len(s) : Idle(s[j])
    BY <1>3 DEF PendingInv, s
  <2>2. Part(r)
    BY <1>1 DEF Part, Belongs, Idle
  <2>3. \A i \in 1..Len(t) :
              \/ Part(t[i])
              \/ /\ Condition(cmd, t[i]) /\ inbox = <<>>
                 /\ \A j \in (i + 1)..Len(t) : Idle(t[j])
    <3> SUFFICES ASSUME NEW i \in 1..Len(t), ~Part(t[i])
                 PROVE  /\ Condition(cmd, t[i]) /\ inbox = <<>>
                        /\ \A j \in (i + 1)..Len(t) : Idle(t[j])
      OBVIOUS
    <3>1. i \in 1..Len(s) /\ t[i] = s[i]
      BY <1>2, <2>2
    <3>2. /\ Condition(cmd, s[i]) /\ inbox = <<>>
          /\ \A j \in (i + 1)..Len(s) : Idle(s[j])
      BY <2>1, <3>1
    <3>3. \A j \in (i + 1)..Len(t) : Idle(t[j])
      BY <1>1, <1>2, <3>2 DEF Idle
    <3>4. QED BY <3>1, <3>2, <3>3
  <2>4. QED BY <1>3, <1>4, <2>1, <2>3 DEF PendingInv, Part, Belongs, Idle, PlainPart, t
<1>9. SearchInv'
  <2> SUFFICES ASSUME Pending, cmd.op = "search" PROVE SearchInv'
    BY <1>3, <1>4 DEF SearchInv
  <2>1. /\ found \subseteq {hits}
        /\ inbox # <<>> =>
              found = {} /\ \A i \in 1..Len(s) : s[i].type # "SEARCH"
    BY <1>3 DEF SearchInv, s
  <2>2. \A i \in 1..Len(s) : s[i].type = "OK" =>
             found # {} \/ \E j \in 1..(i - 1) : s[j].type = "SEARCH"
    BY <1>3 DEF SearchInv, s
  <2>3. ASSUME NEW i \in 1..Len(t), t[i].type = "OK", found = {}
        PROVE  \E j \in 1..(i - 1) : t[j].type = "SEARCH"
    <3>1. i \in 1..Len(s) /\ t[i] = s[i]
      BY <1>2, <1>5, <2>3
    <3>2. PICK j \in 1..(i - 1) : s[j].type = "SEARCH"
      BY <2>2, <2>3, <3>1
    <3>3. j \in 1..Len(s)
      BY <1>2, <3>1
    <3>4. QED BY <1>2, <3>2, <3>3
  <2>4. inbox # <<>> => \A i \in 1..Len(t) : t[i].type # "SEARCH"
    BY <1>2, <1>5, <2>1
  <2>5. QED BY <1>4, <2>1, <2>3, <2>4 DEF SearchInv, t
<1>10. AgreeInv'
  <2>1. Sound /\ Pending /\ cmd.op = "select" =>
          \A i \in 1..Len(s) : s[i].type = "OK" => selected = cmd.mb
    BY DEF AgreeInv, s
  <2>2. Sound /\ Pending /\ cmd.op = "select" =>
          \A i \in 1..Len(t) : t[i].type = "OK" => selected = cmd.mb
    BY <1>2, <1>5, <2>1
  <2>3. Sound /\ (Settled \/ (Pending /\ cmd.op # "select")) => mailbox = selected
    BY DEF AgreeInv
  <2>4. QED BY <1>3, <1>4, <2>2, <2>3 DEF AgreeInv, t
<1>11. QED BY <1>6, <1>7, <1>8, <1>9, <1>10

\* The connection ends without a word.
LEMMA SilentReply ==
    ASSUME ReplyInv, link = "open", link' # "open", wire' = wire,
           UNCHANGED <<vars, programVars, faults, greeted, selected, hits, inbox>>
    PROVE  ReplyInv'
<1> USE DEF ReplyInv
<1> SUFFICES ASSUME Sound' PROVE ReplyInv'
  BY VacuousReply
<1>1. Stream' = Stream
  BY DEF Stream, Received, Hand, vars, sharedVars, callVars
<1>2. UNCHANGED <<astray, at, outcome, cmd, found, hits, mailbox, selected, inbox, greeted,
                  faults, pc>>
  BY DEF vars, callVars, programVars
<1>3. /\ Sound
      /\ Welcome' <=> Welcome
      /\ Settled' <=> Settled
      /\ Pending' <=> Pending
  BY <1>2 DEF Sound, Mangled, Welcome, Settled, Pending
<1>4. GreetingInv' /\ SettledInv'
  BY <1>1, <1>2, <1>3 DEF GreetingInv, SettledInv, Rest, Idle
<1>5. PendingInv'
  BY <1>1, <1>2, <1>3 DEF PendingInv, Part, Belongs, Idle, PlainPart
<1>6. SearchInv' /\ AgreeInv'
  BY <1>1, <1>2, <1>3 DEF SearchInv, AgreeInv
<1>7. QED BY <1>4, <1>5, <1>6

LEMMA GreetReply ==
    ASSUME PInv, ReplyInv, Greet, UNCHANGED <<vars, programVars, faults>>
    PROVE  ReplyInv'
<1> USE DEF ReplyInv
<1> SUFFICES ASSUME Sound' PROVE ReplyInv'
  BY VacuousReply
<1>1. UNCHANGED <<astray, at, outcome, cmd, found, hits, mailbox, selected, inbox, faults, pc>>
      /\ link = "open" /\ ~greeted /\ Received' = Received
  BY DEF Greet, vars, callVars, sharedVars, programVars, Received, Hand
<1>2. greeted' = TRUE
  BY DEF Greet
<1>3. /\ Sound
      /\ Welcome' <=> Welcome
      /\ Settled' <=> Settled
      /\ Pending' <=> Pending
  BY <1>1 DEF Sound, Mangled, Welcome, Settled, Pending
<1>4. ~(Sound /\ Welcome /\ Settled) /\ ~(Sound /\ Welcome /\ Pending)
  BY <1>1 DEF SettledInv, PendingInv
<1>5. Pending => cmd.op \in Operation /\ (cmd.op # "greeting" => Welcome)
  BY DEF PInv, IInv, TypeOK, Command, CallInv, Calls, Welcome, Pending
<1>6. SettledInv' /\ PendingInv'
  BY <1>3, <1>4 DEF SettledInv, PendingInv
<1>7. SearchInv'
  BY <1>3, <1>1, <1>4, <1>5 DEF SearchInv
<1>8. AgreeInv'
  <2>1. Sound /\ Pending => cmd.op = "greeting"
    BY <1>4, <1>5
  <2>2. Sound /\ (Settled \/ (Pending /\ cmd.op # "select")) => mailbox = selected
    BY DEF AgreeInv
  <2>3. QED BY <1>1, <1>3, <2>1, <2>2 DEF AgreeInv
<1>9. GreetingInv'
  <2> SUFFICES ASSUME ~Welcome, outcome = "none" PROVE GreetingInv'
    BY <1>1, <1>3 DEF GreetingInv
  <2>1. inbox = <<>> /\ Stream = <<>>
    BY <1>1, <1>3 DEF GreetingInv
  <2>2. Received = <<>>
    <3>1. Len(Stream) = 0
      BY <2>1
    <3>2. Len(Received) = 0
      BY <3>1, StreamParts, StreamType
    <3>3. QED BY <3>2, StreamType
  <2>3. Stream' = wire'
    <3>1. wire' \in Seq(Piece)
      <4>1. \A type \in {"OK", "PREAUTH", "BYE"} : Untagged(type, {}) \in Piece
        BY UntaggedType DEF ResponseType, Piece
      <4>2. Junk \in Piece
        BY DEF Piece
      <4>3. \A r1, r2 \in Piece : <<r1>> \in Seq(Piece) /\ <<r1, r2>> \in Seq(Piece)
        OBVIOUS
      <4>4. QED BY <4>1, <4>2, <4>3 DEF Greet
    <3>2. <<>> \o wire' = wire'
      BY <3>1
    <3>3. QED BY <1>1, <2>2, <3>2 DEF Stream
  <2>4. CASE wire' = <<Untagged("OK", {})>>
    BY <1>1, <1>2, <2>1, <2>3, <2>4 DEF GreetingInv, IsGreeting, Untagged
  <2>5. CASE wire' = <<Untagged("PREAUTH", {}), Junk>>
    BY <1>1, <1>2, <2>1, <2>3, <2>5 DEF GreetingInv, IsGreeting, IsJunk, Junk, Untagged
  <2>6. CASE wire' = <<Untagged("BYE", {})>> /\ link' = "closed"
    BY <1>1, <2>1, <2>3, <2>6 DEF GreetingInv, Noise, Untagged
  <2>7. QED BY <2>4, <2>5, <2>6 DEF Greet
<1>10. QED BY <1>6, <1>7, <1>8, <1>9

\* The answer of the server to the command in progress, behind what was sent.
LEMMA AnsweredStream ==
    ASSUME PInv, ReplyInv, Sound, Welcome, Pending, Answer, UNCHANGED <<vars, programVars>>
    PROVE  /\ inbox = <<cmd>> /\ inbox' = <<>>
           /\ \A i \in 1..Len(Stream) : Part(Stream[i])
           /\ \E a \in Answers(cmd) :
                 /\ Answered(cmd, a) /\ a.rs \in Seq(Piece)
                 /\ Grown(Stream, Stream', a.rs)
                 /\ selected' = a.selected /\ hits' = a.hits
<1>1. inbox # <<>> /\ inbox' = Tail(inbox) /\ Received' = Received
  BY DEF Answer, vars, callVars, sharedVars, Received, Hand
<1>2. inbox = <<cmd>> /\ \A i \in 1..Len(Stream) : Part(Stream[i])
  BY <1>1 DEF ReplyInv, PendingInv
<1>3. Head(inbox) = cmd /\ inbox' = <<>> /\ 1 \in 1..Len(inbox) /\ inbox[1] = cmd
  BY <1>1, <1>2
<1>4. /\ cmd \in Command /\ cmd.tag \in Nat /\ cmd.op \notin {"greeting", "logout"}
      /\ cmd.op = "select" => cmd.mb \in Mailboxes
  <2>1. cmd.op # "greeting" /\ cmd.tag \in Nat /\ (cmd.op = "select" => cmd.mb \in Mailboxes)
    BY <1>3 DEF PInv, InboxInv
  <2>2. at # "abort" /\ at \in Live
    BY DEF Sound, Live
  <2>3. Calls(at, cmd.op) /\ cmd \in Command
    BY <2>2 DEF PInv, IInv, TypeOK, CallInv, Pending
  <2>4. cmd.op # "logout"
    BY <2>2, <2>3 DEF Calls, Live
  <2>5. QED BY <2>1, <2>3, <2>4
<1>5. PICK a \in Answers(cmd) :
         /\ wire' = wire \o a.rs /\ selected' = a.selected
         /\ hits' = a.hits /\ link' = a.link
  BY <1>3 DEF Answer
<1>6. Answered(cmd, a)
  BY <1>4, <1>5, AnswersShape DEF PInv
<1>7. a.rs \in Seq(Piece)
  BY <1>6 DEF Answered, WellFormed, Piece
<1>8. Grown(Stream, Stream', a.rs)
  BY <1>1, <1>5, <1>7, GrownStream
<1>9. QED BY <1>2, <1>3, <1>5, <1>6, <1>7, <1>8

(* The server answers the command in progress, and nothing else is on its  *)
(* way to it.                                                              *)
LEMMA AnswerReply ==
    ASSUME PInv, ReplyInv, Answer, UNCHANGED <<vars, programVars, faults>>
    PROVE  ReplyInv'
<1> USE DEF ReplyInv
<1> SUFFICES ASSUME Sound, Sound' PROVE ReplyInv'
  <2>1. Sound' => Sound
    BY DEF Sound, Mangled, Answer, programVars
  <2>2. QED BY <2>1, VacuousReply
<1>1. /\ UNCHANGED <<astray, at, outcome, cmd, found, mailbox, faults, greeted, pc>>
      /\ link = "open" /\ greeted /\ inbox # <<>> /\ Received' = Received
      /\ inbox' = Tail(inbox)
  BY DEF Answer, vars, callVars, sharedVars, programVars, Received, Hand
<1>2. /\ Welcome' <=> Welcome
      /\ Settled' <=> Settled
      /\ Pending' <=> Pending
  BY <1>1 DEF Welcome, Settled, Pending
<1>3. ~(~Welcome /\ outcome = "none") /\ ~(Welcome /\ Settled)
  BY <1>1 DEF GreetingInv, SettledInv
<1>4. Pending => cmd \in Command /\ (cmd.op # "greeting" => Welcome) /\ outcome = "none"
                 /\ Calls(at, cmd.op)
  <2>1. at # "abort"
    BY DEF Sound, Live
  <2>2. QED BY <2>1 DEF PInv, IInv, OutcomeInv, TypeOK, CallInv, Calls, Welcome, Pending
<1>5. GreetingInv' /\ SettledInv'
  BY <1>1, <1>2, <1>3 DEF GreetingInv, SettledInv
<1>6. CASE ~(Welcome /\ Pending)
  <2>1. ~Pending
    BY <1>3, <1>4, <1>6
  <2>2. at = "greeting" => outcome # "refused"
    BY DEF PInv, CallInv
  <2>3. ~Settled
    BY <1>3, <2>2 DEF Settled, Welcome
  <2>4. QED BY <1>2, <1>5, <2>1, <2>3 DEF PendingInv, SearchInv, AgreeInv
<1>7. CASE Welcome /\ Pending
  <2> DEFINE s == Stream  t == Stream'
  <2>1. inbox' = <<>> /\ \A i \in 1..Len(s) : Part(s[i])
    BY <1>7, AnsweredStream
  <2>2. PICK a \in Answers(cmd) :
           /\ Answered(cmd, a) /\ a.rs \in Seq(Piece) /\ Grown(Stream, Stream', a.rs)
           /\ selected' = a.selected /\ hits' = a.hits
    BY <1>7, AnsweredStream
  <2> DEFINE rs == a.rs
  <2>6. /\ rs \in Seq(Piece) /\ Len(rs) \in Nat /\ Len(rs) > 0
        /\ Condition(cmd, rs[Len(rs)])
        /\ \A i \in 1..Len(rs) : i < Len(rs) => PlainPart(cmd, hits', selected, rs[i])
    <3>1. rs \in Seq(Response) /\ rs # <<>>
      BY <2>2 DEF Answered, WellFormed
    <3>2. QED BY <2>2, <3>1 DEF Answered, WellFormed
  <2>7. Grown(s, t, rs) /\ s \in Seq(Piece)
    BY <2>2, StreamType
  <2> HIDE DEF rs, s, t
  <2>8. /\ Len(s) \in Nat /\ Len(t) = Len(s) + Len(rs)
        /\ \A i \in 1..Len(s) : t[i] = s[i]
        /\ \A i \in 1..Len(t) : i \in 1..Len(s) \/ i - Len(s) \in 1..Len(rs)
        /\ \A i \in 1..Len(rs) : t[Len(s) + i] = rs[i]
    BY <2>7 DEF Grown
  <2>9. \A i \in 1..Len(t) :
           \/ i \in 1..Len(s) /\ t[i] = s[i] /\ Part(t[i])
           \/ i < Len(t) /\ i > Len(s) /\ PlainPart(cmd, hits', selected, t[i])
           \/ i = Len(t) /\ t[i] = rs[Len(rs)] /\ Condition(cmd, t[i])
    <3> SUFFICES ASSUME NEW i \in 1..Len(t), i \notin 1..Len(s)
                 PROVE  \/ i < Len(t) /\ i > Len(s) /\ PlainPart(cmd, hits', selected, t[i])
                        \/ i = Len(t) /\ t[i] = rs[Len(rs)] /\ Condition(cmd, t[i])
      BY <2>1, <2>8 DEF s
    <3>1. i - Len(s) \in 1..Len(rs) /\ i > Len(s) /\ t[i] = rs[i - Len(s)]
      <4>1. i - Len(s) \in 1..Len(rs) /\ i > Len(s)
        BY <2>6, <2>8
      <4>2. Len(s) + (i - Len(s)) = i
        BY <2>8
      <4>3. QED BY <2>8, <4>1, <4>2
    <3>2. CASE i - Len(s) < Len(rs)
      BY <2>6, <2>8, <3>1, <3>2
    <3>3. CASE i - Len(s) = Len(rs)
      BY <2>6, <2>8, <3>1, <3>3
    <3>4. QED BY <2>6, <3>1, <3>2, <3>3
  <2>10. cmd.op # "select" => selected' = selected
    BY <2>2 DEF Answered
  <2>11. cmd.op # "search" => hits' = hits
    BY <2>2 DEF Answered
  <2>12. cmd.op = "search" => \A i \in 1..Len(s) : s[i].type # "SEARCH"
    BY <1>1, <1>7 DEF SearchInv, s
  <2>13. PendingInv'
    <3>1. ASSUME NEW r, Part(r), cmd.op = "search" => r.type # "SEARCH"
          PROVE  Belongs(cmd, hits', selected', r)
      <4>1. CASE Idle(r) \/ (cmd.op \in {"login", "select"} /\ IsJunk(r))
        BY <4>1 DEF Belongs
      <4>2. CASE cmd.op \in {"search", "fetch"} /\ ~IsJunk(r) /\ PlainPart(cmd, hits, selected, r)
        <5>1. PlainPart(cmd, hits', selected', r)
          BY <2>10, <2>11, <3>1, <4>2 DEF PlainPart
        <5>2. QED BY <4>2, <5>1 DEF Belongs
      <4>3. QED BY <3>1, <4>1, <4>2 DEF Part, Belongs
    <3>2. ASSUME NEW r, PlainPart(cmd, hits', selected, r)
          PROVE  Belongs(cmd, hits', selected', r)
      <4>1. CASE r.type \in {"OTHER", "FETCH"} /\ r.body = {}
        BY <3>2, <4>1 DEF PlainPart, Belongs, Idle, Noise
      <4>2. CASE ~(r.type \in {"OTHER", "FETCH"} /\ r.body = {})
        <5>1. cmd.op \in {"search", "fetch"} /\ ~IsJunk(r)
          BY <3>2, <4>2 DEF PlainPart, IsJunk
        <5>2. PlainPart(cmd, hits', selected', r)
          BY <2>10, <3>2, <5>1
        <5>3. QED BY <5>1, <5>2 DEF Belongs
      <4>3. QED BY <4>1, <4>2
    <3>3. \A i \in 1..Len(s) : cmd.op = "search" => s[i].type # "SEARCH"
      BY <2>12
    <3>4. ASSUME NEW i \in 1..Len(t), ~Belongs(cmd, hits', selected', t[i])
          PROVE  Condition(cmd, t[i]) /\ \A j \in (i + 1)..Len(t) : Idle(t[j])
      <4>1. i = Len(t) /\ Condition(cmd, t[i])
        BY <2>9, <3>1, <3>2, <3>3, <3>4
      <4>2. \A j \in (i + 1)..Len(t) : FALSE
        BY <2>6, <2>8, <4>1
      <4>3. QED BY <4>1, <4>2
    <3>5. QED BY <1>1, <1>2, <1>7, <2>1, <3>4 DEF PendingInv, Part, Belongs, Idle, t
  <2>14. SearchInv'
    <3> SUFFICES ASSUME cmd.op = "search" PROVE SearchInv'
      BY <1>1 DEF SearchInv
    <3>1. found = {}
      BY <1>1, <1>7 DEF SearchInv
    <3>2. ASSUME NEW i \in 1..Len(t), t[i].type = "OK"
          PROVE  \E j \in 1..(i - 1) : t[j].type = "SEARCH"
      <4>1. i = Len(t) /\ t[i] = rs[Len(rs)]
        BY <2>9, <3>2 DEF Part, Belongs, Idle, Noise, PlainPart, IsJunk
      <4>2. Granted(cmd, a)
        BY <2>2, <3>2, <4>1 DEF Answered, rs
      <4>3. PICK k \in 1..Len(rs) : k < Len(rs) /\ rs[k].type = "SEARCH"
        BY <4>2 DEF Granted, rs
      <4>4. Len(s) + k \in 1..(i - 1) /\ t[Len(s) + k] = rs[k]
        BY <2>6, <2>8, <4>1, <4>3
      <4>5. QED BY <4>3, <4>4
    <3>3. QED BY <1>1, <2>1, <3>1, <3>2 DEF SearchInv, t
  <2>15. AgreeInv'
    <3>1. ~Settled
      BY <1>3, <1>7
    <3>2. cmd.op # "select" => mailbox = selected
      BY <1>7 DEF AgreeInv
    <3>3. ASSUME cmd.op = "select", NEW i \in 1..Len(t), t[i].type = "OK"
          PROVE  selected' = cmd.mb
      <4>1. i = Len(t) /\ t[i] = rs[Len(rs)]
        BY <2>9, <3>3 DEF Part, Belongs, Idle, Noise, PlainPart, IsJunk
      <4>2. Granted(cmd, a)
        BY <2>2, <3>3, <4>1 DEF Answered, rs
      <4>3. QED BY <2>2, <3>3, <4>2 DEF Granted
    <3>4. QED BY <1>1, <1>2, <2>10, <3>1, <3>2, <3>3 DEF AgreeInv, t
  <2>16. QED BY <1>5, <2>13, <2>14, <2>15
<1>8. QED BY <1>6, <1>7

LEMMA ServerReply == ASSUME PInv, ReplyInv, Server PROVE ReplyInv'
<1>1. UNCHANGED <<vars, programVars, faults>>
  BY DEF Server
<1>2. CASE Leave
  BY <1>1, <1>2, SilentReply, NoiseReply DEF Leave
<1>3. CASE Unasked
  BY <1>1, <1>3, NoiseReply DEF Unasked
<1>4. QED BY <1>1, <1>2, <1>3, GreetReply, AnswerReply DEF Server
-----------------------------------------------------------------------------
(* What the main thread does with a response. *)

Again ==
    /\ pc' = "lock" /\ outcome' = outcome /\ mailbox' = mailbox /\ resp.tag = NoTag
    /\ cmd.op \in {"select", "search", "fetch"}
    /\ cmd.op = "search" => found' = IF resp.type = "SEARCH" THEN {resp.body} ELSE found

Accepted ==
    /\ pc' = "idle" /\ outcome' = "returned"
    /\ \/ /\ cmd.op = "greeting" /\ resp.type \in {"OK", "PREAUTH"}
          /\ mailbox' = mailbox
       \/ /\ cmd.op = "select" /\ resp.type = "OK" /\ resp.tag # NoTag
          /\ mailbox' = cmd.mb
       \/ /\ cmd.op \in {"login", "search", "fetch", "read"} /\ resp.type = "OK"
          /\ mailbox' = mailbox
       \/ cmd.op = "logout"

LEMMA HandleEffect ==
    ASSUME Handle
    PROVE  \/ Again
           \/ pc' = "idle" /\ outcome' = "rejected"
           \/ pc' = "crashed"
           \/ Accepted
<1> USE DEF Handle, Finish, WaitAgain, Accept, Reject
<1>1. CASE cmd.op = "greeting"
  BY <1>1 DEF HandleGreeting, Accepted
<1>2. CASE cmd.op = "login"
  BY <1>2 DEF HandleLogin, Accepted
<1>3. CASE cmd.op = "select"
  BY <1>3 DEF HandleSelect, Accepted, Again
<1>4. CASE cmd.op = "search"
  BY <1>4 DEF HandleSearch, Accepted, Again
<1>5. CASE cmd.op = "fetch"
  BY <1>5 DEF HandleFetch, Accepted, Again
<1>6. CASE cmd.op = "read"
  BY <1>6 DEF HandleRead, Accepted
<1>7. CASE cmd.op = "logout"
  BY <1>7 DEF HandleLogout, Accepted
<1>8. QED BY <1>1, <1>2, <1>3, <1>4, <1>5, <1>6, <1>7

LEMMA HandleStream ==
    ASSUME PInv, Handle, pc' # "handle", wire' = wire
    PROVE  /\ Len(Stream) \in Nat /\ Len(Stream') = Len(Stream) - 1
           /\ \A i \in 1..Len(Stream') : i + 1 \in 2..Len(Stream) /\ Stream'[i] = Stream[i + 1]
           /\ 1 \in 1..Len(Stream) /\ Stream[1] = resp
<1> DEFINE q == queue
<1>1. q \in Seq(Response) /\ queue' = q /\ pc = "handle" /\ resp \in Response
  BY DEF Handle, PInv, IInv, TypeOK
<1>2. Received = <<resp>> \o q /\ Received' = <<>> \o q
  BY <1>1 DEF Received, Hand
<1> HIDE DEF q
<1>3. <<>> \o q = Tail(<<resp>> \o q)
  BY <1>1
<1>4. Cut(Stream, Stream', 0, 1)
  BY <1>1, <1>2, <1>3, HandledStream
<1>5. Len(Stream) \in Nat /\ Stream' \in Seq(Piece)
  BY <1>1, <1>2, <1>3, StreamType, HandledStream
<1>6. QED BY <1>1, <1>4, <1>5, HeldStream DEF Cut

\* The reply that a call accepts is the one to its own command.
LEMMA AcceptedReply ==
    ASSUME PInv, ReplyInv, Handle, Accepted, Sound, cmd.op # "greeting"
    PROVE  /\ Condition(cmd, resp) /\ greeted /\ inbox = <<>>
           /\ \A j \in 2..Len(Stream) : Idle(Stream[j])
<1>1. pc = "handle" /\ Pending
  BY DEF Handle, Pending
<1>2. Calls(at, cmd.op) /\ Welcome
  BY <1>1 DEF PInv, CallInv, Sound, Live, Calls, Welcome
<1>3. cmd.op # "logout"
  BY <1>2 DEF Calls, Sound, Live
<1>4. resp.type = "OK" /\ (cmd.op = "select" => resp.tag # NoTag)
  BY <1>3 DEF Accepted
<1>5. 1 \in 1..Len(Stream) /\ Stream[1] = resp
  BY <1>1, HeldStream
<1>6. /\ greeted
      /\ \/ Part(resp)
         \/ /\ Condition(cmd, resp) /\ inbox = <<>>
            /\ \A j \in (1 + 1)..Len(Stream) : Idle(Stream[j])
  BY <1>1, <1>2, <1>5 DEF ReplyInv, PendingInv
<1>7. ~Part(resp)
  BY <1>4 DEF Part, Belongs, Idle, Noise, PlainPart, IsJunk
<1>8. QED BY <1>6, <1>7

LEMMA HandleReply ==
    ASSUME PInv, ReplyInv, Handle, ~Dead,
           UNCHANGED <<programVars, serverVars, netVars, threadVars>>
    PROVE  ReplyInv'
<1> USE DEF ReplyInv
<1> SUFFICES ASSUME Sound PROVE ReplyInv'
  <2>1. Sound' <=> Sound
    BY DEF Sound, Mangled, programVars, serverVars
  <2>2. QED BY <2>1, VacuousReply
<1>1. /\ UNCHANGED <<astray, at, cmd, hits, selected, inbox, link, greeted, faults, wire>>
      /\ pc = "handle" /\ Pending /\ Sound'
  BY DEF programVars, serverVars, netVars, Handle, Pending, Sound, Mangled
<1>2. Calls(at, cmd.op)
  BY <1>1 DEF PInv, CallInv, Dead
<1>3. outcome = "none"
  BY <1>1 DEF PInv, IInv, OutcomeInv
<1> DEFINE s == Stream  t == Stream'
<1>4. pc' # "handle"
  BY HandleEffect DEF Again, Accepted
<1>5. /\ Len(s) \in Nat /\ Len(t) = Len(s) - 1
      /\ \A i \in 1..Len(t) : i + 1 \in 2..Len(s) /\ t[i] = s[i + 1]
      /\ 1 \in 1..Len(s) /\ s[1] = resp
  BY <1>1, <1>4, HandleStream
<1> HIDE DEF s, t
<1>6. CASE pc' = "idle" /\ outcome' = "rejected"
  BY <1>6, FailedReply
<1>7. CASE pc' = "crashed"
  BY <1>7, SearchDoesNotCrash DEF Sound
<1>8. CASE Again
  <2>1. Welcome /\ Welcome' /\ Pending' /\ ~Settled' /\ outcome' = "none" /\ mailbox' = mailbox
    BY <1>1, <1>2, <1>3, <1>8 DEF Again, Calls, Welcome, Pending, Settled
  <2>2. GreetingInv' /\ SettledInv'
    BY <2>1 DEF GreetingInv, SettledInv
  <2>3. /\ greeted /\ (inbox = <<>> \/ inbox = <<cmd>>)
        /\ \A i \in 1..Len(s) :
              \/ Part(s[i])
              \/ /\ Condition(cmd, s[i]) /\ inbox = <<>>
                 /\ \A j \in (i + 1)..Len(s) : Idle(s[j])
    BY <1>1, <2>1 DEF PendingInv, s
  <2>4. PendingInv'
    <3>1. ASSUME NEW i \in 1..Len(t), ~Part(t[i])
          PROVE  /\ Condition(cmd, t[i]) /\ inbox = <<>>
                 /\ \A j \in (i + 1)..Len(t) : Idle(t[j])
      <4>1. i + 1 \in 1..Len(s) /\ t[i] = s[i + 1]
        BY <1>5
      <4>2. /\ Condition(cmd, s[i + 1]) /\ inbox = <<>>
            /\ \A j \in (i + 1 + 1)..Len(s) : Idle(s[j])
        BY <2>3, <3>1, <4>1
      <4>3. \A j \in (i + 1)..Len(t) : j + 1 \in (i + 1 + 1)..Len(s) /\ t[j] = s[j + 1]
        BY <1>5
      <4>4. QED BY <4>1, <4>2, <4>3
    <3>2. QED BY <1>1, <2>1, <2>3, <3>1 DEF PendingInv, Part, Belongs, Idle, t
  <2>5. SearchInv'
    <3> SUFFICES ASSUME cmd.op = "search" PROVE SearchInv'
      BY <1>1 DEF SearchInv
    <3>1. /\ found \subseteq {hits}
          /\ inbox # <<>> =>
                found = {} /\ \A i \in 1..Len(s) : s[i].type # "SEARCH"
      BY <1>1 DEF SearchInv, s
    <3>2. \A i \in 1..Len(s) : s[i].type = "OK" =>
             found # {} \/ \E j \in 1..(i - 1) : s[j].type = "SEARCH"
      BY <1>1 DEF SearchInv, s
    <3>3. found' = IF resp.type = "SEARCH" THEN {resp.body} ELSE found
      BY <1>8 DEF Again
    <3>4. resp.type = "SEARCH" => resp.body = hits
      BY <1>5, <2>3 DEF Part, Belongs, Idle, Noise, IsJunk, PlainPart, Condition, Tagged
    <3>5. found' \subseteq {hits}
      BY <3>1, <3>3, <3>4
    <3>6. inbox # <<>> =>
                found' = {} /\ \A i \in 1..Len(t) : t[i].type # "SEARCH"
      BY <1>5, <3>1, <3>3
    <3>7. ASSUME NEW i \in 1..Len(t), t[i].type = "OK", found' = {}
          PROVE  \E j \in 1..(i - 1) : t[j].type = "SEARCH"
      <4>1. found = {} /\ resp.type # "SEARCH"
        BY <3>3, <3>7
      <4>2. i + 1 \in 1..Len(s) /\ s[i + 1].type = "OK"
        BY <1>5, <3>7
      <4>3. PICK j \in 1..((i + 1) - 1) : s[j].type = "SEARCH"
        BY <3>2, <4>1, <4>2
      <4>4. j # 1
        BY <1>5, <4>1, <4>3
      <4>5. j - 1 \in 1..(i - 1) /\ j - 1 \in 1..Len(t) /\ (j - 1) + 1 = j
        BY <1>5, <4>3, <4>4
      <4>6. QED BY <1>5, <4>3, <4>5
    <3>8. QED BY <1>1, <3>5, <3>6, <3>7 DEF SearchInv, t
  <2>6. AgreeInv'
    <3>1. cmd.op = "select" => \A i \in 1..Len(s) : s[i].type = "OK" => selected = cmd.mb
      BY <1>1 DEF AgreeInv, s
    <3>2. cmd.op = "select" => \A i \in 1..Len(t) : t[i].type = "OK" => selected = cmd.mb
      BY <1>5, <3>1
    <3>3. cmd.op # "select" => mailbox = selected
      BY <1>1 DEF AgreeInv
    <3>4. QED BY <1>1, <2>1, <3>2, <3>3 DEF AgreeInv, t
  <2>7. QED BY <2>2, <2>4, <2>5, <2>6
<1>9. CASE Accepted
  <2>1. Settled' /\ ~Pending' /\ Welcome' /\ outcome' = "returned"
    BY <1>9 DEF Accepted, Settled, Pending, Welcome
  <2>2. /\ greeted /\ inbox = <<>>
        /\ \A i \in 2..Len(s) : Idle(s[i]) \/ (at = "greeting" /\ IsJunk(s[i]))
    <3>1. CASE cmd.op = "greeting"
      <4>1. at = "greeting" /\ ~Welcome
        BY <1>2, <1>3, <3>1 DEF Calls, Welcome
      <4>2. resp.type \in {"OK", "PREAUTH"}
        BY <1>9, <3>1 DEF Accepted
      <4>3. inbox = <<>> /\ \A i \in 1..Len(s) :
               Noise(s[i]) \/ IsJunk(s[i]) \/ (i = 1 /\ greeted /\ IsGreeting(s[i]))
        BY <1>3, <4>1 DEF GreetingInv, s
      <4>4. greeted
        BY <1>5, <4>2, <4>3 DEF Noise, IsJunk
      <4>5. \A i \in 2..Len(s) : i \in 1..Len(s) /\ i # 1
        BY <1>5
      <4>6. QED BY <4>1, <4>3, <4>4, <4>5 DEF Idle
    <3>2. CASE cmd.op # "greeting"
      BY <1>9, <3>2, AcceptedReply DEF s
    <3>3. QED BY <3>1, <3>2
  <2>3. SettledInv'
    <3>1. \A i \in 1..Len(t) : Idle(t[i]) \/ (at = "greeting" /\ IsJunk(t[i]))
      BY <1>5, <2>2
    <3>2. QED BY <1>1, <2>2, <3>1 DEF SettledInv, Rest, Idle, t
  <2>4. AgreeInv'
    <3>1. mailbox' = selected
      <4>1. CASE cmd.op = "select"
        <5>1. resp.type = "OK" /\ mailbox' = cmd.mb
          BY <1>9, <4>1 DEF Accepted
        <5>2. selected = cmd.mb
          BY <1>1, <1>5, <4>1, <5>1 DEF AgreeInv, s
        <5>3. QED BY <5>1, <5>2
      <4>2. CASE cmd.op # "select"
        <5>1. mailbox' = mailbox
          BY <1>2, <1>9, <4>2 DEF Accepted, Calls, Sound, Live
        <5>2. QED BY <1>1, <4>2, <5>1 DEF AgreeInv
      <4>3. QED BY <4>1, <4>2
    <3>2. QED BY <1>1, <2>1, <3>1 DEF AgreeInv
  <2>5. QED BY <2>1, <2>3, <2>4 DEF GreetingInv, PendingInv, SearchInv
<1>10. QED BY <1>6, <1>7, <1>8, <1>9, HandleEffect
-----------------------------------------------------------------------------
(* A call takes the main thread out of a settled state. *)

LEMMA CallReply ==
    ASSUME PInv, ReplyInv, [ProgramNext]_allVars, CallSession
    PROVE  ReplyInv'
<1> USE DEF ReplyInv
<1> SUFFICES ASSUME Sound' PROVE ReplyInv'
  BY VacuousReply
<1>1. CallFrame /\ (Sent \/ Unsent)
  BY CallEffect
<1>2. Sound /\ at' = at
  <2>1. Sound /\ at' \in {at, "abort"} /\ at' # "abort"
    BY <1>1, SoundStays DEF Sent, Unsent, Sound, Live
  <2>2. QED BY <2>1
<1>3. /\ UNCHANGED <<astray, hits, mailbox, selected, link, greeted, faults, wire, queue>>
      /\ pc = "idle" /\ outcome = "none" /\ pc' # "handle"
  BY <1>1 DEF CallFrame, sharedVars, serverVars, Sent, Unsent
<1>4. Stream' = Stream
  BY <1>3, KeptStream
<1>5. Settled /\ mailbox = selected
  BY <1>2, <1>3 DEF Settled, AgreeInv
<1>6. at # "greeting" =>
        /\ Welcome /\ greeted /\ inbox = <<>>
        /\ \A i \in 1..Len(Stream) : Rest(Stream[i])
  BY <1>2, <1>5 DEF Welcome, SettledInv
<1>7. CASE Unsent
  <2>1. at # "greeting" /\ UNCHANGED <<inbox, cmd>> /\ pc' = "idle"
        /\ outcome' \in {"refused", "returned"} /\ (outcome' = "returned" => at = "login")
    <3>1. pc' = "idle" /\ outcome' \in {"refused", "returned"}
          /\ (outcome' = "returned" => at = "login")
          /\ (outcome' = "refused" => at # "greeting") /\ UNCHANGED <<inbox, cmd>>
      BY <1>7 DEF Unsent
    <3>2. QED BY <3>1
  <2>2. Settled' /\ ~Pending' /\ Welcome' /\ outcome' # "none"
    BY <1>2, <2>1 DEF Settled, Pending, Welcome
  <2>3. SettledInv'
    BY <1>2, <1>3, <1>4, <1>6, <2>1, <2>2 DEF SettledInv, Rest, Idle
  <2>4. AgreeInv'
    BY <1>3, <1>5, <2>2 DEF AgreeInv
  <2>5. QED BY <2>2, <2>3, <2>4 DEF GreetingInv, PendingInv, SearchInv
<1>8. CASE Sent
  <2>1. /\ pc' # "idle" /\ outcome' = "none" /\ found' = {}
        /\ cmd' \in Command /\ Calls(at, cmd'.op)
        /\ inbox' = inbox \/ (inbox' = Append(inbox, cmd') /\ cmd'.op # "greeting")
    BY <1>8 DEF Sent, Commanded
  <2>2. Pending' /\ ~Settled'
    BY <2>1 DEF Pending, Settled
  <2>3. AgreeInv'
    <3>1. \A i \in 1..Len(Stream) : Stream[i].type = "OK" => at = "greeting"
      BY <1>6 DEF Rest, Idle, Noise, IsJunk
    <3>2. cmd'.op = "select" => at # "greeting"
      BY <2>1 DEF Calls
    <3>3. QED BY <1>3, <1>4, <1>5, <2>2, <3>1, <3>2 DEF AgreeInv
  <2>4. CASE at = "greeting"
    <3>1. cmd'.op = "greeting" /\ UNCHANGED inbox /\ ~Welcome /\ ~Welcome'
      BY <1>2, <1>3, <2>1, <2>4 DEF Calls, Welcome
    <3>2. GreetingInv'
      BY <1>2, <1>3, <1>4, <3>1 DEF GreetingInv
    <3>3. QED BY <2>2, <2>3, <3>1, <3>2 DEF SettledInv, PendingInv, SearchInv
  <2>5. CASE at # "greeting"
    <3>1. Welcome' /\ greeted /\ (inbox' = <<>> \/ inbox' = <<cmd'>>)
      BY <1>2, <1>6, <2>1, <2>5 DEF Welcome
    <3>2. \A i \in 1..Len(Stream) :
             Idle(Stream[i]) \/ (IsJunk(Stream[i]) /\ at \in {"login", "select"})
      BY <1>6, <2>5 DEF Rest
    <3>3. at \in {"login", "select"} => cmd'.op \in {"login", "select"}
      BY <2>1 DEF Calls
    <3>4. \A i \in 1..Len(Stream) : Belongs(cmd', hits, selected, Stream[i])
      BY <3>2, <3>3 DEF Belongs
    <3>5. PendingInv'
      BY <1>3, <1>4, <3>1, <3>4 DEF PendingInv, Part, Belongs, Idle
    <3>6. \A i \in 1..Len(Stream) : Stream[i].type # "SEARCH" /\ Stream[i].type # "OK"
      BY <3>2 DEF Idle, Noise, IsJunk
    <3>7. SearchInv'
      BY <1>4, <2>1, <3>6 DEF SearchInv
    <3>8. QED BY <2>2, <2>3, <3>1, <3>5, <3>7 DEF GreetingInv, SettledInv
  <2>6. QED BY <2>4, <2>5
<1>9. QED BY <1>1, <1>7, <1>8
-----------------------------------------------------------------------------
(* Between two calls main() and Client go on from a settled state only, or *)
(* leave, or the program is astray.                                        *)

LEMMA BetweenEffect ==
    ASSUME PInv, Program \/ User, Sound'
    PROVE  /\ outcome \in {"none", "returned", "refused"}
           /\ at = "greeting" => outcome = "returned" /\ at' = "login"
           /\ at = "login" => at' = "select"
           /\ at = "select" => outcome = "returned"
<1>1. at' \in Live /\ ~astray'
  BY DEF Sound
<1>2. at' # "return" /\ at' # "abort" /\ at' # "join" /\ at' # "exit"
  BY <1>1 DEF Live
<1>3. at \notin CallPlace => outcome = "none"
  BY DEF PInv, CallInv
<1>4. CASE MainContinues
  <2>1. StartupReturns
    BY <1>2, <1>4 DEF MainContinues, StartupThrows, Goto, Return
  <2>2. QED BY <2>1 DEF StartupReturns, Returned, Goto
<1>5. CASE ClientContinues
  <2>1. CASE CommandThrows
    BY <1>2, <2>1 DEF CommandThrows, Return
  <2>2. CASE CommandSwallows
    BY <1>1, <2>2 DEF CommandSwallows, Threw
  <2>3. CASE CommandReturns
    BY <2>3 DEF CommandReturns, Returned
  <2>4. CASE CommandSaves
    BY <1>3, <2>4 DEF CommandSaves, CallPlace, Startup
  <2>5. QED BY <1>5, <2>1, <2>2, <2>3, <2>4 DEF ClientContinues
<1>6. CASE Prompt \/ ReadLine \/ EndOfInput
  BY <1>3, <1>6 DEF Prompt, ReadLine, EndOfInput, CallPlace, Startup
<1>7. CASE SaveMessages \/ Stop \/ Join
  BY <1>2, <1>7 DEF SaveMessages, Stop, Join, Goto, Return
<1>8. QED BY <1>4, <1>5, <1>6, <1>7 DEF Program, User

LEMMA BetweenReply ==
    ASSUME PInv, ReplyInv, [ProgramNext]_allVars, Program \/ User
    PROVE  ReplyInv'
<1> USE DEF ReplyInv
<1> SUFFICES ASSUME Sound' PROVE ReplyInv'
  BY VacuousReply
<1>1. Sound
  BY SoundStays
<1>2. BetweenCalls
  BY MainContinuesOK, SaveMessagesOK, ClientContinuesOK, PromptOK, LeaveOK
     DEF Program, User
<1>3. /\ UNCHANGED <<pc, queue, wire, resp, cmd, mailbox, selected, inbox, greeted, faults>>
      /\ pc = "idle"
  BY <1>2 DEF Program, User, Outside, sharedVars, serverVars, netVars, BetweenCalls
<1>4. Stream' = Stream
  BY <1>3, KeptStream
<1>5. /\ outcome \in {"none", "returned", "refused"}
      /\ at = "greeting" => outcome = "returned" /\ at' = "login"
      /\ at = "login" => at' = "select"
      /\ at = "select" => outcome = "returned"
  BY BetweenEffect
<1>6. Settled /\ Welcome
  BY <1>3, <1>5 DEF Settled, Welcome
<1>7. Settled' /\ ~Pending' /\ Welcome' /\ outcome' = "none"
  BY <1>2, <1>3 DEF Settled, Pending, Welcome, BetweenCalls
<1>8. SettledInv'
  <2>1. greeted /\ inbox = <<>> /\ \A i \in 1..Len(Stream) : Rest(Stream[i])
    BY <1>1, <1>6 DEF SettledInv
  <2>2. \A i \in 1..Len(Stream) :
           \/ Idle(Stream[i])
           \/ IsJunk(Stream[i]) /\ at' \in {"login", "select"}
    BY <1>5, <2>1 DEF Rest
  <2>3. QED BY <1>3, <1>4, <1>7, <2>1, <2>2 DEF SettledInv, Rest, Idle
<1>9. AgreeInv'
  BY <1>1, <1>3, <1>6, <1>7 DEF AgreeInv
<1>10. QED BY <1>7, <1>8, <1>9 DEF GreetingInv, PendingInv, SearchInv
-----------------------------------------------------------------------------
(* What finds its mailbox selected. *)

\* A call adds its command to an empty inbox.
LEMMA CallMeets ==
    ASSUME PInv, ReplyInv, MeetInv, CallSession, ~astray, link = "open"
    PROVE  MeetInv'
<1> USE DEF ReplyInv
<1>1. CallFrame /\ (Sent \/ Unsent)
  BY CallEffect
<1>2. /\ UNCHANGED <<mailbox, selected, link, astray>>
      /\ pc = "idle" /\ outcome = "none" /\ at \in CallPlace
  BY <1>1 DEF CallFrame, serverVars
<1>3. /\ Len(inbox) <= 1
      /\ \A i \in 1..Len(inbox) : Meets(inbox[i])
      /\ at \in {"quit", "eof"} => inbox = <<>>
  BY <1>2 DEF MeetInv
<1>4. CASE inbox' = inbox
  <2>1. pc' = "idle" => outcome' # "none"
    BY <1>1 DEF Sent, Unsent
  <2>2. QED BY <1>2, <1>3, <1>4, <2>1 DEF MeetInv, Meets
<1>5. CASE Sent /\ cmd'.op # "greeting" /\ inbox' = Append(inbox, cmd')
  <2>1. /\ Calls(at, cmd'.op) /\ pc' # "idle"
        /\ cmd'.op \in {"search", "fetch", "read"} => state = "SELECTED"
    BY <1>5 DEF Sent, Commanded
  <2>2. CASE at \in {"quit", "eof"}
    <3>1. inbox = <<>> /\ cmd'.op = "logout"
      BY <1>3, <2>1, <2>2 DEF Calls
    <3>2. Len(inbox') = 1 /\ inbox'[1] = cmd'
      BY <1>5, <3>1
    <3>3. QED BY <2>1, <3>1, <3>2 DEF MeetInv, Meets
  <2>3. CASE at \notin {"quit", "eof"}
    <3>1. Sound /\ Welcome /\ Settled
      BY <1>2, <1>5, <2>1, <2>3 DEF Sound, Mangled, Live, CallPlace, Place, Startup, Welcome,
         Settled, Calls
    <3>2. inbox = <<>> /\ mailbox = selected
      BY <3>1 DEF SettledInv, AgreeInv
    <3>3. state = "SELECTED" => mailbox # NoMailbox
      BY DEF PInv, IInv, SelectInv, SelectBeforeUse
    <3>4. Len(inbox') = 1 /\ inbox'[1] = cmd'
      BY <1>5, <3>2
    <3>5. QED BY <1>2, <2>1, <3>2, <3>3, <3>4 DEF MeetInv, Meets
  <2>4. QED BY <2>2, <2>3
<1>6. QED BY <1>1, <1>4, <1>5 DEF Sent, Unsent

\* Between two calls, QUIT and ^D are read from a settled state.
LEMMA BetweenMeets ==
    ASSUME PInv, ReplyInv, MeetInv, Program \/ User, ~astray, link = "open"
    PROVE  MeetInv'
<1> USE DEF ReplyInv
<1>1. UNCHANGED <<mailbox, selected, inbox, pc>>
  BY DEF Program, User, Outside, serverVars, netVars
<1>2. Len(inbox) <= 1 /\ \A i \in 1..Len(inbox) : Meets(inbox[i])
  BY DEF MeetInv
<1>3. ASSUME at' \in {"quit", "eof"} PROVE inbox = <<>>
  <2>1. at = "input"
    BY <1>3 DEF Program, User, MainContinues, StartupThrows, StartupReturns,
       SaveMessages, ClientContinues,
       CommandThrows, CommandSwallows, CommandReturns, CommandSaves, Prompt, Stop, Join,
       ReadLine, EndOfInput, Goto, Return
  <2>2. pc = "idle" /\ outcome = "none"
    BY <2>1 DEF PInv, CallInv, CallPlace, Startup
  <2>3. Sound /\ Welcome /\ Settled
    BY <2>1, <2>2 DEF Sound, Mangled, Live, Place, Startup, Welcome, Settled
  <2>4. QED BY <2>3 DEF SettledInv
<1>4. QED BY <1>1, <1>2, <1>3 DEF MeetInv, Meets

\* current_mailbox changes when nothing is on its way any more.
LEMMA InsideMeets ==
    ASSUME PInv, ReplyInv \/ Forgone, MeetInv, SessionStep, ~astray, link = "open"
    PROVE  MeetInv'
<1>1. UNCHANGED <<selected, inbox, at>> /\ ~Dead /\ MainStep
  BY DEF SessionStep, serverVars, programVars, netVars
<1>2. Len(inbox) <= 1 /\ \A i \in 1..Len(inbox) : Meets(inbox[i])
  BY DEF MeetInv
<1>3. pc' = "idle" => outcome' # "none"
  <2>1. CASE Handle
    BY <2>1, HandleEffect DEF Again, Accepted
  <2>2. CASE ~Handle
    BY <1>1, <2>2 DEF MainStep, MarkLogout, Acquire, TestQueueOrError, TestByed, Reacquire,
       CheckError, CheckByedAndPop, Finish
  <2>3. QED BY <2>1, <2>2
<1>4. CASE mailbox' = mailbox
  BY <1>1, <1>2, <1>3, <1>4 DEF MeetInv, Meets
<1>5. CASE mailbox' # mailbox
  <2>1. Handle /\ cmd.op = "select" /\ Accepted
    BY <1>1, <1>5 DEF MainStep, MarkLogout, Acquire, TestQueueOrError, TestByed, Reacquire,
       CheckError, CheckByedAndPop, callVars, Handle, HandleGreeting, HandleLogin, HandleSelect,
       HandleSearch, HandleFetch, HandleRead, HandleLogout, WaitAgain, Accept, Reject, Finish,
       Accepted
  <2>2. Calls(at, "select") /\ pc = "handle"
    BY <1>1, <2>1 DEF PInv, CallInv, Handle, Dead
  <2>3. Sound
    BY <2>2 DEF Sound, Mangled, Live, Place, Startup, Calls
  <2>4. ReplyInv
    BY <2>1, <2>2 DEF Accepted, Forgone, Dull
  <2>5. inbox = <<>>
    BY <2>1, <2>3, <2>4, AcceptedReply
  <2>6. QED BY <1>1, <2>5 DEF MeetInv
<1>6. QED BY <1>4, <1>5

LEMMA NextMeetInv ==
    ASSUME PInv, ReplyInv \/ Forgone, MeetInv, [ProgramNext]_allVars PROVE MeetInv'
<1> SUFFICES ASSUME ~astray', link' = "open" PROVE MeetInv'
  BY DEF MeetInv
<1>1. ~astray /\ link = "open"
  BY AstrayStays, LinkStays
<1>2. /\ Len(inbox) <= 1
      /\ \A i \in 1..Len(inbox) : Meets(inbox[i])
      /\ at \in {"quit", "eof"} /\ pc = "idle" /\ outcome = "none" => inbox = <<>>
  BY <1>1 DEF MeetInv
<1>3. pc = "idle" => ReplyInv
  BY DEF Forgone, Pending
<1>4. CASE CallSession
  <2>1. pc = "idle"
    BY <1>4, CallEffect DEF CallFrame
  <2>2. QED BY <1>1, <1>3, <1>4, <2>1, CallMeets
<1>5. CASE Program \/ User
  <2>1. pc = "idle"
    BY <1>5, MainContinuesOK, SaveMessagesOK, ClientContinuesOK, PromptOK, LeaveOK
       DEF Program, User, BetweenCalls
  <2>2. QED BY <1>1, <1>3, <1>5, <2>1, BetweenMeets
<1>6. CASE SessionStep
  BY <1>1, <1>6, InsideMeets
<1>7. ASSUME UNCHANGED <<selected, mailbox, inbox, at>>,
             pc' = "idle" => pc = "idle" /\ outcome' = outcome
      PROVE  MeetInv'
  BY <1>2, <1>7 DEF MeetInv, Meets
<1>8. CASE WakesForNothing \/ WaitExpires
  BY <1>7, <1>8 DEF WakesForNothing, WaitExpires, SpuriousWakeup, Expire, callVars, sharedVars,
     programVars, serverVars, netVars
<1>9. CASE Thread
  <2>1. UNCHANGED <<selected, mailbox, inbox, at, outcome>>
    BY <1>9 DEF Thread, ThreadStarts, ReceiveResponse, ReceiveNothing, ReceiveFails,
       CallbackStep, ReceiverStep, MarkFailed, NotifyBye, NotifyIncoming, MarkByed, QueueBye,
       NotifyFailed, vars, callVars, programVars, serverVars, netVars
  <2>2. pc' = pc \/ pc' = "woken"
    BY <1>9 DEF Thread, ThreadStarts, ReceiveResponse, ReceiveNothing, ReceiveFails,
       CallbackStep, ReceiverStep, MarkFailed, NotifyBye, NotifyIncoming, MarkByed, QueueBye,
       NotifyFailed, Wake, vars
  <2>3. QED BY <1>7, <2>1, <2>2
<1>10. CASE Server
  <2>1. UNCHANGED <<mailbox, at, pc, outcome>>
    BY <1>10 DEF Server, vars, callVars, programVars
  <2>2. CASE Answer
    <3>1. inbox \in Seq(Command) /\ inbox # <<>> /\ inbox' = Tail(inbox)
      BY <2>2 DEF Answer, PInv, NetVarsOK
    <3>2. inbox' = <<>>
      BY <1>2, <3>1
    <3>3. QED BY <3>2 DEF MeetInv
  <2>3. CASE Greet \/ Unasked \/ Leave
    <3>1. UNCHANGED <<selected, inbox>>
      BY <2>3 DEF Greet, Unasked, Leave
    <3>2. QED BY <1>7, <2>1, <3>1
  <2>4. QED BY <1>10, <2>2, <2>3 DEF Server
<1>11. CASE UNCHANGED allVars
  BY <1>7, <1>11 DEF allVars, vars, callVars, programVars, serverVars, netVars
<1>12. QED BY <1>4, <1>5, <1>6, <1>8, <1>9, <1>10, <1>11 DEF ProgramNext
-----------------------------------------------------------------------------
LEMMA StutterReply == ASSUME ReplyInv, UNCHANGED allVars PROVE ReplyInv'
<1>1. UNCHANGED <<vars, programVars, serverVars, netVars>>
  BY DEF allVars
<1>2. UNCHANGED <<pc, queue, resp, wire>> /\ UNCHANGED Views
  BY <1>1 DEF vars, sharedVars, callVars, programVars, serverVars, netVars, Views
<1>3. Stream' = Stream
  BY <1>2 DEF Stream, Received, Hand
<1>4. QED BY <1>2, <1>3, SteadyReply

LEMMA InitRInv == ProgramInit => RInv
<1> SUFFICES ASSUME ProgramInit PROVE RInv
  OBVIOUS
<1>1. PInv
  BY InitPInv
<1>2. /\ Init /\ at = "greeting" /\ ~greeted /\ link = "open"
      /\ wire = <<>> /\ inbox = <<>> /\ selected = NoMailbox
  BY DEF ProgramInit
<1>3. /\ pc = "idle" /\ outcome = "none" /\ queue = <<>> /\ mailbox = NoMailbox
      /\ state = "GREETING" /\ rpc = "idle"
  BY <1>2 DEF Init
<1>4. Stream = <<>>
  BY <1>2, <1>3 DEF Stream, Received, Hand
<1>5. ~Welcome /\ ~Pending
  BY <1>2, <1>3 DEF Welcome, Pending
<1>6. GreetingInv
  BY <1>2, <1>4 DEF GreetingInv
<1>7. SettledInv /\ PendingInv /\ SearchInv /\ AgreeInv
  BY <1>2, <1>3, <1>5 DEF SettledInv, PendingInv, SearchInv, AgreeInv
<1>8. QuitInv /\ ByeInv /\ ResetInv /\ MeetInv
  BY <1>2, <1>3 DEF QuitInv, ByeInv, ByeEnds, ResetInv, MeetInv, NoCrash
<1>9. QED BY <1>1, <1>6, <1>7, <1>8 DEF RInv, ReplyInv

LEMMA NextRInv == ASSUME RInv, [ProgramNext]_allVars PROVE RInv'
<1> USE DEF RInv
<1>1. PInv' /\ QuitInv' /\ ByeInv' /\ ResetInv' /\ MeetInv'
  BY NextPInv, NextQuitInv, NextByeInv, NextResetInv, NextMeetInv
<1>2. CASE Forgone
  BY <1>1, <1>2, ForgoneStays
<1>3. CASE ReplyInv
  <2>1. CASE SessionStep \/ WakesForNothing \/ WaitExpires
    <3>1. CASE Handle
      <4>1. ~Dead /\ UNCHANGED <<programVars, serverVars, netVars, threadVars>>
        BY <2>1 DEF SessionStep, WakesForNothing, WaitExpires
      <4>2. QED BY <1>1, <1>3, <3>1, <4>1, HandleReply
    <3>2. CASE ~Handle
      BY <1>1, <1>3, <2>1, <3>2, WaitingReply
    <3>3. QED BY <3>1, <3>2
  <2>2. CASE Thread
    BY <1>1, <1>3, <2>2, ThreadReply
  <2>3. QED BY <1>1, <1>3, <2>1, <2>2, CallReply, BetweenReply, ServerReply, StutterReply
               DEF ProgramNext
<1>4. QED BY <1>2, <1>3

(* What is claimed of the stream holds in every reachable state; where a   *)
(* response was torn and the connection reset as well, nothing is claimed. *)
THEOREM ReplyInvariance == ProgramSpec => []RInv
<1>1. ProgramInit => RInv
  BY InitRInv
<1>2. RInv /\ [ProgramNext]_allVars => RInv'
  BY NextRInv
<1>3. QED BY <1>1, <1>2, PTL DEF ProgramSpec

(* The program runs into undefined behaviour - an empty response_queue is  *)
(* popped, or the numbers of a SEARCH that gave none are read - only after *)
(* it swallowed an exception or was told to QUIT, when its connection was  *)
(* reset, or when the answer to its LOGOUT is torn.                        *)
THEOREM NoUndefinedBehaviour == ProgramSpec => []NoCrash
<1>1. RInv => NoCrash
  BY DEF RInv, ResetInv
<1>2. QED BY <1>1, ReplyInvariance, PTL

(* The mailbox that the prompt shows as selected is the one the server has *)
(* selected, unless an exception was swallowed before.                     *)
THEOREM PromptTellsTheMailbox == ProgramSpec => []MailboxAgrees
<1>1. ASSUME RInv, at \in {"prompt", "input"}, ~astray, link = "open"
      PROVE  mailbox = selected
  <2>1. Sound
    BY <1>1 DEF Sound, Mangled, Live, Place, Startup
  <2>2. Settled /\ ReplyInv
    BY <1>1 DEF Settled, Pending, Forgone, RInv, PInv, CallInv, CallPlace, Startup
  <2>3. QED BY <2>1, <2>2 DEF ReplyInv, AgreeInv
<1>2. RInv => MailboxAgrees
  BY <1>1 DEF MailboxAgrees
<1>3. QED BY <1>2, ReplyInvariance, PTL

(* A SEARCH, FETCH or STORE on its way to the server finds selected there  *)
(* the mailbox that current_mailbox names, unless an exception was         *)
(* swallowed before: the SELECT in front of it was granted.                *)
THEOREM CommandsMeet == ProgramSpec => []CommandsMeetTheirMailbox
<1>1. RInv => CommandsMeetTheirMailbox
  BY DEF RInv, MeetInv, Meets, CommandsMeetTheirMailbox
<1>2. QED BY <1>1, ReplyInvariance, PTL

(* Only handling a response ends a call with success.                      *)
LEMMA OnlyHandleAccepts ==
    ASSUME PInv, [ProgramNext]_allVars, Accepts
    PROVE  Handle /\ Accepted /\ ~Dead
<1>1. pc = "handle" /\ pc' = "idle" /\ outcome' = "returned"
  BY DEF Accepts
<1>2. ~(CallSession \/ Program \/ User)
  <2>1. CallSession => CallFrame
    BY CallEffect
  <2>2. Program \/ User => pc' = pc
    BY DEF Program, User, Outside
  <2>3. QED BY <1>1, <2>1, <2>2 DEF CallFrame
<1>3. ~(WakesForNothing \/ WaitExpires \/ Server \/ UNCHANGED allVars)
  BY <1>1 DEF WakesForNothing, WaitExpires, SpuriousWakeup, Expire, Server, allVars, vars
<1>4. ~Thread
  BY <1>1 DEF Thread, ThreadStarts, ReceiveResponse, ReceiveNothing, ReceiveFails,
     CallbackStep, ReceiverStep, MarkFailed, NotifyBye, NotifyIncoming, MarkByed, QueueBye,
     NotifyFailed, Wake, vars
<1>5. SessionStep
  BY <1>2, <1>3, <1>4 DEF ProgramNext
<1>6. Handle
  BY <1>1, <1>5 DEF SessionStep, MainStep, MarkLogout, Acquire, TestQueueOrError, TestByed,
     Reacquire, CheckError, CheckByedAndPop
<1>7. QED BY <1>1, <1>5, <1>6, HandleEffect DEF SessionStep, Again

(* The tagged OK that login, select, search or fetch accepts is the one    *)
(* the server sent for this very command, although its tag is not compared *)
(* with the command's: no leftover of an earlier call is taken for it.     *)
THEOREM RepliesAreOwn == ProgramSpec => OwnReply
<1>1. ASSUME RInv, [ProgramNext]_allVars, Accepts,
             cmd.op \in {"login", "select", "search", "fetch"}, ~astray, ~Mangled
      PROVE  resp.tag = cmd.tag
  <2>1. Handle /\ Accepted /\ ~Dead
    BY <1>1, OnlyHandleAccepts DEF RInv
  <2>2. Calls(at, cmd.op)
    BY <1>1, <2>1 DEF Accepts, RInv, PInv, CallInv, Dead
  <2>3. Sound
    BY <1>1, <2>2 DEF Sound, Live, Place, Startup, Calls
  <2>4. ~Forgone
    BY <1>1, <2>1 DEF Accepts, Accepted, Forgone, Dull
  <2>5. Condition(cmd, resp)
    BY <1>1, <2>1, <2>3, <2>4, AcceptedReply DEF RInv
  <2>6. QED BY <2>5 DEF Condition, Tagged
<1>2. RInv /\ [ProgramNext]_allVars =>
        [Accepts /\ cmd.op \in {"login", "select", "search", "fetch"}
           /\ ~astray /\ ~Mangled => resp.tag = cmd.tag]_allVars
  BY <1>1
<1>3. QED BY <1>2, ReplyInvariance, PTL DEF ProgramSpec, OwnReply
=============================================================================
