---------------------------- MODULE FramingProofs ----------------------------
(***************************************************************************)
(* Proofs about the receiver thread and a server that writes lines of the  *)
(* grammar, as many as it likes and in chunks of any size.                 *)
(*                                                                         *)
(* First the rules of the parser: a line of the grammar is read as what it *)
(* means wherever it is in the data (WholeReads), and one that is not all  *)
(* there makes parse_next fail (TornFails).  Then the thread: what it has  *)
(* before it, received or not, is cut into lines as the server cut it      *)
(* (FrameInv).  It follows that nothing is lost, that the parser fails at  *)
(* a single byte or a message only, and that Feed is implemented.          *)
(***************************************************************************)
EXTENDS ReceiverProofs, Grammar, SequenceTheorems
-----------------------------------------------------------------------------
(* What the rules do where they apply, and where they do not. *)

LEMMA OneOfAt ==
    ASSUME Data, NEW i \in 1..Len(data), NEW T
    PROVE  /\ data[i] \in T => OneOf(T, {i}) = {i + 1}
           /\ data[i] \notin T => OneOf(T, {i}) = {}
BY DEF Data, OneOf, From

LEMMA MatchAt ==
    ASSUME Data, NEW i \in 1..Len(data), NEW t
    PROVE  /\ data[i] = t => Match(t, {i}) = {i + 1}
           /\ data[i] # t => Match(t, {i}) = {}
<1>1. data[i] = t <=> data[i] \in {t}
  OBVIOUS
<1>2. QED BY <1>1, OneOfAt DEF Match

\* Nothing comes of nothing.
LEMMA OfNothing ==
    /\ \A T : OneOf(T, {}) = {} /\ Span(T, {}) = {}
    /\ \A t : Match(t, {}) = {}
    /\ Number({}) = {} /\ Crlf({}) = {} /\ Literal({}) = {}
    /\ \A open, close : Enclosed(open, close, {}) = {}
    /\ \A v : Yield({}, v) = {}
    /\ EndLine({}) = {}
BY DEF OneOf, Match, Span, From, Number, Crlf, Literal, Enclosed, Yield, EndLine

LEMMA EitherAt ==
    ASSUME NEW P, NEW Q
    PROVE  /\ P # {} => Either(P, Q) = P
           /\ P = {} => Either(P, Q) = Q
BY DEF Either

LEMMA EitherFirst == ASSUME NEW x, NEW Q PROVE Either({x}, Q) = {x}
BY DEF Either

LEMMA YieldAt == ASSUME NEW i, NEW v PROVE Yield({i}, v) = {[end |-> i, value |-> v]}
BY DEF Yield

LEMMA UptoAt ==
    ASSUME Data, NEW i \in 1..(Len(data) + 1), NEW T, NEW j \in i..Len(data),
           Without(data, i, j, T), data[j] \in T
    PROVE  Upto(T, i) = j
<1> DEFINE u == Upto(T, i)
<1>1. /\ u \in i..(Len(data) + 1)
      /\ u \in DOMAIN data => data[u] \in T
      /\ \A k \in i..(u - 1) : data[k] \notin T
  <2>1. i \in Int /\ i <= Len(data) + 1
    BY DEF Data
  <2>2. QED BY <2>1, UptoExact
<1> HIDE DEF u
<1>3. u <= j
  BY <1>1 DEF Data
<1>4. ~(u < j)
  <2> SUFFICES ASSUME u < j PROVE FALSE
    OBVIOUS
  <2>1. u \in i..(j - 1) /\ u \in 1..Len(data) /\ DOMAIN data = 1..Len(data)
    BY <1>1 DEF Data
  <2>2. QED BY <1>1, <2>1 DEF Without
<1>5. u = j
  BY <1>1, <1>3, <1>4 DEF Data
<1>6. QED BY <1>5 DEF u

\* Only the tokens of T, and one that is not of T behind them.
Run(i, j, T) == (\A k \in i..(j - 1) : data[k] \in T) /\ data[j] \notin T

LEMMA SpanAt ==
    ASSUME Data, NEW T, NEW i \in 1..Len(data), NEW j \in i..Len(data), Run(i, j, T)
    PROVE  Span(T, {i}) = {j} \ {i}
<1>1. data[j] \in Token \ T
  BY DEF Data, Run
<1>2. Without(data, i, j, Token \ T)
  BY DEF Run, Without
<1>3. Upto(Token \ T, i) = j
  BY <1>1, <1>2, UptoAt DEF Data
<1>4. QED BY <1>3 DEF Span, From

LEMMA NumberRuns ==
    ASSUME Data, NEW i \in 1..Len(data), NEW j \in i..Len(data),
           Digits(data, i, j), data[j] \notin Digit
    PROVE  Number({i}) = {j}
<1>1. Run(i, j, Digit) /\ i # j
  BY DEF Run, Digits
<1>2. QED BY <1>1, SpanAt DEF Number

LEMMA NoNumber ==
    ASSUME Data, NEW i \in 1..Len(data), data[i] \notin Digit
    PROVE  Number({i}) = {}
<1>1. Run(i, i, Digit)
  BY DEF Run
<1>2. QED BY <1>1, SpanAt DEF Number

LEMMA CrlfAt ==
    ASSUME Data, NEW i \in 1..(Len(data) - 1), data[i] = "CR", data[i + 1] = "LF"
    PROVE  Crlf({i}) = {i + 2}
<1>1. i \in 1..Len(data) /\ i + 1 \in 1..Len(data) /\ i + 1 + 1 = i + 2
  BY DEF Data
<1>2. Match("CR", {i}) = {i + 1}
  BY <1>1, MatchAt
<1>3. Match("LF", {i + 1}) = {i + 1 + 1}
  BY <1>1, MatchAt
<1>4. QED BY <1>1, <1>2, <1>3 DEF Crlf

LEMMA TextAt ==
    ASSUME Data, NEW i \in 1..Len(data), NEW j \in i..Len(data), i # j,
           Without(data, i, j, {"CR", "LF"}), data[j] \in {"CR", "LF"}
    PROVE  Text({i}) = {j}
<1>1. Upto({"CR", "LF"}, i) = j
  BY UptoAt DEF Data
<1>2. ~(j > Len(data))
  BY DEF Data
<1>3. QED BY <1>1, <1>2 DEF Text, From

LEMMA EnclosedAt ==
    ASSUME Data, NEW open, NEW close,
           NEW i \in 1..Len(data), NEW j \in i..(Len(data) + 1),
           Bracketed(data, i, j, open, close)
    PROVE  Enclosed(open, close, {i}) = {j}
<1>1. Match(open, {i}) = {i + 1}
  BY MatchAt DEF Bracketed
<1>2. Upto({close}, i + 1) = j - 1
  <2>1. i + 1 \in 1..(Len(data) + 1) /\ j - 1 \in (i + 1)..Len(data)
    BY DEF Bracketed, Data
  <2>2. data[j - 1] \in {close} /\ Without(data, i + 1, j - 1, {close})
    BY DEF Bracketed
  <2>3. QED BY <2>1, <2>2, UptoAt
<1>3. ~(j - 1 > Len(data)) /\ j - 1 + 1 = j /\ ~(i + 1 < 1)
  BY DEF Data
<1>4. QED BY <1>1, <1>2, <1>3 DEF Enclosed, From
-----------------------------------------------------------------------------
(* The text of a condition. *)

LEMMA NoCode ==
    ASSUME Data, NEW i \in 1..Len(data), data[i] # "[" PROVE RespText({i}) = Text({i})
<1>1. Match("[", {i}) = {}
  BY MatchAt
<1>2. QED BY <1>1 DEF RespText

LEMMA CodeAt ==
    ASSUME Data, NEW i \in 1..Len(data), NEW m \in i..Len(data),
           CodeIn(data, i, m), data[m] = "]"
    PROVE  RespTextCode({i}) = {m}
<1> DEFINE known == CASE data[i] = "UNSEEN" -> Number(Match("SP", {i + 1}))
                      [] data[i] \in {"ALERT", "READ-ONLY", "READ-WRITE"} -> {i + 1}
                      [] OTHER -> {Upto({"]"}, i)} \cap DOMAIN data
<1>1. RespTextCode({i}) = known
  BY DEF Data, RespTextCode, From
<1>2. CASE m = i + 1 /\ data[i] \in {"ALERT", "READ-ONLY", "READ-WRITE"}
  BY <1>1, <1>2
<1>3. CASE i + 2 < m /\ data[i] = "UNSEEN" /\ data[i + 1] = "SP" /\ Digits(data, i + 2, m)
  <2>1. i + 1 \in 1..Len(data) /\ i + 2 \in 1..Len(data) /\ m \in (i + 2)..Len(data)
        /\ i + 1 + 1 = i + 2
    BY <1>3 DEF Data
  <2>2. Match("SP", {i + 1}) = {i + 2}
    BY <1>3, <2>1, MatchAt
  <2>3. Number({i + 2}) = {m}
    <3>1. data[m] \notin Digit
      BY DEF Digit, Value
    <3>2. QED BY <1>3, <2>1, <3>1, NumberRuns
  <2>4. QED BY <1>1, <1>3, <2>2, <2>3
<1>4. CASE /\ data[i] \notin {"UNSEEN", "ALERT", "READ-ONLY", "READ-WRITE"}
           /\ Without(data, i, m, {"]"})
  <2>1. Upto({"]"}, i) = m
    BY <1>4, UptoAt DEF Data
  <2>2. m \in DOMAIN data
    BY DEF Data
  <2>3. QED BY <1>1, <1>4, <2>1, <2>2
<1>5. QED BY <1>2, <1>3, <1>4 DEF CodeIn

LEMMA RespTextAt ==
    ASSUME Data, NEW i \in 1..Len(data), NEW j \in i..Len(data), TextIn(data, i, j),
           Without(data, i, j, {"CR", "LF"}), data[j] \in {"CR", "LF"}
    PROVE  RespText({i}) = {j}
<1>1. CASE i < j /\ data[i] # "["
  BY <1>1, NoCode, TextAt
<1>2. CASE data[i] = "["
  <2>1. PICK m \in (i + 1)..(j - 3) :
           CodeIn(data, i + 1, m) /\ data[m] = "]" /\ data[m + 1] = "SP"
    BY <1>2 DEF TextIn
  <2>2. /\ i + 1 \in 1..Len(data) /\ m \in (i + 1)..Len(data) /\ m \in 1..Len(data)
        /\ m + 1 \in 1..Len(data) /\ m + 2 \in 1..Len(data) /\ j \in (m + 2)..Len(data)
        /\ m + 2 # j /\ m + 1 + 1 = m + 2
    BY <2>1 DEF Data
  <2>3. Match("[", {i}) = {i + 1}
    BY <1>2, MatchAt
  <2>4. RespTextCode({i + 1}) = {m}
    BY <2>1, <2>2, CodeAt
  <2>5. Match("SP", Match("]", {m})) = {m + 2}
    <3>1. Match("]", {m}) = {m + 1}
      BY <2>1, <2>2, MatchAt
    <3>2. Match("SP", {m + 1}) = {m + 1 + 1}
      BY <2>1, <2>2, MatchAt
    <3>3. QED BY <2>2, <3>1, <3>2
  <2>6. Text({m + 2}) = {j}
    <3>1. Without(data, m + 2, j, {"CR", "LF"})
      BY <2>1 DEF Without
    <3>2. QED BY <2>2, <3>1, TextAt
  <2>7. Either({m}, {i + 1}) = {m}
    BY EitherAt
  <2>8. QED BY <2>3, <2>4, <2>5, <2>6, <2>7 DEF RespText
<1>3. QED BY <1>1, <1>2 DEF TextIn

LEMMA NoRespText == RespText({}) = {}
BY OfNothing DEF RespText, Text, From

LEMMA NoCond ==
    ASSUME Data, NEW q \in 1..Len(data), NEW types, data[q] \notin types, NEW tag
    PROVE  CondOf(types, tag, {q}) = {}
<1>1. ASSUME NEW t \in types PROVE Yield(RespText(Match("SP", Match(t, {q}))), Status(t, tag)) = {}
  <2>1. Match(t, {q}) = {}
    BY MatchAt
  <2>2. QED BY <2>1, OfNothing, NoRespText
<1>2. QED BY <1>1 DEF CondOf

LEMMA CondAt ==
    ASSUME Data, NEW q \in 1..Len(data), NEW j \in q..Len(data), NEW types, NEW tag,
           data[q] \in types, q + 2 < j, data[q + 1] = "SP", TextIn(data, q + 2, j),
           Without(data, q, j, {"CR", "LF"}), data[j] = "CR"
    PROVE  CondOf(types, tag, {q}) = {[end |-> j, value |-> Status(data[q], tag)]}
<1> DEFINE of(t) == Yield(RespText(Match("SP", Match(t, {q}))), Status(t, tag))
<1>1. ASSUME NEW t \in types, t # data[q] PROVE of(t) = {}
  <2>1. Match(t, {q}) = {}
    BY <1>1, MatchAt
  <2>2. QED BY <2>1, OfNothing, NoRespText
<1>2. of(data[q]) = {[end |-> j, value |-> Status(data[q], tag)]}
  <2>1. /\ q + 1 \in 1..Len(data) /\ q + 2 \in 1..Len(data) /\ j \in (q + 2)..Len(data)
        /\ q + 1 + 1 = q + 2
    BY DEF Data
  <2>2. Match(data[q], {q}) = {q + 1}
    BY MatchAt
  <2>3. Match("SP", {q + 1}) = {q + 2}
    BY <2>1, MatchAt
  <2>4. RespText({q + 2}) = {j}
    <3>1. Without(data, q + 2, j, {"CR", "LF"})
      BY DEF Without
    <3>2. QED BY <2>1, <3>1, RespTextAt
  <2>5. RespText(Match("SP", Match(data[q], {q}))) = {j}
    BY <2>1, <2>2, <2>3, <2>4
  <2>6. QED BY <2>5, YieldAt
<1>3. CondOf(types, tag, {q}) = UNION {of(t) : t \in types}
  BY DEF CondOf
<1>4. UNION {of(t) : t \in types} = of(data[q])
  <2> HIDE DEF of
  <2>1. QED BY <1>1
<1>5. QED BY <1>2, <1>3, <1>4
-----------------------------------------------------------------------------
(* The rules below a star that do not apply. *)

LEMMA NoEnclosed ==
    ASSUME Data, NEW i \in 1..Len(data), NEW open, NEW close, data[i] # open
    PROVE  Enclosed(open, close, {i}) = {}
<1>1. Match(open, {i}) = {}
  BY MatchAt
<1>2. QED BY <1>1 DEF Enclosed, From

LEMMA NoIds == ASSUME Data PROVE MessageIdList({}) = {}
<1> DEFINE p == Len(data) + 2
           P == Stays(p)
<1>1. p \in Nat \ {0} /\ P = {} /\ Listed(p) = {}
  BY DEF Data, Stays, Listed
<1> HIDE DEF p
<1>2. P \subseteq Stays(p)
  OBVIOUS
<1> HIDE DEF P
<1>3. MessageIdList(P) \subseteq Listed(p)
  BY <1>1, <1>2, MessageIdListEnds
<1>4. QED BY <1>1, <1>3

\* Where a line ends.
LineEnd(j) == j \in 1..(Len(data) - 1) /\ data[j] = "CR" /\ data[j + 1] = "LF"

LEMMA EndLineAt ==
    ASSUME Data, NEW j, LineEnd(j), NEW v
    PROVE  EndLine({[end |-> j, value |-> v]}) = {[end |-> j + 2, value |-> v]}
<1>1. Crlf({j}) = {j + 2}
  BY CrlfAt DEF LineEnd
<1>2. EndLine({[end |-> j, value |-> v]}) = Yield(Crlf({j}), v)
  BY DEF EndLine
<1>3. QED BY <1>1, <1>2, YieldAt

LEMMA StarAt ==
    ASSUME Data, NEW p \in 1..(Len(data) - 1), data[p] = "*", data[p + 1] = "SP"
    PROVE  Star({p}) = {p + 2}
<1>1. p \in 1..Len(data) /\ p + 1 \in 1..Len(data) /\ p + 1 + 1 = p + 2
  BY DEF Data
<1>2. Match("*", {p}) = {p + 1}
  BY <1>1, MatchAt
<1>3. Match("SP", {p + 1}) = {p + 1 + 1}
  BY <1>1, MatchAt
<1>4. QED BY <1>1, <1>2, <1>3 DEF Star

LEMMA NoContinueReq ==
    ASSUME Data, NEW p \in 1..Len(data), data[p] # "+" PROVE ContinueReq({p}) = {}
<1>1. Match("+", {p}) = {}
  BY MatchAt
<1>2. QED BY <1>1, OfNothing, NoRespText DEF ContinueReq

\* A response with a star, from what the rules below it make of q.
Below(q) == Either(RespCondState(<<>>, {q}),
            Either(RespCondBye({q}), Either(MailboxData({q}), MessageData({q}))))

LEMMA StarredParses ==
    ASSUME Data, pos \in 1..(Len(data) - 1), data[pos] = "*", data[pos + 1] = "SP",
           NEW j, LineEnd(j), NEW v, Below(pos + 2) = {[end |-> j, value |-> v]}
    PROVE  ParseNext = {[end |-> j + 2, value |-> v]}
<1> DEFINE x == [end |-> j + 2, value |-> v]
<1>1. ContinueReq({pos}) = {}
  BY NoContinueReq DEF Data
<1>2. ResponseData({pos}) = {x}
  <2>1. Star({pos}) = {pos + 2}
    BY StarAt
  <2>2. ResponseData({pos}) = EndLine(Below(pos + 2))
    BY <2>1 DEF ResponseData, Below
  <2>3. QED BY <2>2, EndLineAt
<1> HIDE DEF x
<1>3. Response({pos}) = {x}
  BY <1>1, <1>2, EitherAt DEF Response
<1>4. ParseNext = {x}
  BY <1>3, EitherFirst DEF ParseNext
<1>5. QED BY <1>4 DEF x

\* Below a star, a line that begins with something else is no condition.
LEMMA NoStatusBelow ==
    ASSUME Data, NEW q \in 1..Len(data), data[q] \notin {"OK", "NO", "BAD", "BYE"}
    PROVE  Below(q) = Either(MailboxData({q}), MessageData({q}))
<1>1. RespCondState(<<>>, {q}) = {} /\ RespCondBye({q}) = {}
  BY NoCond DEF RespCondState, RespCondBye
<1>2. QED BY <1>1, EitherAt DEF Below

LEMMA StatusBelow ==
    ASSUME Data, NEW q \in 1..Len(data), NEW j \in q..Len(data),
           data[q] \in {"OK", "NO", "BAD", "BYE"}, q + 2 < j, data[q + 1] = "SP",
           TextIn(data, q + 2, j), Without(data, q, j, {"CR", "LF"}), data[j] = "CR"
    PROVE  Below(q) = {[end |-> j, value |-> Status(data[q], <<>>)]}
<1> DEFINE x == [end |-> j, value |-> Status(data[q], <<>>)]
<1>1. CASE data[q] = "BYE"
  <2>1. RespCondState(<<>>, {q}) = {}
    BY <1>1, NoCond DEF RespCondState
  <2>2. RespCondBye({q}) = {x}
    <3> DEFINE T == {"BYE"}
    <3>1. data[q] \in T
      BY <1>1
    <3> HIDE DEF T
    <3>2. CondOf(T, <<>>, {q}) = {x}
      BY <3>1, CondAt
    <3>3. QED BY <3>2 DEF T, RespCondBye
  <2> HIDE DEF x
  <2>3. Below(q) = {x}
    BY <2>1, <2>2, EitherAt DEF Below
  <2>4. QED BY <2>3 DEF x
<1>2. CASE data[q] # "BYE"
  <2>1. RespCondState(<<>>, {q}) = {x}
    <3> DEFINE T == {"OK", "NO", "BAD"}
    <3>1. data[q] \in T
      BY <1>2
    <3> HIDE DEF T
    <3>2. CondOf(T, <<>>, {q}) = {x}
      BY <3>1, CondAt
    <3>3. QED BY <3>2 DEF T, RespCondState
  <2> HIDE DEF x
  <2>2. Below(q) = {x}
    BY <2>1, EitherAt DEF Below
  <2>3. QED BY <2>2 DEF x
<1>3. QED BY <1>1, <1>2

LEMMA NoStar ==
    ASSUME Data, NEW p \in 1..Len(data), data[p] # "*"
    PROVE  Star({p}) = {} /\ ResponseData({p}) = {}
<1>1. Match("*", {p}) = {}
  BY MatchAt
<1>2. Star({p}) = {}
  BY <1>1, OfNothing DEF Star
<1>3. QED BY <1>2 DEF ResponseData

LEMMA TaggedParses ==
    ASSUME Data, NEW k, NEW j, pos \in 1..Len(data), k \in (pos + 1)..Len(data), j \in k..Len(data),
           \A i \in pos..(k - 1) : data[i] \in Alnum, data[k] = "SP",
           k + 3 < j, data[k + 1] \in {"OK", "NO", "BAD"}, data[k + 2] = "SP",
           TextIn(data, k + 3, j), Without(data, k + 1, j, {"CR", "LF"}), LineEnd(j)
    PROVE  ParseNext = {[end |-> j + 2, value |-> Status(data[k + 1], SubSeq(data, pos, k - 1))]}
<1> DEFINE tag == SubSeq(data, pos, k - 1)
           v == Status(data[k + 1], tag)
           x == [end |-> j, value |-> v]
           y == [end |-> j + 2, value |-> v]
           T == {"OK", "NO", "BAD"}
<1>1. /\ k \in 1..Len(data) /\ k + 1 \in 1..Len(data) /\ j \in (k + 1)..Len(data)
      /\ k + 1 + 2 = k + 3 /\ k + 1 + 1 = k + 2 /\ k \in pos..Len(data) /\ k # pos
  BY DEF Data
<1>2. Span(Alnum, {pos}) = {k}
  <2>1. Run(pos, k, Alnum)
    BY DEF Run, Alnum, Keyword, Condition, Digit, Value
  <2>2. QED BY <1>1, <2>1, SpanAt
<1>3. Match("SP", {k}) = {k + 1}
  BY <1>1, MatchAt
<1>4. RespCondState(tag, {k + 1}) = {x}
  <2>1. data[k + 1] \in T /\ data[j] = "CR"
    BY DEF LineEnd
  <2> HIDE DEF T, tag
  <2>2. CondOf(T, tag, {k + 1}) = {x}
    BY <1>1, <2>1, CondAt
  <2>3. QED BY <2>2 DEF T, RespCondState
<1> HIDE DEF T, v
<1>5. ResponseTagged({pos}) = {y}
  <2>1. ResponseTagged({pos}) = EndLine({x})
    <3> DEFINE tagged(p, q) == RespCondState(SubSeq(data, p, q - 1), Match("SP", {q}))
    <3>1. tagged(pos, k) = {x}
      BY <1>3, <1>4
    <3>2. ResponseTagged({pos}) = EndLine(UNION {UNION {tagged(p, q) : q \in Span(Alnum, {p})} : p \in {pos}})
      BY DEF ResponseTagged
    <3> HIDE DEF tagged, x
    <3> DEFINE all(p) == UNION {tagged(p, q) : q \in Span(Alnum, {p})}
    <3>3. all(pos) = {x}
      BY <1>2, <3>1
    <3>4. ResponseTagged({pos}) = EndLine(UNION {all(p) : p \in {pos}})
      BY <3>2
    <3> HIDE DEF all
    <3>5. UNION {all(p) : p \in {pos}} = {x}
      BY <3>3
    <3>6. QED BY <3>4, <3>5
  <2>2. QED BY <2>1, EndLineAt
<1> HIDE DEF y
<1>6. Response({pos}) = {y}
  <2>1. data[pos] \in Alnum
    BY DEF Data
  <2>2. data[pos] # "+" /\ data[pos] # "*"
    BY <2>1 DEF Alnum, Keyword, Condition, Digit, Value
  <2>3. ContinueReq({pos}) = {} /\ ResponseData({pos}) = {}
    BY <2>2, NoContinueReq, NoStar
  <2>4. ResponseDone({pos}) = {y}
    BY <1>5, EitherFirst DEF ResponseDone
  <2>5. QED BY <2>3, <2>4, EitherAt DEF Response
<1>7. ParseNext = {y}
  BY <1>6, EitherFirst DEF ParseNext
<1>8. QED BY <1>7 DEF y, v
-----------------------------------------------------------------------------
(* The data of a mailbox. *)

\* What is no search and no status is a list of flags or a number.
LEMMA NoSearch ==
    ASSUME Data, NEW q \in 1..Len(data), data[q] \notin {"SEARCH", "STATUS"}
    PROVE  MailboxData({q})
             = Yield(Either(Enclosed("(", ")", Match("SP", Match("FLAGS", {q}))),
                            OneOf({"EXISTS", "RECENT"}, Match("SP", Number({q})))),
                     Status("OTHER", <<>>))
<1> DEFINE search == MessageIdList(Match("SEARCH", {q}))
           found  == {[end |-> r.end, value |-> Parsed("SEARCH", <<>>, <<>>, r.value)] : r \in search}
           status == From(Match("SP", Match("STATUS", {q})), LAMBDA p : {Thrown})
           flags  == Enclosed("(", ")", Match("SP", Match("FLAGS", {q})))
           counts == OneOf({"EXISTS", "RECENT"}, Match("SP", Number({q})))
           other  == Status("OTHER", <<>>)
<1>1. Match("SEARCH", {q}) = {} /\ Match("STATUS", {q}) = {}
  BY MatchAt
<1>2. found = {}
  BY <1>1, NoIds
<1>3. status = {}
  BY <1>1, OfNothing DEF From
<1>4. MailboxData({q}) = Either(found, Yield(Either(flags, Either(status, counts)), other))
  BY DEF MailboxData
<1> HIDE DEF found, status, flags, counts, other
<1>5. Either(status, counts) = counts
  BY <1>3, EitherAt
<1>6. MailboxData({q}) = Yield(Either(flags, counts), other)
  BY <1>2, <1>4, <1>5, EitherAt
<1>7. QED BY <1>6 DEF flags, counts, other

LEMMA MailboxCounts ==
    ASSUME Data, NEW q \in 1..Len(data), data[q] \in Digit
    PROVE  MailboxData({q})
             = Yield(OneOf({"EXISTS", "RECENT"}, Match("SP", Number({q}))), Status("OTHER", <<>>))
<1>1. data[q] \notin {"SEARCH", "FLAGS", "STATUS"}
  BY DEF Digit, Value
<1>2. Match("FLAGS", {q}) = {}
  BY <1>1, MatchAt
<1>3. Enclosed("(", ")", Match("SP", Match("FLAGS", {q}))) = {}
  BY <1>2, OfNothing
<1>4. QED BY <1>1, <1>3, NoSearch, EitherAt

LEMMA CountBelow ==
    ASSUME Data, NEW q \in 1..Len(data), NEW j \in q..Len(data),
           Digits(data, q, j - 2), data[j - 2] = "SP", data[j - 1] \in {"EXISTS", "RECENT"}
    PROVE  Below(q) = {[end |-> j, value |-> Status("OTHER", <<>>)]}
<1> DEFINE x == [end |-> j, value |-> Status("OTHER", <<>>)]
<1>1. /\ j - 2 \in 1..Len(data) /\ j - 2 \in q..Len(data) /\ j - 1 \in 1..Len(data)
      /\ j - 2 + 1 = j - 1 /\ j - 1 + 1 = j /\ data[q] \in Digit
  BY DEF Data, Digits
<1>2. Number({q}) = {j - 2}
  <2>1. data[j - 2] \notin Digit
    BY DEF Digit, Value
  <2>2. QED BY <1>1, <2>1, NumberRuns
<1>3. Match("SP", {j - 2}) = {j - 1}
  BY <1>1, MatchAt
<1>4. OneOf({"EXISTS", "RECENT"}, {j - 1}) = {j}
  <2> DEFINE T == {"EXISTS", "RECENT"}
  <2>1. data[j - 1] \in T
    OBVIOUS
  <2> HIDE DEF T
  <2>2. OneOf(T, {j - 1}) = {j - 1 + 1}
    BY <1>1, <2>1, OneOfAt
  <2>3. QED BY <1>1, <2>2 DEF T
<1>5. MailboxData({q}) = {x}
  <2>1. OneOf({"EXISTS", "RECENT"}, Match("SP", Number({q}))) = {j}
    BY <1>2, <1>3, <1>4
  <2>2. MailboxData({q}) = Yield({j}, Status("OTHER", <<>>))
    BY <1>1, <2>1, MailboxCounts
  <2>3. QED BY <2>2, YieldAt
<1>6. data[q] \notin {"OK", "NO", "BAD", "BYE"}
  BY <1>1 DEF Digit, Value
<1> HIDE DEF x
<1>7. Below(q) = {x}
  BY <1>5, <1>6, NoStatusBelow, EitherFirst
<1>8. QED BY <1>7 DEF x

LEMMA FlagsBelow ==
    ASSUME Data, NEW q \in 1..Len(data), NEW j \in q..Len(data),
           data[q] = "FLAGS", data[q + 1] = "SP", q + 2 < j,
           Bracketed(data, q + 2, j, "(", ")")
    PROVE  Below(q) = {[end |-> j, value |-> Status("OTHER", <<>>)]}
<1> DEFINE x == [end |-> j, value |-> Status("OTHER", <<>>)]
<1>1. /\ q + 1 \in 1..Len(data) /\ q + 2 \in 1..Len(data) /\ j \in (q + 2)..(Len(data) + 1)
      /\ q + 1 + 1 = q + 2
  BY DEF Data
<1>2. Match("FLAGS", {q}) = {q + 1} /\ Match("SP", {q + 1}) = {q + 2}
  BY <1>1, MatchAt
<1>3. Enclosed("(", ")", {q + 2}) = {j}
  BY <1>1, EnclosedAt
<1>4. MailboxData({q}) = {x}
  <2>1. Either({j}, OneOf({"EXISTS", "RECENT"}, Match("SP", Number({q})))) = {j}
    BY EitherFirst
  <2>2. Enclosed("(", ")", Match("SP", Match("FLAGS", {q}))) = {j}
    BY <1>2, <1>3
  <2>3. MailboxData({q}) = Yield({j}, Status("OTHER", <<>>))
    BY <2>1, <2>2, NoSearch
  <2>4. QED BY <2>3, YieldAt
<1> HIDE DEF x
<1>5. Below(q) = {x}
  BY <1>4, NoStatusBelow, EitherFirst
<1>6. QED BY <1>5 DEF x
-----------------------------------------------------------------------------
(* The grammar does not depend on where a line is. *)

\* The first d tokens of t are in the data from p on.
Within(t, p, d) ==
    /\ p \in 1..Len(data) /\ p + d <= Len(data) + 1
    /\ \A i \in 1..d : data[p + i - 1] = t[i]

LEMMA TokenAt ==
    ASSUME Data, NEW t \in Seq(Token), NEW p \in Nat, NEW d \in Nat, Within(t, p, d), NEW i \in 1..d
    PROVE  p + i - 1 \in 1..Len(data) /\ data[p + i - 1] = t[i]
BY DEF Data, Within

LEMMA WithoutShifts ==
    ASSUME Data, NEW t \in Seq(Token), NEW p \in Nat, NEW d \in Nat, Within(t, p, d), NEW T,
           NEW i \in 1..d, NEW j \in 1..(d + 1), Without(t, i, j, T)
    PROVE  Without(data, p + i - 1, p + j - 1, T)
<1>1. ASSUME NEW k \in (p + i - 1)..(p + j - 1 - 1) PROVE data[k] \notin T
  <2> DEFINE h == k - p + 1
  <2>1. h \in i..(j - 1) /\ h \in 1..d /\ p + h - 1 = k
    BY DEF Within
  <2> HIDE DEF h
  <2>2. data[k] = t[h]
    BY <2>1, TokenAt
  <2>3. QED BY <2>1, <2>2 DEF Without
<1>2. QED BY <1>1 DEF Without

LEMMA DigitsShift ==
    ASSUME Data, NEW t \in Seq(Token), NEW p \in Nat, NEW d \in Nat, Within(t, p, d),
           NEW i \in 1..d, NEW j \in 1..(d + 1), Digits(t, i, j)
    PROVE  Digits(data, p + i - 1, p + j - 1)
<1>1. ASSUME NEW k \in (p + i - 1)..(p + j - 1 - 1) PROVE data[k] \in Digit
  <2> DEFINE h == k - p + 1
  <2>1. h \in i..(j - 1) /\ h \in 1..d /\ p + h - 1 = k
    BY DEF Within
  <2> HIDE DEF h
  <2>2. data[k] = t[h]
    BY <2>1, TokenAt
  <2>3. QED BY <2>1, <2>2 DEF Digits
<1>2. p + i - 1 < p + j - 1
  BY DEF Digits, Within
<1>3. QED BY <1>1, <1>2 DEF Digits

LEMMA BracketedShifts ==
    ASSUME Data, NEW t \in Seq(Token), NEW p \in Nat, NEW d \in Nat, Within(t, p, d), NEW open, NEW close,
           NEW i \in 1..d, NEW j \in 1..(d + 1), Bracketed(t, i, j, open, close)
    PROVE  Bracketed(data, p + i - 1, p + j - 1, open, close)
<1>1. /\ i + 1 \in 1..d /\ j - 1 \in 1..d /\ p \in Int /\ i + 1 < j
      /\ t[i] = open /\ t[j - 1] = close /\ Without(t, i + 1, j - 1, {close})
  BY DEF Bracketed
<1>2. data[p + i - 1] = open /\ data[p + (j - 1) - 1] = close
  BY <1>1, TokenAt
<1>3. Without(data, p + (i + 1) - 1, p + (j - 1) - 1, {close})
  <2>1. j - 1 \in 1..(d + 1)
    BY <1>1
  <2>2. QED BY <1>1, <2>1, WithoutShifts
<1>4. p + (j - 1) - 1 = p + j - 1 - 1 /\ p + (i + 1) - 1 = p + i - 1 + 1
      /\ p + i - 1 + 1 < p + j - 1
  BY <1>1
<1>5. QED BY <1>2, <1>3, <1>4 DEF Bracketed

LEMMA CodeShifts ==
    ASSUME Data, NEW t \in Seq(Token), NEW p \in Nat, NEW d \in Nat, Within(t, p, d),
           NEW i \in 1..d, NEW j \in i..d, CodeIn(t, i, j)
    PROVE  CodeIn(data, p + i - 1, p + j - 1)
<1>1. p \in Int /\ data[p + i - 1] = t[i] /\ j \in 1..(d + 1)
  BY TokenAt
<1>2. CASE j = i + 1 /\ t[i] \in {"ALERT", "READ-ONLY", "READ-WRITE"}
  BY <1>1, <1>2 DEF CodeIn
<1>3. CASE i + 2 < j /\ t[i] = "UNSEEN" /\ t[i + 1] = "SP" /\ Digits(t, i + 2, j)
  <2>1. i + 1 \in 1..d /\ i + 2 \in 1..d
    BY <1>3
  <2>2. Digits(data, p + (i + 2) - 1, p + j - 1)
    BY <1>1, <1>3, <2>1, DigitsShift
  <2>3. data[p + (i + 1) - 1] = t[i + 1]
    BY <2>1, TokenAt
  <2>4. p + (i + 2) - 1 = p + i - 1 + 2 /\ p + (i + 1) - 1 = p + i - 1 + 1
        /\ p + i - 1 + 2 < p + j - 1
    BY <1>1, <1>3
  <2>5. QED BY <1>1, <1>3, <2>2, <2>3, <2>4 DEF CodeIn
<1>4. CASE /\ t[i] \notin {"UNSEEN", "ALERT", "READ-ONLY", "READ-WRITE"}
           /\ Without(t, i, j, {"]"})
  <2>1. Without(data, p + i - 1, p + j - 1, {"]"})
    BY <1>1, <1>4, WithoutShifts
  <2>2. p + i - 1 <= p + j - 1
    BY <1>1
  <2>3. QED BY <1>1, <1>4, <2>1, <2>2 DEF CodeIn
<1>5. QED BY <1>2, <1>3, <1>4 DEF CodeIn

LEMMA TextShifts ==
    ASSUME Data, NEW t \in Seq(Token), NEW p \in Nat, NEW d \in Nat, Within(t, p, d),
           NEW i \in 1..d, NEW j \in 1..d, TextIn(t, i, j)
    PROVE  TextIn(data, p + i - 1, p + j - 1)
<1>1. p \in Int /\ data[p + i - 1] = t[i]
  BY TokenAt DEF Within
<1>2. CASE i < j /\ t[i] # "["
  BY <1>1, <1>2 DEF TextIn
<1>3. CASE t[i] = "["
  <2>1. PICK m \in (i + 1)..(j - 3) : CodeIn(t, i + 1, m) /\ t[m] = "]" /\ t[m + 1] = "SP"
    BY <1>3 DEF TextIn
  <2>2. i + 1 \in 1..d /\ m \in (i + 1)..d /\ m \in 1..d /\ m + 1 \in 1..d
    BY <2>1
  <2>3. CodeIn(data, p + (i + 1) - 1, p + m - 1)
    BY <2>1, <2>2, CodeShifts
  <2>4. data[p + m - 1] = "]" /\ data[p + (m + 1) - 1] = "SP"
    BY <2>1, <2>2, TokenAt
  <2>5. p + (i + 1) - 1 = p + i - 1 + 1 /\ p + (m + 1) - 1 = p + m - 1 + 1
        /\ p + m - 1 \in (p + i - 1 + 1)..(p + j - 1 - 3)
    BY <1>1, <2>1
  <2>6. QED BY <1>1, <1>3, <2>3, <2>4, <2>5 DEF TextIn
<1>4. QED BY <1>2, <1>3 DEF TextIn

\* All of a line is there.
LEMMA WholeToken ==
    ASSUME Data, NEW t \in Seq(Token), NEW p \in Nat, Within(t, p, Len(t)), NEW i \in 1..Len(t)
    PROVE  data[p + i - 1] = t[i]
<1>1. Len(t) \in Nat
  OBVIOUS
<1>2. QED BY <1>1, TokenAt

LEMMA LineEndsThere ==
    ASSUME Data, NEW t \in Seq(Token), NEW p \in Nat, Within(t, p, Len(t)), OneLine(t)
    PROVE  LineEnd(p + Len(t) - 2) /\ Without(data, p, p + Len(t) - 2, {"CR", "LF"})
<1>1. /\ Len(t) \in Nat /\ Len(t) > 2 /\ p \in Int
      /\ t[Len(t) - 1] = "CR" /\ t[Len(t)] = "LF"
      /\ Without(t, 1, Len(t) - 1, {"CR", "LF"})
  BY DEF OneLine, Ending, Within
<1>2. 1 \in 1..Len(t) /\ Len(t) - 1 \in 1..(Len(t) + 1) /\ Len(t) - 1 \in 1..Len(t)
      /\ Len(t) \in 1..Len(t)
  BY <1>1
<1>3. Without(data, p + 1 - 1, p + (Len(t) - 1) - 1, {"CR", "LF"})
  BY <1>1, <1>2, WithoutShifts
<1>4. data[p + (Len(t) - 1) - 1] = "CR" /\ data[p + Len(t) - 1] = "LF"
  BY <1>1, <1>2, WholeToken
<1>5. p + (Len(t) - 1) - 1 = p + Len(t) - 2 /\ p + 1 - 1 = p
      /\ p + Len(t) - 2 + 1 = p + Len(t) - 1 /\ p + Len(t) - 2 \in 1..(Len(data) - 1)
  BY <1>1 DEF Within, Data
<1>6. QED BY <1>3, <1>4, <1>5 DEF LineEnd

LEMMA Fits ==
    ASSUME Data, NEW t \in Seq(Token), NEW p \in Nat, Within(t, p, Len(t))
    PROVE  Len(t) \in Nat /\ Len(data) \in Nat /\ 1 <= p /\ p + Len(t) <= Len(data) + 1
BY DEF Data, Within

LEMMA StarThere ==
    ASSUME Data, NEW t \in Seq(Token), Starred(t), pos \in Nat, Within(t, pos, Len(t))
    PROVE  /\ pos \in 1..(Len(data) - 1) /\ data[pos] = "*" /\ data[pos + 1] = "SP"
           /\ pos + 2 \in 1..Len(data)
<1>1. Len(t) > 2 /\ 1 \in 1..Len(t) /\ 2 \in 1..Len(t) /\ 3 \in 1..Len(t)
  BY DEF Starred
<1>2. data[pos + 1 - 1] = t[1] /\ data[pos + 2 - 1] = t[2]
  BY <1>1, WholeToken
<1>3. pos + 1 - 1 = pos /\ pos + 2 - 1 = pos + 1
  OBVIOUS
<1>4. t[1] = "*" /\ t[2] = "SP"
  BY DEF Starred
<1>5. pos \in 1..(Len(data) - 1) /\ pos + 2 \in 1..Len(data)
  BY <1>1 DEF Within, Data
<1>6. QED BY <1>2, <1>3, <1>4, <1>5
-----------------------------------------------------------------------------
(* The lines of the grammar. *)

\* The parser makes r of what it finds, which ends with the line.
Reads(t, r) == ParseNext = {[end |-> pos + Len(t), value |-> r]}

LEMMA StatusLineReads ==
    ASSUME Data, NEW t \in Seq(Token), NEW r, StatusLine(t, r), pos \in Nat, Within(t, pos, Len(t))
    PROVE  Reads(t, r)
<1> DEFINE q == pos + 2
           j == pos + Len(t) - 2
<1>1. Starred(t) /\ OneLine(t) /\ 3 + 3 < Len(t) /\ t[3] \in {"OK", "NO", "BAD", "BYE"}
      /\ t[3 + 1] = "SP" /\ TextIn(t, 3 + 2, Len(t) - 1) /\ r = Status(t[3], <<>>)
  BY DEF StatusLine, IsStatus
<1>2. LineEnd(j) /\ Without(data, pos, j, {"CR", "LF"})
  BY <1>1, LineEndsThere
<1>3. data[q] = t[3] /\ data[q + 1] = "SP"
  <2>1. data[pos + 3 - 1] = t[3] /\ data[pos + 4 - 1] = t[4]
    BY <1>1, WholeToken
  <2>2. QED BY <1>1, <2>1
<1>4. TextIn(data, q + 2, j)
  <2>1. TextIn(data, pos + 5 - 1, pos + (Len(t) - 1) - 1)
    BY <1>1, TextShifts
  <2>2. pos + 5 - 1 = q + 2 /\ pos + (Len(t) - 1) - 1 = j
    OBVIOUS
  <2>3. QED BY <2>1, <2>2
<1>5. q \in 1..Len(data) /\ j \in q..Len(data) /\ q + 2 < j /\ j + 2 = pos + Len(t)
  <2>1. 6 < Len(t)
    BY <1>1
  <2>2. Len(t) \in Nat /\ Len(data) \in Nat /\ 1 <= pos /\ pos + Len(t) <= Len(data) + 1
    BY Fits
  <2>3. QED BY <2>1, <2>2
<1>6. Without(data, q, j, {"CR", "LF"}) /\ data[j] = "CR"
  BY <1>2 DEF Without, LineEnd
<1>7. Below(q) = {[end |-> j, value |-> r]}
  <2> HIDE DEF q, j
  <2>1. Below(q) = {[end |-> j, value |-> Status(data[q], <<>>)]}
    BY <1>1, <1>3, <1>4, <1>5, <1>6, StatusBelow
  <2>2. QED BY <1>1, <1>3, <2>1
<1>8. QED BY <1>1, <1>2, <1>5, <1>7, StarThere, StarredParses DEF Reads

LEMMA CountLineReads ==
    ASSUME Data, NEW t \in Seq(Token), NEW r, CountLine(t, r), pos \in Nat, Within(t, pos, Len(t))
    PROVE  Reads(t, r)
<1> DEFINE q == pos + 2
           j == pos + Len(t) - 2
<1>1. Starred(t) /\ OneLine(t) /\ 6 < Len(t) /\ Digits(t, 3, Len(t) - 3)
      /\ t[Len(t) - 3] = "SP" /\ t[Len(t) - 2] \in {"EXISTS", "RECENT"}
      /\ r = Status("OTHER", <<>>)
  BY DEF CountLine
<1>2. LineEnd(j)
  BY <1>1, LineEndsThere
<1>3. Digits(data, q, j - 2)
  <2>1. Digits(data, pos + 3 - 1, pos + (Len(t) - 3) - 1)
    BY <1>1, DigitsShift
  <2>2. pos + 3 - 1 = q /\ pos + (Len(t) - 3) - 1 = j - 2
    OBVIOUS
  <2>3. QED BY <2>1, <2>2
<1>4. data[j - 2] = "SP" /\ data[j - 1] \in {"EXISTS", "RECENT"}
  <2>1. data[pos + (Len(t) - 3) - 1] = "SP" /\ data[pos + (Len(t) - 2) - 1] \in {"EXISTS", "RECENT"}
    <3>1. Len(t) - 3 \in 1..Len(t) /\ Len(t) - 2 \in 1..Len(t)
      BY <1>1
    <3>2. QED BY <1>1, <3>1, WholeToken
  <2>2. pos + (Len(t) - 2) - 1 = j - 1 /\ pos + (Len(t) - 3) - 1 = j - 2
    OBVIOUS
  <2>3. QED BY <2>1, <2>2
<1>5. q \in 1..Len(data) /\ j \in q..Len(data) /\ j + 2 = pos + Len(t)
  BY <1>1 DEF Within, Data
<1>6. Below(q) = {[end |-> j, value |-> r]}
  <2> HIDE DEF q, j
  <2>1. QED BY <1>1, <1>3, <1>4, <1>5, CountBelow
<1>7. QED BY <1>1, <1>2, <1>5, <1>6, StarThere, StarredParses DEF Reads

LEMMA FlagsLineReads ==
    ASSUME Data, NEW t \in Seq(Token), NEW r, FlagsLine(t, r), pos \in Nat, Within(t, pos, Len(t))
    PROVE  Reads(t, r)
<1> DEFINE q == pos + 2
           j == pos + Len(t) - 2
<1>1. Starred(t) /\ OneLine(t) /\ 6 < Len(t) /\ t[3] = "FLAGS" /\ t[4] = "SP"
      /\ Bracketed(t, 5, Len(t) - 1, "(", ")") /\ r = Status("OTHER", <<>>)
  BY DEF FlagsLine
<1>2. LineEnd(j)
  BY <1>1, LineEndsThere
<1>3. data[q] = "FLAGS" /\ data[q + 1] = "SP"
  <2>1. data[pos + 3 - 1] = t[3] /\ data[pos + 4 - 1] = t[4]
    <3>1. 3 \in 1..Len(t) /\ 4 \in 1..Len(t)
      BY <1>1
    <3>2. QED BY <3>1, WholeToken
  <2>2. QED BY <1>1, <2>1
<1>4. Bracketed(data, q + 2, j, "(", ")")
  <2>1. Bracketed(data, pos + 5 - 1, pos + (Len(t) - 1) - 1, "(", ")")
    BY <1>1, BracketedShifts
  <2>2. pos + 5 - 1 = q + 2 /\ pos + (Len(t) - 1) - 1 = j
    OBVIOUS
  <2>3. QED BY <2>1, <2>2
<1>5. q \in 1..Len(data) /\ j \in q..Len(data) /\ q + 2 < j /\ j + 2 = pos + Len(t)
  BY <1>1 DEF Within, Data
<1>6. Below(q) = {[end |-> j, value |-> r]}
  <2> HIDE DEF q, j
  <2>1. QED BY <1>1, <1>3, <1>4, <1>5, FlagsBelow
<1>7. QED BY <1>1, <1>2, <1>5, <1>6, StarThere, StarredParses DEF Reads

LEMMA TaggedLineReads ==
    ASSUME Data, NEW t \in Seq(Token), NEW r, TaggedLine(t, r), pos \in Nat, Within(t, pos, Len(t))
    PROVE  Reads(t, r)
<1>1. PICK h \in 2..Len(t) :
          /\ \A i \in 1..(h - 1) : t[i] \in Alnum
          /\ t[h] = "SP"
          /\ IsStatus(t, h + 1, {"OK", "NO", "BAD"})
          /\ r = Status(t[h + 1], SubSeq(t, 1, h - 1))
  BY DEF TaggedLine
<1> DEFINE k == pos + h - 1
           j == pos + Len(t) - 2
<1>2. OneLine(t) /\ h + 4 < Len(t) /\ t[h + 1] \in {"OK", "NO", "BAD"} /\ t[h + 2] = "SP"
      /\ TextIn(t, h + 3, Len(t) - 1)
  <2>1. h + 1 + 1 = h + 2 /\ h + 1 + 2 = h + 3 /\ h + 1 + 3 = h + 4
    OBVIOUS
  <2>2. QED BY <1>1, <2>1 DEF TaggedLine, IsStatus
<1>3. LineEnd(j) /\ Without(data, pos, j, {"CR", "LF"})
  BY <1>2, LineEndsThere
<1>4. data[k] = "SP" /\ data[k + 1] = t[h + 1] /\ data[k + 2] = "SP"
  <2>1. data[pos + h - 1] = t[h] /\ data[pos + (h + 1) - 1] = t[h + 1]
        /\ data[pos + (h + 2) - 1] = t[h + 2]
    <3>1. h \in 1..Len(t) /\ h + 1 \in 1..Len(t) /\ h + 2 \in 1..Len(t)
      BY <1>2
    <3>2. QED BY <3>1, WholeToken
  <2>2. pos + h - 1 = k /\ pos + (h + 1) - 1 = k + 1 /\ pos + (h + 2) - 1 = k + 2
    OBVIOUS
  <2>3. QED BY <1>1, <1>2, <2>1, <2>2
<1>5. TextIn(data, k + 3, j)
  <2>1. TextIn(data, pos + (h + 3) - 1, pos + (Len(t) - 1) - 1)
    BY <1>2, TextShifts
  <2>2. pos + (h + 3) - 1 = k + 3 /\ pos + (Len(t) - 1) - 1 = j
    OBVIOUS
  <2>3. QED BY <2>1, <2>2
<1>6. pos \in 1..Len(data) /\ k \in (pos + 1)..Len(data) /\ j \in k..Len(data)
      /\ k + 3 < j /\ j + 2 = pos + Len(t)
  <2>1. h + 4 < Len(t)
    BY <1>2
  <2>2. Len(t) \in Nat /\ Len(data) \in Nat /\ 1 <= pos /\ pos + Len(t) <= Len(data) + 1
    BY Fits
  <2>3. QED BY <2>1, <2>2
<1>7. Without(data, k + 1, j, {"CR", "LF"})
  BY <1>3, <1>6 DEF Without
<1>8. \A i \in pos..(k - 1) : data[i] \in Alnum
  <2> SUFFICES ASSUME NEW i \in pos..(k - 1) PROVE data[i] \in Alnum
    OBVIOUS
  <2> DEFINE g == i - pos + 1
  <2>1. g \in 1..(h - 1) /\ g \in 1..Len(t) /\ pos + g - 1 = i
    OBVIOUS
  <2> HIDE DEF g
  <2>2. QED BY <1>1, <2>1, WholeToken
<1>9. SubSeq(data, pos, k - 1) = SubSeq(t, 1, h - 1)
  <2>1. SubSeq(data, pos, k - 1) = [i \in 1..(h - 1) |-> data[pos + i - 1]]
    BY <1>6 DEF Data
  <2>2. SubSeq(t, 1, h - 1) = [i \in 1..(h - 1) |-> t[i]]
    OBVIOUS
  <2>3. ASSUME NEW i \in 1..(h - 1) PROVE data[pos + i - 1] = t[i]
    <3>1. i \in 1..Len(t)
      BY <1>2
    <3>2. QED BY <3>1, WholeToken
  <2>4. QED BY <2>1, <2>2, <2>3
<1>10. ParseNext = {[end |-> j + 2, value |-> Status(data[k + 1], SubSeq(data, pos, k - 1))]}
  <2> HIDE DEF k, j
  <2>1. data[k + 1] \in {"OK", "NO", "BAD"}
    BY <1>2, <1>4
  <2>2. QED BY <1>3, <1>4, <1>5, <1>6, <1>7, <1>8, <2>1, TaggedParses
<1>11. QED BY <1>1, <1>4, <1>6, <1>9, <1>10 DEF Reads
-----------------------------------------------------------------------------
(* Numbers that are an int. *)

LEMMA ModLess == ASSUME NEW x \in Nat, NEW y \in Nat, x < y PROVE x % y = x
OBVIOUS

LEMMA NoWrap ==
    ASSUME NEW n \in 0..IntMax PROVE Wrap(n) = n /\ n % (2 * (IntMax + 1)) = n
<1>1. IntMax \in Nat
  BY IntMaxIsNatural
<1> DEFINE y == 2 * (IntMax + 1)
           x == n + IntMax + 1
<1>2. y \in Nat /\ x \in Nat /\ x < y /\ n \in Nat /\ n < y
  BY <1>1
<1>3. x % y = x /\ n % y = n
  <2> HIDE DEF x, y
  <2>1. QED BY <1>2, ModLess
<1>4. Wrap(n) = x - (IntMax + 1)
  BY <1>3 DEF Wrap
<1>5. QED BY <1>1, <1>3, <1>4

LEMMA NumberIs ==
    ASSUME Data, NEW i \in 1..Len(data), NEW j \in i..Len(data), NEW v,
           Denotes(data, i, j, v), data[j] \notin Digit
    PROVE  NumberAt(i) = v /\ v \in 0..IntMax
<1>1. Digits(data, i, j)
  BY DEF Denotes
<1>2. PICK f \in [0..(j - i) -> 0..IntMax] :
          /\ f[0] = 0 /\ f[j - i] = v
          /\ \A k \in 1..(j - i) : f[k] = 10 * f[k - 1] + Value[data[i + k - 1]]
  BY DEF Denotes
<1>3. Upto(Token \ Digit, i) = j
  <2>1. Without(data, i, j, Token \ Digit)
    BY <1>1 DEF Without, Digits
  <2>2. data[j] \in Token \ Digit
    BY DEF Data
  <2>3. QED BY <2>1, <2>2, UptoAt DEF Data
<1> DEFINE d == j - i
           digit(n) == Value[data[i + n - 1]]
           Body(g) == [n \in 0..d |-> IF n = 0 THEN 0 ELSE Wrap(10 * g[n - 1] + digit(n))]
           number == CHOOSE g : g = Body(g)
<1>4. NumberAt(i) = number[d]
  BY <1>3 DEF NumberAt
<1>5. d \in Nat /\ f \in [0..d -> 0..IntMax] /\ f[0] = 0 /\ f[d] = v
      /\ \A n \in 1..d : f[n] = 10 * f[n - 1] + digit(n)
  BY <1>2
<1> HIDE DEF d, digit
<1>6. f = Body(f)
  <2>1. \A n \in 0..d : f[n] = IF n = 0 THEN 0 ELSE Wrap(10 * f[n - 1] + digit(n))
    <3> SUFFICES ASSUME NEW n \in 0..d
                 PROVE  f[n] = IF n = 0 THEN 0 ELSE Wrap(10 * f[n - 1] + digit(n))
      OBVIOUS
    <3>1. CASE n = 0
      BY <1>5, <3>1
    <3>2. CASE n # 0
      <4>1. n \in 1..d
        BY <1>5, <3>2
      <4>2. f[n] \in 0..IntMax
        BY <1>5
      <4>3. Wrap(f[n]) = f[n]
        BY <4>2, NoWrap
      <4>4. QED BY <1>5, <3>2, <4>1, <4>3
    <3>3. QED BY <3>1, <3>2
  <2>2. f = [n \in 0..d |-> f[n]]
    BY <1>5
  <2>3. QED BY <2>1, <2>2
<1>7. number = Body(number)
  <2> HIDE DEF Body
  <2>1. QED BY <1>6
<1> HIDE DEF number
<1> DEFINE G == {n \in 0..d : number[n] = f[n]}
<1>8. 0 \in G
  <2>1. 0 \in 0..d
    BY <1>5
  <2>2. number[0] = 0
    BY <1>7, <2>1
  <2>3. QED BY <1>5, <2>1, <2>2
<1>9. ASSUME NEW n \in 0..d, n \in G, n < d PROVE n + 1 \in G
  <2>1. n + 1 \in 0..d /\ n + 1 # 0 /\ n + 1 - 1 = n
    BY <1>5, <1>9
  <2>2. number[n + 1] = Wrap(10 * number[n] + digit(n + 1))
    BY <1>7, <2>1
  <2>3. f[n + 1] = Wrap(10 * f[n] + digit(n + 1))
    BY <1>6, <2>1
  <2>4. QED BY <1>9, <2>1, <2>2, <2>3
<1>10. 0..d \subseteq G
  <2> HIDE DEF G
  <2>1. QED BY <1>5, <1>8, <1>9, InductUpTo
<1>11. number[d] = f[d]
  BY <1>5, <1>10
<1>12. v \in 0..IntMax
  BY <1>5
<1>13. QED BY <1>4, <1>5, <1>11, <1>12

LEMMA DenotesAnInt ==
    ASSUME NEW t, NEW i \in Int, NEW j \in Int, NEW v, Denotes(t, i, j, v) PROVE v \in 0..IntMax
<1>1. j - i \in 0..(j - i)
  BY DEF Denotes, Digits
<1>2. \E f \in [0..(j - i) -> 0..IntMax] : f[j - i] = v
  BY DEF Denotes
<1>3. QED BY <1>1, <1>2

LEMMA DenotesShift ==
    ASSUME Data, NEW t \in Seq(Token), NEW p \in Nat, NEW d \in Nat, Within(t, p, d),
           NEW i \in 1..d, NEW j \in 1..(d + 1), NEW v, Denotes(t, i, j, v)
    PROVE  Denotes(data, p + i - 1, p + j - 1, v)
<1>1. Digits(data, p + i - 1, p + j - 1)
  BY DigitsShift DEF Denotes
<1>2. PICK f \in [0..(j - i) -> 0..IntMax] :
          /\ f[0] = 0 /\ f[j - i] = v
          /\ \A k \in 1..(j - i) : f[k] = 10 * f[k - 1] + Value[t[i + k - 1]]
  BY DEF Denotes
<1>3. ASSUME NEW k \in 1..(j - i)
      PROVE  f[k] = 10 * f[k - 1] + Value[data[p + i - 1 + k - 1]]
  <2> DEFINE h == i + k - 1
  <2>1. h \in 1..d /\ p + h - 1 = p + i - 1 + k - 1
    OBVIOUS
  <2> HIDE DEF h
  <2>2. data[p + h - 1] = t[h]
    BY <2>1, TokenAt
  <2>3. f[k] = 10 * f[k - 1] + Value[t[h]]
    BY <1>2 DEF h
  <2>4. QED BY <2>1, <2>2, <2>3
<1>4. (p + j - 1) - (p + i - 1) = j - i
  OBVIOUS
<1> DEFINE a == p + i - 1
           b == p + j - 1
<1>5. /\ f \in [0..(b - a) -> 0..IntMax] /\ f[0] = 0 /\ f[b - a] = v
      /\ \A k \in 1..(b - a) : f[k] = 10 * f[k - 1] + Value[data[a + k - 1]]
  BY <1>2, <1>3, <1>4
<1> HIDE DEF a, b
<1>6. Digits(data, a, b)
  BY <1>1 DEF a, b
<1>7. Denotes(data, a, b, v)
  BY <1>5, <1>6 DEF Denotes
<1>8. QED BY <1>7 DEF a, b
-----------------------------------------------------------------------------
(* Literals. *)

\* The header of a literal at s, from the brace to the end of its line.
Header(s, m, n) ==
    /\ s \in 1..Len(data) /\ m \in (s + 1)..(Len(data) - 2)
    /\ data[s] = "{" /\ Denotes(data, s + 1, m, n)
    /\ data[m] = "}" /\ data[m + 1] = "CR" /\ data[m + 2] = "LF"

\* Its bytes are there, or the read leaves the data.
LEMMA LiteralAt ==
    ASSUME Data, NEW s, NEW m, NEW n, Header(s, m, n)
    PROVE  /\ n \in Nat
           /\ m + 3 + n <= Len(data) + 1
                => Literal({s}) = {[end |-> m + 3 + n, value |-> SubSeq(data, m + 3, m + 3 + n - 1)]}
           /\ ~(m + 3 + n <= Len(data) + 1)
                => Literal({s}) = {[end |-> Overrun, value |-> <<>>]}
<1>1. /\ Len(data) \in Nat /\ s \in 1..Len(data) /\ s + 1 \in 1..Len(data)
      /\ m \in (s + 1)..Len(data) /\ m \in 1..Len(data) /\ m + 1 \in 1..(Len(data) - 1)
      /\ m + 1 + 1 = m + 2 /\ m + 1 + 2 = m + 3 /\ m + 3 >= 1
  <2>1. s \in 1..Len(data) /\ m \in (s + 1)..(Len(data) - 2)
    BY DEF Header
  <2>2. Len(data) \in Nat
    BY DEF Data
  <2>3. QED BY <2>1, <2>2
<1>2. data[s] = "{" /\ data[m] = "}" /\ data[m + 1] = "CR" /\ data[m + 2] = "LF"
      /\ Denotes(data, s + 1, m, n) /\ data[m] \notin Digit
  BY DEF Header, Digit, Value
<1>3. NumberAt(s + 1) = n /\ n \in 0..IntMax
  BY <1>1, <1>2, NumberIs
<1>4. n \in Nat
  BY <1>3, IntMaxIsNatural
<1>5. Match("{", {s}) = {s + 1}
  BY <1>1, <1>2, MatchAt
<1>6. Crlf(Match("}", Either(Number({s + 1}), {s + 1}))) = {m + 3}
  <2>1. Number({s + 1}) = {m}
    BY <1>1, <1>2, NumberRuns DEF Denotes
  <2>2. Either({m}, {s + 1}) = {m}
    BY EitherFirst
  <2>3. Match("}", {m}) = {m + 1}
    BY <1>1, <1>2, MatchAt
  <2>4. Crlf({m + 1}) = {m + 1 + 2}
    BY <1>1, <1>2, CrlfAt
  <2>5. QED BY <1>1, <2>1, <2>2, <2>3, <2>4
<1> DEFINE start(c) == Crlf(Match("}", Either(Number({c}), {c})))
           read(p, k) == CASE p < 1 -> Yield({p}, <<>>)
                           [] p >= 1 /\ k < 0 -> Yield({Thrown}, <<>>)
                           [] p >= 1 /\ k >= 0 /\ p + k > Len(data) + 1 -> Yield({Overrun}, <<>>)
                           [] OTHER -> Yield({p + k}, SubSeq(data, p, p + k - 1))
           all(c) == UNION {read(p, NumberAt(c)) : p \in start(c)}
<1>7. Literal({s}) = UNION {all(c) : c \in {s + 1}}
  BY <1>5 DEF Literal
<1>8. start(s + 1) = {m + 3}
  BY <1>6
<1>9. m + 3 + n <= Len(data) + 1
        => read(m + 3, n) = {[end |-> m + 3 + n, value |-> SubSeq(data, m + 3, m + 3 + n - 1)]}
  <2> SUFFICES ASSUME m + 3 + n <= Len(data) + 1
               PROVE  read(m + 3, n) = {[end |-> m + 3 + n, value |-> SubSeq(data, m + 3, m + 3 + n - 1)]}
    OBVIOUS
  <2>1. ~(m + 3 < 1) /\ ~(n < 0) /\ ~(m + 3 + n > Len(data) + 1)
    BY <1>1, <1>4
  <2>2. QED BY <2>1, YieldAt
<1>10. ~(m + 3 + n <= Len(data) + 1)
         => read(m + 3, n) = {[end |-> Overrun, value |-> <<>>]}
  <2> SUFFICES ASSUME ~(m + 3 + n <= Len(data) + 1)
               PROVE  read(m + 3, n) = {[end |-> Overrun, value |-> <<>>]}
    OBVIOUS
  <2>1. ~(m + 3 < 1) /\ ~(n < 0) /\ n >= 0 /\ m + 3 >= 1 /\ m + 3 + n > Len(data) + 1
    BY <1>1, <1>4
  <2>2. QED BY <2>1, YieldAt
<1> HIDE DEF start, read
<1>11. all(s + 1) = read(m + 3, n)
  BY <1>3, <1>8
<1> HIDE DEF all
<1>12. Literal({s}) = read(m + 3, n)
  BY <1>7, <1>11
<1>13. QED BY <1>4, <1>9, <1>10, <1>12
-----------------------------------------------------------------------------
(* The attributes of a message. *)

LEMMA NoAttribute == ASSUME NEW text PROVE Attribute(text, {}) = {}
<1>1. MsgAttDynamic({}) = {}
  BY OfNothing DEF MsgAttDynamic
<1> DEFINE body    == Match("BODY", {})
           section == Enclosed("[", "]", body)
           unknown == Either(OneOf({"ENVELOPE", "INTERNALDATE", "RFC822"}, {}),
                             Either(OneOf({"STRUCTURE", "SP"}, body), Match("<", section)))
<1>2. body = {} /\ section = {}
  BY OfNothing
<1>3. unknown = {}
  BY <1>2, OfNothing, EitherAt
<1>4. NString(Match("SP", section)) = {}
  BY <1>2, OfNothing DEF NString
<1>5. Yield(Number(Match("SP", Match("UID", {}))), text) = {}
  BY OfNothing
<1>6. MsgAttStatic(text, {}) = IF unknown # {} THEN Yield({Thrown}, text)
          ELSE Either(NString(Match("SP", section)),
                      Yield(Number(Match("SP", Match("UID", {}))), text))
  BY DEF MsgAttStatic
<1> HIDE DEF unknown, section
<1>7. MsgAttStatic(text, {}) = {}
  BY <1>3, <1>4, <1>5, <1>6, EitherAt
<1>8. QED BY <1>1, <1>7, OfNothing, EitherAt DEF Attribute

\* FLAGS and UID say nothing the session is given.
LEMMA FlagsAttribute ==
    ASSUME Data, NEW text, NEW i \in 1..Len(data), NEW j \in i..Len(data), i + 2 < j,
           data[i] = "FLAGS", data[i + 1] = "SP", Bracketed(data, i + 2, j, "(", ")")
    PROVE  Attribute(text, {i}) = {[end |-> j, value |-> text]}
<1>1. i + 1 \in 1..Len(data) /\ i + 2 \in 1..Len(data) /\ j \in (i + 2)..(Len(data) + 1)
      /\ i + 1 + 1 = i + 2
  BY DEF Data
<1>2. Match("FLAGS", {i}) = {i + 1} /\ Match("SP", {i + 1}) = {i + 2}
  BY <1>1, MatchAt
<1>3. Enclosed("(", ")", {i + 2}) = {j}
  BY <1>1, EnclosedAt
<1>4. MsgAttDynamic({i}) = {j}
  BY <1>2, <1>3 DEF MsgAttDynamic
<1> DEFINE x == [end |-> j, value |-> text]
<1>5. Yield(MsgAttDynamic({i}), text) = {x}
  BY <1>4, YieldAt
<1> HIDE DEF x
<1>6. Attribute(text, {i}) = {x}
  BY <1>5, EitherFirst DEF Attribute
<1>7. QED BY <1>6 DEF x

LEMMA OtherAttribute ==
    ASSUME Data, NEW text, NEW i \in 1..Len(data), data[i] # "FLAGS"
    PROVE  Attribute(text, {i}) = MsgAttStatic(text, {i})
<1>1. Match("FLAGS", {i}) = {}
  BY MatchAt
<1>2. Yield(MsgAttDynamic({i}), text) = {}
  BY <1>1, OfNothing DEF MsgAttDynamic
<1>3. QED BY <1>2, EitherAt DEF Attribute

LEMMA UidAttribute ==
    ASSUME Data, NEW text, NEW i \in 1..Len(data), NEW j \in i..Len(data), i + 2 < j,
           data[i] = "UID", data[i + 1] = "SP", Digits(data, i + 2, j), data[j] \notin Digit
    PROVE  Attribute(text, {i}) = {[end |-> j, value |-> text]}
<1> DEFINE body    == Match("BODY", {i})
           section == Enclosed("[", "]", body)
           unknown == Either(OneOf({"ENVELOPE", "INTERNALDATE", "RFC822"}, {i}),
                             Either(OneOf({"STRUCTURE", "SP"}, body), Match("<", section)))
           string  == NString(Match("SP", section))
           uid     == Number(Match("SP", Match("UID", {i})))
<1>1. i + 1 \in 1..Len(data) /\ i + 2 \in 1..Len(data) /\ j \in (i + 2)..Len(data)
      /\ i + 1 + 1 = i + 2
  BY DEF Data
<1>2. body = {} /\ section = {}
  <2>1. body = {}
    BY MatchAt
  <2>2. QED BY <2>1, OfNothing
<1>3. OneOf({"ENVELOPE", "INTERNALDATE", "RFC822"}, {i}) = {}
  BY OneOfAt
<1>4. unknown = {}
  <2>1. OneOf({"STRUCTURE", "SP"}, body) = {}
    BY <1>2, OfNothing
  <2>2. Match("<", section) = {}
    BY <1>2, OfNothing
  <2>3. Either(OneOf({"STRUCTURE", "SP"}, body), Match("<", section)) = {}
    BY <2>1, <2>2, EitherAt
  <2>4. QED BY <1>3, <2>3, EitherAt
<1>5. string = {}
  BY <1>2, OfNothing DEF NString
<1>6. uid = {j}
  <2>1. Match("UID", {i}) = {i + 1} /\ Match("SP", {i + 1}) = {i + 2}
    BY <1>1, MatchAt
  <2>2. Number({i + 2}) = {j}
    BY <1>1, NumberRuns
  <2>3. QED BY <2>1, <2>2
<1>7. MsgAttStatic(text, {i}) = IF unknown # {} THEN Yield({Thrown}, text)
                                ELSE Either(string, Yield(uid, text))
  BY DEF MsgAttStatic
<1> HIDE DEF unknown, string, uid
<1>8. MsgAttStatic(text, {i}) = Yield({j}, text)
  BY <1>4, <1>5, <1>6, <1>7, EitherAt
<1>9. QED BY <1>8, OtherAttribute, YieldAt

\* A section of the body, up to the string that follows it.
LEMMA BodyAttribute ==
    ASSUME Data, NEW text, NEW i \in 1..Len(data), NEW s \in i..Len(data),
           data[i] = "BODY", Bracketed(data, i + 1, s - 1, "[", "]"), data[s - 1] = "SP",
           i + 3 < s, Literal({s}) # {}
    PROVE  Attribute(text, {i}) = Literal({s})
<1> DEFINE body    == Match("BODY", {i})
           section == Enclosed("[", "]", body)
           unknown == Either(OneOf({"ENVELOPE", "INTERNALDATE", "RFC822"}, {i}),
                             Either(OneOf({"STRUCTURE", "SP"}, body), Match("<", section)))
           string  == NString(Match("SP", section))
           uid     == Number(Match("SP", Match("UID", {i})))
<1>1. i + 1 \in 1..Len(data) /\ s - 1 \in (i + 1)..(Len(data) + 1) /\ s - 1 \in 1..Len(data)
      /\ s - 1 + 1 = s
  BY DEF Data
<1>2. body = {i + 1}
  BY MatchAt
<1>3. section = {s - 1}
  <2>1. Enclosed("[", "]", {i + 1}) = {s - 1}
    BY <1>1, EnclosedAt
  <2>2. QED BY <1>2, <2>1
<1>4. Match("SP", section) = {s}
  BY <1>1, <1>3, MatchAt
<1>5. unknown = {}
  <2>1. OneOf({"ENVELOPE", "INTERNALDATE", "RFC822"}, {i}) = {}
    BY OneOfAt
  <2>2. OneOf({"STRUCTURE", "SP"}, body) = {}
    <3>1. data[i + 1] \notin {"STRUCTURE", "SP"}
      BY DEF Bracketed
    <3>2. QED BY <1>1, <1>2, <3>1, OneOfAt
  <2>3. Match("<", section) = {}
    BY <1>1, <1>3, MatchAt
  <2>4. QED BY <2>1, <2>2, <2>3, EitherAt
<1>6. string = Literal({s})
  BY <1>4 DEF NString
<1>7. MsgAttStatic(text, {i}) = IF unknown # {} THEN Yield({Thrown}, text)
                                ELSE Either(string, Yield(uid, text))
  BY DEF MsgAttStatic
<1> HIDE DEF unknown, string, uid
<1>8. MsgAttStatic(text, {i}) = Literal({s})
  BY <1>5, <1>6, <1>7, EitherAt
<1>9. QED BY <1>8, OtherAttribute
-----------------------------------------------------------------------------
(* A message with one attribute. *)

\* What comes before the attribute at i, from the number at q on.
FetchHead(q, i) ==
    /\ q \in 1..Len(data) /\ i \in (q + 5)..Len(data)
    /\ Digits(data, q, i - 4) /\ data[i - 4] = "SP"
    /\ data[i - 3] = "FETCH" /\ data[i - 2] = "SP" /\ data[i - 1] = "("

Fetched(R) == {[end |-> r.end, value |-> Parsed("FETCH", <<>>, r.value, <<>>)] : r \in R}

LEMMA FetchBelow ==
    ASSUME Data, NEW q, NEW i, FetchHead(q, i)
    PROVE  Below(q) = Fetched(MsgAtt({i - 1}))
<1>1. q \in 1..Len(data) /\ i \in (q + 5)..Len(data) /\ Len(data) \in Nat
  BY DEF FetchHead, Data
<1>2. /\ i - 4 \in q..Len(data) /\ i - 4 \in 1..Len(data) /\ i - 3 \in 1..Len(data)
      /\ i - 2 \in 1..Len(data) /\ i - 4 + 1 = i - 3 /\ i - 3 + 1 = i - 2 /\ i - 2 + 1 = i - 1
  BY <1>1
<1>0. data[i - 4] = "SP" /\ data[i - 3] = "FETCH" /\ data[i - 2] = "SP"
  BY DEF FetchHead
<1>3. data[q] \in Digit /\ data[i - 4] \notin Digit
  BY <1>1 DEF FetchHead, Digits, Digit, Value
<1>4. Match("SP", Number({q})) = {i - 3}
  <2>1. Number({q}) = {i - 4}
    BY <1>1, <1>2, <1>3, NumberRuns DEF FetchHead
  <2>2. Match("SP", {i - 4}) = {i - 3}
    <3>1. Match("SP", {i - 4}) = {i - 4 + 1}
      BY <1>2, <1>0, MatchAt
    <3>2. QED BY <1>2, <3>1
  <2>3. QED BY <2>1, <2>2
<1>5. MailboxData({q}) = {}
  <2>1. OneOf({"EXISTS", "RECENT"}, {i - 3}) = {}
    <3>1. data[i - 3] \notin {"EXISTS", "RECENT"}
      BY DEF FetchHead
    <3>2. QED BY <1>2, <3>1, OneOfAt
  <2>2. OneOf({"EXISTS", "RECENT"}, Match("SP", Number({q}))) = {}
    BY <1>4, <2>1
  <2>3. MailboxData({q}) = Yield({}, Status("OTHER", <<>>))
    BY <1>1, <1>3, <2>2, MailboxCounts
  <2>4. QED BY <2>3, OfNothing
<1>6. MessageData({q}) = Fetched(MsgAtt({i - 1}))
  <2> DEFINE fetch(p) == {[end |-> r.end, value |-> Parsed("FETCH", <<>>, r.value, <<>>)] :
                             r \in MsgAtt(Match("SP", Match("FETCH", {p})))}
             kind(p)  == IF Match("EXPUNGE", {p}) = {} THEN fetch(p)
                         ELSE Yield({Thrown}, NullResponse)
  <2>1. Match("EXPUNGE", {i - 3}) = {}
    BY <1>2, MatchAt DEF FetchHead
  <2>2. Match("SP", Match("FETCH", {i - 3})) = {i - 1}
    <3>1. Match("FETCH", {i - 3}) = {i - 2} /\ Match("SP", {i - 2}) = {i - 1}
      <4>1. Match("FETCH", {i - 3}) = {i - 3 + 1} /\ Match("SP", {i - 2}) = {i - 2 + 1}
        BY <1>2, <1>0, MatchAt
      <4>2. QED BY <1>2, <4>1
    <3>2. QED BY <3>1
  <2>3. fetch(i - 3) = Fetched(MsgAtt({i - 1}))
    BY <2>2 DEF Fetched
  <2>4. MessageData({q}) = UNION {kind(p) : p \in Match("SP", Number({q}))}
    BY DEF MessageData
  <2> HIDE DEF fetch
  <2>5. kind(i - 3) = fetch(i - 3)
    BY <2>1
  <2> HIDE DEF kind
  <2>6. MessageData({q}) = kind(i - 3)
    BY <1>4, <2>4
  <2>7. QED BY <2>3, <2>5, <2>6
<1>7. data[q] \notin {"OK", "NO", "BAD", "BYE"}
  BY <1>3 DEF Digit, Value
<1>8. QED BY <1>1, <1>5, <1>6, <1>7, NoStatusBelow, EitherAt

LEMMA FirstAttribute ==
    ASSUME Data, NEW i \in 2..Len(data), data[i - 1] = "("
    PROVE  FirstAttributes({i - 1}) = Attribute(<<>>, {i})
<1>1. Match("(", {i - 1}) = {i}
  <2>1. i - 1 \in 1..Len(data) /\ i - 1 + 1 = i
    BY DEF Data
  <2>2. QED BY <2>1, MatchAt
<1> DEFINE e == <<>>
<1> HIDE DEF e
<1>2. UNION {Attribute(e, {q}) : q \in {i}} = Attribute(e, {i})
  OBVIOUS
<1>3. QED BY <1>1, <1>2 DEF FirstAttributes, e

\* Without another attribute the repetition stops.
LEMMA NoMoreAttributes ==
    ASSUME Data, NEW R, \A r \in R : MoreAttributes(r) = {}
    PROVE  Repeat(R, MoreAttributes) = R
<1> DEFINE L == Len(data)
           m == [r \in R |-> MoreAttributes(r)]
<1>1. PICK g : Grows(g, L, R, R, m) /\ Repeat(R, MoreAttributes) = g[L]
  <2>1. R \in SUBSET R /\ \A r \in R : MoreAttributes(r) \subseteq R
    OBVIOUS
  <2>2. QED BY <2>1, AttributesRepeat
<1>2. L \in Nat
  BY DEF Data
<1> HIDE DEF L
<1> DEFINE next(S) == Either(UNION {m[r] : r \in S}, S)
<1>3. /\ g \in [0..L -> SUBSET R] /\ g[0] = R
      /\ \A n \in 1..L : g[n] = next(g[n - 1])
  BY <1>1 DEF Grows
<1>4. next(R) = R
  <2>1. UNION {m[r] : r \in R} = {}
    OBVIOUS
  <2> HIDE DEF m
  <2>2. QED BY <2>1, EitherAt
<1> HIDE DEF next
<1> DEFINE G == {n \in 0..L : g[n] = R}
<1>5. 0 \in G
  BY <1>2, <1>3
<1>6. ASSUME NEW n \in 0..L, n \in G, n < L PROVE n + 1 \in G
  <2>1. n + 1 \in 0..L /\ n + 1 \in 1..L /\ n + 1 - 1 = n
    BY <1>2, <1>6
  <2>2. g[n + 1] = next(g[n])
    BY <1>3, <2>1
  <2>3. QED BY <1>4, <1>6, <2>1, <2>2
<1>7. 0..L \subseteq G
  <2> HIDE DEF G
  <2>1. QED BY <1>2, <1>5, <1>6, InductUpTo
<1>8. g[L] = R
  BY <1>2, <1>7
<1>9. QED BY <1>1, <1>8

LEMMA MsgAttOne ==
    ASSUME Data, NEW i \in 2..Len(data), data[i - 1] = "(", NEW j \in 1..Len(data), data[j] = ")",
           NEW v, Attribute(<<>>, {i}) = {[end |-> j, value |-> v]}
    PROVE  MsgAtt({i - 1}) = {[end |-> j + 1, value |-> v]}
<1> DEFINE x == [end |-> j, value |-> v]
           close(r) == Match(")", Either(Match("SP", {r.end}), {r.end}))
<1>1. FirstAttributes({i - 1}) = {x}
  BY FirstAttribute
<1>2. Match("SP", {x.end}) = {} /\ x.end = j /\ x.value = v
  BY MatchAt
<1> HIDE DEF x
<1>3. MoreAttributes(x) = {}
  BY <1>2, NoAttribute DEF MoreAttributes
<1>4. Repeat({x}, MoreAttributes) = {x}
  BY <1>3, NoMoreAttributes
<1>5. close(x) = {j + 1}
  <2>1. Either({}, {j}) = {j}
    BY EitherAt
  <2>2. Match(")", {j}) = {j + 1}
    BY MatchAt
  <2>3. QED BY <1>2, <2>1, <2>2
<1>6. MsgAtt({i - 1}) = UNION {Yield(close(r), r.value) : r \in Repeat(FirstAttributes({i - 1}), MoreAttributes)}
  BY DEF MsgAtt, FirstAttributes, MoreAttributes
<1> HIDE DEF close
<1> DEFINE all(r) == Yield(close(r), r.value)
<1>7. MsgAtt({i - 1}) = UNION {all(r) : r \in {x}}
  BY <1>1, <1>4, <1>6
<1>8. all(x) = Yield({j + 1}, v)
  BY <1>2, <1>5
<1> HIDE DEF all
<1>9. MsgAtt({i - 1}) = Yield({j + 1}, v)
  BY <1>7, <1>8
<1>10. QED BY <1>9, YieldAt

LEMMA HeadThere ==
    ASSUME Data, NEW t \in Seq(Token), pos \in Nat, NEW d \in Nat, d <= Len(t), Within(t, pos, d),
           NEW r, NEW i \in 1..d, NEW j \in 1..Len(t), NEW text, FetchLine(t, r, i, j, text)
    PROVE  /\ FetchHead(pos + 2, pos + i - 1)
           /\ pos \in 1..(Len(data) - 1) /\ data[pos] = "*" /\ data[pos + 1] = "SP"
           /\ data[pos + 2] \in Digit
<1>1. /\ 7 < i /\ Digits(t, 3, i - 4) /\ t[1] = "*" /\ t[2] = "SP"
      /\ t[i - 4] = "SP" /\ t[i - 3] = "FETCH" /\ t[i - 2] = "SP" /\ t[i - 1] = "("
  BY DEF FetchLine, Starred
<1>2. Len(data) \in Nat /\ 1 <= pos /\ pos + d <= Len(data) + 1
  BY DEF Data, Within
<1>3. Digits(data, pos + 2, pos + i - 1 - 4)
  <2>1. 3 \in 1..d /\ i - 4 \in 1..(d + 1)
    BY <1>1
  <2>2. Digits(data, pos + 3 - 1, pos + (i - 4) - 1)
    BY <1>1, <2>1, DigitsShift
  <2>3. pos + 3 - 1 = pos + 2 /\ pos + (i - 4) - 1 = pos + i - 1 - 4
    OBVIOUS
  <2>4. QED BY <2>2, <2>3
<1>4. /\ data[pos + i - 1 - 4] = "SP" /\ data[pos + i - 1 - 3] = "FETCH"
      /\ data[pos + i - 1 - 2] = "SP" /\ data[pos + i - 1 - 1] = "("
  <2>1. i - 4 \in 1..d /\ i - 3 \in 1..d /\ i - 2 \in 1..d /\ i - 1 \in 1..d
    BY <1>1
  <2>2. /\ data[pos + (i - 4) - 1] = t[i - 4] /\ data[pos + (i - 3) - 1] = t[i - 3]
        /\ data[pos + (i - 2) - 1] = t[i - 2] /\ data[pos + (i - 1) - 1] = t[i - 1]
    BY <2>1, TokenAt
  <2>3. /\ pos + (i - 4) - 1 = pos + i - 1 - 4 /\ pos + (i - 3) - 1 = pos + i - 1 - 3
        /\ pos + (i - 2) - 1 = pos + i - 1 - 2 /\ pos + (i - 1) - 1 = pos + i - 1 - 1
    OBVIOUS
  <2>4. QED BY <1>1, <2>2, <2>3
<1>5. pos + 2 \in 1..Len(data) /\ pos + i - 1 \in (pos + 2 + 5)..Len(data)
      /\ pos \in 1..(Len(data) - 1)
  BY <1>1, <1>2
<1>6. data[pos] = "*" /\ data[pos + 1] = "SP"
  <2>1. 1 \in 1..d /\ 2 \in 1..d
    BY <1>1
  <2>2. data[pos + 1 - 1] = t[1] /\ data[pos + 2 - 1] = t[2]
    BY <2>1, TokenAt
  <2>3. pos + 1 - 1 = pos /\ pos + 2 - 1 = pos + 1
    OBVIOUS
  <2>4. QED BY <1>1, <2>2, <2>3
<1>7. data[pos + 2] \in Digit
  BY <1>2, <1>3 DEF Digits
<1>8. QED BY <1>3, <1>4, <1>5, <1>6, <1>7 DEF FetchHead

LEMMA FetchReads ==
    ASSUME Data, NEW t \in Seq(Token), pos \in Nat, Within(t, pos, Len(t)), NEW r,
           NEW i \in 1..Len(t), NEW j \in 1..Len(t), NEW text, FetchLine(t, r, i, j, text),
           Attribute(<<>>, {pos + i - 1}) = {[end |-> pos + j - 1, value |-> text]}
    PROVE  Reads(t, r)
<1> DEFINE k == pos + i - 1
           e == pos + j - 1
<1>1. Len(t) \in Nat /\ Len(t) <= Len(t)
  OBVIOUS
<1>2. /\ FetchHead(pos + 2, k) /\ pos \in 1..(Len(data) - 1)
      /\ data[pos] = "*" /\ data[pos + 1] = "SP"
  BY <1>1, HeadThere
<1>3. /\ j + 2 = Len(t) /\ t[j] = ")" /\ t[j + 1] = "CR" /\ t[j + 2] = "LF" /\ 7 < i
      /\ r = Parsed("FETCH", <<>>, text, <<>>)
  BY DEF FetchLine, Ending
<1>4. Len(data) \in Nat /\ 1 <= pos /\ pos + Len(t) <= Len(data) + 1
  BY Fits
<1>5. data[e] = ")" /\ data[e + 1] = "CR" /\ data[e + 1 + 1] = "LF"
  <2>1. j \in 1..Len(t) /\ j + 1 \in 1..Len(t) /\ j + 2 \in 1..Len(t)
    BY <1>3
  <2>2. data[pos + j - 1] = t[j] /\ data[pos + (j + 1) - 1] = t[j + 1]
        /\ data[pos + (j + 2) - 1] = t[j + 2]
    BY <2>1, WholeToken
  <2>3. pos + (j + 1) - 1 = e + 1 /\ pos + (j + 2) - 1 = e + 1 + 1
    OBVIOUS
  <2>4. QED BY <1>3, <2>2, <2>3
<1>6. k \in 2..Len(data) /\ data[k - 1] = "(" /\ e \in 1..Len(data)
      /\ e + 1 \in 1..(Len(data) - 1) /\ e + 1 + 2 = pos + Len(t)
  <2>1. data[k - 1] = "("
    BY <1>2 DEF FetchHead
  <2>2. j + 2 = Len(t) /\ 7 < i
    BY <1>3
  <2>3. QED BY <1>4, <2>1, <2>2
<1> DEFINE x == [end |-> e + 1, value |-> text]
<1>7. MsgAtt({k - 1}) = {x}
  <2> HIDE DEF k, e
  <2>1. Attribute(<<>>, {k}) = {[end |-> e, value |-> text]}
    BY DEF k, e
  <2>2. QED BY <1>5, <1>6, <2>1, MsgAttOne
<1>8. Below(pos + 2) = {[end |-> e + 1, value |-> r]}
  <2>1. Below(pos + 2) = Fetched(MsgAtt({k - 1}))
    BY <1>2, FetchBelow
  <2>2. Fetched({x}) = {[end |-> e + 1, value |-> r]}
    <3>1. x.end = e + 1 /\ x.value = text
      OBVIOUS
    <3> HIDE DEF x
    <3>2. QED BY <1>3, <3>1 DEF Fetched
  <2>3. QED BY <1>7, <2>1, <2>2
<1>9. LineEnd(e + 1)
  BY <1>5, <1>6 DEF LineEnd
<1> HIDE DEF e, k
<1>10. QED BY <1>2, <1>6, <1>8, <1>9, StarredParses DEF Reads

LEMMA NoteLineReads ==
    ASSUME Data, NEW t \in Seq(Token), NEW r, NoteLine(t, r), pos \in Nat, Within(t, pos, Len(t))
    PROVE  Reads(t, r)
<1>1. PICK i \in 1..Len(t), j \in 1..Len(t) :
          /\ FetchLine(t, r, i, j, <<>>)
          /\ \/ t[i] = "UID" /\ t[i + 1] = "SP" /\ Digits(t, i + 2, j)
             \/ t[i] = "FLAGS" /\ t[i + 1] = "SP" /\ Bracketed(t, i + 2, j, "(", ")")
  BY DEF NoteLine
<1> DEFINE k == pos + i - 1
           e == pos + j - 1
<1>2. Len(t) \in Nat /\ Len(data) \in Nat /\ 1 <= pos /\ pos + Len(t) <= Len(data) + 1
  BY Fits
<1>3. i + 2 < j /\ j <= Len(t) /\ t[j] = ")"
  BY <1>1 DEF FetchLine, Ending, Digits, Bracketed
<1>4. data[k] = t[i] /\ data[k + 1] = t[i + 1] /\ data[e] = ")"
  <2>1. i + 1 \in 1..Len(t)
    BY <1>3
  <2>2. data[pos + i - 1] = t[i] /\ data[pos + (i + 1) - 1] = t[i + 1] /\ data[pos + j - 1] = t[j]
    BY <2>1, WholeToken
  <2>3. pos + (i + 1) - 1 = k + 1
    OBVIOUS
  <2>4. QED BY <1>3, <2>2, <2>3
<1>5. k \in 1..Len(data) /\ e \in k..Len(data) /\ k + 2 < e /\ i + 2 \in 1..Len(t)
      /\ j \in 1..(Len(t) + 1) /\ pos + (i + 2) - 1 = k + 2
  BY <1>2, <1>3
<1>6. Attribute(<<>>, {k}) = {[end |-> e, value |-> <<>>]}
  <2> DEFINE text == <<>>
  <2> HIDE DEF text
  <2>1. CASE t[i] = "UID" /\ t[i + 1] = "SP" /\ Digits(t, i + 2, j)
    <3>1. Digits(data, k + 2, e)
      <4>1. Digits(data, pos + (i + 2) - 1, pos + j - 1)
        BY <1>2, <1>5, <2>1, DigitsShift
      <4>2. QED BY <1>5, <4>1
    <3>2. data[e] \notin Digit
      BY <1>4 DEF Digit, Value
    <3> HIDE DEF k, e
    <3>3. Attribute(text, {k}) = {[end |-> e, value |-> text]}
      BY <1>4, <1>5, <2>1, <3>1, <3>2, UidAttribute
    <3>4. QED BY <3>3 DEF text
  <2>2. CASE t[i] = "FLAGS" /\ t[i + 1] = "SP" /\ Bracketed(t, i + 2, j, "(", ")")
    <3>1. Bracketed(data, k + 2, e, "(", ")")
      <4>1. Bracketed(data, pos + (i + 2) - 1, pos + j - 1, "(", ")")
        BY <1>2, <1>5, <2>2, BracketedShifts
      <4>2. QED BY <1>5, <4>1
    <3> HIDE DEF k, e
    <3>2. Attribute(text, {k}) = {[end |-> e, value |-> text]}
      BY <1>4, <1>5, <2>2, <3>1, FlagsAttribute
    <3>3. QED BY <3>2 DEF text
  <2>3. QED BY <1>1, <2>1, <2>2
<1>7. QED BY <1>1, <1>6, FetchReads

\* A message with a body: where its attribute, its literal and the literal's
\* text begin, and where they end.
BodyParts(t, r, i, j, s, m) ==
    /\ FetchLine(t, r, i, j, SubSeq(t, m + 3, j - 1))
    /\ t[i] = "BODY" /\ Bracketed(t, i + 1, s - 1, "[", "]") /\ t[s - 1] = "SP"
    /\ t[s] = "{" /\ t[m] = "}" /\ t[m + 1] = "CR" /\ t[m + 2] = "LF"
    /\ Denotes(t, s + 1, m, j - m - 3)

\* The attribute ends at e, and the text is v.
AttributeIs(k, e, v) == Attribute(<<>>, {k}) = {[end |-> e, value |-> v]}

\* When d tokens of it are there, and with them the head of the literal, the
\* attribute ends where the literal does, or leaves the data.
LEMMA BodyThere ==
    ASSUME Data, NEW t \in Seq(Token), pos \in Nat, NEW d \in Nat, d <= Len(t), Within(t, pos, d),
           NEW r, NEW i \in 1..Len(t), NEW j \in 1..Len(t), NEW s \in 1..Len(t), NEW m \in 1..Len(t),
           BodyParts(t, r, i, j, s, m), m + 2 <= d,
           NEW k, k = pos + i - 1, NEW e, e = pos + j - 1
    PROVE  /\ e <= Len(data) + 1 => AttributeIs(k, e, SubSeq(data, pos + m + 2, e - 1))
           /\ ~(e <= Len(data) + 1) => AttributeIs(k, Overrun, <<>>)
<1> DEFINE o == pos + s - 1
           h == pos + m - 1
           n == j - m - 3
<1>1. Len(data) \in Nat /\ 1 <= pos /\ pos + d <= Len(data) + 1
  BY DEF Data, Within
<1>2. i + 3 < s /\ s + 1 < m
  <2>1. i + 1 + 1 < s - 1
    BY DEF BodyParts, Bracketed
  <2>2. s + 1 < m
    BY DEF BodyParts, Denotes, Digits
  <2>3. QED BY <2>1, <2>2
<1>3. /\ s \in 1..d /\ s - 1 \in 1..d /\ m \in 1..d /\ m + 1 \in 1..d /\ m + 2 \in 1..d
      /\ i \in 1..d /\ i + 1 \in 1..d /\ s + 1 \in 1..d /\ m \in 1..(d + 1)
      /\ s - 1 \in 1..(d + 1)
  BY <1>2
<1>4. /\ data[k] = "BODY" /\ data[o - 1] = "SP" /\ data[o] = "{"
      /\ data[h] = "}" /\ data[h + 1] = "CR" /\ data[h + 2] = "LF"
  <2>1. /\ data[pos + i - 1] = t[i] /\ data[pos + (s - 1) - 1] = t[s - 1]
        /\ data[pos + s - 1] = t[s] /\ data[pos + m - 1] = t[m]
        /\ data[pos + (m + 1) - 1] = t[m + 1] /\ data[pos + (m + 2) - 1] = t[m + 2]
    BY <1>3, TokenAt
  <2>2. pos + (s - 1) - 1 = o - 1 /\ pos + (m + 1) - 1 = h + 1 /\ pos + (m + 2) - 1 = h + 2
    OBVIOUS
  <2>3. t[i] = "BODY" /\ t[s - 1] = "SP" /\ t[s] = "{" /\ t[m] = "}" /\ t[m + 1] = "CR"
        /\ t[m + 2] = "LF"
    BY DEF BodyParts
  <2>4. QED BY <2>1, <2>2, <2>3
<1>5. Bracketed(data, k + 1, o - 1, "[", "]")
  <2>1. Bracketed(data, pos + (i + 1) - 1, pos + (s - 1) - 1, "[", "]")
    BY <1>3, BracketedShifts DEF BodyParts
  <2>2. pos + (i + 1) - 1 = k + 1 /\ pos + (s - 1) - 1 = o - 1
    OBVIOUS
  <2>3. QED BY <2>1, <2>2
<1>6. Denotes(data, o + 1, h, n)
  <2>1. Denotes(data, pos + (s + 1) - 1, pos + m - 1, n)
    BY <1>3, DenotesShift DEF BodyParts
  <2>2. pos + (s + 1) - 1 = o + 1
    OBVIOUS
  <2>3. QED BY <2>1, <2>2
<1>7. /\ o \in 1..Len(data) /\ h \in (o + 1)..(Len(data) - 2) /\ k \in 1..Len(data)
      /\ o \in k..Len(data) /\ k + 3 < o /\ h + 3 + n = e /\ h + 3 = pos + m + 2
      /\ h + 3 + n - 1 = e - 1
  BY <1>1, <1>2
<1>8. Header(o, h, n)
  <2> HIDE DEF o, h, n
  <2>1. QED BY <1>4, <1>6, <1>7 DEF Header
<1> DEFINE there == {[end |-> e, value |-> SubSeq(data, pos + m + 2, e - 1)]}
           beyond == {[end |-> Overrun, value |-> <<>>]}
<1>9. /\ e <= Len(data) + 1 => Literal({o}) = there
      /\ ~(e <= Len(data) + 1) => Literal({o}) = beyond
  <2> HIDE DEF o, h, n
  <2>1. /\ h + 3 + n <= Len(data) + 1
              => Literal({o}) = {[end |-> h + 3 + n, value |-> SubSeq(data, h + 3, h + 3 + n - 1)]}
        /\ ~(h + 3 + n <= Len(data) + 1) => Literal({o}) = beyond
    BY <1>8, LiteralAt
  <2>2. QED BY <1>7, <2>1
<1>10. there # {} /\ beyond # {}
  OBVIOUS
<1> HIDE DEF there, beyond
<1>11. Literal({o}) # {} => Attribute(<<>>, {k}) = Literal({o})
  <2> DEFINE text == <<>>
  <2> HIDE DEF o, text
  <2>1. Literal({o}) # {} => Attribute(text, {k}) = Literal({o})
    BY <1>4, <1>5, <1>7, BodyAttribute
  <2>2. QED BY <2>1 DEF text
<1>12. QED BY <1>9, <1>10, <1>11 DEF there, beyond, AttributeIs

LEMMA BodyLineReads ==
    ASSUME Data, NEW t \in Seq(Token), NEW r, BodyLine(t, r), pos \in Nat, Within(t, pos, Len(t))
    PROVE  Reads(t, r)
<1>1. PICK i \in 1..Len(t), j \in 1..Len(t), s \in 1..Len(t), m \in 1..Len(t) :
          BodyParts(t, r, i, j, s, m)
  BY DEF BodyLine, BodyParts
<1> DEFINE text == SubSeq(t, m + 3, j - 1)
           k == pos + i - 1
           e == pos + j - 1
<1>2. Len(t) \in Nat /\ Len(data) \in Nat /\ 1 <= pos /\ pos + Len(t) <= Len(data) + 1
  BY Fits
<1>3. FetchLine(t, r, i, j, text) /\ j - m - 3 \in Nat
  <2>1. Denotes(t, s + 1, m, j - m - 3)
    BY <1>1 DEF BodyParts
  <2>2. j - m - 3 \in 0..IntMax
    BY <2>1, DenotesAnInt
  <2>3. j - m - 3 \in Nat
    BY <2>2, IntMaxIsNatural
  <2>4. QED BY <1>1, <2>3 DEF BodyParts
<1>4. m + 3 <= j /\ m + 2 <= Len(t) /\ Len(t) <= Len(t) /\ e <= Len(data) + 1
  BY <1>2, <1>3
<1>5. Attribute(<<>>, {k}) = {[end |-> e, value |-> SubSeq(data, pos + m + 2, e - 1)]}
  <2> HIDE DEF k, e
  <2>1. k = pos + i - 1 /\ e = pos + j - 1
    BY DEF k, e
  <2> DEFINE d == Len(t)
  <2>2. d \in Nat /\ d <= Len(t) /\ Within(t, pos, d) /\ m + 2 <= d
    BY <1>2, <1>4
  <2> HIDE DEF d
  <2>3. AttributeIs(k, e, SubSeq(data, pos + m + 2, e - 1))
    BY <1>1, <1>4, <2>1, <2>2, BodyThere
  <2>4. QED BY <2>3 DEF AttributeIs
<1>6. SubSeq(data, pos + m + 2, e - 1) = text
  <2> DEFINE n == j - m - 3
  <2>1. text = [x \in 1..n |-> t[m + 3 + x - 1]]
    <3>1. (j - 1) - (m + 3) + 1 = n
      OBVIOUS
    <3>2. QED BY <1>2, <1>3, <1>4, <3>1
  <2>2. SubSeq(data, pos + m + 2, e - 1) = [x \in 1..n |-> data[pos + m + 2 + x - 1]]
    <3>1. (e - 1) - (pos + m + 2) + 1 = n
      OBVIOUS
    <3>2. QED BY <1>2, <1>3, <1>4, <3>1 DEF Data
  <2>3. ASSUME NEW x \in 1..n PROVE data[pos + m + 2 + x - 1] = t[m + 3 + x - 1]
    <3>1. m + 3 + x - 1 \in 1..Len(t) /\ pos + (m + 3 + x - 1) - 1 = pos + m + 2 + x - 1
      BY <1>2, <1>4
    <3>2. data[pos + (m + 3 + x - 1) - 1] = t[m + 3 + x - 1]
      BY <3>1, WholeToken
    <3>3. QED BY <3>1, <3>2
  <2>4. QED BY <2>1, <2>2, <2>3
<1>7. QED BY <1>3, <1>5, <1>6, FetchReads
-----------------------------------------------------------------------------
(* The numbers of a search. *)

\* ids is the list from E[0] to the end of the line; E[k] is behind the k-th.
Listing(E, ids) ==
    /\ ids \in Seq(Int) /\ E \in [0..Len(ids) -> 1..Len(data)]
    /\ \A k \in 1..Len(ids) :
          E[k - 1] < E[k] /\ data[E[k - 1]] = "SP" /\ Denotes(data, E[k - 1] + 1, E[k], ids[k])
    /\ data[E[Len(ids)]] = "CR"

\* The list as far as the k-th number.
Part(E, ids, k) == [end |-> E[k], value |-> SubSeq(ids, 1, k)]

LEMMA ListingFits ==
    ASSUME Data, NEW E, NEW ids, Listing(E, ids) PROVE Len(ids) <= Len(data)
<1> DEFINE N == Len(ids)
<1>1. N \in Nat /\ E \in [0..N -> 1..Len(data)] /\ \A k \in 1..N : E[k - 1] < E[k]
  BY DEF Listing
<1> HIDE DEF N
<1> DEFINE G == {k \in 0..N : k < E[k]}
<1>2. 0 \in G
  <2>1. 0 \in 0..N
    BY <1>1
  <2>2. E[0] \in 1..Len(data)
    BY <1>1, <2>1
  <2>3. QED BY <2>1, <2>2
<1>3. ASSUME NEW k \in 0..N, k \in G, k < N PROVE k + 1 \in G
  <2>1. k + 1 \in 1..N /\ k + 1 \in 0..N /\ k + 1 - 1 = k
    BY <1>1, <1>3
  <2>2. E[k] < E[k + 1] /\ E[k] \in Nat /\ E[k + 1] \in Nat
    BY <1>1, <2>1
  <2>3. QED BY <1>3, <2>1, <2>2
<1>4. 0..N \subseteq G
  <2> HIDE DEF G
  <2>1. QED BY <1>1, <1>2, <1>3, InductUpTo
<1>5. N < E[N] /\ E[N] \in 1..Len(data)
  BY <1>1, <1>4
<1>6. Len(data) \in Nat
  BY DEF Data
<1>7. N <= Len(data)
  BY <1>1, <1>5, <1>6
<1>8. QED BY <1>7 DEF N

LEMMA ListingGoesOn ==
    ASSUME Data, NEW E, NEW ids, Listing(E, ids), NEW k \in 0..Len(ids)
    PROVE  /\ k < Len(ids) => MoreIds(Part(E, ids, k)) = {Part(E, ids, k + 1)}
           /\ k = Len(ids) => MoreIds(Part(E, ids, k)) = {}
<1> DEFINE r == Part(E, ids, k)
           one(n) == Yield(Number({n}), Append(r.value, NumberAt(n) % (2 * (IntMax + 1))))
<1>1. /\ ids \in Seq(Int) /\ Len(ids) \in Nat /\ E \in [0..Len(ids) -> 1..Len(data)]
      /\ data[E[Len(ids)]] = "CR" /\ Len(data) \in Nat
  BY DEF Listing, Data
<1>2. r.end = E[k] /\ r.value = SubSeq(ids, 1, k) /\ E[k] \in 1..Len(data)
  BY <1>1 DEF Part
<1>3. MoreIds(r) = UNION {one(n) : n \in Match("SP", {E[k]})}
  BY <1>2 DEF MoreIds
<1>4. CASE k = Len(ids)
  <2>1. Match("SP", {E[k]}) = {}
    BY <1>1, <1>2, <1>4, MatchAt
  <2>2. MoreIds(r) = {}
    BY <1>3, <2>1
  <2>3. ~(k < Len(ids))
    BY <1>1, <1>4
  <2> HIDE DEF r
  <2>4. QED BY <2>2, <2>3 DEF r
<1>5. CASE k < Len(ids)
  <2> DEFINE a == E[k]
             b == E[k + 1]
             v == ids[k + 1]
  <2>1. k + 1 \in 1..Len(ids) /\ k + 1 \in 0..Len(ids) /\ k + 1 - 1 = k
    BY <1>1, <1>5
  <2>2. a < b /\ data[a] = "SP" /\ Denotes(data, a + 1, b, v)
    BY <2>1 DEF Listing
  <2>3. a \in 1..Len(data) /\ b \in 1..Len(data)
    BY <1>1, <2>1
  <2>4. data[b] \notin Digit
    <3>1. data[b] = "CR" \/ data[b] = "SP"
      <4>1. CASE k + 1 = Len(ids)
        BY <1>1, <4>1
      <4>2. CASE k + 1 # Len(ids)
        <5>1. k + 2 \in 1..Len(ids) /\ k + 2 - 1 = k + 1
          BY <1>1, <1>5, <4>2
        <5>2. data[E[k + 2 - 1]] = "SP"
          BY <5>1 DEF Listing
        <5>3. QED BY <5>1, <5>2
      <4>3. QED BY <4>1, <4>2
    <3>2. QED BY <3>1 DEF Digit, Value
  <2> HIDE DEF a, b
  <2>5. a + 1 \in 1..Len(data) /\ b \in (a + 1)..Len(data)
    BY <1>1, <2>2, <2>3
  <2>6. Match("SP", {a}) = {a + 1}
    BY <2>2, <2>3, MatchAt
  <2>7. Number({a + 1}) = {b}
    <3>1. Digits(data, a + 1, b)
      BY <2>2 DEF Denotes
    <3>2. QED BY <2>4, <2>5, <3>1, NumberRuns
  <2>8. NumberAt(a + 1) = v /\ v % (2 * (IntMax + 1)) = v
    <3> HIDE DEF v
    <3>1. NumberAt(a + 1) = v /\ v \in 0..IntMax
      BY <2>2, <2>4, <2>5, NumberIs
    <3>2. QED BY <3>1, NoWrap
  <2>9. Append(SubSeq(ids, 1, k), v) = SubSeq(ids, 1, k + 1)
    BY <1>1, <2>1
  <2>10. one(a + 1) = Yield({b}, SubSeq(ids, 1, k + 1))
    BY <1>2, <2>7, <2>8, <2>9
  <2>11. MoreIds(r) = UNION {one(n) : n \in {a + 1}}
    BY <1>3, <2>6 DEF a
  <2> HIDE DEF one, r
  <2>12. MoreIds(r) = Yield({b}, SubSeq(ids, 1, k + 1))
    BY <2>10, <2>11
  <2>13. Part(E, ids, k + 1) = [end |-> b, value |-> SubSeq(ids, 1, k + 1)]
    BY DEF Part, b
  <2>14. MoreIds(r) = {Part(E, ids, k + 1)}
    BY <2>12, <2>13, YieldAt
  <2>15. k # Len(ids)
    BY <1>1, <1>5
  <2>16. QED BY <2>14, <2>15 DEF r
<1>6. QED BY <1>1, <1>4, <1>5

LEMMA ListingRepeats ==
    ASSUME Data, NEW E, NEW ids, Listing(E, ids)
    PROVE  Repeat({Part(E, ids, 0)}, MoreIds) = {Part(E, ids, Len(ids))}
<1> DEFINE L == Len(data)
           N == Len(ids)
           st(k) == Part(E, ids, k)
           V == {st(k) : k \in 0..N}
           m == [r \in V |-> MoreIds(r)]
           next(S) == Either(UNION {m[r] : r \in S}, S)
<1>1. L \in Nat /\ N \in Nat /\ N <= L /\ 0 \in 0..N
  <2>1. N \in Nat
    BY DEF Listing
  <2>2. N <= L
    BY ListingFits
  <2>3. L \in Nat
    BY DEF Data
  <2>4. QED BY <2>1, <2>2, <2>3
<1>2. /\ \A k \in 0..N : k < N => MoreIds(st(k)) = {st(k + 1)}
      /\ MoreIds(st(N)) = {}
  <2>1. N \in 0..N
    BY <1>1
  <2>2. QED BY <2>1, ListingGoesOn
<1>3. {st(0)} \in SUBSET V /\ \A r \in V : MoreIds(r) \subseteq V
  <2> SUFFICES ASSUME NEW k \in 0..N PROVE MoreIds(st(k)) \subseteq V
    BY <1>1
  <2>1. k < N => k + 1 \in 0..N
    BY <1>1
  <2>2. k < N \/ k = N
    BY <1>1
  <2> HIDE DEF st
  <2>3. QED BY <1>2, <2>1, <2>2
<1>4. PICK g : Grows(g, L, V, {st(0)}, m) /\ Repeat({st(0)}, MoreIds) = g[L]
  <2> HIDE DEF st, V
  <2>1. QED BY <1>3, IdsRepeat
<1>5. g[0] = {st(0)} /\ \A n \in 1..L : g[n] = next(g[n - 1])
  BY <1>4 DEF Grows
<1> HIDE DEF L, N, st
<1>6. ASSUME NEW k \in 0..N PROVE next({st(k)}) = IF k < N THEN {st(k + 1)} ELSE {st(k)}
  <2>1. UNION {m[r] : r \in {st(k)}} = MoreIds(st(k))
    <3>1. st(k) \in V
      OBVIOUS
    <3>2. m[st(k)] = MoreIds(st(k))
      BY <3>1
    <3> HIDE DEF m
    <3>3. QED BY <3>2
  <2>2. next({st(k)}) = Either(MoreIds(st(k)), {st(k)})
    BY <2>1
  <2> HIDE DEF next
  <2>3. CASE k < N
    BY <1>2, <2>2, <2>3, EitherFirst
  <2>4. CASE ~(k < N)
    <3>1. k = N
      BY <1>1, <2>4
    <3>2. QED BY <1>2, <2>2, <2>4, <3>1, EitherAt
  <2>5. QED BY <2>3, <2>4
<1> HIDE DEF next, V
<1> DEFINE G == {n \in 0..L : g[n] = IF n < N THEN {st(n)} ELSE {st(N)}}
<1>7. 0 \in G
  BY <1>1, <1>5
<1>8. ASSUME NEW n \in 0..L, n \in G, n < L PROVE n + 1 \in G
  <2>1. n + 1 \in 0..L /\ n + 1 \in 1..L /\ n + 1 - 1 = n
    BY <1>1, <1>8
  <2>2. g[n + 1] = next(g[n])
    BY <1>5, <2>1
  <2>3. CASE n < N
    <3>1. n \in 0..N
      BY <1>1, <2>3
    <3>2. next({st(n)}) = {st(n + 1)}
      BY <1>6, <2>3, <3>1
    <3>3. g[n] = {st(n)}
      BY <1>8, <2>3
    <3>4. n + 1 < N \/ n + 1 = N
      BY <1>1, <2>3
    <3>5. QED BY <2>1, <2>2, <3>2, <3>3, <3>4
  <2>4. CASE ~(n < N)
    <3>1. N \in 0..N /\ ~(N < N) /\ ~(n + 1 < N)
      BY <1>1, <2>4
    <3>2. g[n + 1] = {st(N)}
      BY <1>6, <1>8, <2>2, <2>4, <3>1
    <3>3. QED BY <2>1, <3>1, <3>2
  <2>5. QED BY <2>3, <2>4
<1>9. 0..L \subseteq G
  <2> HIDE DEF G
  <2>1. QED BY <1>1, <1>7, <1>8, InductUpTo
<1>10. g[L] = {st(N)}
  <2>1. L \in 0..L /\ ~(L < N)
    BY <1>1
  <2>2. QED BY <1>9, <2>1
<1>11. QED BY <1>4, <1>10 DEF st, N

LEMMA SearchBelow ==
    ASSUME Data, NEW q \in 1..Len(data), data[q] = "SEARCH", NEW E, NEW ids, Listing(E, ids),
           E[0] = q + 1
    PROVE  Below(q) = {[end |-> E[Len(ids)], value |-> Parsed("SEARCH", <<>>, <<>>, ids)]}
<1> DEFINE N == Len(ids)
           e == E[N]
           x == [end |-> e, value |-> ids]
           y == [end |-> e, value |-> Parsed("SEARCH", <<>>, <<>>, ids)]
<1>1. N \in Nat /\ ids \in Seq(Int) /\ e \in 1..Len(data) /\ data[e] = "CR" /\ Len(data) \in Nat
  BY DEF Listing, Data
<1>2. Repeat(Yield({q + 1}, <<>>), MoreIds) = {x}
  <2>1. Part(E, ids, 0) = [end |-> q + 1, value |-> <<>>]
    BY <1>1 DEF Part
  <2>2. Yield({q + 1}, <<>>) = {Part(E, ids, 0)}
    BY <2>1, YieldAt
  <2>3. SubSeq(ids, 1, N) = ids
    BY <1>1
  <2>4. Part(E, ids, N) = x
    BY <2>3 DEF Part
  <2> HIDE DEF x
  <2>5. QED BY <2>2, <2>4, ListingRepeats
<1>3. MessageIdList({q + 1}) = {x}
  <2>1. MessageIdList({q + 1}) =
           {r \in Repeat(Yield({q + 1}, <<>>), MoreIds) : r.end < 1 \/ Match("SP", {r.end}) = {}}
    BY DEF MessageIdList, MoreIds
  <2>2. Match("SP", {x.end}) = {}
    <3>1. x.end = e /\ data[e] # "SP"
      BY <1>1
    <3> HIDE DEF x, e
    <3>2. QED BY <1>1, <3>1, MatchAt
  <2> HIDE DEF x
  <2>3. QED BY <1>2, <2>1, <2>2
<1>4. Match("SEARCH", {q}) = {q + 1}
  BY MatchAt
<1> DEFINE others == Yield(Either(Enclosed("(", ")", Match("SP", Match("FLAGS", {q}))),
                                  Either(From(Match("SP", Match("STATUS", {q})), LAMBDA p : {Thrown}),
                                         OneOf({"EXISTS", "RECENT"}, Match("SP", Number({q}))))),
                           Status("OTHER", <<>>))
           found(R) == {[end |-> r.end, value |-> Parsed("SEARCH", <<>>, <<>>, r.value)] : r \in R}
<1>5. MailboxData({q}) = Either(found(MessageIdList(Match("SEARCH", {q}))), others)
  BY DEF MailboxData
<1>6. found({x}) = {y}
  <2>1. x.end = e /\ x.value = ids
    OBVIOUS
  <2> HIDE DEF x, e
  <2>2. QED BY <2>1
<1> HIDE DEF found, others, y
<1>7. MailboxData({q}) = {y}
  BY <1>3, <1>4, <1>5, <1>6, EitherFirst
<1>8. Below(q) = {y}
  BY <1>7, NoStatusBelow, EitherFirst
<1>9. QED BY <1>8 DEF y

LEMMA SearchLineReads ==
    ASSUME Data, NEW t \in Seq(Token), NEW r, SearchLine(t, r), pos \in Nat, Within(t, pos, Len(t))
    PROVE  Reads(t, r)
<1> DEFINE ids == r.ids
           N == Len(ids)
<1>1. PICK e \in [0..N -> 4..(Len(t) - 1)] :
          /\ e[0] = 4 /\ e[N] = Len(t) - 1
          /\ \A k \in 1..N :
                e[k - 1] < e[k] /\ t[e[k - 1]] = "SP" /\ Denotes(t, e[k - 1] + 1, e[k], ids[k])
  BY DEF SearchLine
<1>2. /\ Starred(t) /\ OneLine(t) /\ 4 < Len(t) /\ t[3] = "SEARCH"
      /\ r = Parsed("SEARCH", <<>>, <<>>, ids) /\ ids \in Seq(Int)
  BY DEF SearchLine
<1>3. Len(t) \in Nat /\ Len(data) \in Nat /\ 1 <= pos /\ pos + Len(t) <= Len(data) + 1 /\ N \in Nat
  BY <1>2, Fits
<1> DEFINE E == [k \in 0..N |-> pos + e[k] - 1]
<1>4. \A k \in 0..N : E[k] = pos + e[k] - 1 /\ e[k] \in 1..Len(t) /\ E[k] \in 1..Len(data)
  <2> SUFFICES ASSUME NEW k \in 0..N
               PROVE  E[k] = pos + e[k] - 1 /\ e[k] \in 1..Len(t) /\ E[k] \in 1..Len(data)
    OBVIOUS
  <2>1. e[k] \in 4..(Len(t) - 1)
    BY <1>1
  <2>2. E[k] = pos + e[k] - 1
    OBVIOUS
  <2>3. e[k] \in 1..Len(t) /\ pos + e[k] - 1 \in 1..Len(data)
    BY <1>3, <2>1
  <2> HIDE DEF E
  <2>4. QED BY <2>2, <2>3
<1>5. 0 \in 0..N /\ N \in 0..N
  BY <1>3
<1>6. LineEnd(pos + Len(t) - 2)
  BY <1>2, LineEndsThere
<1>7. E \in [0..N -> 1..Len(data)] /\ E[0] = pos + 2 + 1 /\ E[N] = pos + Len(t) - 2
  <2>1. E \in [0..N -> 1..Len(data)]
    <3>1. E = [k \in 0..N |-> E[k]]
      OBVIOUS
    <3> HIDE DEF E
    <3>2. QED BY <1>4, <3>1
  <2>2. E[0] = pos + 4 - 1 /\ E[N] = pos + (Len(t) - 1) - 1
    <3> HIDE DEF E
    <3>1. QED BY <1>1, <1>4, <1>5
  <2>3. pos + 4 - 1 = pos + 2 + 1 /\ pos + (Len(t) - 1) - 1 = pos + Len(t) - 2
    BY <1>3
  <2>4. QED BY <2>1, <2>2, <2>3
<1> HIDE DEF E, ids, N
<1>8. ASSUME NEW k \in 1..N
      PROVE  E[k - 1] < E[k] /\ data[E[k - 1]] = "SP" /\ Denotes(data, E[k - 1] + 1, E[k], ids[k])
  <2>1. k - 1 \in 0..N /\ k \in 0..N
    BY <1>3
  <2> DEFINE a == e[k - 1]
             b == e[k]
             v == ids[k]
  <2>2. a < b /\ t[a] = "SP" /\ Denotes(t, a + 1, b, v)
    BY <1>1
  <2>3. a \in 1..Len(t) /\ b \in 1..Len(t) /\ E[k - 1] = pos + a - 1 /\ E[k] = pos + b - 1
    BY <1>4, <2>1
  <2> HIDE DEF a, b, v
  <2>4. data[pos + a - 1] = "SP"
    BY <2>2, <2>3, WholeToken
  <2>5. Denotes(data, pos + a - 1 + 1, pos + b - 1, v)
    <3>1. a + 1 \in 1..Len(t) /\ b \in 1..(Len(t) + 1)
      <4>1. a < b
        BY <2>2
      <4>2. a \in 1..Len(t) /\ b \in 1..Len(t) /\ Len(t) \in Nat
        BY <1>3, <2>3
      <4>3. a + 1 \in 1..Len(t)
        BY <4>1, <4>2
      <4>4. b \in 1..(Len(t) + 1)
        BY <4>2
      <4>5. QED BY <4>3, <4>4
    <3>2. Denotes(data, pos + (a + 1) - 1, pos + b - 1, v)
      BY <1>3, <2>2, <3>1, DenotesShift
    <3>3. pos + (a + 1) - 1 = pos + a - 1 + 1
      BY <2>3
    <3>4. QED BY <3>2, <3>3
  <2>6. pos + a - 1 < pos + b - 1
    BY <2>2, <2>3
  <2>7. QED BY <2>3, <2>4, <2>5, <2>6 DEF v
<1>9. Listing(E, ids)
  <2>1. data[E[N]] = "CR"
    BY <1>6, <1>7 DEF LineEnd
  <2>2. QED BY <1>2, <1>7, <1>8, <2>1 DEF Listing, N
<1>10. data[pos + 2] = "SEARCH" /\ pos + 2 \in 1..Len(data)
  <2>1. 3 \in 1..Len(t)
    BY <1>2
  <2>2. data[pos + 3 - 1] = t[3]
    BY <2>1, WholeToken
  <2>3. pos + 3 - 1 = pos + 2
    OBVIOUS
  <2>4. pos + 2 \in 1..Len(data)
    BY <1>2, <1>3
  <2>5. QED BY <1>2, <2>2, <2>3, <2>4
<1>11. Below(pos + 2) = {[end |-> pos + Len(t) - 2, value |-> r]}
  <2>1. Below(pos + 2) = {[end |-> E[Len(ids)], value |-> Parsed("SEARCH", <<>>, <<>>, ids)]}
    BY <1>7, <1>9, <1>10, SearchBelow
  <2>2. QED BY <1>2, <1>7, <2>1 DEF N
<1>12. pos + Len(t) - 2 + 2 = pos + Len(t)
  BY <1>3
<1>13. QED BY <1>2, <1>6, <1>11, <1>12, StarThere, StarredParses DEF Reads

\* What a line of the grammar means is what parse_next makes of it, wherever the
\* line is in the data and whatever is before and behind it.
THEOREM WholeReads ==
    ASSUME Data, NEW l \in Lines, InGrammar(l), pos \in Nat, Within(l.tokens, pos, Len(l.tokens))
    PROVE  Reads(l.tokens, l.response)
<1>1. l.tokens \in Seq(Token)
  BY ReceiverAssumption
<1>2. QED BY <1>1, StatusLineReads, TaggedLineReads, CountLineReads, FlagsLineReads,
             SearchLineReads, NoteLineReads, BodyLineReads DEF InGrammar
-----------------------------------------------------------------------------
(* Lines that are not all there. *)

Fails == \A r \in ParseNext : r.end < 1

LEMMA NothingBeyond ==
    ASSUME Data, NEW T, NEW P, P \subseteq {Len(data) + 1} PROVE OneOf(T, P) = {}
<1>1. Len(data) + 1 \notin DOMAIN data /\ ~(Len(data) + 1 < 1)
  BY DEF Data
<1>2. QED BY <1>1 DEF OneOf, From

\* No response consists of one token: behind it nothing matches.
LEMMA LastFails == ASSUME Data, pos \in 1..Len(data), pos = Len(data) PROVE Fails
<1> DEFINE E == {Len(data) + 1}
           P == {pos}
<1>1. ASSUME NEW T PROVE OneOf(T, P) \subseteq E
  BY OneOfAt
<1>2. ASSUME NEW t PROVE Match("SP", Match(t, P)) = {}
  <2>1. Match(t, P) \subseteq E
    BY <1>1 DEF Match
  <2> HIDE DEF P
  <2>2. QED BY <2>1, NothingBeyond DEF Match
<1>3. ContinueReq(P) = {} /\ Star(P) = {}
  <2> HIDE DEF P
  <2>1. QED BY <1>2, OfNothing, NoRespText DEF ContinueReq, Star
<1>4. ASSUME NEW types, NEW tag PROVE CondOf(types, tag, {}) = {}
  BY OfNothing, NoRespText DEF CondOf
<1>5. ResponseData(P) = {} /\ ResponseFatal(P) = {} /\ Greeting(P) = {}
  <2> HIDE DEF P
  <2>1. QED BY <1>3, <1>4 DEF ResponseData, ResponseFatal, RespCondBye, Greeting, RespCondAuth
<1>6. ResponseTagged(P) = {}
  <2> DEFINE tagged(p, q) == RespCondState(SubSeq(data, p, q - 1), Match("SP", {q}))
             all == UNION {UNION {tagged(p, q) : q \in Span(Alnum, {p})} : p \in P}
  <2>1. Span(Alnum, P) \subseteq E
    <3>1. Upto(Token \ Alnum, pos) \in pos..(Len(data) + 1)
      <4>1. pos \in Int /\ pos <= Len(data) + 1
        BY DEF Data
      <4>2. QED BY <4>1, UptoRange
    <3>2. ~(pos < 1)
      OBVIOUS
    <3>3. QED BY <3>1, <3>2 DEF Span, From, Data
  <2>2. ASSUME NEW p \in P, NEW q \in Span(Alnum, {p}) PROVE tagged(p, q) = {}
    <3>1. {q} \subseteq E
      BY <2>1, <2>2
    <3> HIDE DEF E, P
    <3>2. Match("SP", {q}) = {}
      BY <3>1, NothingBeyond DEF Match, E
    <3>3. QED BY <3>2, <1>4 DEF RespCondState
  <2>3. ResponseTagged(P) = EndLine(all)
    BY DEF ResponseTagged
  <2> HIDE DEF tagged, P
  <2>4. all = {}
    <3> DEFINE row(p) == UNION {tagged(p, q) : q \in Span(Alnum, {p})}
    <3>1. ASSUME NEW p \in P PROVE row(p) = {}
      BY <2>2
    <3>2. all = UNION {row(p) : p \in P}
      OBVIOUS
    <3> HIDE DEF row, all
    <3>3. QED BY <3>1, <3>2
  <2>5. QED BY <2>3, <2>4, OfNothing
<1>7. Response(P) = {}
  <2> HIDE DEF P
  <2>1. QED BY <1>3, <1>5, <1>6, EitherAt DEF Response, ResponseDone
<1>8. ParseNext = Yield({Thrown}, NullResponse)
  <2>1. Either({}, {}) = {}
    BY EitherAt
  <2>2. QED BY <1>5, <1>7, <2>1, EitherAt DEF ParseNext
<1>9. QED BY <1>8 DEF Yield, Thrown, Fails

\* Below a star, a number is the start of nothing but a response with data.
LEMMA NumberedParses ==
    ASSUME Data, pos \in 1..(Len(data) - 1), data[pos] = "*", data[pos + 1] = "SP",
           pos + 2 \in 1..Len(data), data[pos + 2] \in Digit,
           \A r \in Below(pos + 2) : r.end < 1
    PROVE  Fails
<1> DEFINE P == {pos}
<1>1. pos \in 1..Len(data) /\ data[pos] # "+" /\ data[pos] \notin Alnum
      /\ data[pos + 2] \notin {"OK", "NO", "BAD", "BYE", "PREAUTH"}
  BY DEF Data, Alnum, Keyword, Condition, Digit, Value
<1>2. Star(P) = {pos + 2}
  BY StarAt
<1>3. ContinueReq(P) = {}
  BY <1>1, NoContinueReq
<1>4. ResponseFatal(P) = {} /\ Greeting(P) = {}
  BY <1>1, <1>2, NoCond DEF ResponseFatal, RespCondBye, Greeting, RespCondAuth
<1>5. ResponseTagged(P) = {}
  <2>1. Run(pos, pos, Alnum)
    BY <1>1 DEF Run
  <2>2. Span(Alnum, {pos}) = {}
    <3>1. pos \in pos..Len(data)
      BY <1>1
    <3>2. QED BY <1>1, <2>1, <3>1, SpanAt
  <2>3. QED BY <2>2, OfNothing DEF ResponseTagged
<1>6. ResponseData(P) = EndLine(Below(pos + 2))
  BY <1>2 DEF ResponseData, Below
<1> DEFINE B == Below(pos + 2)
<1> HIDE DEF B, P
<1>7. ASSUME NEW r \in B PROVE \A x \in Yield(Crlf({r.end}), r.value) : x.end < 1
  <2>1. r.end < 1
    BY <1>7 DEF B
  <2> DEFINE e == r.end
             v == r.value
  <2>2. Crlf({e}) = {e}
    <3>1. e < 1
      BY <2>1
    <3> HIDE DEF e
    <3>2. \A T : OneOf(T, {e}) = {e}
      BY <3>1 DEF OneOf, From
    <3>3. QED BY <3>2 DEF Crlf, Match
  <2> HIDE DEF e, v
  <2>3. Yield(Crlf({e}), v) = {[end |-> e, value |-> v]}
    BY <2>2, YieldAt
  <2>4. QED BY <2>1, <2>3 DEF e, v
<1>8. \A x \in ResponseData(P) : x.end < 1
  BY <1>6, <1>7 DEF EndLine, B
<1>9. \A x \in Response(P) : x.end < 1
  <2>1. Response(P) \subseteq ResponseData(P) \cup {}
    BY <1>3, <1>4, <1>5, EitherAt, EitherOf DEF Response, ResponseDone
  <2>2. QED BY <1>8, <2>1
<1>10. \A x \in Yield({Thrown}, NullResponse) : x.end < 1
  BY DEF Yield, Thrown
<1>11. \A x \in ParseNext : x.end < 1
  <2> DEFINE found == Either(Response(P), Greeting(P))
             none == Yield({Thrown}, NullResponse)
  <2>1. found \subseteq Response(P) \cup Greeting(P)
    BY EitherOf
  <2>2. ParseNext = Either(found, none)
    BY DEF ParseNext, P
  <2> HIDE DEF found, none
  <2>3. ParseNext \subseteq found \cup none
    BY <2>2, EitherOf
  <2>4. QED BY <1>4, <1>9, <1>10, <2>1, <2>3 DEF none
<1>12. QED BY <1>11 DEF Fails

\* After an attribute that takes up the rest of the data there is no bracket.
LEMMA MsgAttUnclosed ==
    ASSUME Data, NEW i \in 2..Len(data), data[i - 1] = "(", NEW e \in Ends(Len(data) + 1),
           NEW v \in Seq(Token), AttributeIs(i, e, v)
    PROVE  \A r \in MsgAtt({i - 1}) : r.end < 1
<1> DEFINE q == Len(data) + 1
           V == Results(q, Seq(Token))
           R == FirstAttributes({i - 1})
           close(r) == Match(")", Either(Match("SP", {r.end}), {r.end}))
<1>1. q \in Nat \ {0} /\ q \in Nat /\ q + 1 \in Nat /\ Ends(q + 1) \subseteq {Thrown, Overrun}
      /\ Ends(q + 1) \subseteq Ends(q)
  BY DEF Data, Ends
<1>2. R \subseteq V
  <2>1. R = {[end |-> e, value |-> v]}
    BY FirstAttribute DEF AttributeIs
  <2> HIDE DEF R
  <2>2. QED BY <2>1 DEF Results
<1>3. Repeat(R, MoreAttributes) \subseteq V
  <2> HIDE DEF q, R
  <2>1. QED BY <1>1, <1>2, MoreEnd
<1>4. ASSUME NEW r \in V PROVE close(r) \subseteq {Thrown, Overrun}
  <2> DEFINE Q == Either(Match("SP", {r.end}), {r.end})
  <2>1. {r.end} \subseteq Ends(q)
    BY DEF Results
  <2> HIDE DEF q
  <2>2. Match("SP", {r.end}) \subseteq Ends(q)
    BY <1>1, <2>1, MatchEnds
  <2>3. Q \subseteq Ends(q)
    <3>1. Q \subseteq Match("SP", {r.end}) \cup {r.end}
      BY EitherOf
    <3>2. QED BY <2>1, <2>2, <3>1
  <2> HIDE DEF Q
  <2>4. Match(")", Q) \subseteq Ends(q + 1)
    BY <1>1, <2>3, MatchEnds
  <2>5. QED BY <1>1, <2>4 DEF Q
<1>5. MsgAtt({i - 1}) = UNION {Yield(close(r), r.value) : r \in Repeat(R, MoreAttributes)}
  BY DEF MsgAtt, FirstAttributes, MoreAttributes
<1> HIDE DEF close, R, V
<1>6. QED BY <1>3, <1>4, <1>5 DEF Yield, Thrown, Overrun

\* When the data ends with a line within the message, no response is found.
LEMMA TornBody ==
    ASSUME Data, NEW t \in Seq(Token), NEW r, BodyLine(t, r), pos \in Nat,
           NEW d \in Nat \ {0}, d < Len(t), Within(t, pos, d), pos + d = Len(data) + 1, t[d] = "LF"
    PROVE  Fails
<1>1. PICK i \in 1..Len(t), j \in 1..Len(t), s \in 1..Len(t), m \in 1..Len(t) :
          BodyParts(t, r, i, j, s, m) /\ Without(t, 1, m + 1, {"CR", "LF"})
  BY DEF BodyLine, BodyParts
<1> DEFINE text == SubSeq(t, m + 3, j - 1)
           k == pos + i - 1
           e == pos + j - 1
<1>2. FetchLine(t, r, i, j, text) /\ t[m + 1] = "CR" /\ i + 2 < s - 1 /\ s + 1 < m
  <2>1. FetchLine(t, r, i, j, text) /\ t[m + 1] = "CR"
    BY <1>1 DEF BodyParts
  <2>2. i + 1 + 1 < s - 1
    BY <1>1 DEF BodyParts, Bracketed
  <2>3. s + 1 < m
    BY <1>1 DEF BodyParts, Denotes, Digits
  <2>4. QED BY <2>1, <2>2, <2>3
<1>3. j + 2 = Len(t) /\ t[j] = ")" /\ t[j + 1] = "CR" /\ 7 < i
  BY <1>2 DEF FetchLine, Ending
<1>4. m + 2 <= d
  <2>1. ~(d < m + 1)
    BY <1>1 DEF Without
  <2>2. d # m + 1
    BY <1>2
  <2>3. QED BY <2>1, <2>2
<1>5. d < j
  <2>1. d # j /\ d # j + 1
    BY <1>3
  <2>2. QED BY <1>3, <2>1
<1>6. i \in 1..d /\ d <= Len(t) /\ Len(data) \in Nat
  BY <1>2, <1>4 DEF Data
<1>7. /\ FetchHead(pos + 2, k) /\ pos \in 1..(Len(data) - 1)
      /\ data[pos] = "*" /\ data[pos + 1] = "SP" /\ data[pos + 2] \in Digit
  BY <1>2, <1>6, HeadThere
<1>8. /\ e <= Len(data) + 1 => AttributeIs(k, e, SubSeq(data, pos + m + 2, e - 1))
      /\ ~(e <= Len(data) + 1) => AttributeIs(k, Overrun, <<>>)
  <2> HIDE DEF k, e
  <2>1. k = pos + i - 1 /\ e = pos + j - 1
    BY DEF k, e
  <2>2. QED BY <1>1, <1>4, <1>6, <2>1, BodyThere
<1>9. Len(data) + 1 <= e
  BY <1>5, <1>6
<1>10. k \in 2..Len(data) /\ data[k - 1] = "(" /\ pos + 2 \in 1..Len(data)
  BY <1>3, <1>6, <1>7 DEF FetchHead
<1>11. \A x \in MsgAtt({k - 1}) : x.end < 1
  <2> HIDE DEF k
  <2>1. CASE e <= Len(data) + 1
    <3> DEFINE v == SubSeq(data, pos + m + 2, e - 1)
               z == Len(data) + 1
    <3>1. z = e /\ z \in Ends(z)
      BY <1>6, <1>9, <2>1 DEF Ends
    <3>2. v \in Seq(Token)
      <4>1. pos + m + 2 \in 1..(Len(data) + 1) /\ e - 1 = Len(data)
        BY <1>4, <1>6, <1>7, <3>1
      <4> HIDE DEF e
      <4>2. QED BY <4>1 DEF Data
    <3>3. AttributeIs(k, z, v)
      BY <1>8, <2>1, <3>1
    <3> HIDE DEF v
    <3>4. QED BY <1>10, <3>1, <3>2, <3>3, MsgAttUnclosed DEF z
  <2>2. CASE ~(e <= Len(data) + 1)
    <3> DEFINE v == <<>>
    <3>1. v \in Seq(Token) /\ Overrun \in Ends(Len(data) + 1)
      BY DEF Ends
    <3> HIDE DEF v
    <3>2. AttributeIs(k, Overrun, v)
      BY <1>8, <2>2 DEF v
    <3>3. QED BY <1>10, <3>1, <3>2, MsgAttUnclosed
  <2>3. QED BY <2>1, <2>2
<1>12. \A x \in Below(pos + 2) : x.end < 1
  <2>1. Below(pos + 2) = Fetched(MsgAtt({k - 1}))
    BY <1>7, FetchBelow
  <2> DEFINE M == MsgAtt({k - 1})
  <2> HIDE DEF k, M
  <2>2. \A x \in Fetched(M) : \E y \in M : x.end = y.end
    BY DEF Fetched
  <2>3. QED BY <1>11, <2>1, <2>2 DEF M
<1>13. QED BY <1>7, <1>10, <1>12, NumberedParses

\* Only a message with a body can hold a line within it.
LEMMA OneLineOrBody ==
    ASSUME NEW l \in Lines, InGrammar(l)
    PROVE  OneLine(l.tokens) \/ BodyLine(l.tokens, l.response)
BY DEF InGrammar, StatusLine, TaggedLine, CountLine, FlagsLine, SearchLine, NoteLine

\* Of a line that is not all there, parse_next makes nothing: it throws, or it
\* reads beyond the data.  Since the inner loop is entered with data that ends in
\* CRLF or is a single byte, only that byte and a message with a body meet this.
THEOREM TornFails ==
    ASSUME Data, NEW l \in Lines, InGrammar(l), pos \in Nat, NEW d \in Nat \ {0},
           d < Len(l.tokens), Within(l.tokens, pos, d), pos + d = Len(data) + 1, Complete(data)
    PROVE  Fails /\ (Len(data) = 1 \/ BodyLine(l.tokens, l.response))
<1> DEFINE t == l.tokens
<1>1. t \in Seq(Token) /\ Len(data) \in Nat /\ pos \in 1..Len(data)
  BY ReceiverAssumption DEF Within, Data
<1>2. CASE Len(data) = 1
  <2>1. pos = Len(data)
    BY <1>1, <1>2
  <2>2. QED BY <1>1, <1>2, <2>1, LastFails
<1>3. CASE Len(data) # 1
  <2>1. t[d] = "LF"
    <3>1. data[Len(data)] = "LF"
      BY <1>3 DEF Complete
    <3>2. d \in 1..d /\ pos + d - 1 = Len(data)
      BY <1>1
    <3>3. data[pos + d - 1] = t[d]
      BY <3>2 DEF Within
    <3>4. QED BY <3>1, <3>2, <3>3
  <2>2. ~OneLine(t)
    <3>1. SUFFICES ASSUME OneLine(t) PROVE FALSE
      OBVIOUS
    <3>2. Len(t) \in Nat /\ t[Len(t) - 1] = "CR" /\ Without(t, 1, Len(t) - 1, {"CR", "LF"})
      BY <1>1, <3>1 DEF OneLine, Ending
    <3>3. d # Len(t) - 1
      BY <2>1, <3>2
    <3>4. d \in 1..(Len(t) - 1 - 1)
      BY <3>2, <3>3
    <3> HIDE DEF t
    <3>5. QED BY <2>1, <3>2, <3>4 DEF Without
  <2>3. BodyLine(t, l.response)
    BY <2>2, OneLineOrBody
  <2>4. d < Len(t) /\ Within(t, pos, d)
    OBVIOUS
  <2> DEFINE r == l.response
  <2>5. BodyLine(t, r)
    BY <2>3
  <2> HIDE DEF t, r
  <2>6. Fails
    BY <1>1, <2>1, <2>4, <2>5, TornBody
  <2>7. QED BY <2>3, <2>6 DEF t
<1>4. QED BY <1>2, <1>3
-----------------------------------------------------------------------------
(* What the receiver has before it. *)

\* What was received and not parsed away, and what it has yet to receive.
Stream == data \o wire

\* The line t is in s from x + 1 to y.
LineAt(s, t, x, y) == y = x + Len(t) /\ \A j \in 1..Len(t) : s[x + j] = t[j]

\* s holds, from p on, the lines ls of all the responses rs but the first k, and
\* nothing else; the i-th line ends at b[i].
Cut(s, rs, k, p, ls, b) ==
    /\ ls \in [1..Len(rs) -> Lines] /\ b \in [0..Len(rs) -> Int]
    /\ \A i \in 1..Len(rs) : ls[i].response = rs[i]
    /\ b[k] = p - 1 /\ b[Len(rs)] = Len(s)
    /\ \A i, j \in k..Len(rs) : i < j => b[i] < b[j]
    /\ \A i \in (k + 1)..Len(rs) : LineAt(s, ls[i].tokens, b[i - 1], b[i])

Frames(ls, b) == Cut(Stream, sent, Len(given), pos, ls, b)

Framed ==
    /\ Len(given) <= Len(sent) /\ given = SubSeq(sent, 1, Len(given))
    /\ thr = "parsing" => Complete(data)
    /\ \E ls, b : Frames(ls, b)

\* The inductive invariant of the framing.
FrameInv ==
    /\ RecvInv
    /\ given \in Seq({given[i] : i \in DOMAIN given})
    /\ ~failed /\ thr # "terminated" => Framed

GrammarOnly == \A l \in Lines : InGrammar(l)

LEMMA StreamIs ==
    ASSUME data \in Seq(Token), wire \in Seq(Token)
    PROVE  /\ Len(data) \in Nat /\ Len(wire) \in Nat
           /\ Stream \in Seq(Token) /\ Len(Stream) = Len(data) + Len(wire)
           /\ \A x \in 1..Len(data) : Stream[x] = data[x]
           /\ \A x \in 1..Len(wire) : Stream[Len(data) + x] = wire[x]
BY DEF Stream

LEMMA StreamGrows ==
    ASSUME data \in Seq(Token), wire \in Seq(Token), NEW t \in Seq(Token)
    PROVE  (data \o wire) \o t = data \o (wire \o t)
BY ConcatAssociative

LEMMA FramesStay ==
    ASSUME NEW ls, NEW b, Frames(ls, b), UNCHANGED <<sent, given, pos>>, Stream' = Stream
    PROVE  Frames(ls, b)'
<1> HIDE DEF Stream
<1>1. QED BY DEF Frames

LEMMA FrameRange ==
    ASSUME NEW ls, NEW b, Frames(ls, b), Len(given) \in Nat, Len(sent) \in Nat, Len(Stream) \in Nat,
           pos \in Nat, NEW i \in Len(given)..Len(sent)
    PROVE  b[i] \in (pos - 1)..Len(Stream)
<1> DEFINE k == Len(given)
           n == Len(sent)
<1>1. b[k] = pos - 1 /\ b[n] = Len(Stream) /\ \A h, j \in k..n : h < j => b[h] < b[j]
  BY DEF Frames, Cut
<1>2. i \in 0..n /\ i \in k..n /\ k \in k..n /\ n \in k..n
  OBVIOUS
<1>3. b[i] \in Int
  BY <1>2 DEF Frames, Cut
<1> HIDE DEF k, n
<1>4. i # k => b[k] < b[i]
  BY <1>1, <1>2
<1>5. i # n => b[i] < b[n]
  BY <1>1, <1>2
<1>6. b[k] <= b[i] /\ b[i] <= b[n]
  BY <1>1, <1>3, <1>4, <1>5
<1>7. QED BY <1>1, <1>3, <1>6

LEMMA Means ==
    ASSUME NEW t, NEW r
    PROVE  /\ StatusLine(t, r) \/ TaggedLine(t, r) \/ CountLine(t, r) \/ FlagsLine(t, r)
              \/ SearchLine(t, r) \/ NoteLine(t, r) \/ BodyLine(t, r) => r.type # "NULL"
           /\ BodyLine(t, r) => r.type = "FETCH"
<1>1. StatusLine(t, r) \/ TaggedLine(t, r) => r.type \in {"OK", "NO", "BAD", "BYE"}
  <2>1. ASSUME NEW i, NEW tag, NEW types, IsStatus(t, i, types), r = Status(t[i], tag)
        PROVE  r.type \in types
    BY <2>1 DEF IsStatus, Status, Parsed
  <2>2. StatusLine(t, r) => r.type \in {"OK", "NO", "BAD", "BYE"}
    BY <2>1 DEF StatusLine
  <2>3. TaggedLine(t, r) => r.type \in {"OK", "NO", "BAD"}
    BY <2>1 DEF TaggedLine
  <2>4. QED BY <2>2, <2>3
<1>2. CountLine(t, r) \/ FlagsLine(t, r) => r.type = "OTHER"
  BY DEF CountLine, FlagsLine, Status, Parsed
<1>3. SearchLine(t, r) => r.type = "SEARCH"
  BY DEF SearchLine, Parsed
<1>4. NoteLine(t, r) \/ BodyLine(t, r) => r.type = "FETCH"
  <2>1. ASSUME NEW i, NEW j, NEW text, FetchLine(t, r, i, j, text) PROVE r.type = "FETCH"
    BY <2>1 DEF FetchLine, Parsed
  <2>2. QED BY <2>1 DEF NoteLine, BodyLine
<1>5. QED BY <1>1, <1>2, <1>3, <1>4

LEMMA GivenFits ==
    ASSUME RecvInv, Framed, given \in Seq({given[i] : i \in DOMAIN given})
    PROVE  Len(given) \in 0..Len(sent) /\ Len(sent) \in Nat
<1>1. Len(given) \in Nat
  <2> DEFINE S == {given[i] : i \in DOMAIN given}
  <2> HIDE DEF S
  <2>1. given \in Seq(S)
    BY DEF S
  <2>2. QED BY <2>1
<1>2. Len(sent) \in Nat /\ Len(given) <= Len(sent)
  BY DEF RecvInv, Framed
<1>3. QED BY <1>1, <1>2

\* What parse_next finds at pos: the next line, or the beginning of one.
LEMMA NextLine ==
    ASSUME GrammarOnly, FrameInv, Framed, NEW ls, NEW b, Frames(ls, b),
           thr = "parsing", pos <= Len(data), NEW k, k = Len(given) + 1
    PROVE  /\ k \in 1..Len(sent) /\ ls[k] \in Lines /\ ls[k].response = sent[k]
           /\ \/ Reads(ls[k].tokens, sent[k]) /\ b[k] = pos + Len(ls[k].tokens) - 1
              \/ Fails /\ (Len(data) = 1 \/ BodyLine(ls[k].tokens, sent[k]))
<1> DEFINE l == ls[k]
           t == l.tokens
           x == Len(data) - pos + 1
<1>1. /\ data \in Seq(Token) /\ wire \in Seq(Token) /\ pos \in 1..(Len(data) + 1)
      /\ Len(sent) \in Nat /\ Data
  BY DEF FrameInv, RecvInv, ReceiverTypeOK, Data
<1>2. /\ Len(data) \in Nat /\ Len(wire) \in Nat /\ Len(Stream) = Len(data) + Len(wire)
      /\ \A y \in 1..Len(data) : Stream[y] = data[y]
  BY <1>1, StreamIs
<1>3. Len(given) \in 0..Len(sent)
  BY GivenFits DEF FrameInv
<1>4. Len(given) < Len(sent)
  <2>1. b[Len(given)] = pos - 1 /\ b[Len(sent)] = Len(Stream)
    BY DEF Frames, Cut
  <2>2. QED BY <1>1, <1>2, <1>3, <2>1
<1>5. k \in 1..Len(sent) /\ k - 1 = Len(given)
  BY <1>1, <1>3, <1>4
<1>6. /\ l \in Lines /\ l.response = sent[k] /\ InGrammar(l)
      /\ LineAt(Stream, t, pos - 1, b[k])
  <2>1. k \in (Len(given) + 1)..Len(sent)
    BY <1>3, <1>5
  <2>2. b[k - 1] = pos - 1
    BY <1>5 DEF Frames, Cut
  <2>3. QED BY <1>5, <2>1, <2>2 DEF Frames, Cut, GrammarOnly
<1>7. t \in Seq(Token) /\ t # <<>> /\ Len(t) \in Nat \ {0}
  <2>1. t \in Seq(Token) /\ t # <<>>
    BY <1>6, ReceiverAssumption
  <2> HIDE DEF t
  <2>2. QED BY <2>1
<1>8. b[k] = pos + Len(t) - 1
  <2>1. b[k] = pos - 1 + Len(t)
    BY <1>6 DEF LineAt
  <2>2. QED BY <1>1, <1>7, <2>1
<1>9. ASSUME NEW d \in Nat, d <= Len(t), d <= x PROVE Within(t, pos, d)
  <2>1. pos \in 1..Len(data) /\ pos + d <= Len(data) + 1
    BY <1>1, <1>2, <1>9
  <2>2. ASSUME NEW i \in 1..d PROVE data[pos + i - 1] = t[i]
    <3>1. i \in 1..Len(t) /\ pos + i - 1 \in 1..Len(data) /\ pos - 1 + i = pos + i - 1
      BY <1>7, <1>9, <2>1
    <3>2. Stream[pos - 1 + i] = t[i]
      BY <1>6, <3>1 DEF LineAt
    <3>3. QED BY <1>2, <3>1, <3>2
  <2>3. QED BY <2>1, <2>2 DEF Within
<1>10. pos \in Nat /\ x \in Nat \ {0} /\ pos + x = Len(data) + 1
  BY <1>1, <1>2
<1>11. CASE Len(t) <= x
  <2>1. Within(l.tokens, pos, Len(l.tokens))
    BY <1>7, <1>9, <1>11
  <2> HIDE DEF l
  <2>2. Reads(l.tokens, l.response)
    BY <1>1, <1>6, <1>10, <2>1, WholeReads
  <2>3. QED BY <1>5, <1>6, <1>8, <2>2 DEF l
<1>12. CASE ~(Len(t) <= x)
  <2>1. x < Len(t)
    BY <1>7, <1>10, <1>12
  <2>2. x \in Nat /\ x <= Len(t) /\ x <= x
    BY <1>7, <1>10, <2>1
  <2>3. Within(l.tokens, pos, x) /\ x < Len(l.tokens)
    BY <1>9, <2>1, <2>2
  <2>4. Complete(data)
    BY DEF Framed
  <2> HIDE DEF l, x
  <2>5. Fails /\ (Len(data) = 1 \/ BodyLine(l.tokens, l.response))
    BY <1>1, <1>6, <1>10, <2>3, <2>4, TornFails
  <2>6. QED BY <1>5, <1>6, <2>5 DEF l
<1>13. QED BY <1>11, <1>12

LEMMA FramesDeliver ==
    ASSUME GrammarOnly, FrameInv, Framed, NEW ls, NEW b, Frames(ls, b),
           thr = "parsing", pos <= Len(data), NEW r \in ParseNext, Deliver(r), UNCHANGED <<wire, sent>>
    PROVE  /\ Len(given) < Len(sent) /\ r.value = sent[Len(given) + 1]
           /\ Frames(ls, b)' /\ Len(given') <= Len(sent') /\ given' = SubSeq(sent', 1, Len(given'))
<1> DEFINE k == Len(given) + 1
           t == ls[k].tokens
<1>1. k \in 1..Len(sent)
  BY NextLine
<1>2. Reads(t, sent[k]) /\ b[k] = pos + Len(t) - 1
  <2>1. ~Fails
    <3>1. Data /\ pos \in 1..Len(data)
      BY DEF FrameInv, RecvInv, ReceiverTypeOK, Data
    <3>2. r.end \in Int /\ r.end >= 1
      BY <3>1, ParseNextEnds DEF Ended, Ends, Thrown, Overrun, Deliver, Data
    <3>3. QED BY <3>2 DEF Fails
  <2> HIDE DEF k
  <2>2. k = Len(given) + 1
    BY DEF k
  <2>3. QED BY <2>1, <2>2, NextLine
<1>3. r.end = pos + Len(t) /\ r.value = sent[k]
  BY <1>2 DEF Reads
<1>4. /\ pos' = pos + Len(t) /\ given' = Append(given, sent[k]) /\ data' = data
  BY <1>3 DEF Deliver
<1>5. Len(given) \in 0..Len(sent) /\ Len(sent) \in Nat /\ sent \in Seq({l.response : l \in Lines})
      /\ pos \in Nat
  BY GivenFits DEF FrameInv, RecvInv, ReceiverTypeOK
<1>6. given' = SubSeq(sent, 1, k) /\ Len(given') = k
  <2> DEFINE R == {l.response : l \in Lines}
  <2>1. sent \in Seq(R)
    BY <1>5
  <2> HIDE DEF R
  <2>2. given = SubSeq(sent, 1, Len(given))
    BY DEF Framed
  <2>3. given' = Append(SubSeq(sent, 1, Len(given)), sent[k])
    BY <1>4, <2>2
  <2>4. SubSeq(sent, 1, k) = Append(SubSeq(sent, 1, k - 1), sent[k])
    BY <1>1, <2>1
  <2>5. k - 1 = Len(given)
    BY <1>5
  <2>6. given' = SubSeq(sent, 1, k)
    BY <2>3, <2>4, <2>5
  <2>7. Len(SubSeq(sent, 1, k)) = k
    BY <1>1, <2>1
  <2>8. QED BY <2>6, <2>7
<1>7. b[k] = pos' - 1
  <2>1. b[k] \in Int
    BY <1>1 DEF Frames, Cut
  <2>2. b[k] = pos + Len(t) - 1 /\ pos' = pos + Len(t)
    BY <1>2, <1>4
  <2>3. t \in Seq(Token)
    BY <1>1, ReceiverAssumption DEF Frames, Cut
  <2> HIDE DEF t
  <2>4. Len(t) \in Nat
    BY <2>3
  <2>5. QED BY <1>5, <2>2, <2>4
<1>8. Frames(ls, b)'
  <2>1. Stream' = Stream
    BY <1>4 DEF Stream
  <2>2. k..Len(sent) \subseteq Len(given)..Len(sent)
        /\ (k + 1)..Len(sent) \subseteq (Len(given) + 1)..Len(sent)
    BY <1>5
  <2> HIDE DEF Stream, k
  <2>3. /\ ls \in [1..Len(sent) -> Lines] /\ b \in [0..Len(sent) -> Int]
        /\ \A i \in 1..Len(sent) : ls[i].response = sent[i]
        /\ b[Len(sent)] = Len(Stream)
    BY DEF Frames, Cut
  <2>4. \A i, j \in k..Len(sent) : i < j => b[i] < b[j]
    BY <2>2 DEF Frames, Cut
  <2>5. \A i \in (k + 1)..Len(sent) : LineAt(Stream, ls[i].tokens, b[i - 1], b[i])
    BY <2>2 DEF Frames, Cut
  <2>6. sent' = sent /\ Len(given') = k
    BY <1>6
  <2>7. QED BY <1>7, <2>1, <2>3, <2>4, <2>5, <2>6 DEF Frames, Cut
<1>9. Len(given) < Len(sent)
  BY <1>1, <1>5
<1>10. QED BY <1>1, <1>3, <1>5, <1>6, <1>8, <1>9

LEMMA FramesEnd ==
    ASSUME FrameInv, Framed, NEW ls, NEW b, Frames(ls, b), pos > Len(data),
           data' = <<>>, pos' = 1, UNCHANGED <<wire, sent, given>>
    PROVE  \E c : Frames(ls, c)'
<1> DEFINE n == Len(sent)
           k == Len(given)
           L == Len(data)
           c == [i \in 0..n |-> b[i] - L]
<1>1. /\ data \in Seq(Token) /\ wire \in Seq(Token) /\ k \in 0..n /\ n \in Nat
      /\ L \in Nat /\ pos = L + 1 /\ pos \in Nat
  BY GivenFits DEF FrameInv, RecvInv, ReceiverTypeOK
<1>2. /\ Len(wire) \in Nat /\ Len(Stream) = L + Len(wire) /\ Len(Stream) \in Nat
      /\ \A x \in 1..Len(wire) : Stream[L + x] = wire[x]
  BY <1>1, StreamIs
<1>3. Stream' = wire
  BY <1>1 DEF Stream
<1> HIDE DEF Stream
<1>4. /\ ls \in [1..n -> Lines] /\ b \in [0..n -> Int]
      /\ \A i \in 1..n : ls[i].response = sent[i]
      /\ b[k] = pos - 1 /\ b[n] = Len(Stream)
      /\ \A i, j \in k..n : i < j => b[i] < b[j]
      /\ \A i \in (k + 1)..n : LineAt(Stream, ls[i].tokens, b[i - 1], b[i])
  BY DEF Frames, Cut
<1> HIDE DEF n, k, L
<1>5. c \in [0..n -> Int] /\ \A i \in 0..n : c[i] = b[i] - L
  BY <1>1, <1>4
<1>6. c[k] = 0 /\ c[n] = Len(wire)
  <2>1. k \in 0..n /\ n \in 0..n
    BY <1>1
  <2>2. c[k] = b[k] - L /\ c[n] = b[n] - L
    BY <1>5, <2>1
  <2>3. QED BY <1>1, <1>2, <1>4, <2>2
<1>7. \A i, j \in k..n : i < j => c[i] < c[j]
  <2>1. ASSUME NEW i \in k..n, NEW j \in k..n, i < j PROVE c[i] < c[j]
    <3>1. i \in 0..n /\ j \in 0..n
      BY <1>1
    <3>2. b[i] < b[j] /\ b[i] \in Int /\ b[j] \in Int /\ c[i] = b[i] - L /\ c[j] = b[j] - L
      BY <1>4, <1>5, <2>1, <3>1
    <3>3. QED BY <1>1, <3>2
  <2>2. QED BY <2>1
<1>8. ASSUME NEW i \in (k + 1)..n PROVE LineAt(wire, ls[i].tokens, c[i - 1], c[i])
  <2> DEFINE t == ls[i].tokens
  <2>1. i \in 0..n /\ i - 1 \in 0..n /\ i \in k..n /\ i - 1 \in k..n /\ i \in 1..n
    BY <1>1
  <2>2. b[i - 1] \in L..Len(Stream) /\ b[i] \in L..Len(Stream)
    <3>1. ASSUME NEW h \in k..n PROVE b[h] \in (pos - 1)..Len(Stream)
      BY <1>1, <1>2, FrameRange DEF n, k
    <3>2. pos - 1 = L
      BY <1>1
    <3>3. QED BY <2>1, <3>1, <3>2
  <2>3. c[i - 1] = b[i - 1] - L /\ c[i] = b[i] - L
    BY <1>5, <2>1
  <2>4. b[i] = b[i - 1] + Len(t) /\ \A j \in 1..Len(t) : Stream[b[i - 1] + j] = t[j]
    BY <1>4 DEF LineAt
  <2>5. t \in Seq(Token)
    BY <1>4, <2>1, ReceiverAssumption
  <2> HIDE DEF t, c
  <2>6. Len(t) \in Nat
    BY <2>5
  <2>7. c[i] = c[i - 1] + Len(t)
    BY <1>1, <1>2, <2>2, <2>3, <2>4, <2>6
  <2>8. ASSUME NEW j \in 1..Len(t) PROVE wire[c[i - 1] + j] = t[j]
    <3>1. c[i - 1] + j \in 1..Len(wire) /\ L + (c[i - 1] + j) = b[i - 1] + j
      <4> DEFINE x == b[i - 1]
                 y == b[i]
      <4>1. /\ x \in L..Len(Stream) /\ y \in L..Len(Stream) /\ y = x + Len(t)
            /\ c[i - 1] = x - L
        BY <2>2, <2>3, <2>4
      <4> HIDE DEF x, y
      <4>2. x - L + j \in 1..Len(wire) /\ L + (x - L + j) = x + j
        BY <1>1, <1>2, <2>6, <4>1
      <4>3. QED BY <4>1, <4>2 DEF x
    <3>2. Stream[L + (c[i - 1] + j)] = wire[c[i - 1] + j]
      BY <1>2, <3>1
    <3>3. QED BY <2>4, <3>1, <3>2
  <2>9. QED BY <2>7, <2>8 DEF LineAt, t
<1> HIDE DEF c
<1>9. Cut(wire, sent, k, 1, ls, c)
  BY <1>4, <1>5, <1>6, <1>7, <1>8 DEF n, Cut
<1>10. PICK d : Cut(wire, sent, k, 1, ls, d)
  BY <1>9
<1>11. Frames(ls, d)'
  <2>1. Len(given') = k /\ pos' = 1 /\ sent' = sent
    BY DEF k
  <2>2. QED BY <1>3, <1>10, <2>1 DEF Frames
<1>12. QED BY <1>11

LEMMA FramesWrite ==
    ASSUME FrameInv, Framed, NEW ls, NEW b, Frames(ls, b), NEW l \in Lines,
           wire' = wire \o l.tokens, sent' = Append(sent, l.response), UNCHANGED <<data, pos, given>>
    PROVE  /\ Len(given') <= Len(sent') /\ given' = SubSeq(sent', 1, Len(given'))
           /\ \E ms, c : Frames(ms, c)'
<1> DEFINE n == Len(sent)
           k == Len(given)
           S == Len(Stream)
           T == Len(l.tokens)
           ms == [i \in 1..(n + 1) |-> IF i = n + 1 THEN l ELSE ls[i]]
           c == [i \in 0..(n + 1) |-> IF i = n + 1 THEN S + T ELSE b[i]]
           R == {x.response : x \in Lines}
<1>1. /\ data \in Seq(Token) /\ wire \in Seq(Token) /\ k \in 0..n /\ n \in Nat
      /\ pos \in Nat /\ sent \in Seq(R) /\ l.response \in R
  BY GivenFits DEF FrameInv, RecvInv, ReceiverTypeOK
<1>2. l.tokens \in Seq(Token) /\ T \in Nat \ {0}
  <2>1. l.tokens \in Seq(Token) /\ l.tokens # <<>>
    BY ReceiverAssumption
  <2>2. QED BY <2>1
<1>3. /\ Stream' = Stream \o l.tokens /\ Stream \in Seq(Token) /\ S \in Nat
      /\ Len(Stream') = S + T
      /\ \A x \in 1..S : Stream'[x] = Stream[x]
      /\ \A x \in 1..T : Stream'[S + x] = l.tokens[x]
  <2>1. Stream' = Stream \o l.tokens
    <3> DEFINE t == l.tokens
    <3>1. Stream' = data \o (wire \o t) /\ t \in Seq(Token)
      BY <1>2 DEF Stream
    <3> HIDE DEF t
    <3>2. (data \o wire) \o t = data \o (wire \o t)
      BY <1>1, <3>1, StreamGrows
    <3>3. QED BY <3>1, <3>2 DEF Stream, t
  <2>2. Stream \in Seq(Token)
    BY <1>1, StreamIs
  <2> HIDE DEF Stream
  <2>3. QED BY <1>2, <2>1, <2>2
<1> HIDE DEF Stream
<1>4. /\ ls \in [1..n -> Lines] /\ b \in [0..n -> Int]
      /\ \A i \in 1..n : ls[i].response = sent[i]
      /\ b[k] = pos - 1 /\ b[n] = S
      /\ \A i, j \in k..n : i < j => b[i] < b[j]
      /\ \A i \in (k + 1)..n : LineAt(Stream, ls[i].tokens, b[i - 1], b[i])
  BY DEF Frames, Cut
<1> HIDE DEF R
<1>5. /\ Len(sent') = n + 1 /\ sent'[n + 1] = l.response /\ \A i \in 1..n : sent'[i] = sent[i]
      /\ SubSeq(sent', 1, k) = SubSeq(sent, 1, k)
  BY <1>1
<1>6. Len(given') <= Len(sent') /\ given' = SubSeq(sent', 1, Len(given'))
  <2>1. given = SubSeq(sent, 1, k) /\ given' = given /\ Len(given') = k
    BY DEF Framed
  <2>2. QED BY <1>1, <1>5, <2>1
<1> HIDE DEF n, k, S, T
<1>7. /\ ms \in [1..(n + 1) -> Lines] /\ ms[n + 1] = l /\ \A i \in 1..n : ms[i] = ls[i]
  BY <1>1, <1>4
<1>8. /\ c \in [0..(n + 1) -> Int] /\ c[n + 1] = S + T /\ \A i \in 0..n : c[i] = b[i]
  <2>1. ASSUME NEW i \in 0..n PROVE i \in 0..(n + 1) /\ i # n + 1
    BY <1>1
  <2>2. n + 1 \in 0..(n + 1) /\ S + T \in Int
    BY <1>1, <1>2, <1>3 DEF S, T
  <2>3. \A i \in 0..(n + 1) : i # n + 1 => b[i] \in Int
    BY <1>1, <1>4
  <2>4. c \in [0..(n + 1) -> Int]
    BY <2>2, <2>3
  <2>5. QED BY <2>1, <2>2, <2>4
<1> HIDE DEF ms, c
<1>9. \A i \in 1..(n + 1) : ms[i].response = sent'[i]
  <2>1. ASSUME NEW i \in 1..n PROVE ms[i].response = sent'[i]
    BY <1>4, <1>5, <1>7
  <2>2. ms[n + 1].response = sent'[n + 1]
    BY <1>5, <1>7
  <2>3. 1..(n + 1) = 1..n \cup {n + 1}
    BY <1>1
  <2>4. QED BY <2>1, <2>2, <2>3
<1>10. c[k] = pos - 1 /\ c[n + 1] = Len(Stream')
  BY <1>1, <1>3, <1>4, <1>8
<1>11. ASSUME NEW i \in k..n PROVE b[i] \in (pos - 1)..S /\ c[i] = b[i]
  <2>1. b[i] \in (pos - 1)..Len(Stream)
    BY <1>1, <1>3, FrameRange DEF n, k, S
  <2>2. i \in 0..n
    BY <1>1
  <2>3. QED BY <1>8, <2>1, <2>2 DEF S
<1>12. ASSUME NEW i \in k..(n + 1), NEW j \in k..(n + 1), i < j PROVE c[i] < c[j]
  <2>1. i \in k..n
    BY <1>1, <1>12
  <2>2. CASE j = n + 1
    <3>1. c[j] = S + T /\ c[i] = b[i] /\ b[i] \in (pos - 1)..S
      BY <1>8, <1>11, <2>1, <2>2
    <3>2. pos - 1 \in Int /\ S \in Nat /\ T \in Nat \ {0}
      BY <1>1, <1>2, <1>3 DEF S, T
    <3>3. QED BY <3>1, <3>2
  <2>3. CASE j # n + 1
    <3>1. j \in k..n
      BY <1>1, <2>3
    <3>2. QED BY <1>4, <1>11, <1>12, <2>1, <3>1
  <2>4. QED BY <2>2, <2>3
<1>13. ASSUME NEW i \in (k + 1)..(n + 1) PROVE LineAt(Stream', ms[i].tokens, c[i - 1], c[i])
  <2>1. CASE i = n + 1
    <3>1. i - 1 = n /\ n \in 0..n
      BY <1>1, <2>1
    <3>2. c[i - 1] = S /\ c[i] = S + T /\ ms[i].tokens = l.tokens
      BY <1>4, <1>7, <1>8, <2>1, <3>1
    <3>3. QED BY <1>3, <3>2 DEF LineAt, T
  <2>2. CASE i # n + 1
    <3> DEFINE t == ls[i].tokens
    <3>1. i \in (k + 1)..n /\ i - 1 \in k..n /\ i \in k..n /\ i \in 1..n
      BY <1>1, <2>2
    <3>2. b[i] = b[i - 1] + Len(t) /\ \A j \in 1..Len(t) : Stream[b[i - 1] + j] = t[j]
      BY <1>4, <3>1 DEF LineAt
    <3>3. t \in Seq(Token)
      BY <1>4, <3>1, ReceiverAssumption
    <3>4. ms[i].tokens = t /\ c[i - 1] = b[i - 1] /\ c[i] = b[i]
          /\ b[i] \in (pos - 1)..S /\ b[i - 1] \in (pos - 1)..S
      BY <1>7, <1>11, <3>1
    <3>6. pos \in Nat \ {0}
      BY DEF FrameInv, RecvInv, ReceiverTypeOK
    <3> HIDE DEF t
    <3>5. Len(t) \in Nat
      BY <3>3
    <3>7. ASSUME NEW j \in 1..Len(t) PROVE Stream'[b[i - 1] + j] = t[j]
      <4>1. b[i - 1] + j \in 1..S
        <5> DEFINE x == b[i - 1]
                   y == b[i]
        <5>1. x \in (pos - 1)..S /\ y \in (pos - 1)..S /\ y = x + Len(t)
          BY <3>2, <3>4
        <5>2. S \in Nat
          BY <1>3 DEF S
        <5> HIDE DEF x, y
        <5>3. x + j \in 1..S
          BY <3>5, <3>6, <5>1, <5>2
        <5>4. QED BY <5>3 DEF x
      <4>2. QED BY <1>3, <3>2, <4>1
    <3>8. QED BY <3>2, <3>4, <3>7 DEF LineAt
  <2>3. QED BY <2>1, <2>2
<1>14. Cut(Stream', sent', k, pos, ms, c)
  BY <1>5, <1>7, <1>8, <1>9, <1>10, <1>12, <1>13 DEF Cut
<1>15. PICK us, d : Cut(Stream', sent', k, pos, us, d)
  BY <1>14
<1>16. Frames(us, d)'
  <2>1. Len(given') = k /\ pos' = pos
    BY DEF k
  <2>2. QED BY <1>15, <2>1 DEF Frames
<1>17. QED BY <1>6, <1>16
-----------------------------------------------------------------------------
(* The thread. *)

LEMMA InitFrameInv == ASSUME Init PROVE FrameInv
<1> DEFINE b == [i \in {0} |-> 0]
           ls == [i \in {} |-> 0]
<1>1. data = <<>> /\ wire = <<>> /\ sent = <<>> /\ given = <<>> /\ pos = 1 /\ thr = "starting"
  BY DEF Init
<1>2. Stream = <<>> /\ Len(Stream) = 0 /\ Len(sent) = 0 /\ Len(given) = 0
  BY <1>1 DEF Stream
<1>3. /\ 1..0 = {} /\ 0..0 = {0} /\ 0 + 1 = 1
      /\ ls \in [{} -> Lines] /\ b \in [{0} -> Int] /\ b[0] = 1 - 1
  OBVIOUS
<1> HIDE DEF ls, b
<1>4. Frames(ls, b)
  BY <1>1, <1>2, <1>3 DEF Frames, Cut
<1>5. given = SubSeq(sent, 1, Len(given))
  BY <1>1
<1>6. Framed
  BY <1>1, <1>2, <1>4, <1>5 DEF Framed
<1>7. given \in Seq({given[i] : i \in DOMAIN given})
  BY <1>1
<1>8. QED BY <1>6, <1>7, InitRecvInv DEF FrameInv

\* Receiving moves tokens, and leaves the stream as it is.
LEMMA InspectStays ==
    ASSUME NEW d, Inspect(d)
    PROVE  /\ UNCHANGED <<pos, given, failed>> /\ data' = d
           /\ thr' = "parsing" => Complete(data')
<1>1. /\ data' = d /\ UNCHANGED <<pos, given, failed>>
      /\ thr' = CASE Complete(d) -> "parsing"
                  [] ~Complete(d) /\ Len(d) = MaxLen -> "terminated"
                  [] ~Complete(d) /\ Len(d) # MaxLen -> IF stopped' THEN "ended" ELSE "reading"
  BY DEF Inspect, logVars
<1>2. ~Complete(d) => thr' # "parsing"
  <2>1. CASE Len(d) = MaxLen
    BY <1>1, <2>1
  <2>2. CASE Len(d) # MaxLen
    BY <1>1, <2>2
  <2>3. QED BY <2>1, <2>2
<1>3. QED BY <1>1, <1>2

\* What the session was given stays a sequence.
LEMMA GivenSequence ==
    ASSUME given \in Seq({given[i] : i \in DOMAIN given}), [Next]_vars
    PROVE  /\ given' \in Seq({given'[i] : i \in DOMAIN given'})
           /\ given' # given => \E v : given' = Append(given, v)
<1> DEFINE S == {given[i] : i \in DOMAIN given}
<1>1. given' = given \/ \E v : given' = Append(given, v)
  <2>1. CASE UNCHANGED vars
    BY <2>1 DEF vars, logVars
  <2>2. CASE ParseOne
    BY <2>2 DEF ParseOne, Deliver, DeliverNull, Fail, logVars
  <2>3. CASE Start \/ Receive \/ ReceiveEnd \/ ReceiveFails \/ ParseEnds \/ Stop \/ Write \/ Leave
    BY <2>3 DEF Start, Receive, ReceiveEnd, ReceiveFails, ParseEnds, Stop, Write, Leave, Inspect,
                logVars
  <2>4. QED BY <2>1, <2>2, <2>3 DEF Next, Thread
<1>2. ASSUME NEW v, given' = Append(given, v)
      PROVE  given' \in Seq({given'[i] : i \in DOMAIN given'})
  <2> DEFINE A == S \cup {v}
             g == Append(given, v)
  <2>1. given \in Seq(A) /\ v \in A
    <3>1. given \in Seq(S) /\ S \subseteq A
      OBVIOUS
    <3> HIDE DEF S, A
    <3>2. given \in Seq(A)
      BY <3>1
    <3>3. QED BY <3>2 DEF A
  <2> HIDE DEF A
  <2>2. g \in Seq(A)
    BY <2>1
  <2> HIDE DEF g
  <2>3. g \in Seq({g[i] : i \in DOMAIN g})
    BY <2>2
  <2>4. QED BY <1>2, <2>3 DEF g
<1>3. QED BY <1>1, <1>2

LEMMA NextFramed ==
    ASSUME GrammarOnly, FrameInv, Next, ~failed', thr' # "terminated" PROVE Framed'
<1>1. ~failed /\ thr # "terminated"
  <2>1. thr # "terminated"
    BY DEF Next, Thread, Start, Receive, ReceiveEnd, ReceiveFails, ParseOne, ParseEnds, Stop,
           Write, Leave
  <2>2. failed' = failed \/ failed' = TRUE
    BY DEF Next, Thread, Start, Receive, ReceiveEnd, ReceiveFails, ParseOne, ParseEnds, Stop,
           Write, Leave, Inspect, Deliver, DeliverNull, Fail, logVars
  <2>3. failed \in BOOLEAN
    BY DEF FrameInv, RecvInv, ReceiverTypeOK
  <2>4. QED BY <2>1, <2>2, <2>3
<1>2. PICK ls, b : Frames(ls, b)
  BY <1>1 DEF FrameInv, Framed
<1>3. /\ Framed /\ Len(given) <= Len(sent) /\ given = SubSeq(sent, 1, Len(given))
      /\ thr = "parsing" => Complete(data)
  BY <1>1 DEF FrameInv, Framed
<1>4. data \in Seq(Token) /\ wire \in Seq(Token) /\ Len(wire) \in Nat
  BY DEF FrameInv, RecvInv, ReceiverTypeOK
<1>5. ASSUME UNCHANGED <<sent, given, pos>>, Stream' = Stream, thr' = "parsing" => Complete(data)'
      PROVE  Framed'
  <2>1. Frames(ls, b)'
    BY <1>2, <1>5, FramesStay
  <2>2. QED BY <1>3, <1>5, <2>1 DEF Framed
<1>6. CASE Start \/ Stop \/ Leave
  <2>1. UNCHANGED <<sent, given, pos, data, wire>> /\ (thr' = "parsing" => thr = "parsing")
    BY <1>6 DEF Start, Stop, Leave, serverVars, logVars
  <2>2. Stream' = Stream /\ (thr' = "parsing" => Complete(data)')
    BY <1>3, <2>1 DEF Stream, Complete
  <2>3. QED BY <1>5, <2>1, <2>2
<1>7. CASE Receive
  <2>1. PICK n \in 0..Len(wire) :
           /\ wire' = SubSeq(wire, n + 1, Len(wire))
           /\ Inspect(data \o SubSeq(wire, 1, n))
    BY <1>7 DEF Receive
  <2> DEFINE d == data \o SubSeq(wire, 1, n)
  <2>2. UNCHANGED <<pos, given>> /\ data' = d /\ (thr' = "parsing" => Complete(data)')
    <3> HIDE DEF d
    <3>1. Inspect(d)
      BY <2>1 DEF d
    <3>2. QED BY <3>1, InspectStays
  <2>3. (data \o SubSeq(wire, 1, n)) \o SubSeq(wire, n + 1, Len(wire)) = data \o wire
    <3> DEFINE a == SubSeq(wire, 1, n)
               z == SubSeq(wire, n + 1, Len(wire))
    <3>1. a \in Seq(Token) /\ z \in Seq(Token)
      BY <1>4
    <3>2. a \o z = wire
      <4>1. a \o z = SubSeq(wire, 1, Len(wire))
        <5>1. 1 \in 1..(Len(wire) + 1) /\ n \in (1 - 1)..Len(wire) /\ Len(wire) \in n..Len(wire)
          BY <1>4
        <5>2. QED BY <1>4, <5>1, ConcatAdjacentSubSeq
      <4>2. QED BY <1>4, <4>1, SubSeqFull
    <3> HIDE DEF a, z
    <3>3. (data \o a) \o z = data \o (a \o z)
      BY <1>4, <3>1, ConcatAssociative
    <3>4. QED BY <3>2, <3>3 DEF a, z
  <2>4. Stream' = Stream /\ sent' = sent
    BY <1>7, <2>1, <2>2, <2>3 DEF Stream, Receive
  <2>5. QED BY <1>5, <2>2, <2>4
<1>8. CASE ReceiveEnd
  <2>1. Inspect(data) /\ UNCHANGED <<wire, sent>>
    BY <1>8 DEF ReceiveEnd, serverVars
  <2>2. UNCHANGED <<pos, given>> /\ data' = data /\ (thr' = "parsing" => Complete(data)')
    BY <2>1, InspectStays
  <2>3. Stream' = Stream
    BY <2>1, <2>2 DEF Stream
  <2>4. QED BY <1>5, <2>1, <2>2, <2>3
<1>9. CASE ReceiveFails
  BY <1>9 DEF ReceiveFails
<1>10. CASE ParseOne
  <2>1. PICK r \in ParseNext : Deliver(r) \/ DeliverNull(r) \/ Fail(r)
    BY <1>10 DEF ParseOne
  <2>2. Deliver(r)
    BY <2>1 DEF DeliverNull, Fail
  <2>3. thr = "parsing" /\ pos <= Len(data) /\ UNCHANGED <<wire, sent>>
    BY <1>10 DEF ParseOne, serverVars
  <2>4. Frames(ls, b)' /\ Len(given') <= Len(sent') /\ given' = SubSeq(sent', 1, Len(given'))
    BY <1>2, <1>3, <2>2, <2>3, FramesDeliver
  <2>5. Complete(data)'
    BY <1>3, <2>2, <2>3 DEF Deliver, Complete
  <2>6. QED BY <2>4, <2>5 DEF Framed
<1>11. CASE ParseEnds
  <2>1. /\ data' = <<>> /\ pos' = 1 /\ thr' = "reading" /\ pos > Len(data)
        /\ UNCHANGED <<wire, sent, given>>
    BY <1>11 DEF ParseEnds, Clear, serverVars, logVars
  <2>2. \E c : Frames(ls, c)'
    BY <1>2, <1>3, <2>1, FramesEnd
  <2>3. QED BY <1>3, <2>1, <2>2 DEF Framed
<1>12. CASE Write
  <2>1. PICK l \in Lines : wire' = wire \o l.tokens /\ sent' = Append(sent, l.response)
    BY <1>12 DEF Write
  <2>2. UNCHANGED <<data, pos, given, thr>>
    BY <1>12 DEF Write, logVars
  <2>3. /\ Len(given') <= Len(sent') /\ given' = SubSeq(sent', 1, Len(given'))
        /\ \E ms, c : Frames(ms, c)'
    BY <1>2, <1>3, <2>1, <2>2, FramesWrite
  <2>4. thr' = "parsing" => Complete(data)'
    BY <1>3, <2>2 DEF Complete
  <2>5. QED BY <2>3, <2>4 DEF Framed
<1>13. QED BY <1>6, <1>7, <1>8, <1>9, <1>10, <1>11, <1>12 DEF Next, Thread

LEMMA NextFrameInv == ASSUME GrammarOnly, FrameInv, [Next]_vars PROVE FrameInv'
<1>1. given' \in Seq({given'[i] : i \in DOMAIN given'})
  BY GivenSequence DEF FrameInv
<1>2. CASE UNCHANGED vars
  <2>1. UNCHANGED <<data, pos, wire, link, thr, stopped, sent, given, failed>>
    BY <1>2 DEF vars, serverVars, logVars
  <2>2. RecvInv'
    BY <2>1 DEF FrameInv, RecvInv, ReceiverTypeOK
  <2>3. ~failed' /\ thr' # "terminated" => Framed'
    <3> SUFFICES ASSUME ~failed', thr' # "terminated" PROVE Framed'
      OBVIOUS
    <3>1. Framed
      BY <2>1 DEF FrameInv
    <3>2. PICK ls, b : Frames(ls, b)
      BY <3>1 DEF Framed
    <3>3. Stream' = Stream /\ UNCHANGED <<sent, given, pos>>
      BY <2>1 DEF Stream
    <3>4. Frames(ls, b)'
      BY <3>2, <3>3, FramesStay
    <3>5. Len(given') <= Len(sent') /\ given' = SubSeq(sent', 1, Len(given'))
      BY <2>1, <3>1 DEF Framed
    <3>6. thr' = "parsing" => Complete(data)'
      BY <2>1, <3>1 DEF Framed, Complete
    <3>7. QED BY <3>4, <3>5, <3>6 DEF Framed
  <2>4. QED BY <1>1, <2>2, <2>3 DEF FrameInv
<1>3. CASE Next
  <2>1. RecvInv'
    BY <1>3, NextRecvInv DEF FrameInv
  <2>2. ~failed' /\ thr' # "terminated" => Framed'
    BY <1>3, NextFramed
  <2>3. QED BY <1>1, <2>1, <2>2 DEF FrameInv
<1>4. QED BY <1>2, <1>3

\* Of a server that writes lines of the grammar, the invariant of the framing:
\* behind pos, the data and the wire are cut into the lines of the responses
\* still owed to the session, whatever the chunks were.
THEOREM FramingInvariance == ASSUME GrammarOnly PROVE Spec => []FrameInv
<1>1. Init => FrameInv
  BY InitFrameInv
<1>2. FrameInv /\ [Next]_vars => FrameInv'
  BY NextFrameInv
<1>3. QED BY <1>1, <1>2, PTL DEF Spec

\* However the lines of the grammar are cut into chunks, and as long as no
\* failure was reported, a receiver that waits with nothing left before it has
\* handed over all that was sent, in the order it was sent.
THEOREM NothingIsLost == ASSUME GrammarOnly PROVE Spec => []NothingLostSilently
<1>1. ASSUME FrameInv PROVE NothingLostSilently
  <2> SUFFICES ASSUME thr = "reading", wire = <<>>, data = <<>>, ~failed PROVE given = sent
    BY DEF NothingLostSilently
  <2>1. Framed
    BY <1>1 DEF FrameInv
  <2>2. PICK ls, b : Frames(ls, b)
    BY <2>1 DEF Framed
  <2>3. Len(given) \in 0..Len(sent) /\ Len(sent) \in Nat /\ sent \in Seq({l.response : l \in Lines})
    BY <1>1, <2>1, GivenFits DEF FrameInv, RecvInv
  <2>4. pos = 1 /\ Len(Stream) = 0
    <3>1. pos \in 1..(Len(data) + 1) /\ Len(data) = 0
      BY <1>1 DEF FrameInv, RecvInv, ReceiverTypeOK
    <3>2. QED BY <3>1 DEF Stream
  <2>5. b[Len(given)] = 0 /\ b[Len(sent)] = 0
    BY <2>2, <2>4 DEF Frames, Cut
  <2>6. Len(given) = Len(sent)
    <3>1. Len(given) \in Len(given)..Len(sent) /\ Len(sent) \in Len(given)..Len(sent)
      BY <2>3
    <3>2. ~(Len(given) < Len(sent))
      BY <2>2, <2>5, <3>1 DEF Frames, Cut
    <3>3. QED BY <2>3, <3>2
  <2>7. given = SubSeq(sent, 1, Len(sent))
    BY <2>1, <2>6 DEF Framed
  <2>8. SubSeq(sent, 1, Len(sent)) = sent
    <3> DEFINE R == {l.response : l \in Lines}
    <3>1. sent \in Seq(R)
      BY <2>3
    <3> HIDE DEF R
    <3>2. QED BY <3>1
  <2>9. QED BY <2>7, <2>8
<1>2. QED BY <1>1, FramingInvariance, PTL

\* What a step that reports a failure has met.
LEMMA FailureMeans ==
    ASSUME GrammarOnly, FrameInv, Next, failed', ~failed
    PROVE  \/ link = "reset" \/ Len(data) = 1
           \/ \E i \in 1..Len(sent), l \in Lines :
                 l.response = sent[i] /\ BodyLine(l.tokens, sent[i])
<1>1. ReceiveFails \/ ParseOne
  BY DEF Next, Thread, Start, Receive, ReceiveEnd, ParseEnds, Stop, Write, Leave, Inspect, logVars
<1>2. CASE ReceiveFails
  BY <1>2 DEF ReceiveFails
<1>3. CASE ParseOne
  <2>1. PICK r \in ParseNext : Deliver(r) \/ DeliverNull(r) \/ Fail(r)
    BY <1>3 DEF ParseOne
  <2>2. thr = "parsing" /\ pos <= Len(data) /\ r.end < 1
    <3>1. Fail(r)
      BY <2>1 DEF Deliver, DeliverNull, logVars
    <3>2. QED BY <1>3, <3>1 DEF ParseOne, Fail
  <2>3. Framed
    BY <2>2 DEF FrameInv
  <2>4. PICK ls, b : Frames(ls, b)
    BY <2>3 DEF Framed
  <2> DEFINE k == Len(given) + 1
  <2>5. /\ k \in 1..Len(sent) /\ ls[k] \in Lines /\ ls[k].response = sent[k]
        /\ \/ Reads(ls[k].tokens, sent[k]) /\ b[k] = pos + Len(ls[k].tokens) - 1
           \/ Fails /\ (Len(data) = 1 \/ BodyLine(ls[k].tokens, sent[k]))
    BY <2>2, <2>3, <2>4, NextLine
  <2>6. ~Reads(ls[k].tokens, sent[k])
    <3> SUFFICES ASSUME Reads(ls[k].tokens, sent[k]) PROVE FALSE
      OBVIOUS
    <3>1. ls[k].tokens \in Seq(Token)
      BY <2>5, ReceiverAssumption
    <3>2. r.end = pos + Len(ls[k].tokens) /\ Len(ls[k].tokens) \in Nat /\ pos \in Nat \ {0}
      BY <2>1, <3>1 DEF Reads, FrameInv, RecvInv, ReceiverTypeOK
    <3>3. QED BY <2>2, <3>2
  <2> HIDE DEF k
  <2>7. QED BY <2>5, <2>6
<1>4. QED BY <1>1, <1>2, <1>3

\* Of a server that writes lines of the grammar, the parser fails only at a
\* single byte or within a message: every other line is understood in chunks
\* of any size above one.
THEOREM PlainLinesAreParsed == ASSUME GrammarOnly PROVE Spec => PlainLinesParse
<1>1. ASSUME FrameInv, [Next]_vars
      PROVE  [failed' /\ ~failed
                => \/ link = "reset"
                   \/ Len(data) = 1
                   \/ \E i \in DOMAIN sent : ~Plain(sent[i])]_vars
  <2> SUFFICES ASSUME Next, failed', ~failed, link # "reset", Len(data) # 1
               PROVE  \E i \in DOMAIN sent : ~Plain(sent[i])
    BY <1>1
  <2>1. PICK i \in 1..Len(sent) : \E l \in Lines : BodyLine(l.tokens, sent[i])
    BY <1>1, FailureMeans
  <2>2. sent[i].type = "FETCH"
    BY <2>1, Means
  <2>3. i \in DOMAIN sent
    BY <1>1 DEF FrameInv, RecvInv
  <2>4. QED BY <2>2, <2>3 DEF Plain
<1>2. QED BY <1>1, FramingInvariance, PTL DEF Spec, PlainLinesParse

\* If none of the lines is a message with a body, a connection that is not
\* reset fails at a single byte only.
THEOREM OnlyBodiesTear ==
    ASSUME GrammarOnly, \A l \in Lines : ~BodyLine(l.tokens, l.response)
    PROVE  Spec => SoundConnectionNeverFails
<1>1. ASSUME FrameInv, [Next]_vars
      PROVE  [failed' /\ ~failed => link = "reset" \/ Len(data) = 1]_vars
  <2> SUFFICES ASSUME Next, failed', ~failed, link # "reset", Len(data) # 1 PROVE FALSE
    BY <1>1
  <2>1. \E i \in 1..Len(sent), l \in Lines : l.response = sent[i] /\ BodyLine(l.tokens, sent[i])
    BY <1>1, FailureMeans
  <2>2. QED BY <2>1
<1>2. QED BY <1>1, FramingInvariance, PTL DEF Spec, SoundConnectionNeverFails
-----------------------------------------------------------------------------
(* The promise of Feed. *)

LEMMA AppendExtends ==
    ASSUME NEW S, NEW s \in Seq(S), NEW v
    PROVE  Promise!Extends(Append(s, v), s) /\ Append(s, v)[Len(s) + 1] = v
<1> DEFINE A == S \cup {v}
<1>1. s \in Seq(A) /\ v \in A
  <2>1. S \subseteq A
    OBVIOUS
  <2> HIDE DEF A
  <2>2. s \in Seq(A)
    BY <2>1
  <2>3. QED BY <2>2 DEF A
<1> HIDE DEF A
<1>2. QED BY <1>1 DEF Promise!Extends

\* The thread has ended before a step, or after it, or neither.
LEMMA PromiseIdle ==
    ASSUME UNCHANGED <<sent, given, failed>>, thr \in Over => thr' \in Over
    PROVE  [Promise!Next]_(Promise!vars)
<1>1. CASE thr' \in Over
  BY <1>1 DEF Promise!Next, Promise!End
<1>2. CASE thr' \notin Over
  BY <1>2 DEF Promise!vars
<1>3. QED BY <1>1, <1>2

LEMMA NextPromise ==
    ASSUME GrammarOnly, FrameInv, [Next]_vars PROVE [Promise!Next]_(Promise!vars)
<1>1. CASE UNCHANGED vars
  BY <1>1, PromiseIdle DEF vars, serverVars, logVars
<1>2. CASE Start \/ Stop \/ Leave \/ ParseEnds
  BY <1>2, PromiseIdle DEF Start, Stop, Leave, ParseEnds, Clear, serverVars, logVars, Over
<1>3. CASE Receive \/ ReceiveEnd
  <2>1. UNCHANGED <<sent, given, failed>> /\ thr = "reading"
    BY <1>3 DEF Receive, ReceiveEnd, Inspect, serverVars, logVars
  <2>2. QED BY <2>1, PromiseIdle DEF Over
<1>4. CASE ReceiveFails
  BY <1>4 DEF ReceiveFails, serverVars, Over, Promise!Next, Promise!Fail
<1>5. CASE ParseOne
  <2>1. PICK r \in ParseNext : Deliver(r) \/ DeliverNull(r) \/ Fail(r)
    BY <1>5 DEF ParseOne
  <2>2. thr = "parsing" /\ thr \notin Over /\ pos <= Len(data) /\ UNCHANGED <<wire, sent>>
    BY <1>5 DEF ParseOne, serverVars, Over
  <2>3. CASE Deliver(r)
    <3>1. given' = Append(given, r.value) /\ UNCHANGED <<thr, failed>>
      BY <2>3 DEF Deliver
    <3> DEFINE S == {given[i] : i \in DOMAIN given}
               v == r.value
    <3>2. given \in Seq(S)
      BY DEF FrameInv
    <3> HIDE DEF S, v
    <3>3. /\ Promise!Extends(given', given) /\ given'[Len(given')] = v
          /\ Len(given') = Len(given) + 1
      <4>1. given' = Append(given, v)
        BY <3>1 DEF v
      <4>2. Len(given') = Len(given) + 1
        BY <3>2, <4>1
      <4>3. QED BY <3>2, <4>1, <4>2, AppendExtends
    <3>4. ~failed => Len(given) < Len(sent) /\ v = sent[Len(given')]
      <4> SUFFICES ASSUME ~failed PROVE Len(given) < Len(sent) /\ v = sent[Len(given')]
        OBVIOUS
      <4>1. Framed
        BY <2>2 DEF FrameInv
      <4>2. PICK ls, b : Frames(ls, b)
        BY <4>1 DEF Framed
      <4>3. Len(given) < Len(sent) /\ r.value = sent[Len(given) + 1]
        BY <2>2, <2>3, <4>1, <4>2, FramesDeliver
      <4>4. QED BY <3>3, <4>3 DEF v
    <3>5. Promise!Give
      BY <2>2, <3>1, <3>3, <3>4 DEF Promise!Give
    <3>6. QED BY <3>5 DEF Promise!Next
  <2>4. CASE DeliverNull(r)
    BY <2>2, <2>4, PromiseIdle DEF DeliverNull, logVars
  <2>5. CASE Fail(r)
    <3>1. CASE failed' = TRUE
      BY <2>2, <2>5, <3>1 DEF Fail, Promise!Next, Promise!Fail
    <3>2. CASE thr' = "terminated" /\ UNCHANGED failed
      BY <2>2, <2>5, <3>2, PromiseIdle DEF Fail
    <3>3. QED BY <2>5, <3>1, <3>2 DEF Fail
  <2>6. QED BY <2>1, <2>3, <2>4, <2>5
<1>6. CASE Write
  <2>1. PICK l \in Lines : sent' = Append(sent, l.response)
    BY <1>6 DEF Write
  <2> DEFINE S == {x.response : x \in Lines}
             e == l.response
  <2>2. sent \in Seq(S)
    BY DEF FrameInv, RecvInv
  <2> HIDE DEF S, e
  <2>3. Promise!Extends(sent', sent)
    BY <2>1, <2>2, AppendExtends DEF e
  <2>4. UNCHANGED <<given, failed, thr>>
    BY <1>6 DEF Write, logVars
  <2>5. QED BY <2>3, <2>4 DEF Promise!Next, Promise!Send
<1>7. QED BY <1>1, <1>2, <1>3, <1>4, <1>5, <1>6 DEF Next, Thread

\* Of a server that writes lines of the grammar, the thread keeps what Feed
\* promises of every step: the responses reach the session in the order they
\* were sent, each once and as it was meant, until a failure is reported.
THEOREM KeepsThePromise == ASSUME GrammarOnly PROVE Spec => Promise!Safety
<1>1. Init => Promise!Init
  BY DEF Init, Promise!Init, Over
<1>2. FrameInv /\ [Next]_vars => [Promise!Next]_(Promise!vars)
  BY NextPromise
<1>3. QED BY <1>1, <1>2, FramingInvariance, PTL DEF Spec, Promise!Safety
=============================================================================
