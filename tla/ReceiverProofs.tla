---------------------------- MODULE ReceiverProofs ----------------------------
(***************************************************************************)
(* The parser stays within the data and always advances: every rule of the *)
(* grammar ends, from any position and whatever was received, beyond where *)
(* it began or with an exception, and never behind the end of the data.    *)
(*                                                                         *)
(* The library's induction theorems take an operator as their parameter;   *)
(* here induction is on a set of numbers, from the well-foundedness of <,  *)
(* and what Repeat and NumberAt compute is an element of a set of results. *)
(***************************************************************************)
EXTENDS Receiver, TLAPS, WellFoundedInduction

(* Numbers. *)

\* A set of natural numbers has a least element.
LEMMA LeastNat ==
    ASSUME NEW T, T \subseteq Nat, T # {} PROVE \E x \in T : \A y \in T : x <= y
<1>1. PICK x \in T : \A y \in T : ~ (<<y, x>> \in OpToRel(<, Nat))
  BY WFMin, NatLessThanWellFounded
<1>2. \A y \in T : ~ (y < x)
  BY <1>1 DEF OpToRel
<1>3. QED BY <1>2

\* Induction up to n, on a set instead of a predicate.
LEMMA InductUpTo ==
    ASSUME NEW n \in Nat, NEW G, 0 \in G,
           \A i \in 0..n : i \in G /\ i < n => i + 1 \in G
    PROVE  0..n \subseteq G
<1> DEFINE B == {i \in 0..n : i \notin G}
<1> SUFFICES ASSUME B # {} PROVE FALSE
  OBVIOUS
<1>1. B \subseteq Nat
  OBVIOUS
<1>2. PICK x \in B : \A y \in B : x <= y
  BY <1>1, LeastNat
<1>3. x \in 0..n /\ x \notin G /\ x # 0
  BY <1>2
<1>4. x - 1 \in 0..n /\ x - 1 < n /\ x - 1 + 1 = x
  BY <1>3
<1>5. x - 1 \in G
  BY <1>2, <1>4
<1>6. QED BY <1>3, <1>4, <1>5

\* g starts with a and goes on by step.
Steps(n, X) == [1..n -> [X -> X]]

Iterates(g, n, X, a, step) ==
    g \in [0..n -> X] /\ g[0] = a /\ \A i \in 1..n : g[i] = step[i][g[i - 1]]

\* A function may be defined by recursion on the numbers up to n.
LEMMA Recursion ==
    ASSUME NEW n \in Nat, NEW X, NEW a \in X, NEW step \in Steps(n, X)
    PROVE  \E g : Iterates(g, n, X, a, step)
<1> USE DEF Steps
<1> DEFINE Defined(g, m) == g = [i \in 0..m |-> IF i = 0 THEN a ELSE step[i][g[i - 1]]]
           G == {m \in 0..n : \E g \in [0..m -> X] : Defined(g, m)}
<1>1. 0 \in G
  <2> DEFINE g == [i \in 0..0 |-> a]
  <2>1. g \in [0..0 -> X] /\ Defined(g, 0)
    OBVIOUS
  <2> HIDE DEF g
  <2>2. QED BY <2>1
<1>2. ASSUME NEW m \in 0..n, m \in G, m < n PROVE m + 1 \in G
  <2>1. PICK g \in [0..m -> X] : Defined(g, m)
    BY <1>2
  <2>2. m + 1 \in 1..n /\ m + 1 \in 0..n /\ m \in Nat
    BY <1>2
  <2> DEFINE h == [i \in 0..(m + 1) |-> IF i = m + 1 THEN step[m + 1][g[m]] ELSE g[i]]
  <2>3. step[m + 1][g[m]] \in X
    BY <2>2
  <2>4. h \in [0..(m + 1) -> X]
    BY <2>3
  <2>5. ASSUME NEW i \in 0..(m + 1) PROVE h[i] = IF i = 0 THEN a ELSE step[i][h[i - 1]]
    <3>1. CASE i = m + 1
      BY <2>2, <3>1
    <3>2. CASE i # m + 1
      <4>1. i \in 0..m /\ h[i] = g[i] /\ (i # 0 => i - 1 \in 0..m /\ h[i - 1] = g[i - 1])
        BY <3>2
      <4>2. g[i] = IF i = 0 THEN a ELSE step[i][g[i - 1]]
        BY <2>1, <4>1
      <4>3. QED BY <4>1, <4>2
    <3>3. QED BY <3>1, <3>2
  <2>6. Defined(h, m + 1)
    <3> HIDE DEF h
    <3>1. h = [i \in 0..(m + 1) |-> h[i]]
      BY <2>4
    <3>2. QED BY <2>5, <3>1
  <2> HIDE DEF h
  <2>7. QED BY <2>2, <2>4, <2>6
<1>3. 0..n \subseteq G
  <2> HIDE DEF G
  <2>1. \A i \in 0..n : i \in G /\ i < n => i + 1 \in G
    BY <1>2
  <2>2. QED BY <1>1, <2>1, InductUpTo
<1>4. PICK g \in [0..n -> X] : Defined(g, n)
  BY <1>3
<1>5. g[0] = a
  BY <1>4
<1>6. ASSUME NEW i \in 1..n PROVE g[i] = step[i][g[i - 1]]
  <2>1. i \in 0..n /\ i # 0
    OBVIOUS
  <2>2. QED BY <1>4, <2>1
<1>7. QED BY <1>4, <1>5, <1>6 DEF Iterates
-----------------------------------------------------------------------------
(* Where a rule that began at p may end. *)

Data == data \in Seq(Token)

Ends(p) == {Thrown, Overrun} \cup p..(Len(data) + 1)

Ended(R, p) == \A r \in R : r.end \in Ends(p)

Results(p, V) == [end : Ends(p), value : V]

LEMMA EndsLess ==
    ASSUME NEW p \in Int, NEW q \in Int, p <= q PROVE Ends(q) \subseteq Ends(p)
BY DEF Ends

LEMMA UptoExact ==
    ASSUME Data, NEW p \in Int, p <= Len(data) + 1, NEW T
    PROVE  /\ Upto(T, p) \in p..(Len(data) + 1)
           /\ Upto(T, p) \in DOMAIN data => data[Upto(T, p)] \in T
           /\ \A i \in p..(Upto(T, p) - 1) : data[i] \notin T
<1> DEFINE L == Len(data) + 1
           Found(q) == q \in DOMAIN data => data[q] \in T
           S == {k \in 0..(L - p) : Found(p + k)}
<1>1. L \in Nat /\ DOMAIN data = 1..(L - 1)
  BY DEF Data
<1>2. L - p \in S
  <2>1. L - p \in 0..(L - p) /\ p + (L - p) = L
    BY <1>1
  <2>2. Found(p + (L - p))
    BY <1>1, <2>1
  <2>3. QED BY <2>1, <2>2
<1>3. PICK k \in S : \A j \in S : k <= j
  <2>1. S \subseteq Nat
    OBVIOUS
  <2> HIDE DEF S
  <2>2. QED BY <1>2, <2>1, LeastNat
<1>4. /\ p + k \in p..L /\ Found(p + k)
      /\ \A i \in p..(p + k - 1) : data[i] \notin T
  <2>1. k \in 0..(L - p) /\ Found(p + k)
    BY <1>3
  <2>2. ASSUME NEW i \in p..(p + k - 1) PROVE data[i] \notin T
    <3>1. i - p \in 0..(L - p) /\ i - p < k /\ p + (i - p) = i
      BY <1>1, <2>1
    <3>2. ~Found(p + (i - p))
      BY <1>3, <3>1
    <3>3. QED BY <3>1, <3>2
  <2>3. p + k \in p..L
    BY <1>1, <2>1
  <2>4. QED BY <2>1, <2>2, <2>3
<1>5. \E q \in p..(Len(data) + 1) :
         /\ q \in DOMAIN data => data[q] \in T
         /\ \A i \in p..(q - 1) : data[i] \notin T
  BY <1>4
<1> HIDE DEF S, L, Found
<1>6. QED BY <1>5 DEF Upto

LEMMA UptoRange ==
    ASSUME Data, NEW p \in Int, p <= Len(data) + 1, NEW T
    PROVE  /\ Upto(T, p) \in p..(Len(data) + 1)
           /\ \A i \in p..(Upto(T, p) - 1) : data[i] \notin T
BY UptoExact

LEMMA OneOfEnds ==
    ASSUME Data, NEW p \in Nat, NEW P, P \subseteq Ends(p), NEW T
    PROVE  OneOf(T, P) \subseteq Ends(p + 1)
BY DEF Data, OneOf, From, Ends, Thrown, Overrun

LEMMA MatchEnds ==
    ASSUME Data, NEW p \in Nat, NEW P, P \subseteq Ends(p), NEW t
    PROVE  Match(t, P) \subseteq Ends(p + 1)
BY OneOfEnds DEF Match

LEMMA SpanEnds ==
    ASSUME Data, NEW p \in Nat, NEW P, P \subseteq Ends(p), NEW T
    PROVE  Span(T, P) \subseteq Ends(p + 1)
<1>1. ASSUME NEW q \in P, q >= 1 PROVE {Upto(Token \ T, q)} \ {q} \subseteq Ends(p + 1)
  <2>1. q \in p..(Len(data) + 1)
    BY <1>1 DEF Ends, Thrown, Overrun
  <2>2. Upto(Token \ T, q) \in q..(Len(data) + 1)
    BY <2>1, UptoRange
  <2>3. Len(data) \in Nat
    BY DEF Data
  <2>4. QED BY <2>1, <2>2, <2>3 DEF Ends
<1>2. ASSUME NEW q \in P, q < 1 PROVE q \in Ends(p + 1)
  BY <1>2 DEF Ends, Thrown, Overrun
<1>3. \A q \in P : q \in Int
  BY DEF Ends, Thrown, Overrun
<1>4. QED BY <1>1, <1>2, <1>3 DEF Span, From

LEMMA NumberEnds ==
    ASSUME Data, NEW p \in Nat, NEW P, P \subseteq Ends(p)
    PROVE  Number(P) \subseteq Ends(p + 1)
BY SpanEnds DEF Number

LEMMA CrlfEnds ==
    ASSUME Data, NEW p \in Nat, NEW P, P \subseteq Ends(p)
    PROVE  Crlf(P) \subseteq Ends(p)
<1>1. Match("CR", P) \subseteq Ends(p + 1) /\ p + 1 \in Nat
  BY MatchEnds
<1>2. Crlf(P) \subseteq Ends(p + 1 + 1)
  BY <1>1, MatchEnds DEF Crlf
<1>3. QED BY <1>2, EndsLess

\* An alternative ends where one of the two does.
LEMMA EitherOf == ASSUME NEW P, NEW Q PROVE Either(P, Q) \subseteq P \cup Q
BY DEF Either

LEMMA TextEnds ==
    ASSUME Data, NEW p \in Nat, NEW P, P \subseteq Ends(p)
    PROVE  Text(P) \subseteq Ends(p)
<1> DEFINE end(q) == Upto({"CR", "LF"}, q)
<1>1. ASSUME NEW q \in P, q >= 1
      PROVE  (IF end(q) > Len(data) THEN {Overrun} ELSE {end(q)} \ {q}) \subseteq Ends(p)
  <2>1. q \in p..(Len(data) + 1)
    BY <1>1 DEF Ends, Thrown, Overrun
  <2>2. end(q) \in q..(Len(data) + 1)
    BY <2>1, UptoRange
  <2>3. Len(data) \in Nat
    BY DEF Data
  <2> HIDE DEF end
  <2>4. QED BY <2>1, <2>2, <2>3 DEF Ends
<1>2. ASSUME NEW q \in P, q < 1 PROVE q \in Ends(p)
  BY <1>2
<1>3. \A q \in P : q \in Int
  BY DEF Ends, Thrown, Overrun
<1>4. QED BY <1>1, <1>2, <1>3 DEF Text, From

LEMMA EnclosedEnds ==
    ASSUME Data, NEW p \in Nat, NEW P, P \subseteq Ends(p), NEW open, NEW close
    PROVE  Enclosed(open, close, P) \subseteq Ends(p + 1)
<1> DEFINE M == Match(open, P)
           end(q) == Upto({close}, q)
<1>0. M \subseteq Ends(p + 1)
  BY MatchEnds
<1>1. ASSUME NEW q \in M, q >= 1
      PROVE  (IF end(q) > Len(data) THEN {Thrown} ELSE {end(q) + 1}) \subseteq Ends(p + 1)
  <2>1. q \in (p + 1)..(Len(data) + 1)
    BY <1>0, <1>1 DEF Ends, Thrown, Overrun
  <2>2. end(q) \in q..(Len(data) + 1)
    BY <2>1, UptoRange
  <2>3. Len(data) \in Nat
    BY DEF Data
  <2> HIDE DEF end
  <2>4. QED BY <2>1, <2>2, <2>3 DEF Ends
<1>2. \A q \in M : q \in Int /\ q \in Ends(p + 1)
  BY <1>0 DEF Ends, Thrown, Overrun
<1>3. Enclosed(open, close, P) = UNION {IF q < 1 THEN {q} ELSE
         IF end(q) > Len(data) THEN {Thrown} ELSE {end(q) + 1} : q \in M}
  BY DEF Enclosed, From
<1> HIDE DEF M, end
<1>4. QED BY <1>1, <1>2, <1>3

LEMMA RespTextCodeEnds ==
    ASSUME Data, NEW p \in Nat, NEW P, P \subseteq Ends(p)
    PROVE  RespTextCode(P) \subseteq Ends(p)
<1> DEFINE known(q) == CASE data[q] = "UNSEEN" -> Number(Match("SP", {q + 1}))
                         [] data[q] \in {"ALERT", "READ-ONLY", "READ-WRITE"} -> {q + 1}
                         [] OTHER -> {Upto({"]"}, q)} \cap DOMAIN data
<1>1. ASSUME NEW q \in P, q >= 1, q \in DOMAIN data PROVE known(q) \subseteq Ends(p)
  <2>1. Len(data) \in Nat /\ DOMAIN data = 1..Len(data)
    BY DEF Data
  <2>2. q \in p..Len(data) /\ q \in Nat
    BY <1>1, <2>1 DEF Ends, Thrown, Overrun
  <2>3. {q + 1} \subseteq Ends(p)
    BY <2>1, <2>2 DEF Ends
  <2>4. Number(Match("SP", {q + 1})) \subseteq Ends(p)
    <3>1. Match("SP", {q + 1}) \subseteq Ends(p + 1) /\ p + 1 \in Nat
      BY <2>3, MatchEnds
    <3>2. Number(Match("SP", {q + 1})) \subseteq Ends(p + 1 + 1)
      BY <3>1, NumberEnds
    <3>3. QED BY <3>2, EndsLess
  <2>5. {Upto({"]"}, q)} \cap DOMAIN data \subseteq Ends(p)
    <3>1. Upto({"]"}, q) \in q..(Len(data) + 1)
      BY <2>1, <2>2, UptoRange
    <3>2. QED BY <2>1, <2>2, <3>1 DEF Ends
  <2>6. QED BY <2>3, <2>4, <2>5
<1>2. \A q \in P : q \in Int /\ q \in Ends(p)
  BY DEF Ends, Thrown, Overrun
<1>3. RespTextCode(P) = UNION {IF q < 1 THEN {q} ELSE
         IF q \in DOMAIN data THEN known(q) ELSE {} : q \in P}
  BY DEF RespTextCode, From
<1> HIDE DEF known
<1>4. QED BY <1>1, <1>2, <1>3

LEMMA RespTextEnds ==
    ASSUME Data, NEW p \in Nat, NEW P, P \subseteq Ends(p)
    PROVE  RespText(P) \subseteq Ends(p)
<1> DEFINE code == Match("[", P)
           inner == Either(RespTextCode(code), code)
           rest == Match("SP", Match("]", inner))
<1>1. code \subseteq Ends(p + 1) /\ p + 1 \in Nat
  BY MatchEnds
<1>2. inner \subseteq Ends(p + 1)
  <2> HIDE DEF code
  <2>1. RespTextCode(code) \subseteq Ends(p + 1)
    BY <1>1, RespTextCodeEnds
  <2>2. QED BY <1>1, <2>1, EitherOf
<1>3. rest \subseteq Ends(p + 1 + 1 + 1)
  <2> HIDE DEF inner
  <2>1. Match("]", inner) \subseteq Ends(p + 1 + 1) /\ p + 1 + 1 \in Nat
    BY <1>1, <1>2, MatchEnds
  <2>2. QED BY <2>1, MatchEnds
<1>4. rest \subseteq Ends(p)
  BY <1>3, EndsLess
<1>5. Text(rest) \subseteq Ends(p) /\ Text(P) \subseteq Ends(p)
  <2> HIDE DEF rest
  <2>1. QED BY <1>4, TextEnds
<1>6. RespText(P) = IF code = {} THEN Text(P) ELSE Text(rest)
  BY DEF RespText
<1> HIDE DEF code, rest
<1>7. QED BY <1>5, <1>6
-----------------------------------------------------------------------------
(* Numbers and literals. *)

LEMMA WrapInt == ASSUME NEW n \in Int PROVE Wrap(n) \in Int
<1>1. IntMax \in Nat
  BY IntMaxIsNatural
<1>2. (n + IntMax + 1) % (2 * (IntMax + 1)) \in Int
  BY <1>1
<1>3. QED BY <1>1, <1>2 DEF Wrap

\* Without an exception, a rule ends at a position.
Stays(p) == p..(Len(data) + 1)

LEMMA StaysEnds ==
    ASSUME Data, NEW p \in Nat \ {0}, NEW P
    PROVE  /\ P \subseteq Stays(p) => P \subseteq Ends(p)
           /\ P \subseteq Ends(p) => \A q \in P : q \in Stays(p) \/ q \in {Thrown, Overrun}
BY DEF Stays, Ends

LEMMA OneOfStays ==
    ASSUME Data, NEW p \in Nat \ {0}, NEW P, P \subseteq Stays(p), NEW T
    PROVE  OneOf(T, P) \subseteq Stays(p + 1)
BY DEF Data, OneOf, From, Stays

LEMMA MatchStays ==
    ASSUME Data, NEW p \in Nat \ {0}, NEW P, P \subseteq Stays(p), NEW t
    PROVE  Match(t, P) \subseteq Stays(p + 1)
BY OneOfStays DEF Match

LEMMA SpanStays ==
    ASSUME Data, NEW p \in Nat \ {0}, NEW P, P \subseteq Stays(p), NEW T
    PROVE  Span(T, P) \subseteq Stays(p + 1)
<1> DEFINE up(q) == {Upto(Token \ T, q)} \ {q}
<1>1. ASSUME NEW q \in P PROVE up(q) \subseteq Stays(p + 1)
  <2>1. q \in p..(Len(data) + 1)
    BY DEF Stays
  <2>2. Upto(Token \ T, q) \in q..(Len(data) + 1)
    BY <2>1, UptoRange
  <2>3. Len(data) \in Nat
    BY DEF Data
  <2>4. QED BY <2>1, <2>2, <2>3 DEF Stays
<1>2. \A q \in P : q \in Int /\ ~(q < 1)
  BY DEF Data, Stays
<1>3. Span(T, P) = UNION {IF q < 1 THEN {q} ELSE up(q) : q \in P}
  BY DEF Span, From
<1> HIDE DEF up
<1>4. QED BY <1>1, <1>2, <1>3

\* An exception is passed on.
LEMMA PassedOn ==
    ASSUME NEW s \in {Thrown, Overrun}, NEW P, P \subseteq {s}, NEW T
    PROVE  OneOf(T, P) \subseteq {s} /\ Span(T, P) \subseteq {s}
BY DEF OneOf, Span, From, Thrown, Overrun

LEMMA NumberAtInt ==
    ASSUME Data, NEW p \in Nat \ {0}, p <= Len(data) + 1 PROVE NumberAt(p) \in Int
<1> DEFINE u == Upto(Token \ Digit, p)
<1>1. /\ u \in p..(Len(data) + 1)
      /\ \A i \in p..(u - 1) : data[i] \notin Token \ Digit
  BY UptoRange
<1> HIDE DEF u
<1> DEFINE d == u - p
           digit(n) == Value[data[p + n - 1]]
           Body(g) == [n \in 0..d |-> IF n = 0 THEN 0 ELSE Wrap(10 * g[n - 1] + digit(n))]
           step == [n \in 1..d |-> [m \in Int |-> Wrap(10 * m + digit(n))]]
<1>2. d \in Nat /\ Len(data) \in Nat
  BY <1>1 DEF Data
<1>3. ASSUME NEW n \in 1..d PROVE digit(n) \in Int
  <2> DEFINE i == p + n - 1
  <2>1. i \in p..(u - 1) /\ i \in 1..Len(data)
    BY <1>1, <1>2
  <2> HIDE DEF i
  <2>2. data[i] \in Token /\ data[i] \notin Token \ Digit
    BY <1>1, <2>1 DEF Data
  <2>3. data[i] \in Digit
    BY <2>2
  <2>4. \A t \in Digit : Value[t] \in Int
    BY DEF Digit, Value
  <2>5. QED BY <2>3, <2>4 DEF i
<1> HIDE DEF digit
<1>4. step \in [1..d -> [Int -> Int]]
  <2>1. ASSUME NEW n \in 1..d, NEW m \in Int PROVE Wrap(10 * m + digit(n)) \in Int
    <3>1. 10 * m + digit(n) \in Int
      BY <1>3
    <3>2. QED BY <3>1, WrapInt
  <2>2. QED BY <2>1
<1> HIDE DEF d
<1>5. PICK h : Iterates(h, d, Int, 0, step)
  <2>1. 0 \in Int /\ step \in Steps(d, Int)
    BY <1>4 DEF Steps
  <2> HIDE DEF step
  <2>2. QED BY <1>2, <2>1, Recursion
<1>5a. h \in [0..d -> Int] /\ h[0] = 0 /\ \A n \in 1..d : h[n] = step[n][h[n - 1]]
  BY <1>5 DEF Iterates
<1>6. h = Body(h)
  <2>1. ASSUME NEW n \in 0..d, n # 0 PROVE n \in 1..d /\ n - 1 \in 0..d
    BY <1>2, <2>1
  <2>2. \A n \in 0..d : n # 0 => h[n - 1] \in Int
    BY <1>5a, <2>1
  <2>3. \A n \in 0..d : n # 0 => step[n][h[n - 1]] = Wrap(10 * h[n - 1] + digit(n))
    BY <2>1, <2>2
  <2> HIDE DEF step
  <2>4. \A n \in 0..d : h[n] = IF n = 0 THEN 0 ELSE Wrap(10 * h[n - 1] + digit(n))
    BY <1>5a, <2>1, <2>3
  <2>5. h = [n \in 0..d |-> h[n]]
    BY <1>5a
  <2>6. QED BY <2>4, <2>5
<1> DEFINE number == CHOOSE g : g = Body(g)
<1>7. number = Body(number)
  <2> HIDE DEF Body
  <2>1. QED BY <1>6
<1>8. NumberAt(p) = number[d]
  BY DEF NumberAt, d, u, digit
<1> HIDE DEF number, step
<1>9. \A n \in 0..d : number[n] \in Int
  <2> DEFINE G == {n \in 0..d : number[n] \in Int}
  <2>1. 0 \in G
    BY <1>2, <1>7
  <2>2. ASSUME NEW n \in 0..d, n \in G, n < d PROVE n + 1 \in G
    <3>1. n + 1 \in 0..d /\ n + 1 \in 1..d /\ n + 1 # 0 /\ (n + 1) - 1 = n
      BY <1>2, <2>2
    <3>2. number[n + 1] = Wrap(10 * number[n] + digit(n + 1))
      BY <1>7, <3>1
    <3>3. digit(n + 1) \in Int /\ number[n] \in Int
      BY <1>3, <2>2, <3>1
    <3>4. 10 * number[n] + digit(n + 1) \in Int
      BY <3>3
    <3>5. QED BY <3>1, <3>2, <3>4, WrapInt
  <2>3. 0..d \subseteq G
    <3> HIDE DEF G
    <3>1. QED BY <1>2, <2>1, <2>2, InductUpTo
  <2>4. QED BY <2>3
<1>10. d \in 0..d
  BY <1>2
<1>11. QED BY <1>8, <1>9, <1>10

LEMMA YieldResults ==
    ASSUME NEW p, NEW V, NEW P, P \subseteq Ends(p), NEW v \in V
    PROVE  Yield(P, v) \subseteq Results(p, V)
BY DEF Yield, Results

LEMMA ResultsLess ==
    ASSUME NEW p \in Int, NEW q \in Int, p <= q, NEW V
    PROVE  Results(q, V) \subseteq Results(p, V)
BY EndsLess DEF Results

\* The start and the contents of a literal, once it was opened at s.
LiteralStart(s) == Crlf(Match("}", Either(Number({s}), {s})))

LiteralRead(q, n) ==
    CASE q < 1 -> Yield({q}, <<>>)
      [] q >= 1 /\ n < 0 -> Yield({Thrown}, <<>>)
      [] q >= 1 /\ n >= 0 /\ q + n > Len(data) + 1 -> Yield({Overrun}, <<>>)
      [] OTHER -> Yield({q + n}, SubSeq(data, q, q + n - 1))

LEMMA LiteralStartEnds ==
    ASSUME Data, NEW p \in Nat, NEW s \in Ends(p)
    PROVE  LiteralStart(s) \subseteq Ends(p)
<1> DEFINE E == Either(Number({s}), {s})
           M == Match("}", E)
<1>1. {s} \subseteq Ends(p) /\ p + 1 \in Nat
  OBVIOUS
<1>2. Number({s}) \subseteq Ends(p + 1)
  BY <1>1, NumberEnds
<1>3. Ends(p + 1) \subseteq Ends(p)
  BY EndsLess
<1>4. E \subseteq Ends(p)
  <2>1. E \subseteq Number({s}) \cup {s}
    BY EitherOf
  <2>2. QED BY <1>1, <1>2, <1>3, <2>1
<1> HIDE DEF E
<1>5. M \subseteq Ends(p + 1)
  BY <1>4, MatchEnds
<1>6. LiteralStart(s) = Crlf(M)
  BY DEF LiteralStart, E
<1> HIDE DEF M
<1>7. Crlf(M) \subseteq Ends(p + 1)
  BY <1>1, <1>5, CrlfEnds
<1>8. QED BY <1>3, <1>6, <1>7

LEMMA LiteralStartPasses ==
    ASSUME NEW s \in {Thrown, Overrun} PROVE LiteralStart(s) \subseteq {s}
<1>1. Number({s}) \subseteq {s}
  BY PassedOn DEF Number
<1>2. Either(Number({s}), {s}) \subseteq {s}
  BY <1>1, EitherOf
<1>3. Match("}", Either(Number({s}), {s})) \subseteq {s}
  BY <1>2, PassedOn DEF Match
<1>4. Match("CR", Match("}", Either(Number({s}), {s}))) \subseteq {s}
  BY <1>3, PassedOn DEF Match
<1>5. QED BY <1>4, PassedOn DEF Match, Crlf, LiteralStart

LEMMA LiteralReadEnds ==
    ASSUME Data, NEW p \in Nat \ {0}, NEW q \in Ends(p), NEW n, q < 1 \/ n \in Int
    PROVE  LiteralRead(q, n) \subseteq Results(p, Seq(Token))
<1> DEFINE e == <<>>
<1>1. Len(data) \in Nat /\ data \in Seq(Token)
  BY DEF Data
<1>2. e \in Seq(Token) /\ {Thrown} \subseteq Ends(p) /\ {Overrun} \subseteq Ends(p)
  BY DEF Ends
<1> HIDE DEF e
<1>3. q \in Int
  BY <1>1 DEF Ends, Thrown, Overrun
<1>4. CASE q < 1
  <2>0. ~(q >= 1)
    BY <1>3, <1>4
  <2>1. LiteralRead(q, n) = Yield({q}, e)
    BY <1>4, <2>0, Zenon DEF LiteralRead, e
  <2>2. {q} \subseteq Ends(p)
    OBVIOUS
  <2>3. QED BY <1>2, <2>1, <2>2, YieldResults
<1>5. CASE q >= 1 /\ n < 0
  <2>1. LiteralRead(q, n) = Yield({Thrown}, e)
    BY <1>3, <1>5 DEF LiteralRead, e
  <2>2. QED BY <1>2, <2>1, YieldResults
<1>6. CASE q >= 1 /\ n >= 0 /\ q + n > Len(data) + 1
  <2>1. n \in Int
    BY <1>3, <1>6
  <2>2. LiteralRead(q, n) = Yield({Overrun}, e)
    BY <1>3, <1>6, <2>1 DEF LiteralRead, e
  <2>3. QED BY <1>2, <2>2, YieldResults
<1>7. CASE q >= 1 /\ n >= 0 /\ ~(q + n > Len(data) + 1)
  <2>1. n \in Int
    BY <1>3, <1>7
  <2>2. LiteralRead(q, n) = Yield({q + n}, SubSeq(data, q, q + n - 1))
    BY <1>1, <1>3, <1>7, <2>1 DEF LiteralRead, e
  <2>3. {q + n} \subseteq Ends(p)
    BY <1>1, <1>3, <1>7, <2>1 DEF Ends, Thrown, Overrun
  <2>4. SubSeq(data, q, q + n - 1) \in Seq(Token)
    <3> DEFINE m == q + n - 1
    <3>1. m \in Int /\ q \in 1..(Len(data) + 1) /\ m <= Len(data)
      BY <1>1, <1>3, <1>7, <2>1
    <3> HIDE DEF m
    <3>2. \A i \in q..m : data[i] \in Token
      BY <1>1, <3>1
    <3>3. SubSeq(data, q, m) \in Seq(Token)
      BY <1>1, <3>1, <3>2
    <3>4. QED BY <3>3 DEF m
  <2>5. QED
    <3> DEFINE v == SubSeq(data, q, q + n - 1)  w == q + n
    <3>1. v \in Seq(Token) /\ {w} \subseteq Ends(p) /\ LiteralRead(q, n) = Yield({w}, v)
      BY <2>2, <2>3, <2>4
    <3> HIDE DEF v, w
    <3>2. QED BY <3>1, YieldResults
<1>8. QED BY <1>1, <1>3, <1>4, <1>5, <1>6, <1>7

LEMMA LiteralEnds ==
    ASSUME Data, NEW p \in Nat \ {0}, NEW P, P \subseteq Ends(p)
    PROVE  Literal(P) \subseteq Results(p + 1, Seq(Token))
<1> DEFINE M == Match("{", P)
<1>1. M \subseteq Ends(p + 1) /\ p + 1 \in Nat \ {0} /\ p + 1 \in Nat
  <2>1. p \in Nat /\ p + 1 \in Nat \ {0} /\ p + 1 \in Nat
    OBVIOUS
  <2>2. QED BY <2>1, MatchEnds
<1>2. Len(data) \in Nat
  BY DEF Data
<1>3. Literal(P) = UNION {UNION {LiteralRead(q, NumberAt(s)) : q \in LiteralStart(s)} : s \in M}
  BY DEF Literal, LiteralRead, LiteralStart
<1> HIDE DEF M
<1>4. ASSUME NEW s \in M, NEW q \in LiteralStart(s)
      PROVE  LiteralRead(q, NumberAt(s)) \subseteq Results(p + 1, Seq(Token))
  <2>1. s \in Ends(p + 1)
    BY <1>1
  <2>2. q \in Ends(p + 1)
    BY <1>1, <2>1, LiteralStartEnds
  <2>3. q < 1 \/ NumberAt(s) \in Int
    <3>1. CASE s \in {Thrown, Overrun}
      <4>1. q = s
        BY <3>1, LiteralStartPasses
      <4>2. QED BY <3>1, <4>1 DEF Thrown, Overrun
    <3>2. CASE s \notin {Thrown, Overrun}
      <4>1. s \in Nat \ {0} /\ s <= Len(data) + 1
        BY <1>1, <1>2, <2>1, <3>2 DEF Ends
      <4>2. QED BY <4>1, NumberAtInt
    <3>3. QED BY <3>1, <3>2
  <2>4. QED BY <1>1, <2>2, <2>3, LiteralReadEnds
<1>5. QED BY <1>3, <1>4
-----------------------------------------------------------------------------
(* Repetition. *)

\* g starts with R, and adds what m makes of its elements as long as that is
\* anything.
Grows(g, n, V, R, m) ==
    /\ g \in [0..n -> SUBSET V]
    /\ g[0] = R
    /\ \A i \in 1..n : g[i] = Either(UNION {m[r] : r \in g[i - 1]}, g[i - 1])

LEMMA Growth ==
    ASSUME NEW n \in Nat, NEW V, NEW R \in SUBSET V, NEW m \in [V -> SUBSET V]
    PROVE  \E g : Grows(g, n, V, R, m)
<1> DEFINE X == SUBSET V
           next(S) == Either(UNION {m[r] : r \in S}, S)
           step == [i \in 1..n |-> [S \in X |-> next(S)]]
<1>1. ASSUME NEW S \in X PROVE next(S) \in X
  <2>1. next(S) \subseteq (UNION {m[r] : r \in S}) \cup S
    BY EitherOf
  <2> HIDE DEF next
  <2>2. \A r \in S : m[r] \subseteq V
    OBVIOUS
  <2>3. QED BY <2>1, <2>2
<1> HIDE DEF next
<1>2. step \in Steps(n, X)
  BY <1>1 DEF Steps
<1>3. PICK g : Iterates(g, n, X, R, step)
  <2> HIDE DEF step
  <2>1. R \in X
    OBVIOUS
  <2> HIDE DEF X
  <2>2. QED BY <1>2, <2>1, Recursion
<1>4. /\ g \in [0..n -> X] /\ g[0] = R
      /\ \A i \in 1..n : g[i] = step[i][g[i - 1]]
  BY <1>3 DEF Iterates
<1>5. ASSUME NEW i \in 1..n PROVE g[i] = next(g[i - 1])
  <2>1. i - 1 \in 0..n
    OBVIOUS
  <2>2. g[i - 1] \in X
    BY <1>4, <2>1
  <2>3. step[i][g[i - 1]] = next(g[i - 1])
    BY <2>2
  <2>4. QED BY <1>4, <2>3
<1>6. QED BY <1>4, <1>5 DEF Grows, next

\* Lists of messages, none of which the data ends in.
Listed(p) == [end : Stays(p), value : Seq(Int)]

LEMMA YieldListed ==
    ASSUME NEW p, NEW P, P \subseteq Stays(p), NEW v \in Seq(Int)
    PROVE  Yield(P, v) \subseteq Listed(p)
BY DEF Yield, Listed

\* One more message of the list.
MoreIds(r) ==
    UNION {Yield(Number({n}), Append(r.value, NumberAt(n) % (2 * (IntMax + 1)))) :
               n \in Match("SP", {r.end})}

LEMMA MoreIdsListed ==
    ASSUME Data, NEW p \in Nat \ {0}, NEW r \in Listed(p)
    PROVE  MoreIds(r) \subseteq Listed(p)
<1>1. Len(data) \in Nat /\ p + 1 \in Nat \ {0}
  BY DEF Data
<1>2. {r.end} \subseteq Stays(p) /\ r.value \in Seq(Int)
  BY DEF Listed
<1>3. Match("SP", {r.end}) \subseteq Stays(p + 1)
  BY <1>2, MatchStays
<1>4. ASSUME NEW n \in Match("SP", {r.end})
      PROVE  Yield(Number({n}), Append(r.value, NumberAt(n) % (2 * (IntMax + 1)))) \subseteq Listed(p)
  <2>1. {n} \subseteq Stays(p + 1)
    BY <1>3
  <2>2. Number({n}) \subseteq Stays(p + 1 + 1)
    BY <1>1, <2>1, SpanStays DEF Number
  <2>3. Number({n}) \subseteq Stays(p)
    <3>1. Stays(p + 1 + 1) \subseteq Stays(p)
      BY <1>1 DEF Stays
    <3>2. QED BY <2>2, <3>1
  <2>4. n \in Nat \ {0} /\ n <= Len(data) + 1
    BY <1>1, <2>1 DEF Stays
  <2> DEFINE k == NumberAt(n) % (2 * (IntMax + 1))
  <2>5. k \in Int
    <3>1. NumberAt(n) \in Int
      BY <2>4, NumberAtInt
    <3>2. IntMax \in Nat
      BY IntMaxIsNatural
    <3>3. QED BY <3>1, <3>2
  <2> HIDE DEF k
  <2>6. Append(r.value, k) \in Seq(Int)
    BY <1>2, <2>5
  <2> DEFINE v == Append(r.value, k)
  <2> HIDE DEF v
  <2>7. v \in Seq(Int)
    BY <2>6 DEF v
  <2>8. Yield(Number({n}), v) \subseteq Listed(p)
    BY <2>3, <2>7, YieldListed
  <2>9. QED BY <2>8 DEF v, k
<1>5. QED BY <1>4 DEF MoreIds

\* What Repeat computes is what the recursion defines: a function exists that
\* satisfies it, and any that does is that one.
LEMMA IdsRepeat ==
    ASSUME Data, NEW V, NEW R \in SUBSET V, \A r \in V : MoreIds(r) \subseteq V
    PROVE  \E g : /\ Grows(g, Len(data), V, R, [r \in V |-> MoreIds(r)])
                 /\ Repeat(R, MoreIds) = g[Len(data)]
<1> DEFINE L == Len(data)
           grow(S) == Either(UNION {MoreIds(r) : r \in S}, S)
           Body(g) == [n \in 0..L |->
                          IF n = 0 THEN R
                          ELSE UNION {Either(UNION {MoreIds(r) : r \in S}, S) : S \in {g[n - 1]}}]
           m == [r \in V |-> MoreIds(r)]
           again == CHOOSE g : g = Body(g)
<1>1. L \in Nat
  BY DEF Data
<1>2. R \in SUBSET V
  OBVIOUS
<1>3. \A r \in V : MoreIds(r) \subseteq V
  OBVIOUS
<1>4. Repeat(R, MoreIds) = again[L]
  BY DEF Repeat
<1> HIDE DEF L
<1>5. m \in [V -> SUBSET V]
  BY <1>3
<1>6. PICK h : Grows(h, L, V, R, m)
  <2> HIDE DEF m
  <2>1. QED BY <1>1, <1>2, <1>5, Growth
<1>7. \A g, n : n \in 0..L => Body(g)[n] = IF n = 0 THEN R ELSE grow(g[n - 1])
  OBVIOUS
<1>8. \A S : S \subseteq V => UNION {m[r] : r \in S} = UNION {MoreIds(r) : r \in S}
  OBVIOUS
<1>9. h = Body(h)
  <2>1. /\ h \in [0..L -> SUBSET V] /\ h[0] = R
        /\ \A n \in 1..L : h[n] = Either(UNION {m[r] : r \in h[n - 1]}, h[n - 1])
    BY <1>6 DEF Grows
  <2>2. ASSUME NEW n \in 0..L PROVE h[n] = IF n = 0 THEN R ELSE grow(h[n - 1])
    <3>1. CASE n = 0
      BY <2>1, <3>1
    <3>2. CASE n # 0
      <4>1. n \in 1..L /\ n - 1 \in 0..L
        BY <1>1, <3>2
      <4>2. h[n - 1] \subseteq V
        BY <2>1, <4>1
      <4>3. h[n] = Either(UNION {m[r] : r \in h[n - 1]}, h[n - 1])
        BY <2>1, <4>1
      <4>4. UNION {m[r] : r \in h[n - 1]} = UNION {MoreIds(r) : r \in h[n - 1]}
        BY <1>8, <4>2
      <4>5. QED BY <3>2, <4>3, <4>4
    <3>3. QED BY <3>1, <3>2
  <2> HIDE DEF grow
  <2>3. \A n \in 0..L : h[n] = Body(h)[n]
    BY <1>7, <2>2
  <2>4. h = [n \in 0..L |-> h[n]] /\ Body(h) = [n \in 0..L |-> Body(h)[n]]
    BY <2>1
  <2> HIDE DEF Body
  <2>5. QED BY <2>3, <2>4
<1> HIDE DEF Body, m
<1>10. again = Body(again)
  BY <1>9
<1>11. \A n \in 0..L : again[n] = IF n = 0 THEN R ELSE grow(again[n - 1])
  BY <1>7, <1>10
<1> HIDE DEF again
<1> HIDE DEF grow
<1> DEFINE G == {n \in 0..L : again[n] = h[n]}
<1>12. h[0] = R /\ \A n \in 1..L : h[n] = grow(h[n - 1])
  <2>1. /\ h \in [0..L -> SUBSET V] /\ h[0] = R
        /\ \A n \in 0..L : h[n] = Body(h)[n]
    BY <1>6, <1>9 DEF Grows
  <2>2. ASSUME NEW n \in 1..L PROVE h[n] = grow(h[n - 1])
    <3>1. n \in 0..L /\ n # 0
      OBVIOUS
    <3>2. QED BY <1>7, <2>1, <3>1
  <2>3. QED BY <2>1, <2>2
<1>13. 0 \in G
  <2>1. 0 \in 0..L
    BY <1>1
  <2>2. QED BY <1>11, <1>12, <2>1
<1>14. ASSUME NEW n \in 0..L, n \in G, n < L PROVE n + 1 \in G
  <2>1. n + 1 \in 0..L /\ n + 1 \in 1..L /\ n + 1 # 0 /\ (n + 1) - 1 = n
    BY <1>1, <1>14
  <2>2. again[n + 1] = grow(again[n]) /\ h[n + 1] = grow(h[n])
    BY <1>11, <1>12, <2>1
  <2>3. QED BY <1>14, <2>1, <2>2
<1>15. 0..L \subseteq G
  <2> HIDE DEF G
  <2>1. QED BY <1>1, <1>13, <1>14, InductUpTo
<1>16. Repeat(R, MoreIds) = h[L]
  BY <1>1, <1>4, <1>15
<1>17. QED BY <1>6, <1>16 DEF L, m

LEMMA IdsListed ==
    ASSUME Data, NEW p \in Nat \ {0}, NEW P, P \subseteq Stays(p)
    PROVE  Repeat(Yield(P, <<>>), MoreIds) \subseteq Listed(p)
<1> DEFINE V == Listed(p)
           R == Yield(P, <<>>)
<1>1. R \in SUBSET V
  <2> DEFINE e == <<>>
  <2>1. e \in Seq(Int)
    OBVIOUS
  <2> HIDE DEF e
  <2>2. Yield(P, e) \subseteq Listed(p)
    BY <2>1, YieldListed
  <2>3. QED BY <2>2 DEF e
<1>2. \A r \in V : MoreIds(r) \subseteq V
  BY MoreIdsListed
<1> HIDE DEF R, V
<1>3. PICK g : Grows(g, Len(data), V, R, [r \in V |-> MoreIds(r)]) /\ Repeat(R, MoreIds) = g[Len(data)]
  BY <1>1, <1>2, IdsRepeat
<1>4. Len(data) \in 0..Len(data)
  BY DEF Data
<1>5. g[Len(data)] \subseteq V
  BY <1>3, <1>4 DEF Grows
<1>6. QED BY <1>3, <1>5 DEF R, V

LEMMA MessageIdListEnds ==
    ASSUME Data, NEW p \in Nat \ {0}, NEW P, P \subseteq Stays(p)
    PROVE  MessageIdList(P) \subseteq Listed(p)
<1>1. MessageIdList(P) \subseteq Repeat(Yield(P, <<>>), MoreIds)
  BY DEF MessageIdList, MoreIds
<1>2. QED BY <1>1, IdsListed

-----------------------------------------------------------------------------
(* The data of a mailbox and of a message. *)

LEMMA YieldEnded ==
    ASSUME NEW p, NEW P, P \subseteq Ends(p), NEW v PROVE Ended(Yield(P, v), p)
BY DEF Yield, Ended

LEMMA EitherEnded ==
    ASSUME NEW p, NEW P, NEW Q, Ended(P, p), Ended(Q, p) PROVE Ended(Either(P, Q), p)
BY EitherOf DEF Ended

LEMMA MailboxDataEnds ==
    ASSUME Data, NEW p \in Nat \ {0}, NEW P, P \subseteq Stays(p)
    PROVE  Ended(MailboxData(P), p)
<1> DEFINE flags  == Enclosed("(", ")", Match("SP", Match("FLAGS", P)))
           reads  == Match("SP", Match("STATUS", P))
           status == From(reads, LAMBDA q : {Thrown})
           counts == OneOf({"EXISTS", "RECENT"}, Match("SP", Number(P)))
           search == MessageIdList(Match("SEARCH", P))
           found  == {[end |-> r.end, value |-> Parsed("SEARCH", <<>>, <<>>, r.value)] : r \in search}
           others == Either(flags, Either(status, counts))
           none   == Status("OTHER", <<>>)
<1>1. P \subseteq Ends(p) /\ p \in Nat /\ p + 1 \in Nat \ {0} /\ p + 1 \in Nat /\ p + 1 + 1 \in Nat
  BY StaysEnds
<1>2. /\ Ends(p + 1) \subseteq Ends(p) /\ Ends(p + 1 + 1) \subseteq Ends(p)
      /\ Ends(p + 1 + 1 + 1) \subseteq Ends(p) /\ Thrown \in Ends(p)
  BY EndsLess DEF Ends
<1>3. flags \subseteq Ends(p)
  <2>1. Match("FLAGS", P) \subseteq Ends(p + 1)
    BY <1>1, MatchEnds
  <2>2. Match("SP", Match("FLAGS", P)) \subseteq Ends(p + 1 + 1)
    BY <1>1, <2>1, MatchEnds
  <2>3. flags \subseteq Ends(p + 1 + 1 + 1)
    BY <1>1, <2>2, EnclosedEnds
  <2>4. QED BY <1>2, <2>3
<1>4. status \subseteq Ends(p)
  <2>1. Match("STATUS", P) \subseteq Ends(p + 1)
    BY <1>1, MatchEnds
  <2>2. reads \subseteq Ends(p + 1 + 1)
    BY <1>1, <2>1, MatchEnds
  <2>3. status \subseteq reads \cup {Thrown}
    BY DEF From
  <2>4. QED BY <1>2, <2>2, <2>3
<1>5. counts \subseteq Ends(p)
  <2>1. Number(P) \subseteq Ends(p + 1)
    BY <1>1, NumberEnds
  <2>2. Match("SP", Number(P)) \subseteq Ends(p + 1 + 1)
    BY <1>1, <2>1, MatchEnds
  <2>3. counts \subseteq Ends(p + 1 + 1 + 1)
    BY <1>1, <2>2, OneOfEnds
  <2>4. QED BY <1>2, <2>3
<1>6. Ended(found, p)
  <2>1. Match("SEARCH", P) \subseteq Stays(p + 1)
    BY MatchStays
  <2>2. search \subseteq Listed(p + 1)
    BY <1>1, <2>1, MessageIdListEnds
  <2> HIDE DEF search
  <2>3. \A r \in search : r.end \in Stays(p + 1)
    BY <2>2 DEF Listed
  <2>4. Stays(p + 1) \subseteq Ends(p + 1)
    BY <1>1, StaysEnds
  <2>5. QED BY <1>2, <2>3, <2>4 DEF Ended
<1> HIDE DEF flags, status, counts, found, none
<1>7. others \subseteq Ends(p)
  <2>1. Either(status, counts) \subseteq status \cup counts
    BY EitherOf
  <2>2. others \subseteq flags \cup Either(status, counts)
    BY EitherOf
  <2> HIDE DEF others
  <2>3. QED BY <1>3, <1>4, <1>5, <2>1, <2>2
<1>8. MailboxData(P) = Either(found, Yield(others, none))
  BY DEF MailboxData, found, others, none, flags, status, counts
<1> HIDE DEF others
<1>9. Ended(Yield(others, none), p)
  BY <1>7, YieldEnded
<1>10. QED BY <1>6, <1>8, <1>9, EitherEnded

LEMMA AttributeEnds ==
    ASSUME Data, NEW p \in Nat \ {0}, NEW P, P \subseteq Ends(p), NEW text \in Seq(Token)
    PROVE  Attribute(text, P) \subseteq Results(p, Seq(Token))
<1> DEFINE flags == MsgAttDynamic(P)
           body == Match("BODY", P)
           section == Enclosed("[", "]", body)
           string == NString(Match("SP", section))
           uid == Number(Match("SP", Match("UID", P)))
           V == Results(p, Seq(Token))
<1>1. /\ p \in Nat /\ p + 1 \in Nat /\ p + 1 + 1 \in Nat
      /\ p + 1 + 1 + 1 \in Nat \ {0} /\ p <= p + 1 + 1 + 1 + 1
  OBVIOUS
<1>2. Ends(p + 1 + 1 + 1) \subseteq Ends(p) /\ {Thrown} \subseteq Ends(p)
  BY EndsLess DEF Ends
<1>3. flags \subseteq Ends(p)
  <2>1. Match("FLAGS", P) \subseteq Ends(p + 1)
    BY <1>1, MatchEnds
  <2>2. Match("SP", Match("FLAGS", P)) \subseteq Ends(p + 1 + 1)
    BY <1>1, <2>1, MatchEnds
  <2>3. flags \subseteq Ends(p + 1 + 1 + 1)
    BY <1>1, <2>2, EnclosedEnds DEF MsgAttDynamic
  <2>4. QED BY <1>2, <2>3
<1>4. uid \subseteq Ends(p)
  <2>1. Match("UID", P) \subseteq Ends(p + 1)
    BY <1>1, MatchEnds
  <2>2. Match("SP", Match("UID", P)) \subseteq Ends(p + 1 + 1)
    BY <1>1, <2>1, MatchEnds
  <2>3. uid \subseteq Ends(p + 1 + 1 + 1)
    BY <1>1, <2>2, NumberEnds
  <2>4. QED BY <1>2, <2>3
<1>5. string \subseteq V
  <2>1. body \subseteq Ends(p + 1)
    BY <1>1, MatchEnds
  <2>2. section \subseteq Ends(p + 1 + 1)
    <3> HIDE DEF body
    <3>1. QED BY <1>1, <2>1, EnclosedEnds
  <2>3. Match("SP", section) \subseteq Ends(p + 1 + 1 + 1)
    <3> HIDE DEF section
    <3>1. QED BY <1>1, <2>2, MatchEnds
  <2>4. string \subseteq Results(p + 1 + 1 + 1 + 1, Seq(Token))
    <3> DEFINE M == Match("SP", section)
    <3>1. M \subseteq Ends(p + 1 + 1 + 1)
      BY <2>3
    <3>2. string = Literal(M)
      BY DEF NString
    <3> HIDE DEF M, string
    <3>3. QED BY <1>1, <3>1, <3>2, LiteralEnds
  <2>5. Results(p + 1 + 1 + 1 + 1, Seq(Token)) \subseteq V
    BY <1>1, ResultsLess
  <2> HIDE DEF string, V
  <2>6. QED BY <2>4, <2>5
<1> HIDE DEF flags, string, uid
<1>6. Yield(flags, text) \subseteq V /\ Yield(uid, text) \subseteq V /\ Yield({Thrown}, text) \subseteq V
  BY <1>2, <1>3, <1>4, YieldResults
<1>7. \/ MsgAttStatic(text, P) = Yield({Thrown}, text)
      \/ MsgAttStatic(text, P) = Either(string, Yield(uid, text))
  BY DEF MsgAttStatic, string, uid
<1> HIDE DEF V
<1>8. MsgAttStatic(text, P) \subseteq V
  <2>1. Either(string, Yield(uid, text)) \subseteq string \cup Yield(uid, text)
    BY EitherOf
  <2>2. QED BY <1>5, <1>6, <1>7, <2>1
<1>9. Attribute(text, P) = Either(Yield(flags, text), MsgAttStatic(text, P))
  BY DEF Attribute, flags
<1>10. Attribute(text, P) \subseteq Yield(flags, text) \cup MsgAttStatic(text, P)
  BY <1>9, EitherOf
<1>11. QED BY <1>6, <1>8, <1>10 DEF V

\* One more attribute of the message.
MoreAttributes(r) == Attribute(r.value, Match("SP", {r.end}))

FirstAttributes(P) == UNION {Attribute(<<>>, {q}) : q \in Match("(", P)}

LEMMA MoreAttributesEnds ==
    ASSUME Data, NEW p \in Nat \ {0}, NEW r \in Results(p, Seq(Token))
    PROVE  MoreAttributes(r) \subseteq Results(p, Seq(Token))
<1>1. p \in Nat /\ p + 1 \in Nat \ {0} /\ p <= p + 1
  OBVIOUS
<1>2. {r.end} \subseteq Ends(p) /\ r.value \in Seq(Token)
  BY DEF Results
<1>3. Match("SP", {r.end}) \subseteq Ends(p + 1)
  BY <1>1, <1>2, MatchEnds
<1>4. MoreAttributes(r) \subseteq Results(p + 1, Seq(Token))
  BY <1>1, <1>2, <1>3, AttributeEnds DEF MoreAttributes
<1>5. Results(p + 1, Seq(Token)) \subseteq Results(p, Seq(Token))
  BY <1>1, ResultsLess
<1>6. QED BY <1>4, <1>5

LEMMA AttributesRepeat ==
    ASSUME Data, NEW V, NEW R \in SUBSET V, \A r \in V : MoreAttributes(r) \subseteq V
    PROVE  \E g : /\ Grows(g, Len(data), V, R, [r \in V |-> MoreAttributes(r)])
                 /\ Repeat(R, MoreAttributes) = g[Len(data)]
<1> DEFINE L == Len(data)
           grow(S) == Either(UNION {MoreAttributes(r) : r \in S}, S)
           Body(g) == [n \in 0..L |->
                          IF n = 0 THEN R
                          ELSE UNION {Either(UNION {MoreAttributes(r) : r \in S}, S) : S \in {g[n - 1]}}]
           m == [r \in V |-> MoreAttributes(r)]
           again == CHOOSE g : g = Body(g)
<1>1. L \in Nat
  BY DEF Data
<1>2. R \in SUBSET V
  OBVIOUS
<1>3. \A r \in V : MoreAttributes(r) \subseteq V
  OBVIOUS
<1>4. Repeat(R, MoreAttributes) = again[L]
  BY DEF Repeat
<1> HIDE DEF L
<1>5. m \in [V -> SUBSET V]
  BY <1>3
<1>6. PICK h : Grows(h, L, V, R, m)
  <2> HIDE DEF m
  <2>1. QED BY <1>1, <1>2, <1>5, Growth
<1>7. \A g, n : n \in 0..L => Body(g)[n] = IF n = 0 THEN R ELSE grow(g[n - 1])
  OBVIOUS
<1>8. \A S : S \subseteq V => UNION {m[r] : r \in S} = UNION {MoreAttributes(r) : r \in S}
  OBVIOUS
<1>9. h = Body(h)
  <2>1. /\ h \in [0..L -> SUBSET V] /\ h[0] = R
        /\ \A n \in 1..L : h[n] = Either(UNION {m[r] : r \in h[n - 1]}, h[n - 1])
    BY <1>6 DEF Grows
  <2>2. ASSUME NEW n \in 0..L PROVE h[n] = IF n = 0 THEN R ELSE grow(h[n - 1])
    <3>1. CASE n = 0
      BY <2>1, <3>1
    <3>2. CASE n # 0
      <4>1. n \in 1..L /\ n - 1 \in 0..L
        BY <1>1, <3>2
      <4>2. h[n - 1] \subseteq V
        BY <2>1, <4>1
      <4>3. h[n] = Either(UNION {m[r] : r \in h[n - 1]}, h[n - 1])
        BY <2>1, <4>1
      <4>4. UNION {m[r] : r \in h[n - 1]} = UNION {MoreAttributes(r) : r \in h[n - 1]}
        BY <1>8, <4>2
      <4>5. QED BY <3>2, <4>3, <4>4
    <3>3. QED BY <3>1, <3>2
  <2> HIDE DEF grow
  <2>3. \A n \in 0..L : h[n] = Body(h)[n]
    BY <1>7, <2>2
  <2>4. h = [n \in 0..L |-> h[n]] /\ Body(h) = [n \in 0..L |-> Body(h)[n]]
    BY <2>1
  <2> HIDE DEF Body
  <2>5. QED BY <2>3, <2>4
<1> HIDE DEF Body, m
<1>10. again = Body(again)
  BY <1>9
<1>11. \A n \in 0..L : again[n] = IF n = 0 THEN R ELSE grow(again[n - 1])
  BY <1>7, <1>10
<1> HIDE DEF again
<1> HIDE DEF grow
<1> DEFINE G == {n \in 0..L : again[n] = h[n]}
<1>12. h[0] = R /\ \A n \in 1..L : h[n] = grow(h[n - 1])
  <2>1. /\ h \in [0..L -> SUBSET V] /\ h[0] = R
        /\ \A n \in 0..L : h[n] = Body(h)[n]
    BY <1>6, <1>9 DEF Grows
  <2>2. ASSUME NEW n \in 1..L PROVE h[n] = grow(h[n - 1])
    <3>1. n \in 0..L /\ n # 0
      OBVIOUS
    <3>2. QED BY <1>7, <2>1, <3>1
  <2>3. QED BY <2>1, <2>2
<1>13. 0 \in G
  <2>1. 0 \in 0..L
    BY <1>1
  <2>2. QED BY <1>11, <1>12, <2>1
<1>14. ASSUME NEW n \in 0..L, n \in G, n < L PROVE n + 1 \in G
  <2>1. n + 1 \in 0..L /\ n + 1 \in 1..L /\ n + 1 # 0 /\ (n + 1) - 1 = n
    BY <1>1, <1>14
  <2>2. again[n + 1] = grow(again[n]) /\ h[n + 1] = grow(h[n])
    BY <1>11, <1>12, <2>1
  <2>3. QED BY <1>14, <2>1, <2>2
<1>15. 0..L \subseteq G
  <2> HIDE DEF G
  <2>1. QED BY <1>1, <1>13, <1>14, InductUpTo
<1>16. Repeat(R, MoreAttributes) = h[L]
  BY <1>1, <1>4, <1>15
<1>17. QED BY <1>6, <1>16 DEF L, m

LEMMA MoreEnd ==
    ASSUME Data, NEW p \in Nat \ {0}, NEW R, R \subseteq Results(p, Seq(Token))
    PROVE  Repeat(R, MoreAttributes) \subseteq Results(p, Seq(Token))
<1> DEFINE V == Results(p, Seq(Token))
<1>1. R \in SUBSET V
  OBVIOUS
<1>2. \A r \in V : MoreAttributes(r) \subseteq V
  BY MoreAttributesEnds
<1> HIDE DEF V
<1>3. PICK g : /\ Grows(g, Len(data), V, R, [r \in V |-> MoreAttributes(r)])
               /\ Repeat(R, MoreAttributes) = g[Len(data)]
  BY <1>1, <1>2, AttributesRepeat
<1>4. Len(data) \in 0..Len(data)
  BY DEF Data
<1>5. g[Len(data)] \subseteq V
  BY <1>3, <1>4 DEF Grows
<1>6. QED BY <1>3, <1>5 DEF V

LEMMA AttributesEnd ==
    ASSUME Data, NEW p \in Nat \ {0}, NEW P, P \subseteq Ends(p)
    PROVE  Repeat(FirstAttributes(P), MoreAttributes) \subseteq Results(p, Seq(Token))
<1> DEFINE e == <<>>
<1>1. e \in Seq(Token) /\ p \in Nat /\ p + 1 \in Nat \ {0} /\ p <= p + 1
  OBVIOUS
<1> HIDE DEF e
<1>2. Match("(", P) \subseteq Ends(p + 1)
  BY <1>1, MatchEnds
<1>3. Results(p + 1, Seq(Token)) \subseteq Results(p, Seq(Token))
  BY <1>1, ResultsLess
<1>4. ASSUME NEW q \in Match("(", P) PROVE Attribute(e, {q}) \subseteq Results(p, Seq(Token))
  <2>1. {q} \subseteq Ends(p + 1)
    BY <1>2
  <2>2. Attribute(e, {q}) \subseteq Results(p + 1, Seq(Token))
    BY <1>1, <2>1, AttributeEnds
  <2>3. QED BY <1>3, <2>2
<1>5. FirstAttributes(P) \subseteq Results(p, Seq(Token))
  BY <1>4 DEF FirstAttributes, e
<1>6. QED BY <1>5, MoreEnd

LEMMA MsgAttEnds ==
    ASSUME Data, NEW p \in Nat \ {0}, NEW P, P \subseteq Ends(p)
    PROVE  Ended(MsgAtt(P), p)
<1> DEFINE close(r) == Match(")", Either(Match("SP", {r.end}), {r.end}))
           all == Repeat(FirstAttributes(P), MoreAttributes)
<1>1. all \subseteq Results(p, Seq(Token))
  BY AttributesEnd
<1>2. MsgAtt(P) = UNION {Yield(close(r), r.value) : r \in all}
  BY DEF MsgAtt, FirstAttributes, MoreAttributes
<1>3. ASSUME NEW r \in Results(p, Seq(Token)) PROVE close(r) \subseteq Ends(p)
  <2> DEFINE Q == Either(Match("SP", {r.end}), {r.end})
  <2>1. {r.end} \subseteq Ends(p) /\ p \in Nat
    BY DEF Results
  <2>2. Ends(p + 1) \subseteq Ends(p)
    BY EndsLess
  <2>3. Match("SP", {r.end}) \subseteq Ends(p)
    BY <2>1, <2>2, MatchEnds
  <2>4. Q \subseteq Match("SP", {r.end}) \cup {r.end}
    BY EitherOf
  <2>5. Q \subseteq Ends(p)
    BY <2>1, <2>3, <2>4
  <2> HIDE DEF Q
  <2>6. Match(")", Q) \subseteq Ends(p)
    BY <2>1, <2>2, <2>5, MatchEnds
  <2>7. QED BY <2>6 DEF Q
<1> HIDE DEF close, all
<1>4. \A r \in all : Ended(Yield(close(r), r.value), p)
  BY <1>1, <1>3, YieldEnded
<1>5. QED BY <1>2, <1>4 DEF Ended

LEMMA MessageDataEnds ==
    ASSUME Data, NEW p \in Nat \ {0}, NEW P, P \subseteq Ends(p)
    PROVE  Ended(MessageData(P), p)
<1> DEFINE atts(q) == MsgAtt(Match("SP", Match("FETCH", {q})))
           fetch(q) == {[end |-> r.end, value |-> Parsed("FETCH", <<>>, r.value, <<>>)] : r \in atts(q)}
           kind(q)  == IF Match("EXPUNGE", {q}) = {} THEN fetch(q)
                       ELSE Yield({Thrown}, NullResponse)
           M == Match("SP", Number(P))
<1>1. /\ p \in Nat /\ p + 1 \in Nat /\ p + 1 \in Nat \ {0} /\ p + 1 + 1 \in Nat
      /\ p + 1 + 1 \in Nat \ {0}
  OBVIOUS
<1>2. /\ Ends(p + 1) \subseteq Ends(p) /\ Ends(p + 1 + 1) \subseteq Ends(p)
      /\ {Thrown} \subseteq Ends(p)
  BY EndsLess DEF Ends
<1>3. M \subseteq Ends(p)
  <2>1. Number(P) \subseteq Ends(p + 1)
    BY <1>1, NumberEnds
  <2>2. M \subseteq Ends(p + 1 + 1)
    BY <1>1, <2>1, MatchEnds
  <2>3. QED BY <1>2, <2>2
<1>4. MessageData(P) = UNION {kind(q) : q \in M}
  BY DEF MessageData
<1> HIDE DEF M
<1>5. ASSUME NEW q \in M PROVE Ended(kind(q), p)
  <2>1. {q} \subseteq Ends(p)
    BY <1>3
  <2>2. Match("FETCH", {q}) \subseteq Ends(p + 1)
    BY <1>1, <2>1, MatchEnds
  <2>3. Match("SP", Match("FETCH", {q})) \subseteq Ends(p + 1 + 1)
    BY <1>1, <2>2, MatchEnds
  <2>4. Match("SP", Match("FETCH", {q})) \subseteq Ends(p)
    BY <1>2, <2>3
  <2>5. Ended(atts(q), p)
    BY <2>4, MsgAttEnds
  <2> HIDE DEF atts
  <2>6. Ended(fetch(q), p)
    BY <2>5 DEF Ended
  <2>7. Ended(Yield({Thrown}, NullResponse), p)
    BY <1>2, YieldEnded
  <2>8. QED BY <2>6, <2>7
<1> HIDE DEF kind
<1>6. QED BY <1>4, <1>5 DEF Ended
-----------------------------------------------------------------------------
(* Responses. *)

LEMMA EndedLess ==
    ASSUME NEW p \in Int, NEW q \in Int, p <= q, NEW R, Ended(R, q) PROVE Ended(R, p)
BY EndsLess DEF Ended

LEMMA CondOfEnds ==
    ASSUME Data, NEW p \in Nat, NEW P, P \subseteq Ends(p), NEW types, NEW tag
    PROVE  Ended(CondOf(types, tag, P), p + 1)
<1> DEFINE of(t) == RespText(Match("SP", Match(t, P)))
<1>1. p + 1 \in Nat /\ p + 1 + 1 \in Nat /\ Ends(p + 1 + 1) \subseteq Ends(p + 1)
  BY EndsLess
<1>2. ASSUME NEW t PROVE of(t) \subseteq Ends(p + 1)
  <2>1. Match(t, P) \subseteq Ends(p + 1)
    BY MatchEnds
  <2>2. Match("SP", Match(t, P)) \subseteq Ends(p + 1 + 1)
    BY <1>1, <2>1, MatchEnds
  <2>3. of(t) \subseteq Ends(p + 1 + 1)
    BY <1>1, <2>2, RespTextEnds
  <2>4. QED BY <1>1, <2>3
<1>3. CondOf(types, tag, P) = UNION {Yield(of(t), Status(t, tag)) : t \in types}
  BY DEF CondOf
<1> HIDE DEF of
<1>4. \A t : Ended(Yield(of(t), Status(t, tag)), p + 1)
  BY <1>2, YieldEnded
<1>5. QED BY <1>3, <1>4 DEF Ended

\* Every rule for a whole response goes past at least one token.
LEMMA StarStays ==
    ASSUME Data, NEW p \in Nat \ {0}, NEW P, P \subseteq Stays(p)
    PROVE  Star(P) \subseteq Stays(p + 1)
<1>1. Match("*", P) \subseteq Stays(p + 1) /\ p + 1 \in Nat \ {0}
  BY MatchStays
<1>2. Star(P) \subseteq Stays(p + 1 + 1)
  BY <1>1, MatchStays DEF Star
<1>3. Stays(p + 1 + 1) \subseteq Stays(p + 1)
  BY DEF Stays
<1>4. QED BY <1>2, <1>3

LEMMA EndLineEnds ==
    ASSUME Data, NEW p \in Nat, NEW R, Ended(R, p) PROVE Ended(EndLine(R), p)
<1>1. ASSUME NEW r \in R PROVE Ended(Yield(Crlf({r.end}), r.value), p)
  <2>1. {r.end} \subseteq Ends(p)
    BY DEF Ended
  <2>2. Crlf({r.end}) \subseteq Ends(p)
    BY <2>1, CrlfEnds
  <2>3. QED BY <2>2, YieldEnded
<1>2. QED BY <1>1 DEF EndLine, Ended

LEMMA ContinueReqEnds ==
    ASSUME Data, NEW p \in Nat, NEW P, P \subseteq Ends(p)
    PROVE  Ended(ContinueReq(P), p + 1)
<1> DEFINE M == Match("SP", Match("+", P))
<1>1. p + 1 \in Nat /\ p + 1 + 1 \in Nat /\ Ends(p + 1 + 1) \subseteq Ends(p + 1)
  BY EndsLess
<1>2. Match("+", P) \subseteq Ends(p + 1)
  BY MatchEnds
<1>3. M \subseteq Ends(p + 1)
  BY <1>1, <1>2, MatchEnds
<1>4. ContinueReq(P) = Yield(Crlf(RespText(M)), NullResponse)
  BY DEF ContinueReq
<1> HIDE DEF M
<1>5. RespText(M) \subseteq Ends(p + 1)
  BY <1>1, <1>3, RespTextEnds
<1>6. Crlf(RespText(M)) \subseteq Ends(p + 1)
  BY <1>1, <1>5, CrlfEnds
<1>7. QED BY <1>4, <1>6, YieldEnded

LEMMA ResponseDataEnds ==
    ASSUME Data, NEW p \in Nat \ {0}, NEW P, P \subseteq Stays(p)
    PROVE  Ended(ResponseData(P), p + 1)
<1> DEFINE rule(Q) == Either(RespCondState(<<>>, Q),
                      Either(RespCondBye(Q),
                      Either(MailboxData(Q), MessageData(Q))))
<1>1. p + 1 \in Nat /\ p + 1 \in Nat \ {0} /\ p + 1 + 1 \in Int /\ p + 1 <= p + 1 + 1
  OBVIOUS
<1>2. Star(P) \subseteq Stays(p + 1)
  BY StarStays
<1>3. ASSUME NEW q \in Star(P) PROVE Ended(EndLine(rule({q})), p + 1)
  <2> DEFINE Q == {q}
             state == RespCondState(<<>>, Q)
  <2>1. Q \subseteq Stays(p + 1) /\ Q \subseteq Ends(p + 1)
    BY <1>1, <1>2, StaysEnds
  <2> HIDE DEF Q
  <2>2. Ended(state, p + 1)
    BY <1>1, <2>1, CondOfEnds, EndedLess DEF RespCondState
  <2>3. Ended(RespCondBye(Q), p + 1)
    BY <1>1, <2>1, CondOfEnds, EndedLess DEF RespCondBye
  <2>4. Ended(MailboxData(Q), p + 1)
    BY <1>1, <2>1, MailboxDataEnds
  <2>5. Ended(MessageData(Q), p + 1)
    BY <1>1, <2>1, MessageDataEnds
  <2> HIDE DEF state
  <2>6. Ended(Either(MailboxData(Q), MessageData(Q)), p + 1)
    BY <2>4, <2>5, EitherEnded
  <2>7. Ended(Either(RespCondBye(Q), Either(MailboxData(Q), MessageData(Q))), p + 1)
    BY <2>3, <2>6, EitherEnded
  <2>8. Ended(Either(state, Either(RespCondBye(Q), Either(MailboxData(Q), MessageData(Q)))), p + 1)
    BY <2>2, <2>7, EitherEnded
  <2>9. rule({q}) = Either(state, Either(RespCondBye(Q), Either(MailboxData(Q), MessageData(Q))))
    BY DEF state, Q
  <2> HIDE DEF rule
  <2>10. Ended(rule({q}), p + 1)
    BY <2>8, <2>9
  <2>11. QED BY <1>1, <2>10, EndLineEnds
<1>4. ResponseData(P) = UNION {EndLine(rule({q})) : q \in Star(P)}
  BY DEF ResponseData
<1> HIDE DEF rule
<1>5. QED BY <1>3, <1>4 DEF Ended

LEMMA ResponseTaggedEnds ==
    ASSUME Data, NEW p \in Nat \ {0}, NEW P, P \subseteq Stays(p)
    PROVE  Ended(ResponseTagged(P), p + 1)
<1> DEFINE tagged(o, q) == RespCondState(SubSeq(data, o, q - 1), Match("SP", {q}))
           all == UNION {UNION {tagged(o, q) : q \in Span(Alnum, {o})} : o \in P}
<1>1. p + 1 \in Nat /\ p + 1 + 1 \in Nat /\ p + 1 + 1 + 1 \in Int /\ p + 1 <= p + 1 + 1 + 1
  OBVIOUS
<1>2. ASSUME NEW o \in P, NEW q \in Span(Alnum, {o}) PROVE Ended(tagged(o, q), p + 1)
  <2>1. {o} \subseteq Stays(p)
    OBVIOUS
  <2>2. {o} \subseteq Ends(p)
    BY <2>1, StaysEnds
  <2>3. {q} \subseteq Ends(p + 1)
    BY <2>2, SpanEnds
  <2>4. Match("SP", {q}) \subseteq Ends(p + 1 + 1)
    BY <1>1, <2>3, MatchEnds
  <2>5. Ended(tagged(o, q), p + 1 + 1 + 1)
    BY <1>1, <2>4, CondOfEnds DEF RespCondState
  <2> HIDE DEF tagged
  <2>6. QED BY <1>1, <2>5, EndedLess
<1>3. ResponseTagged(P) = EndLine(all)
  BY DEF ResponseTagged
<1> HIDE DEF tagged
<1>4. Ended(all, p + 1)
  <2>1. ASSUME NEW r \in all PROVE r.end \in Ends(p + 1)
    <3>1. PICK o \in P : \E q \in Span(Alnum, {o}) : r \in tagged(o, q)
      OBVIOUS
    <3>2. PICK q \in Span(Alnum, {o}) : r \in tagged(o, q)
      BY <3>1
    <3>3. QED BY <1>2, <3>2 DEF Ended
  <2>2. QED BY <2>1 DEF Ended
<1> HIDE DEF all
<1>5. QED BY <1>1, <1>3, <1>4, EndLineEnds

\* Whatever was received, and wherever the parser is in it, what parse_next
\* returns ends behind the position it began at, and not behind the data.
LEMMA ParseNextEnds ==
    ASSUME Data, pos \in 1..Len(data) PROVE Ended(ParseNext, pos + 1)
<1> DEFINE P == {pos}
           tagged == ResponseTagged(P)
           fatal == ResponseFatal(P)
           resp == Response(P)
           greet == Greeting(P)
           thrown == Yield({Thrown}, NullResponse)
<1>1. Len(data) \in Nat /\ pos \in Nat \ {0} /\ pos \in Nat /\ pos + 1 \in Nat
  BY DEF Data
<1>2. P \subseteq Stays(pos) /\ P \subseteq Ends(pos)
  BY <1>1 DEF Stays, Ends
<1>3. Star(P) \subseteq Ends(pos)
  <2>1. Star(P) \subseteq Stays(pos + 1)
    BY <1>1, <1>2, StarStays
  <2>2. Stays(pos + 1) \subseteq Ends(pos)
    BY <1>1 DEF Stays, Ends
  <2>3. QED BY <2>1, <2>2
<1> HIDE DEF P
<1>4. Ended(ContinueReq(P), pos + 1) /\ Ended(ResponseData(P), pos + 1) /\ Ended(tagged, pos + 1)
  BY <1>1, <1>2, ContinueReqEnds, ResponseDataEnds, ResponseTaggedEnds
<1>5. Ended(fatal, pos + 1) /\ Ended(greet, pos + 1)
  BY <1>1, <1>3, CondOfEnds DEF ResponseFatal, RespCondBye, Greeting, RespCondAuth
<1>6. Ended(thrown, pos + 1)
  <2>1. {Thrown} \subseteq Ends(pos + 1)
    BY DEF Ends
  <2>2. QED BY <2>1, YieldEnded
<1> HIDE DEF tagged, fatal, greet, thrown
<1>7. Ended(ResponseDone(P), pos + 1)
  BY <1>4, <1>5, EitherEnded DEF ResponseDone, tagged, fatal
<1>8. Ended(resp, pos + 1)
  <2>1. Ended(Either(ResponseData(P), ResponseDone(P)), pos + 1)
    BY <1>4, <1>7, EitherEnded
  <2>2. QED BY <1>4, <2>1, EitherEnded DEF Response
<1> HIDE DEF resp
<1>9. Ended(Either(resp, greet), pos + 1)
  BY <1>5, <1>8, EitherEnded
<1>10. Ended(Either(Either(resp, greet), thrown), pos + 1)
  BY <1>6, <1>9, EitherEnded
<1>11. ParseNext = Either(Either(resp, greet), thrown)
  BY DEF ParseNext, resp, greet, thrown, P
<1>12. QED BY <1>10, <1>11
-----------------------------------------------------------------------------
(* The thread. *)

\* ReceiverTypeOK, with what sent consists of.
RecvInv ==
    /\ ReceiverTypeOK
    /\ sent \in Seq({l.response : l \in Lines})

LEMMA InitRecvInv == ASSUME Init PROVE RecvInv
<1>1. MaxLines \in Nat
  BY ReceiverAssumption
<1>2. <<>> \in Seq(Token) /\ <<>> \in Seq({l.response : l \in Lines})
  OBVIOUS
<1>3. Len(<<>>) = 0
  OBVIOUS
<1>4. data = <<>> /\ wire = <<>> /\ sent = <<>> /\ pos = 1
  BY DEF Init
<1>5. data \in Seq(Token) /\ wire \in Seq(Token) /\ sent \in Seq({l.response : l \in Lines})
  BY <1>2, <1>4
<1>6. Len(sent) <= MaxLines /\ pos \in 1..(Len(data) + 1)
  BY <1>1, <1>3, <1>4
<1>7. link \in {"open", "closed", "reset"} /\ thr \in Thr /\ stopped \in BOOLEAN /\ failed \in BOOLEAN
  BY DEF Init, Thr
<1>8. QED BY <1>5, <1>6, <1>7 DEF RecvInv, ReceiverTypeOK

\* What receive appends to is data, which Inspect keeps whole.
LEMMA InspectKeeps ==
    ASSUME RecvInv, NEW d \in Seq(Token), Len(data) <= Len(d), stopped' \in BOOLEAN, Inspect(d)
    PROVE  /\ data' \in Seq(Token)
           /\ pos' \in 1..(Len(data') + 1)
           /\ thr' \in Thr
           /\ UNCHANGED <<pos, given, failed>>
<1>1. /\ data' = d /\ UNCHANGED <<pos, given, failed>>
      /\ thr' = CASE Complete(d) -> "parsing"
                  [] ~Complete(d) /\ Len(d) = MaxLen -> "terminated"
                  [] ~Complete(d) /\ Len(d) # MaxLen -> IF stopped' THEN "ended" ELSE "reading"
  BY DEF Inspect, logVars
<1>2. thr' \in {"parsing", "terminated", "ended", "reading"}
  <2>1. CASE Complete(d)
    BY <1>1, <2>1
  <2>2. CASE ~Complete(d) /\ Len(d) = MaxLen
    BY <1>1, <2>2
  <2>3. CASE ~Complete(d) /\ Len(d) # MaxLen
    BY <1>1, <2>3
  <2>4. QED BY <2>1, <2>2, <2>3
<1>3. pos \in 1..(Len(d) + 1)
  <2>1. pos \in 1..(Len(data) + 1) /\ Len(data) \in Nat /\ Len(d) \in Nat
    BY DEF RecvInv, ReceiverTypeOK
  <2>2. QED BY <2>1
<1>4. QED BY <1>1, <1>2, <1>3 DEF Thr, Over

LEMMA NextRecvInv == ASSUME RecvInv, Next PROVE RecvInv'
<1> DEFINE Resp == {l.response : l \in Lines}
<1>1. /\ data \in Seq(Token) /\ pos \in 1..(Len(data) + 1) /\ wire \in Seq(Token)
      /\ link \in {"open", "closed", "reset"} /\ thr \in Thr /\ stopped \in BOOLEAN
      /\ Len(sent) <= MaxLines /\ failed \in BOOLEAN /\ sent \in Seq(Resp)
  BY DEF RecvInv, ReceiverTypeOK
<1>2. MaxLines \in Nat /\ Len(data) \in Nat /\ Len(wire) \in Nat /\ Len(sent) \in Nat
  BY <1>1, ReceiverAssumption
<1>3. <<>> \in Seq(Token) /\ Len(<<>>) = 0
  OBVIOUS
<1> HIDE DEF Resp
<1>4. SUFFICES /\ data' \in Seq(Token) /\ pos' \in 1..(Len(data') + 1) /\ wire' \in Seq(Token)
               /\ link' \in {"open", "closed", "reset"} /\ thr' \in Thr /\ stopped' \in BOOLEAN
               /\ Len(sent') <= MaxLines /\ failed' \in BOOLEAN /\ sent' \in Seq(Resp)
  BY DEF RecvInv, ReceiverTypeOK, Resp
<1>5. CASE Start
  BY <1>1, <1>5 DEF Start, serverVars, logVars, Thr
<1>6. CASE Receive
  <2>1. PICK n \in 0..Len(wire) :
           /\ wire' = SubSeq(wire, n + 1, Len(wire))
           /\ UNCHANGED stopped
           /\ Inspect(data \o SubSeq(wire, 1, n))
    BY <1>6 DEF Receive
  <2> DEFINE d == data \o SubSeq(wire, 1, n)
  <2>2. SubSeq(wire, 1, n) \in Seq(Token) /\ Len(SubSeq(wire, 1, n)) \in Nat
    BY <1>1, <1>2
  <2>3. d \in Seq(Token) /\ Len(d) = Len(data) + Len(SubSeq(wire, 1, n))
    BY <1>1, <2>2
  <2>4. Len(data) <= Len(d)
    BY <1>2, <2>2, <2>3
  <2>5. wire' \in Seq(Token)
    BY <1>1, <1>2, <2>1
  <2>6. Inspect(d) /\ stopped' \in BOOLEAN
    BY <1>1, <2>1
  <2> HIDE DEF d
  <2>7. /\ data' \in Seq(Token) /\ pos' \in 1..(Len(data') + 1)
        /\ thr' \in Thr /\ UNCHANGED <<pos, given, failed>>
    BY <2>3, <2>4, <2>6, InspectKeeps
  <2>8. UNCHANGED <<link, sent>>
    BY <1>6 DEF Receive
  <2>9. QED BY <1>1, <2>5, <2>6, <2>7, <2>8
<1>7. CASE ReceiveEnd
  <2>1. stopped' = TRUE /\ Inspect(data) /\ UNCHANGED <<wire, link, sent>>
    BY <1>7 DEF ReceiveEnd, serverVars
  <2>2. /\ data' \in Seq(Token) /\ pos' \in 1..(Len(data') + 1)
        /\ thr' \in Thr /\ UNCHANGED <<pos, given, failed>>
    BY <1>1, <1>2, <2>1, InspectKeeps
  <2>3. QED BY <1>1, <2>1, <2>2
<1>8. CASE ReceiveFails
  BY <1>1, <1>8 DEF ReceiveFails, serverVars, Thr, Over
<1>9. CASE ParseOne
  <2>1. PICK r \in ParseNext : Deliver(r) \/ DeliverNull(r) \/ Fail(r)
    BY <1>9 DEF ParseOne
  <2>2. UNCHANGED <<wire, link, sent, stopped>> /\ thr = "parsing" /\ pos <= Len(data)
    BY <1>9 DEF ParseOne, serverVars
  <2>3. r.end \in Ends(pos + 1)
    BY <1>1, <1>2, <2>1, <2>2, ParseNextEnds DEF Data, Ended
  <2>4. CASE Deliver(r)
    <3>1. r.end >= 1 /\ pos' = r.end /\ UNCHANGED <<data, thr, failed>>
      BY <2>4 DEF Deliver
    <3>2. pos' \in 1..(Len(data) + 1)
      BY <1>1, <1>2, <2>3, <3>1 DEF Ends, Thrown, Overrun
    <3>3. QED BY <1>1, <2>2, <3>1, <3>2
  <2>5. CASE DeliverNull(r)
    BY <1>1, <2>2, <2>5 DEF DeliverNull, logVars, Thr, Over
  <2>6. CASE Fail(r)
    <3>1. CASE failed' = TRUE /\ Clear
      BY <1>1, <1>3, <2>2, <3>1 DEF Clear, Thr
    <3>2. CASE thr' = "terminated" /\ UNCHANGED <<data, pos, failed>>
      BY <1>1, <2>2, <3>2 DEF Thr, Over
    <3>3. QED BY <2>6, <3>1, <3>2 DEF Fail
  <2>7. QED BY <2>1, <2>4, <2>5, <2>6
<1>10. CASE ParseEnds
  BY <1>1, <1>3, <1>10 DEF ParseEnds, Clear, serverVars, logVars, Thr
<1>11. CASE Stop
  BY <1>1, <1>11 DEF Stop, serverVars, logVars
<1>12. CASE Write
  <2>1. PICK l \in Lines : wire' = wire \o l.tokens /\ sent' = Append(sent, l.response)
    BY <1>12 DEF Write
  <2>2. Len(sent) < MaxLines /\ UNCHANGED <<data, pos, link, thr, stopped, given, failed>>
    BY <1>12 DEF Write, logVars
  <2>3. l.tokens \in Seq(Token)
    BY ReceiverAssumption
  <2>4. wire' \in Seq(Token)
    BY <1>1, <2>1, <2>3
  <2> DEFINE e == l.response
  <2>5. e \in Resp
    BY DEF Resp
  <2> HIDE DEF e
  <2>6. Append(sent, e) \in Seq(Resp) /\ Len(Append(sent, e)) = Len(sent) + 1
    BY <1>1, <2>5
  <2>7. sent' \in Seq(Resp) /\ Len(sent') <= MaxLines
    BY <1>2, <2>1, <2>2, <2>6 DEF e
  <2>8. QED BY <1>1, <2>2, <2>4, <2>7
<1>13. CASE Leave
  BY <1>1, <1>13 DEF Leave, logVars
<1>14. QED BY <1>5, <1>6, <1>7, <1>8, <1>9, <1>10, <1>11, <1>12, <1>13 DEF Next, Thread

\* The inductive invariant of the thread: the types, and that sent consists of
\* the responses that Lines mean.
THEOREM ReceiverInvariance == Spec => []RecvInv
<1>1. Init => RecvInv
  BY InitRecvInv
<1>2. RecvInv /\ [Next]_vars => RecvInv'
  <2>1. CASE UNCHANGED vars
    BY <2>1 DEF RecvInv, ReceiverTypeOK, vars, serverVars, logVars
  <2>2. QED BY <2>1, NextRecvInv
<1>3. QED BY <1>1, <1>2, PTL DEF Spec

\* Whatever is written, and however it is cut, the buffer holds what arrived
\* and curr_pos stays within it, one past its last byte at most.
THEOREM ReceiverTypeCorrect == Spec => []ReceiverTypeOK
<1>1. RecvInv => ReceiverTypeOK
  BY DEF RecvInv
<1>2. QED BY <1>1, ReceiverInvariance, PTL

\* A response that is handed over takes up at least one token that no response
\* before it did, and none that has not arrived: the parser neither repeats
\* itself nor stands still, whatever number a literal announces.
THEOREM ParsesOnward == Spec => ParserAdvances
<1>1. RecvInv /\ [Next]_vars => [given' # given => pos' > pos /\ pos' <= Len(data) + 1]_vars
  <2> SUFFICES ASSUME RecvInv, Next, given' # given
               PROVE  pos' > pos /\ pos' <= Len(data) + 1
    OBVIOUS
  <2>1. ParseOne
    BY DEF Next, Thread, Start, Receive, ReceiveEnd, ReceiveFails, ParseEnds, Stop, Write,
           Leave, Inspect, logVars
  <2>2. PICK r \in ParseNext : Deliver(r) \/ DeliverNull(r) \/ Fail(r)
    BY <2>1 DEF ParseOne
  <2>3. r.end >= 1 /\ pos' = r.end
    BY <2>2 DEF Deliver, DeliverNull, Fail, logVars
  <2>4. pos \in 1..Len(data) /\ Len(data) \in Nat /\ Data
    BY <2>1 DEF ParseOne, RecvInv, ReceiverTypeOK, Data
  <2>5. r.end \in Ends(pos + 1)
    BY <2>2, <2>4, ParseNextEnds DEF Ended
  <2>6. QED BY <2>3, <2>4, <2>5 DEF Ends, Thrown, Overrun
<1>2. QED BY <1>1, ReceiverInvariance, PTL DEF Spec, ParserAdvances
=============================================================================
