--------------------------- MODULE ResponseParser ---------------------------
(***************************************************************************)
(* class ResponseParser: the backtracking recursive descent parser that    *)
(* cuts the received data into responses.                                  *)
(*                                                                         *)
(* The data is a sequence of tokens.  A keyword is one token, anything     *)
(* else one token per byte, so that a token can be cut off the data where  *)
(* a byte can; "x" is any letter that starts no keyword.  Within a         *)
(* literal only tokens of one byte occur.                                  *)
(*                                                                         *)
(* A rule maps a set of positions to a set of positions.  The sets have at *)
(* most one element: none when the rule returns false, which restores      *)
(* curr_pos; and Thrown or Overrun, which every rule passes on, when it    *)
(* does not return.                                                        *)
(***************************************************************************)
EXTENDS Integers, Sequences

CONSTANT IntMax    \* the largest int

ASSUME IntMaxIsNatural == IntMax \in Nat

VARIABLES
    data,    \* ResponseParser::data, also Receiver::received_data
    pos      \* curr_pos, counted from 1

\* The value of a digit; the digits left out behave alike.
Value == [d \in {"1", "2", "5"} |-> CASE d = "1" -> 1 [] d = "2" -> 2 [] d = "5" -> 5]
Digit == DOMAIN Value

Condition == {"OK", "NO", "BAD", "PREAUTH", "BYE"}
Keyword == Condition \cup {"SEARCH", "FETCH", "EXISTS", "RECENT", "FLAGS", "LIST",
                           "LSUB", "STATUS", "EXPUNGE", "ALERT", "UNSEEN", "READ-ONLY",
                           "READ-WRITE", "BODY", "STRUCTURE", "UID", "NIL",
                           "ENVELOPE", "INTERNALDATE", "RFC822"}
OneByte == Digit \cup {"x", "*", "+", "SP", "CR", "LF", "(", ")", "[", "]", "{", "}", "<"}
Token   == Keyword \cup OneByte
Alnum   == (Keyword \cup Digit \cup {"x"}) \ {"READ-ONLY", "READ-WRITE"}

\* A response as the parser builds it: tag and text are pieces of the data.
Parsed(type, tag, text, ids) == [type |-> type, tag |-> tag, text |-> text, ids |-> ids]
Status(type, tag) == Parsed(type, tag, <<>>, <<>>)

\* The unique_ptr that parse_continue_req leaves empty.
NullResponse == Status("NULL", <<>>)

Thrown  == 0     \* an exception
Overrun == -1    \* a read beyond the end of the data: undefined behaviour
-----------------------------------------------------------------------------
(* What the rules are made of. *)

\* What rule does from a position the parser has reached.
From(P, rule(_)) == UNION {IF p < 1 THEN {p} ELSE rule(p) : p \in P}

\* The first alternative that succeeds.  P is bound to R for TLC's sake: within
\* ENABLED it evaluates an argument wherever it occurs.
Either(P, Q) == UNION {IF R # {} THEN R ELSE Q : R \in {P}}

OneOf(T, P) ==
    LET rule(p) == IF p \in DOMAIN data /\ data[p] \in T THEN {p + 1} ELSE {}
    IN  From(P, rule)

Match(t, P) == OneOf({t}, P)

\* The first position from p on whose token is in T, or the end of the data.
Upto(T, p) ==
    CHOOSE q \in p..(Len(data) + 1) :
        /\ q \in DOMAIN data => data[q] \in T
        /\ \A i \in p..(q - 1) : data[i] \notin T

Span(T, P) == LET rule(p) == {Upto(Token \ T, p)} \ {p} IN From(P, rule)

\* What rules with a result return: where they end, and the result.
Yield(P, v) == {[end |-> p, value |-> v] : p \in P}

\* R, and then more as often as it succeeds, at most once for every token.
Repeat(R, more(_)) ==
    LET again[n \in 0..Len(data)] ==
            IF n = 0 THEN R
            ELSE UNION {Either(UNION {more(r) : r \in S}, S) : S \in {again[n - 1]}}
    IN  again[Len(data)]

Crlf(P) == Match("LF", Match("CR", P))

EndLine(R) == UNION {Yield(Crlf({r.end}), r.value) : r \in R}
-----------------------------------------------------------------------------
(* Numbers, texts and literals. *)

\* An int of the machine.
Wrap(n) == ((n + IntMax + 1) % (2 * (IntMax + 1))) - (IntMax + 1)

\* The number at p; 0 when there is none.
NumberAt(p) ==
    LET digits == Upto(Token \ Digit, p) - p
        number[n \in 0..digits] ==
            IF n = 0 THEN 0 ELSE Wrap(10 * number[n - 1] + Value[data[p + n - 1]])
    IN  number[digits]

Number(P) == Span(Digit, P)

\* The text runs to the end of the line; without one it leaves the data.
Text(P) ==
    LET end(p)  == Upto({"CR", "LF"}, p)
        rule(p) == IF end(p) > Len(data) THEN {Overrun} ELSE {end(p)} \ {p}
    IN  From(P, rule)

\* An opening bracket, and whatever follows as far as the next closing one.
Enclosed(open, close, P) ==
    LET rule(p) == IF Upto({close}, p) > Len(data) THEN {Thrown}
                   ELSE {Upto({close}, p) + 1}
    IN  From(Match(open, P), rule)

RespTextCode(P) ==
    LET known(p) == CASE data[p] = "UNSEEN" -> Number(Match("SP", {p + 1}))
                      [] data[p] \in {"ALERT", "READ-ONLY", "READ-WRITE"} -> {p + 1}
                      [] OTHER -> {Upto({"]"}, p)} \cap DOMAIN data
        rule(p) == IF p \in DOMAIN data THEN known(p) ELSE {}
    IN  From(P, rule)

\* Whether the code was understood is not looked at.
RespText(P) ==
    LET code == Match("[", P)
    IN  IF code = {} THEN Text(P)
        ELSE Text(Match("SP", Match("]", Either(RespTextCode(code), code))))

\* The length is not compared with what is there before the bytes are read;
\* afterwards only a negative length is found too short.
Literal(P) ==
    LET start(s)   == Crlf(Match("}", Either(Number({s}), {s})))
        read(p, n) == CASE p < 1 -> Yield({p}, <<>>)
                        [] p >= 1 /\ n < 0 -> Yield({Thrown}, <<>>)
                        [] p >= 1 /\ n >= 0 /\ p + n > Len(data) + 1 -> Yield({Overrun}, <<>>)
                        [] OTHER -> Yield({p + n}, SubSeq(data, p, p + n - 1))
    IN  UNION {UNION {read(p, NumberAt(s)) : p \in start(s)} : s \in Match("{", P)}

\* NIL is matched and then fails like everything that is not a literal.
NString(P) == Literal(P)
-----------------------------------------------------------------------------
(* The data of a mailbox and of a message. *)

MessageIdList(P) ==
    LET id(r, n) == Yield(Number({n}), Append(r.value, NumberAt(n) % (2 * (IntMax + 1))))
        more(r)  == UNION {id(r, n) : n \in Match("SP", {r.end})}
    IN  {r \in Repeat(Yield(P, <<>>), more) : r.end < 1 \/ Match("SP", {r.end}) = {}}

\* LIST and LSUB fail, and STATUS throws.
MailboxData(P) ==
    LET flags  == Enclosed("(", ")", Match("SP", Match("FLAGS", P)))
        status == From(Match("SP", Match("STATUS", P)), LAMBDA p : {Thrown})
        counts == OneOf({"EXISTS", "RECENT"}, Match("SP", Number(P)))
        search == MessageIdList(Match("SEARCH", P))
    IN  Either({[end |-> r.end, value |-> Parsed("SEARCH", <<>>, <<>>, r.value)] : r \in search},
               Yield(Either(flags, Either(status, counts)), Status("OTHER", <<>>)))

MsgAttDynamic(P) == Enclosed("(", ")", Match("SP", Match("FLAGS", P)))

\* text is what the attributes before contained.  A section must follow BODY,
\* and a string the section; everything else is "Not implemented".
MsgAttStatic(text, P) ==
    LET body    == Match("BODY", P)
        section == Enclosed("[", "]", body)
        unknown == Either(OneOf({"ENVELOPE", "INTERNALDATE", "RFC822"}, P),
                          Either(OneOf({"STRUCTURE", "SP"}, body), Match("<", section)))
    IN  IF unknown # {} THEN Yield({Thrown}, text)
        ELSE Either(NString(Match("SP", section)),
                    Yield(Number(Match("SP", Match("UID", P))), text))

Attribute(text, P) == Either(Yield(MsgAttDynamic(P), text), MsgAttStatic(text, P))

\* A space after the last attribute is skipped.
MsgAtt(P) ==
    LET more(r) == Attribute(r.value, Match("SP", {r.end}))
        first   == UNION {Attribute(<<>>, {p}) : p \in Match("(", P)}
        close(r) == Match(")", Either(Match("SP", {r.end}), {r.end}))
    IN  UNION {Yield(close(r), r.value) : r \in Repeat(first, more)}

MessageData(P) ==
    LET fetch(p) == {[end |-> r.end, value |-> Parsed("FETCH", <<>>, r.value, <<>>)] :
                        r \in MsgAtt(Match("SP", Match("FETCH", {p})))}
        kind(p)  == IF Match("EXPUNGE", {p}) = {} THEN fetch(p)
                    ELSE Yield({Thrown}, NullResponse)
    IN  UNION {kind(p) : p \in Match("SP", Number(P))}
-----------------------------------------------------------------------------
(* Responses. *)

\* type SP resp-text, for the type that is there.
CondOf(types, tag, P) ==
    UNION {Yield(RespText(Match("SP", Match(t, P))), Status(t, tag)) : t \in types}

RespCondState(tag, P) == CondOf({"OK", "NO", "BAD"}, tag, P)
RespCondBye(P)  == CondOf({"BYE"}, <<>>, P)
RespCondAuth(P) == CondOf({"OK", "PREAUTH"}, <<>>, P)

\* The star before every response without a tag.
Star(P) == Match("SP", Match("*", P))

ContinueReq(P) == Yield(Crlf(RespText(Match("SP", Match("+", P)))), NullResponse)

\* Mutant: the CRLF is left behind.
ResponseDataOpen(P) ==
    LET rule(Q) == Either(RespCondState(<<>>, Q),
                   Either(RespCondBye(Q),
                   Either(MailboxData(Q), MessageData(Q))))
    IN  UNION {rule({p}) : p \in Star(P)}

ResponseData(P) ==
    LET rule(Q) == Either(RespCondState(<<>>, Q),
                   Either(RespCondBye(Q),
                   Either(MailboxData(Q), MessageData(Q))))
    IN  UNION {EndLine(rule({p})) : p \in Star(P)}

ResponseTagged(P) ==
    LET tagged(p, q) == RespCondState(SubSeq(data, p, q - 1), Match("SP", {q}))
    IN  EndLine(UNION {UNION {tagged(p, q) : q \in Span(Alnum, {p})} : p \in P})

\* A BYE and a greeting end before the CRLF.
ResponseFatal(P) == RespCondBye(Star(P))

\* Mutant: the position is restored on success as well.
GreetingStays(P) == UNION {Yield(P, r.value) : r \in RespCondAuth(Star(P))}

Greeting(P) == RespCondAuth(Star(P))

ResponseDone(P) == Either(ResponseTagged(P), ResponseFatal(P))

Response(P) == Either(ContinueReq(P), Either(ResponseData(P), ResponseDone(P)))

\* parse_next: an exception when no rule applies.
ParseNext ==
    LET found == Either(Response({pos}), Greeting({pos}))
    IN  Either(found, Yield({Thrown}, NullResponse))
=============================================================================
