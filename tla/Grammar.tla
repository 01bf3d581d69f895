------------------------------ MODULE Grammar ------------------------------
(***************************************************************************)
(* The lines of a server that the parser was written for, and what they    *)
(* mean: conditions with and without a tag, the data of a mailbox, and     *)
(* FETCH with one attribute.  Left out are PREAUTH and the continuation    *)
(* request, which the parser reads differently from what they mean.        *)
(*                                                                         *)
(* t is the sequence of the tokens of a line; a piece of it is given by    *)
(* its first position and the one behind its last.                         *)
(***************************************************************************)
EXTENDS ResponseParser

Digits(t, i, j) == i < j /\ \A k \in i..(j - 1) : t[k] \in Digit

\* The digits from i to j denote v, which is an int.
Denotes(t, i, j, v) ==
    /\ Digits(t, i, j)
    /\ \E f \in [0..(j - i) -> 0..IntMax] :
          /\ f[0] = 0 /\ f[j - i] = v
          /\ \A k \in 1..(j - i) : f[k] = 10 * f[k - 1] + Value[t[i + k - 1]]

Without(t, i, j, T) == \A k \in i..(j - 1) : t[k] \notin T

\* The rest of the line is CRLF, and there is none before it.
Ending(t, j) == j + 1 = Len(t) /\ t[j] = "CR" /\ t[j + 1] = "LF"
OneLine(t) == Len(t) > 2 /\ Ending(t, Len(t) - 1) /\ Without(t, 1, Len(t) - 1, {"CR", "LF"})

\* resp-text-code, as far as RespTextCode looks at it.
CodeIn(t, i, j) ==
    \/ j = i + 1 /\ t[i] \in {"ALERT", "READ-ONLY", "READ-WRITE"}
    \/ i + 2 < j /\ t[i] = "UNSEEN" /\ t[i + 1] = "SP" /\ Digits(t, i + 2, j)
    \/ i <= j /\ t[i] \notin {"UNSEEN", "ALERT", "READ-ONLY", "READ-WRITE"}
       /\ Without(t, i, j, {"]"})

\* resp-text; the text itself is never empty.
TextIn(t, i, j) ==
    \/ i < j /\ t[i] # "["
    \/ /\ t[i] = "["
       /\ \E m \in (i + 1)..(j - 3) :
             CodeIn(t, i + 1, m) /\ t[m] = "]" /\ t[m + 1] = "SP"

IsStatus(t, i, types) ==
    /\ i + 3 < Len(t) /\ t[i] \in types /\ t[i + 1] = "SP"
    /\ TextIn(t, i + 2, Len(t) - 1)

Starred(t) == Len(t) > 2 /\ t[1] = "*" /\ t[2] = "SP"

StatusLine(t, r) ==
    /\ Starred(t) /\ OneLine(t)
    /\ IsStatus(t, 3, {"OK", "NO", "BAD", "BYE"})
    /\ r = Status(t[3], <<>>)

TaggedLine(t, r) ==
    /\ OneLine(t)
    /\ \E k \in 2..Len(t) :
          /\ \A i \in 1..(k - 1) : t[i] \in Alnum
          /\ t[k] = "SP"
          /\ IsStatus(t, k + 1, {"OK", "NO", "BAD"})
          /\ r = Status(t[k + 1], SubSeq(t, 1, k - 1))

CountLine(t, r) ==
    /\ Starred(t) /\ OneLine(t)
    /\ Len(t) > 6 /\ Digits(t, 3, Len(t) - 3)
    /\ t[Len(t) - 3] = "SP" /\ t[Len(t) - 2] \in {"EXISTS", "RECENT"}
    /\ r = Status("OTHER", <<>>)

\* A list in brackets from i to j.
Bracketed(t, i, j, open, close) ==
    i + 1 < j /\ t[i] = open /\ t[j - 1] = close /\ Without(t, i + 1, j - 1, {close})

FlagsLine(t, r) ==
    /\ Starred(t) /\ OneLine(t)
    /\ Len(t) > 6 /\ t[3] = "FLAGS" /\ t[4] = "SP"
    /\ Bracketed(t, 5, Len(t) - 1, "(", ")")
    /\ r = Status("OTHER", <<>>)

\* e[i] is behind the i-th number.
SearchLine(t, r) ==
    /\ Starred(t) /\ OneLine(t)
    /\ Len(t) > 4 /\ t[3] = "SEARCH"
    /\ r = Parsed("SEARCH", <<>>, <<>>, r.ids) /\ r.ids \in Seq(Int)
    /\ \E e \in [0..Len(r.ids) -> 4..(Len(t) - 1)] :
          /\ e[0] = 4 /\ e[Len(r.ids)] = Len(t) - 1
          /\ \A k \in 1..Len(r.ids) :
                e[k - 1] < e[k] /\ t[e[k - 1]] = "SP" /\ Denotes(t, e[k - 1] + 1, e[k], r.ids[k])

\* A FETCH response of one attribute from i to j, with the text it carries.
FetchLine(t, r, i, j, text) ==
    /\ Starred(t)
    /\ 7 < i /\ i < j /\ Ending(t, j + 1)
    /\ Digits(t, 3, i - 4)
    /\ t[i - 4] = "SP" /\ t[i - 3] = "FETCH" /\ t[i - 2] = "SP" /\ t[i - 1] = "("
    /\ t[j] = ")"
    /\ r = Parsed("FETCH", <<>>, text, <<>>)

NoteLine(t, r) ==
    /\ OneLine(t)
    /\ \E i, j \in 1..Len(t) :
          /\ FetchLine(t, r, i, j, <<>>)
          /\ \/ t[i] = "UID" /\ t[i + 1] = "SP" /\ Digits(t, i + 2, j)
             \/ t[i] = "FLAGS" /\ t[i + 1] = "SP" /\ Bracketed(t, i + 2, j, "(", ")")

\* Whatever the text is, as long as its length says so and is an int.
BodyLine(t, r) ==
    \E i, j, s, m \in 1..Len(t) :
       /\ FetchLine(t, r, i, j, SubSeq(t, m + 3, j - 1))
       /\ t[i] = "BODY" /\ Bracketed(t, i + 1, s - 1, "[", "]") /\ t[s - 1] = "SP"
       /\ t[s] = "{" /\ t[m] = "}" /\ t[m + 1] = "CR" /\ t[m + 2] = "LF"
       /\ Denotes(t, s + 1, m, j - m - 3)
       /\ Without(t, 1, m + 1, {"CR", "LF"})

InGrammar(l) ==
    \/ StatusLine(l.tokens, l.response) \/ TaggedLine(l.tokens, l.response)
    \/ CountLine(l.tokens, l.response) \/ FlagsLine(l.tokens, l.response)
    \/ SearchLine(l.tokens, l.response)
    \/ NoteLine(l.tokens, l.response) \/ BodyLine(l.tokens, l.response)
=============================================================================
