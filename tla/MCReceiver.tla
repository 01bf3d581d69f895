----------------------------- MODULE MCReceiver -----------------------------
(* The lines a server may write.                                           *)
EXTENDS Receiver, Grammar, SequencesExt

End == <<"CR", "LF">>
Line(tokens, response) == [tokens |-> tokens \o End, response |-> response]
StarLine(tokens, response) == Line(<<"*", "SP">> \o tokens, response)

\* The message whose text is the literal.
Body(literal, text) ==
    StarLine(<<"1", "SP", "FETCH", "SP", "(", "BODY", "[", "]", "SP">> \o literal \o <<")">>,
             Parsed("FETCH", <<>>, text, <<>>))

\* Status lines and mailbox data.
Short == {
    StarLine(<<"OK", "SP", "[", "UNSEEN", "SP", "1", "]", "SP", "x">>, Status("OK", <<>>)),
    Line(<<"x", "1", "SP", "NO", "SP", "x">>, Status("NO", <<"x", "1">>)),
    StarLine(<<"SEARCH", "SP", "1", "SP", "2">>, Parsed("SEARCH", <<>>, <<>>, <<1, 2>>)),
    StarLine(<<"FLAGS", "SP", "(", "x", ")">>, Status("OTHER", <<>>)),
    StarLine(<<"1", "SP", "FETCH", "SP", "(", "UID", "SP", "1", ")">>,
             Parsed("FETCH", <<>>, <<>>, <<>>)) }

\* A body that holds a CRLF.
Bodies == { Body(<<"{", "2", "}", "CR", "LF", "CR", "LF">>, <<"CR", "LF">>) }

\* A length beyond the largest int, a greeting and a continuation.
Odd == {
    Body(<<"{", "5", "}", "CR", "LF">> \o [i \in 1..5 |-> "x"], [i \in 1..5 |-> "x"]),
    StarLine(<<"PREAUTH", "SP", "x">>, Status("PREAUTH", <<>>)),
    Line(<<"+", "SP", "x">>, NullResponse) }

EveryLine  == Short \cup Bodies \cup Odd
SoundLines == Short \cup Bodies

ASSUME SoundLinesAreGrammatical == \A l \in SoundLines : InGrammar(l)
=============================================================================
