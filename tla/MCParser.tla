------------------------------ MODULE MCParser ------------------------------
(***************************************************************************)
(* Every text of up to MaxCalls calls, complete or cut off by an error.    *)
(***************************************************************************)
EXTENDS Parser

CONSTANT MaxCalls

SomeNames == {"program", "cmd"}
NoneOrOne == {NoAttrs}
SomeStrings == {<<"sleep">>, <<"\n">>}
SomeCalls ==
    [type : {"start"}, name : SomeNames, attributes : NoneOrOne]
    \cup [type : {"end"}] \cup [type : {"contents"}, text : SomeStrings]

Longer(texts) == {t \in {Append(s, c) : s \in texts, c \in SomeCalls} : Nested(t)}
AllTexts ==
    LET OfLength[n \in 0..MaxCalls] == IF n = 0 THEN {<< >>} ELSE Longer(OfLength[n - 1])
    IN  UNION {OfLength[n] : n \in 0..MaxCalls}
=============================================================================
