-------------------------------- MODULE Util --------------------------------
(***************************************************************************)
(* The functions on texts of src/src/util.cc that the configuration and    *)
(* the start of a program use.  A text is a sequence of short strings: a   *)
(* separator, a quote, a number or any other word is one of them.          *)
(***************************************************************************)
EXTENDS Integers, SequencesExt

CONSTANT Numerals       \* the words that are numbers, with their values

ASSUME UtilAssumption == \A w \in DOMAIN Numerals : Numerals[w] \in Nat

(* Tokenize(): the parts between the delimiters, none for an empty text.   *)
Cuts(buffer, delimiter) ==
    SelectSeq([i \in 1..Len(buffer) |-> i], LAMBDA i : buffer[i] = delimiter)
Between(buffer, cuts) ==
    [k \in 1..(Len(cuts) - 1) |-> SubSeq(buffer, cuts[k] + 1, cuts[k + 1] - 1)]
TokenizeCut(buffer, delimiter) ==                                \* mutant
    Between(buffer, <<0>> \o Cuts(buffer, delimiter))
Tokenize(buffer, delimiter) ==
    IF buffer = << >> THEN << >>
    ELSE Between(buffer, <<0>> \o Cuts(buffer, delimiter) \o <<Len(buffer) + 1>>)

(* a.erase( remove(a.begin(), a.end(), ' '), a.end() )                     *)
Blank == " "
NoBlanks(text) == SelectSeq(text, LAMBDA t : t # Blank)

(* std::stoi() and std::stol(): leading blanks and whatever follows the    *)
(* number are left out; they throw when there is no number.                *)
Number(text) ==
    LET b == {i \in DOMAIN text : text[i] # Blank}
        s == IF b = {} THEN Len(text) + 1 ELSE CHOOSE i \in b : \A j \in b : i <= j
        negative == s < Len(text) /\ text[s] = "-"
        d == IF negative THEN s + 1 ELSE s
    IN  IF d > Len(text) \/ text[d] \notin DOMAIN Numerals THEN << >>
        ELSE <<(IF negative THEN -1 ELSE 1) * Numerals[text[d]]>>
Throws(text) == Number(text) = << >>
Stoi(text) == Number(text)[1]

(***************************************************************************)
(* arg_split().  A blank ends an argument unless it is between double      *)
(* quotes, which remain in the argument; the loop that is meant to look    *)
(* for the other single quote never runs.  The scan behind an unclosed     *)
(* double quote leaves the buffer: such a command is not split here.       *)
(***************************************************************************)
Quote == "\""
InString(buf, s, i) == Cardinality({j \in s..(i - 1) : buf[j] = Quote}) % 2 = 1
Least(S) == CHOOSE i \in S : \A j \in S : i <= j
SkipBlanks(buf, i) == Least({j \in i..(Len(buf) + 1) : j > Len(buf) \/ buf[j] # Blank})
ArgEndQuoted(buf, s) ==                                          \* mutant
    Least({e \in s..(Len(buf) + 1) : e > Len(buf) \/ buf[e] = Blank})
ArgEnd(buf, s) ==
    Least({e \in s..(Len(buf) + 1) : ~InString(buf, s, e) /\ (e > Len(buf) \/ buf[e] = Blank)})
ArgSplit(buf) ==
    LET from[i \in 1..(Len(buf) + 1)] ==
          IF i > Len(buf) THEN << >>
          ELSE LET s == SkipBlanks(buf, i)
               IN  <<SubSeq(buf, s, ArgEnd(buf, s) - 1)>> \o from[ArgEnd(buf, s)]
    IN  from[1]
=============================================================================
