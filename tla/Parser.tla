------------------------------- MODULE Parser -------------------------------
(***************************************************************************)
(* The parser alone, for any text: parse_file() of src/src/expat_parser.cc *)
(* until the end of the text, or until expat finds an error in it and      *)
(* PETeR ends.  A text is the calls that expat makes of it.                *)
(***************************************************************************)
EXTENDS XMLNode

CONSTANTS
    Names,          \* the names of elements
    Attributes,     \* what the attributes of an element can be
    Strings,        \* the pieces of text
    Texts           \* the texts, each a sequence of calls, up to the error if there is one

StartCall == [type : {"start"}, name : Names, attributes : Attributes]
EndCall == [type : {"end"}]
ContentsCall == [type : {"contents"}, text : Strings]

IsText(t) == t \in Seq(StartCall \cup EndCall \cup ContentsCall) /\ Nested(t)

ASSUME TextsAssumption == \A t \in Texts : IsText(t)

Init == \E t \in Texts : ParserInit(t)
ParserSpec == Init /\ [][Parse]_parserVars

-----------------------------------------------------------------------------
Node ==
    [name : Names, attributes : Attributes, contents : Strings \cup {<< >>},
     children : Seq(Nat), parent : Nat]

(* The types that XMLNode.h and expat_parser.h give; and the current node  *)
(* is there as soon as there is a node, so that end() and contents() never *)
(* follow a null pointer (expat_parser.cc 72-88).                          *)
ParserTypeOK ==
    /\ IsText(events)
    /\ made \in 0..Len(events)
    /\ nodes \in Seq(Node)
    /\ current_node \in (IF made = 0 THEN {NoNode} ELSE 1..Len(nodes))
    /\ level \in Nat

(* Call i starts the innermost of the elements that are open after n calls.*)
Innermost(calls, i, n) ==
    /\ i \in OfType(calls, "start", n)
    /\ Depth(calls, n) = Depth(calls, i)
    /\ \A k \in i..n : Depth(calls, k) >= Depth(calls, i)

(* Of the first n calls, those of a type directly in the element of call i.*)
Inside(calls, i, n, type) == {j \in OfType(calls, type, n) : Innermost(calls, i, j - 1)}

(* The elements have their nodes in the order of their start.              *)
NodeAt(calls, i) == Cardinality(OfType(calls, "start", i))

(* The current node is that of the innermost open element: with the last   *)
(* end it is that of the root, which parse_file() returns (the test of the *)
(* level, expat_parser.cc 75-77).                                          *)
CurrentIsInnermost ==
    IF made = 0 THEN current_node = NoNode
    ELSE IF Depth(events, made) = 0 THEN current_node = 1
    ELSE \E i \in OfType(events, "start", made) :
           Innermost(events, i, made) /\ current_node = NodeAt(events, i)

(* What a node must be after n calls, when call i is its start.            *)
OwnText(calls, i, n, node) ==
    LET own == Inside(calls, i, n, "contents")
    IN  IF own = {} THEN node.contents = << >>
        ELSE \E j \in own : (\A k \in own : k <= j) /\ node.contents = calls[j].text
OwnChildren(calls, i, n, node) ==
    /\ {node.children[k] : k \in DOMAIN node.children}
         = {NodeAt(calls, j) : j \in Inside(calls, i, n, "start")}
    /\ \A k, l \in DOMAIN node.children : k < l => node.children[k] < node.children[l]
OwnParent(calls, i, node) ==
    IF i = 1 THEN node.parent = NoNode
    ELSE \E h \in OfType(calls, "start", i - 1) :
           Innermost(calls, h, i - 1) /\ node.parent = NodeAt(calls, h)

(* However elements are nested and their texts are cut, each element has   *)
(* one node, with its name and attributes, under the node of the element   *)
(* around it; its children are the elements directly in it, in the order   *)
(* of the text, and its contents the last piece of text directly in it     *)
(* (expat_parser.cc 53-88, XMLNode.cc 259-263).                            *)
TreeAsSent ==
    /\ Len(nodes) = NodeAt(events, made)
    /\ \A i \in OfType(events, "start", made) :
         LET node == nodes[NodeAt(events, i)]
         IN  /\ node.name = events[i].name /\ node.attributes = events[i].attributes
             /\ OwnText(events, i, made, node)
             /\ OwnChildren(events, i, made, node)
             /\ OwnParent(events, i, node)
=============================================================================
