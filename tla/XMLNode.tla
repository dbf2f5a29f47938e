------------------------------- MODULE XMLNode -------------------------------
(***************************************************************************)
(* The tree of nodes (src/src/XMLNode.cc) and the three handlers with      *)
(* which it is built while expat reads a text (src/src/expat_parser.cc).   *)
(*                                                                         *)
(* A document is an element: a name, attributes, and a sequence of         *)
(* elements and pieces of text.  expat calls start, end and contents in    *)
(* the order of the text; it breaks a text at a line feed and at an        *)
(* entity, so that pieces may follow one another.                          *)
(***************************************************************************)
EXTENDS Integers, FiniteSets, Sequences

VARIABLES
    events,         \* the calls that expat makes of the text
    made,           \* how many of them it has made
    nodes,          \* the XMLNode objects; a pointer is a position in this sequence
    current_node,   \* dat->current_node
    level           \* dat->level

parserVars == <<events, made, nodes, current_node, level>>

NoNode == 0

Element(name, attrs, kids) ==
    [kind |-> "element", name |-> name, attributes |-> attrs, kids |-> kids]
Chars(text) == [kind |-> "chars", text |-> text]
IsElement(item) == item.kind = "element"
NoAttrs == << >>

(* How many elements are open after n calls, and what expat sees to: the   *)
(* first call is the start of the root, and there is nothing outside it.   *)
OfType(calls, type, n) == {i \in 1..n : calls[i].type = type}
Depth(calls, n) ==
    Cardinality(OfType(calls, "start", n)) - Cardinality(OfType(calls, "end", n))
Nested(calls) ==
    /\ \A n \in DOMAIN calls : calls[n].type \in {"start", "end", "contents"}
    /\ calls # << >> => calls[1].type = "start"
    /\ \A n \in 2..Len(calls) : Depth(calls, n - 1) > 0

ParserInit(calls) ==
    /\ events = calls
    /\ made = 0
    /\ nodes = << >>
    /\ current_node = NoNode
    /\ level = 0

Call == events[made + 1]
Called(type) == made < Len(events) /\ Call.type = type /\ made' = made + 1 /\ UNCHANGED events

(* add_child(), when there is a node to add to.                            *)
AddChildFirst(n, child) ==                                       \* mutant
    IF n = NoNode THEN nodes ELSE [nodes EXCEPT ![n].children = <<child>> \o @]
AddChild(n, child) ==
    IF n = NoNode THEN nodes ELSE [nodes EXCEPT ![n].children = Append(@, child)]

StartElement ==
    /\ Called("start")
    /\ LET this == Len(nodes) + 1
       IN  /\ nodes' = Append(AddChild(current_node, this),
                         [name |-> Call.name, attributes |-> Call.attributes, contents |-> << >>,
                          children |-> << >>, parent |-> current_node])
           /\ current_node' = this
    /\ level' = level + 1

(* The root stays the current node: parse_file() returns it.               *)
AboveRootAlways(n) == nodes[n].parent                            \* mutant
AboveRootLate(n) == IF level > 2 THEN nodes[n].parent ELSE n      \* mutant
AboveRoot(n) == IF level > 1 THEN nodes[n].parent ELSE n
EndElement ==
    /\ Called("end")
    /\ current_node' = AboveRoot(current_node)
    /\ level' = level - 1
    /\ UNCHANGED nodes

(* set_contents() replaces what an earlier piece has set.                  *)
Characters ==
    /\ Called("contents")
    /\ nodes' = [nodes EXCEPT ![current_node].contents = Call.text]
    /\ UNCHANGED <<current_node, level>>

Parse == StartElement \/ EndElement \/ Characters

(***************************************************************************)
(* What the readers of the tree call.                                      *)
(***************************************************************************)
Name(n) == nodes[n].name
Children(n) == nodes[n].children
HasAttribute(n, a) == a \in DOMAIN nodes[n].attributes
GetAttribute(n, a, default) == IF HasAttribute(n, a) THEN nodes[n].attributes[a] ELSE default

(* get_named_child(): the first child with the name, or NoNode.            *)
NamedChild(n, name) ==
    LET found == SelectSeq(Children(n), LAMBDA c : Name(c) = name)
    IN  IF found = << >> THEN NoNode ELSE Head(found)
=============================================================================
