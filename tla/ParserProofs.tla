---------------------------- MODULE ParserProofs ----------------------------
(***************************************************************************)
(* What TLAPS proves of the parser: for every text that expat reads, the   *)
(* tree of nodes is the text.                                              *)
(*                                                                         *)
(* The argument: level counts the open elements, the current node is that  *)
(* of the innermost one, and there is only one such, so that a start or a  *)
(* piece of text goes where it belongs; and of the calls before, no node   *)
(* changes its mind.                                                       *)
(***************************************************************************)
EXTENDS Parser, FiniteSetTheorems, SequenceTheorems, TLAPS

-----------------------------------------------------------------------------
(* The calls of a type, one call after the other.                          *)
LEMMA OfTypeStep ==
    ASSUME NEW calls, NEW type, NEW n \in Nat
    PROVE  /\ OfType(calls, type, n + 1)
                = OfType(calls, type, n) \cup (IF calls[n + 1].type = type THEN {n + 1} ELSE {})
           /\ n + 1 \notin OfType(calls, type, n)
<1>1. 1..(n + 1) = 1..n \cup {n + 1} /\ n + 1 \notin 1..n
    OBVIOUS
<1> QED BY <1>1 DEF OfType

LEMMA OfTypeMore ==
    ASSUME NEW calls, NEW n \in Nat, NEW type, calls[n + 1].type = type
    PROVE  OfType(calls, type, n + 1) = OfType(calls, type, n) \cup {n + 1}
BY OfTypeStep

LEMMA OfTypeSame ==
    ASSUME NEW calls, NEW n \in Nat, NEW type, calls[n + 1].type # type
    PROVE  OfType(calls, type, n + 1) = OfType(calls, type, n)
<1>1. OfType(calls, type, n + 1) = OfType(calls, type, n) \cup {}
    BY OfTypeStep
<1> QED BY <1>1

LEMMA OfTypeFinite ==
    ASSUME NEW calls, NEW type, NEW n \in Nat
    PROVE  /\ IsFiniteSet(OfType(calls, type, n))
           /\ Cardinality(OfType(calls, type, n)) \in Nat
<1>1. IsFiniteSet(1..n)
    BY FS_Interval
<1>2. OfType(calls, type, n) \subseteq 1..n
    BY DEF OfType
<1>3. IsFiniteSet(OfType(calls, type, n))
    BY <1>1, <1>2, FS_Subset
<1> QED BY <1>3, FS_CardinalityType

LEMMA CountStep ==
    ASSUME NEW calls, NEW type, NEW n \in Nat
    PROVE  Cardinality(OfType(calls, type, n + 1))
             = Cardinality(OfType(calls, type, n)) + IF calls[n + 1].type = type THEN 1 ELSE 0
<1>1. CASE calls[n + 1].type = type
    <2>1. OfType(calls, type, n + 1) = OfType(calls, type, n) \cup {n + 1}
        BY <1>1, OfTypeMore
    <2>2. Cardinality(OfType(calls, type, n) \cup {n + 1})
            = Cardinality(OfType(calls, type, n)) + 1
        BY OfTypeStep, OfTypeFinite, FS_AddElement
    <2> QED BY <1>1, <2>1, <2>2
<1>2. CASE calls[n + 1].type # type
    <2>1. OfType(calls, type, n + 1) = OfType(calls, type, n)
        BY <1>2, OfTypeSame
    <2> QED BY <1>2, <2>1, OfTypeFinite
<1> QED BY <1>1, <1>2

LEMMA NoneYet ==
    ASSUME NEW calls
    PROVE  Depth(calls, 0) = 0 /\ NodeAt(calls, 0) = 0
<1>1. \A type : OfType(calls, type, 0) = {}
    BY DEF OfType
<1>2. Cardinality({}) = 0
    BY FS_EmptySet
<1> QED BY <1>1, <1>2 DEF Depth, NodeAt

LEMMA DepthStep ==
    ASSUME NEW calls, NEW n \in Nat
    PROVE  /\ Depth(calls, n) \in Int
           /\ calls[n + 1].type = "start" => Depth(calls, n + 1) = Depth(calls, n) + 1
           /\ calls[n + 1].type = "end" => Depth(calls, n + 1) = Depth(calls, n) - 1
           /\ calls[n + 1].type = "contents" => Depth(calls, n + 1) = Depth(calls, n)
<1>1. /\ Cardinality(OfType(calls, "start", n)) \in Nat
      /\ Cardinality(OfType(calls, "end", n)) \in Nat
    BY OfTypeFinite
<1>2. Cardinality(OfType(calls, "start", n + 1))
        = Cardinality(OfType(calls, "start", n)) + IF calls[n + 1].type = "start" THEN 1 ELSE 0
    BY CountStep
<1>3. Cardinality(OfType(calls, "end", n + 1))
        = Cardinality(OfType(calls, "end", n)) + IF calls[n + 1].type = "end" THEN 1 ELSE 0
    BY CountStep
<1> QED BY <1>1, <1>2, <1>3 DEF Depth

LEMMA NodeAtStep ==
    ASSUME NEW calls, NEW n \in Nat
    PROVE  /\ NodeAt(calls, n) \in Nat
           /\ NodeAt(calls, n + 1) = NodeAt(calls, n) + IF calls[n + 1].type = "start" THEN 1 ELSE 0
BY CountStep, OfTypeFinite DEF NodeAt

(* Nodes are numbered in the order of the starts.                          *)
LEMMA NodeAtOrder ==
    ASSUME NEW calls, NEW i \in Nat, NEW j \in Nat, i <= j
    PROVE  NodeAt(calls, i) <= NodeAt(calls, j)
<1>1. OfType(calls, "start", i) \subseteq OfType(calls, "start", j)
    BY DEF OfType
<1> QED BY <1>1, OfTypeFinite, FS_Subset DEF NodeAt

LEMMA NodeAtStrict ==
    ASSUME NEW calls, NEW i \in Nat, NEW n \in Nat, NEW j \in OfType(calls, "start", n), i < j
    PROVE  NodeAt(calls, i) < NodeAt(calls, j)
<1>1. j \in Nat /\ j - 1 \in Nat /\ j = (j - 1) + 1 /\ i <= j - 1 /\ calls[j].type = "start"
    BY DEF OfType
<1>2. NodeAt(calls, j) = NodeAt(calls, j - 1) + 1
    BY <1>1, NodeAtStep
<1>3. NodeAt(calls, i) <= NodeAt(calls, j - 1)
    BY <1>1, NodeAtOrder
<1> QED BY <1>1, <1>2, <1>3, NodeAtStep

LEMMA NodeAtRange ==
    ASSUME NEW calls, NEW n \in Nat, NEW i \in OfType(calls, "start", n)
    PROVE  NodeAt(calls, i) \in 1..NodeAt(calls, n)
<1>1. i \in Nat /\ 0 < i /\ i <= n
    BY DEF OfType
<1>2. NodeAt(calls, 0) < NodeAt(calls, i)
    BY <1>1, NodeAtStrict
<1>3. NodeAt(calls, i) <= NodeAt(calls, n)
    BY <1>1, NodeAtOrder
<1> QED BY <1>1, <1>2, <1>3, NoneYet, NodeAtStep

-----------------------------------------------------------------------------
(* The innermost open element: there is one at most, ...                   *)
LEMMA StartAbove ==
    ASSUME NEW calls, NEW n \in Nat, NEW i, NEW j,
           Innermost(calls, i, n), Innermost(calls, j, n), i < j
    PROVE  FALSE
<1>1. i \in 1..n /\ j \in 1..n /\ calls[j].type = "start" /\ j - 1 \in Nat /\ j = (j - 1) + 1
    BY DEF Innermost, OfType
<1>2. Depth(calls, j) = Depth(calls, j - 1) + 1
    BY <1>1, DepthStep
<1>3. Depth(calls, j - 1) >= Depth(calls, i)
    BY <1>1 DEF Innermost
<1>4. Depth(calls, i) = Depth(calls, j)
    BY DEF Innermost
<1>5. Depth(calls, j - 1) \in Int /\ Depth(calls, j) \in Int
    BY <1>1, DepthStep
<1> QED BY <1>2, <1>3, <1>4, <1>5

LEMMA InnermostOne ==
    ASSUME NEW calls, NEW n \in Nat, NEW i, NEW j, Innermost(calls, i, n), Innermost(calls, j, n)
    PROVE  i = j
<1>1. i \in Int /\ j \in Int
    BY DEF Innermost, OfType
<1> QED BY <1>1, StartAbove

(* ... a start makes one, text leaves it, and the end leaves the element   *)
(* around it.                                                              *)
LEMMA InnermostStart ==
    ASSUME NEW calls, NEW n \in Nat, calls[n + 1].type = "start"
    PROVE  Innermost(calls, n + 1, n + 1)
<1>1. \A k \in (n + 1)..(n + 1) : k = n + 1
    OBVIOUS
<1>2. n + 1 \in OfType(calls, "start", n + 1)
    BY DEF OfType
<1>3. Depth(calls, n + 1) \in Int
    BY DepthStep
<1> QED BY <1>1, <1>2, <1>3 DEF Innermost

LEMMA InnermostText ==
    ASSUME NEW calls, NEW n \in Nat, NEW i, calls[n + 1].type = "contents", Innermost(calls, i, n)
    PROVE  Innermost(calls, i, n + 1)
<1>1. Depth(calls, n + 1) = Depth(calls, n) /\ Depth(calls, n) \in Int
    BY DepthStep
<1>2. i \in OfType(calls, "start", n + 1) /\ i \in 1..n
    BY DEF Innermost, OfType
<1>3. \A k \in i..(n + 1) : k \in i..n \/ k = n + 1
    BY <1>2
<1> QED BY <1>1, <1>2, <1>3 DEF Innermost

LEMMA InnermostEnd ==
    ASSUME NEW calls, NEW n \in Nat, NEW i, NEW h,
           calls[n + 1].type = "end", Innermost(calls, i, n), Innermost(calls, h, i - 1)
    PROVE  Innermost(calls, h, n + 1)
<1>1. i \in 1..n /\ calls[i].type = "start" /\ i - 1 \in Nat /\ i = (i - 1) + 1
    BY DEF Innermost, OfType
<1>2. h \in 1..(i - 1) /\ h \in OfType(calls, "start", n + 1)
    BY <1>1 DEF Innermost, OfType
<1>3. /\ Depth(calls, n + 1) = Depth(calls, n) - 1
      /\ Depth(calls, i) = Depth(calls, i - 1) + 1
      /\ Depth(calls, n) = Depth(calls, i)
      /\ Depth(calls, i - 1) = Depth(calls, h)
    BY <1>1, DepthStep DEF Innermost
<1>4. \A k \in Nat : Depth(calls, k) \in Int
    BY DepthStep
<1>5. \A k \in h..(i - 1) : Depth(calls, k) >= Depth(calls, h)
    BY DEF Innermost
<1>6. \A k \in i..n : Depth(calls, k) >= Depth(calls, i)
    BY DEF Innermost
<1>7. \A k \in h..(n + 1) : k \in h..(i - 1) \/ k \in i..n \/ k = n + 1
    BY <1>1, <1>2
<1>8. h \in Nat /\ i \in Nat
    BY <1>1, <1>2
<1>9. \A k \in h..(n + 1) : Depth(calls, k) >= Depth(calls, h)
    BY <1>3, <1>4, <1>5, <1>6, <1>7, <1>8
<1> QED BY <1>2, <1>3, <1>4, <1>8, <1>9 DEF Innermost

(* What a call adds to the element it is in, and to no other.              *)
LEMMA InsideSame ==
    ASSUME NEW calls, NEW n \in Nat, NEW i, NEW type,
           calls[n + 1].type # type \/ ~Innermost(calls, i, n)
    PROVE  Inside(calls, i, n + 1, type) = Inside(calls, i, n, type)
<1>1. (n + 1) - 1 = n
    OBVIOUS
<1>2. CASE calls[n + 1].type # type
    <2>1. OfType(calls, type, n + 1) = OfType(calls, type, n)
        BY <1>2, OfTypeSame
    <2> QED BY <2>1 DEF Inside
<1>3. CASE calls[n + 1].type = type /\ ~Innermost(calls, i, n)
    <2>1. OfType(calls, type, n + 1) = OfType(calls, type, n) \cup {n + 1}
        BY <1>3, OfTypeMore
    <2>2. ~Innermost(calls, i, (n + 1) - 1)
        BY <1>1, <1>3
    <2> QED BY <2>1, <2>2 DEF Inside
<1> QED BY <1>2, <1>3

LEMMA InsideMore ==
    ASSUME NEW calls, NEW n \in Nat, NEW i, NEW type,
           calls[n + 1].type = type, Innermost(calls, i, n)
    PROVE  Inside(calls, i, n + 1, type) = Inside(calls, i, n, type) \cup {n + 1}
<1>1. (n + 1) - 1 = n
    OBVIOUS
<1>2. OfType(calls, type, n + 1) = OfType(calls, type, n) \cup {n + 1}
    BY OfTypeMore
<1>3. Innermost(calls, i, (n + 1) - 1)
    BY <1>1
<1> QED BY <1>2, <1>3 DEF Inside

LEMMA InsideNew ==
    ASSUME NEW calls, NEW n \in Nat, NEW type
    PROVE  Inside(calls, n + 1, n + 1, type) = {}
<1>1. \A j \in OfType(calls, type, n + 1) : j \in 1..(n + 1)
    BY DEF OfType
<1>2. \A j \in 1..(n + 1) : ~Innermost(calls, n + 1, j - 1)
    BY DEF Innermost, OfType
<1> QED BY <1>1, <1>2 DEF Inside

-----------------------------------------------------------------------------
(* The invariant, and the parts of it that look at one node.               *)
AsSent(calls, i, n, node) ==
    /\ node.name = calls[i].name /\ node.attributes = calls[i].attributes
    /\ OwnText(calls, i, n, node)
    /\ OwnChildren(calls, i, n, node)
    /\ OwnParent(calls, i, node)

ParserInv ==
    /\ ParserTypeOK
    /\ level = Depth(events, made)
    /\ CurrentIsInnermost
    /\ TreeAsSent

LEMMA EachAsSent ==
    ASSUME TreeAsSent, NEW i \in OfType(events, "start", made)
    PROVE  AsSent(events, i, made, nodes[NodeAt(events, i)])
BY DEF TreeAsSent, AsSent

(* A node that a call does not touch stays right when the call is in       *)
(* another element, or ends one.                                           *)
LEMMA SameText ==
    ASSUME NEW calls, NEW i, NEW n, NEW node, NEW next,
           node.contents = next.contents, OwnText(calls, i, n, node),
           Inside(calls, i, n + 1, "contents") = Inside(calls, i, n, "contents")
    PROVE  OwnText(calls, i, n + 1, next)
BY DEF OwnText

LEMMA SameChildren ==
    ASSUME NEW calls, NEW i, NEW n, NEW node, NEW next,
           node.children = next.children, OwnChildren(calls, i, n, node),
           Inside(calls, i, n + 1, "start") = Inside(calls, i, n, "start")
    PROVE  OwnChildren(calls, i, n + 1, next)
BY DEF OwnChildren

LEMMA SameParent ==
    ASSUME NEW calls, NEW i, NEW node, NEW next,
           node.parent = next.parent, OwnParent(calls, i, node)
    PROVE  OwnParent(calls, i, next)
BY DEF OwnParent

LEMMA SameAsSent ==
    ASSUME NEW calls, NEW n \in Nat, NEW i, NEW node, AsSent(calls, i, n, node),
           ~Innermost(calls, i, n) \/ calls[n + 1].type = "end"
    PROVE  AsSent(calls, i, n + 1, node)
<1>1. /\ Inside(calls, i, n + 1, "contents") = Inside(calls, i, n, "contents")
      /\ Inside(calls, i, n + 1, "start") = Inside(calls, i, n, "start")
    BY InsideSame
<1> QED BY <1>1, SameText, SameChildren DEF AsSent

(* A piece of text replaces the contents, a child comes behind the others. *)
LEMMA TextAdded ==
    ASSUME NEW calls, NEW n \in Nat, NEW i, NEW node, NEW next,
           calls[n + 1].type = "contents", Innermost(calls, i, n), AsSent(calls, i, n, node),
           next.name = node.name, next.attributes = node.attributes,
           next.children = node.children, next.parent = node.parent,
           next.contents = calls[n + 1].text
    PROVE  AsSent(calls, i, n + 1, next)
<1>1. Inside(calls, i, n + 1, "contents") = Inside(calls, i, n, "contents") \cup {n + 1}
    BY InsideMore
<1>2. Inside(calls, i, n + 1, "start") = Inside(calls, i, n, "start")
    BY InsideSame
<1>3. \A k \in Inside(calls, i, n, "contents") : k <= n + 1
    BY DEF Inside, OfType
<1>4. OwnText(calls, i, n + 1, next)
    <2>1. n + 1 \in Inside(calls, i, n + 1, "contents")
        BY <1>1
    <2>2. \A k \in Inside(calls, i, n + 1, "contents") : k <= n + 1
        BY <1>1, <1>3
    <2> QED BY <2>1, <2>2 DEF OwnText
<1> QED BY <1>2, <1>4, SameChildren, SameParent DEF AsSent

GetsChild(node, next, child) ==
    /\ next.name = node.name /\ next.attributes = node.attributes
    /\ next.contents = node.contents /\ next.parent = node.parent
    /\ node.children \in Seq(Nat) /\ next.children = Append(node.children, child)

LEMMA ChildAdded ==
    ASSUME NEW calls, NEW n \in Nat, NEW i, NEW node, NEW next,
           calls[n + 1].type = "start", Innermost(calls, i, n), AsSent(calls, i, n, node),
           GetsChild(node, next, NodeAt(calls, n + 1))
    PROVE  AsSent(calls, i, n + 1, next)
<1>1. Inside(calls, i, n + 1, "start") = Inside(calls, i, n, "start") \cup {n + 1}
    <2>1. calls[n + 1].type = "start" /\ Innermost(calls, i, n)
        OBVIOUS
    <2> QED BY <2>1, InsideMore
<1>2. Inside(calls, i, n + 1, "contents") = Inside(calls, i, n, "contents")
    BY InsideSame
<1> DEFINE kids == node.children
           new == NodeAt(calls, n + 1)
<1>3. /\ {kids[k] : k \in DOMAIN kids} = {NodeAt(calls, j) : j \in Inside(calls, i, n, "start")}
      /\ \A k, l \in DOMAIN kids : k < l => kids[k] < kids[l]
    BY DEF AsSent, OwnChildren
<1>4. kids \in Seq(Nat) /\ DOMAIN kids = 1..Len(kids) /\ Len(kids) \in Nat
    BY DEF GetsChild
<1>5. \A k \in DOMAIN kids : kids[k] < new
    <2> TAKE k \in DOMAIN kids
    <2>1. PICK j \in Inside(calls, i, n, "start") : kids[k] = NodeAt(calls, j)
        BY <1>3
    <2>2. j \in Nat /\ j < n + 1
        BY DEF Inside, OfType
    <2>3. n + 1 \in OfType(calls, "start", n + 1)
        BY DEF OfType
    <2> QED BY <2>1, <2>2, <2>3, NodeAtStrict
<1>6. new \in Nat
    BY NodeAtStep
<1>7. /\ Append(kids, new) \in Seq(Nat)
      /\ DOMAIN Append(kids, new) = 1..(Len(kids) + 1)
      /\ \A k \in 1..Len(kids) : Append(kids, new)[k] = kids[k]
      /\ Append(kids, new)[Len(kids) + 1] = new
    BY <1>4, <1>6
<1> HIDE DEF kids, new
<1>8. {Append(kids, new)[k] : k \in DOMAIN Append(kids, new)}
         = {kids[k] : k \in DOMAIN kids} \cup {new}
    BY <1>4, <1>7
<1>9. {NodeAt(calls, j) : j \in Inside(calls, i, n + 1, "start")}
         = {NodeAt(calls, j) : j \in Inside(calls, i, n, "start")} \cup {new}
    BY <1>1 DEF new
<1>10. \A k, l \in DOMAIN Append(kids, new) :
         k < l => Append(kids, new)[k] < Append(kids, new)[l]
    BY <1>3, <1>4, <1>5, <1>7
<1>11. OwnChildren(calls, i, n + 1, next)
    <2>1. next.children = Append(kids, new)
        BY DEF kids, new, GetsChild
    <2> QED BY <1>3, <1>8, <1>9, <1>10, <2>1 DEF OwnChildren
<1> QED BY <1>2, <1>11, SameText, SameParent DEF AsSent, GetsChild

(* A new node is right.                                                    *)
LEMMA FreshAsSent ==
    ASSUME NEW calls, NEW n \in Nat, NEW node, calls[n + 1].type = "start",
           node.name = calls[n + 1].name, node.attributes = calls[n + 1].attributes,
           node.contents = << >>, node.children = << >>,
           OwnParent(calls, n + 1, node)
    PROVE  AsSent(calls, n + 1, n + 1, node)
<1>1. /\ Inside(calls, n + 1, n + 1, "contents") = {}
      /\ Inside(calls, n + 1, n + 1, "start") = {}
    BY InsideNew
<1>2. DOMAIN << >> = {}
    OBVIOUS
<1>3. OwnText(calls, n + 1, n + 1, node)
    BY <1>1 DEF OwnText
<1>4. OwnChildren(calls, n + 1, n + 1, node)
    BY <1>1, <1>2 DEF OwnChildren
<1> QED BY <1>3, <1>4 DEF AsSent

-----------------------------------------------------------------------------
(* What expat makes of a text.                                             *)
LEMMA TextFacts ==
    ASSUME ParserTypeOK, made < Len(events)
    PROVE  /\ made \in Nat /\ made + 1 \in DOMAIN events /\ made + 1 \in 1..Len(events)
           /\ Call = events[made + 1]
           /\ Call \in StartCall \cup EndCall \cup ContentsCall
           /\ made = 0 => Call.type = "start"
           /\ made # 0 => Depth(events, made) > 0
<1>1. events \in Seq(StartCall \cup EndCall \cup ContentsCall) /\ Nested(events)
    BY DEF ParserTypeOK, IsText
<1>2. made \in Nat /\ Len(events) \in Nat /\ made + 1 \in 1..Len(events)
    BY <1>1 DEF ParserTypeOK
<1>3. DOMAIN events = 1..Len(events)
    BY <1>1
<1>4. made = 0 => Call.type = "start"
    BY <1>1, <1>2 DEF Nested, Call
<1>5. made # 0 => Depth(events, made) > 0
    <2>1. made # 0 => made + 1 \in 2..Len(events) /\ (made + 1) - 1 = made
        BY <1>2
    <2> QED BY <1>1, <2>1 DEF Nested
<1> QED BY <1>1, <1>2, <1>3, <1>4, <1>5 DEF Call

(* The node of the innermost element.                                      *)
LEMMA CurrentElement ==
    ASSUME ParserInv, made < Len(events), made # 0
    PROVE  \E i \in OfType(events, "start", made) :
             /\ Innermost(events, i, made)
             /\ current_node = NodeAt(events, i)
             /\ current_node \in 1..Len(nodes)
BY TextFacts, DepthStep, NodeAtRange DEF ParserInv, CurrentIsInnermost, TreeAsSent

(* Different elements have different nodes.                                *)
LEMMA NodeAtOther ==
    ASSUME NEW calls, NEW n \in Nat,
           NEW i \in OfType(calls, "start", n), NEW j \in OfType(calls, "start", n), i # j
    PROVE  NodeAt(calls, i) # NodeAt(calls, j)
<1>1. i \in Nat /\ j \in Nat
    BY DEF OfType
<1>2. i < j => NodeAt(calls, i) < NodeAt(calls, j)
    BY <1>1, NodeAtStrict
<1>3. j < i => NodeAt(calls, j) < NodeAt(calls, i)
    BY <1>1, NodeAtStrict
<1>4. NodeAt(calls, i) \in Nat /\ NodeAt(calls, j) \in Nat
    BY <1>1, NodeAtStep
<1> QED BY <1>1, <1>2, <1>3, <1>4

-----------------------------------------------------------------------------
(* contents().                                                             *)
LEMMA CharactersStep == ParserInv /\ Characters => ParserInv'
<1> SUFFICES ASSUME ParserInv, Characters
             PROVE  ParserInv'
    OBVIOUS
<1> DEFINE n == made
           next == [nodes EXCEPT ![current_node].contents = events[n + 1].text]
<1>1. /\ made < Len(events) /\ n \in Nat /\ events[n + 1].type = "contents"
      /\ events' = events /\ made' = n + 1 /\ n + 1 \in 1..Len(events)
      /\ nodes' = next /\ current_node' = current_node /\ level' = level
      /\ n # 0 /\ Depth(events, n) > 0
      /\ events[n + 1] \in StartCall \cup EndCall \cup ContentsCall
    BY TextFacts DEF Characters, Called, Call, ParserInv
<1>2. events[n + 1].text \in Strings
    BY <1>1 DEF StartCall, EndCall, ContentsCall
<1>3. PICK i \in OfType(events, "start", n) :
         /\ Innermost(events, i, n)
         /\ current_node = NodeAt(events, i)
         /\ current_node \in 1..Len(nodes)
    BY <1>1, CurrentElement
<1>4. nodes \in Seq(Node) /\ Len(nodes) \in Nat /\ DOMAIN nodes = 1..Len(nodes)
    BY DEF ParserInv, ParserTypeOK
<1>5. /\ next \in Seq(Node) /\ Len(next) = Len(nodes)
      /\ \A k \in 1..Len(nodes) : k # current_node => next[k] = nodes[k]
      /\ next[current_node] = [nodes[current_node] EXCEPT !.contents = events[n + 1].text]
    <2>1. nodes[current_node] \in Node
        BY <1>3, <1>4
    <2>2. [nodes[current_node] EXCEPT !.contents = events[n + 1].text] \in Node
        BY <1>2, <2>1 DEF Node
    <2> QED BY <1>3, <1>4, <2>2
<1>6. ParserTypeOK'
    BY <1>1, <1>3, <1>5 DEF ParserInv, ParserTypeOK
<1>7. (level = Depth(events, made))'
    BY <1>1, DepthStep DEF ParserInv
<1>8. OfType(events, "start", n + 1) = OfType(events, "start", n)
    BY <1>1, OfTypeSame
<1>9. CurrentIsInnermost'
    <2>1. Innermost(events, i, n + 1)
        BY <1>1, <1>3, InnermostText
    <2>2. Depth(events, n + 1) # 0 /\ n + 1 # 0
        BY <1>1, DepthStep
    <2> QED BY <1>1, <1>3, <1>8, <2>1, <2>2 DEF CurrentIsInnermost
<1>10. \A j \in OfType(events, "start", n) : AsSent(events, j, n + 1, next[NodeAt(events, j)])
    <2> TAKE j \in OfType(events, "start", n)
    <2>1. AsSent(events, j, n, nodes[NodeAt(events, j)])
        BY EachAsSent DEF ParserInv
    <2>2. NodeAt(events, j) \in 1..Len(nodes)
        BY <1>1, NodeAtRange DEF ParserInv, TreeAsSent
    <2>3. CASE j = i
        <3>1. nodes[current_node] \in Node
            BY <1>3, <1>4
        <3>2. /\ next[current_node].name = nodes[current_node].name
              /\ next[current_node].attributes = nodes[current_node].attributes
              /\ next[current_node].children = nodes[current_node].children
              /\ next[current_node].parent = nodes[current_node].parent
              /\ next[current_node].contents = events[n + 1].text
            BY <1>5, <3>1 DEF Node
        <3> QED BY <1>1, <1>3, <2>1, <2>3, <3>2, TextAdded
    <2>4. CASE j # i
        <3>1. NodeAt(events, j) # current_node
            BY <1>1, <1>3, <2>4, NodeAtOther
        <3>2. ~Innermost(events, j, n)
            BY <1>1, <1>3, <2>4, InnermostOne
        <3> QED BY <1>1, <1>5, <2>1, <2>2, <3>1, <3>2, SameAsSent
    <2> QED BY <2>3, <2>4
<1>11. TreeAsSent'
    <2>1. NodeAt(events, n + 1) = NodeAt(events, n) + 0
        BY <1>1, NodeAtStep
    <2>2. Len(next) = NodeAt(events, n + 1)
        BY <1>1, <1>5, <2>1, NodeAtStep DEF ParserInv, TreeAsSent
    <2> HIDE DEF next
    <2> QED BY <1>1, <1>8, <1>10, <2>2 DEF TreeAsSent, AsSent
<1> QED BY <1>6, <1>7, <1>9, <1>11 DEF ParserInv

(* end().                                                                  *)
LEMMA EndStep == ParserInv /\ EndElement => ParserInv'
<1> SUFFICES ASSUME ParserInv, EndElement
             PROVE  ParserInv'
    OBVIOUS
<1> DEFINE n == made
<1>1. /\ made < Len(events) /\ n \in Nat /\ events[n + 1].type = "end"
      /\ events' = events /\ made' = n + 1 /\ n + 1 \in 1..Len(events)
      /\ nodes' = nodes /\ current_node' = AboveRoot(current_node) /\ level' = level - 1
      /\ n # 0 /\ Depth(events, n) > 0 /\ level = Depth(events, n) /\ level \in Nat
    BY TextFacts DEF EndElement, Called, Call, ParserInv, ParserTypeOK
<1>2. PICK i \in OfType(events, "start", n) :
         /\ Innermost(events, i, n)
         /\ current_node = NodeAt(events, i)
         /\ current_node \in 1..Len(nodes)
    BY <1>1, CurrentElement
<1>3. /\ Depth(events, n + 1) = Depth(events, n) - 1
      /\ Depth(events, i) = level
      /\ Depth(events, i) = Depth(events, i - 1) + 1
      /\ i - 1 \in Nat /\ i \in 1..n /\ Depth(events, i - 1) \in Int
    <2>1. i - 1 \in Nat /\ i = (i - 1) + 1 /\ events[i].type = "start" /\ i \in 1..n
        BY <1>1 DEF OfType
    <2> QED BY <1>1, <1>2, <2>1, DepthStep DEF Innermost
<1>4. OfType(events, "start", n + 1) = OfType(events, "start", n)
    BY <1>1, OfTypeSame
<1>5. AsSent(events, i, n, nodes[NodeAt(events, i)])
    BY EachAsSent DEF ParserInv
<1>6. ASSUME level > 1
      PROVE  CurrentIsInnermost' /\ current_node' \in 1..Len(nodes)
    <2>1. current_node' = nodes[NodeAt(events, i)].parent
        BY <1>1, <1>2, <1>6 DEF AboveRoot
    <2>2. i # 1
        BY <1>1, <1>3, <1>6, NoneYet
    <2>3. PICK h \in OfType(events, "start", i - 1) :
             /\ Innermost(events, h, i - 1)
             /\ nodes[NodeAt(events, i)].parent = NodeAt(events, h)
        BY <1>5, <2>2 DEF AsSent, OwnParent
    <2>4. Innermost(events, h, n + 1)
        BY <1>1, <1>2, <2>3, InnermostEnd
    <2>5. h \in OfType(events, "start", n)
        BY <1>1, <1>3 DEF OfType
    <2>6. current_node' \in 1..Len(nodes)
        BY <1>1, <2>1, <2>3, <2>5, NodeAtRange DEF ParserInv, TreeAsSent
    <2>7. Depth(events, n + 1) # 0 /\ n + 1 # 0
        BY <1>1, <1>3, <1>6
    <2> QED BY <1>1, <1>4, <2>1, <2>3, <2>4, <2>5, <2>6, <2>7 DEF CurrentIsInnermost
<1>7. ASSUME level = 1
      PROVE  CurrentIsInnermost' /\ current_node' \in 1..Len(nodes)
    <2>1. current_node' = current_node
        BY <1>1, <1>7 DEF AboveRoot
    <2>2. Depth(events, i - 1) = 0
        BY <1>1, <1>3, <1>7
    <2>3. i = 1
        <3>1. Nested(events) /\ Len(events) \in Nat
            BY DEF ParserInv, ParserTypeOK, IsText
        <3>2. i \in 2..Len(events) => Depth(events, i - 1) > 0
            BY <3>1 DEF Nested
        <3>3. i # 1 => i \in 2..Len(events)
            BY <1>1, <1>3, <3>1
        <3>4. ~(Depth(events, i - 1) > 0)
            BY <2>2
        <3> QED BY <3>2, <3>3, <3>4
    <2>4. NodeAt(events, 1) = 1
        <3>1. events[0 + 1].type = "start" /\ 0 + 1 = 1 /\ 0 \in Nat
            BY <2>3 DEF OfType
        <3>2. NodeAt(events, 0 + 1) = NodeAt(events, 0) + 1
            BY <3>1, NodeAtStep
        <3> QED BY <3>1, <3>2, NoneYet
    <2>5. Depth(events, n + 1) = 0 /\ n + 1 # 0
        BY <1>1, <1>3, <1>7
    <2> QED BY <1>1, <1>2, <2>1, <2>3, <2>4, <2>5 DEF CurrentIsInnermost
<1>8. CurrentIsInnermost' /\ current_node' \in 1..Len(nodes)
    BY <1>1, <1>6, <1>7
<1>9. ParserTypeOK'
    BY <1>1, <1>8 DEF ParserInv, ParserTypeOK
<1>10. (level = Depth(events, made))'
    BY <1>1, <1>3
<1>11. TreeAsSent'
    <2>1. NodeAt(events, n + 1) = NodeAt(events, n) + 0
        BY <1>1, NodeAtStep
    <2>2. Len(nodes) = NodeAt(events, n + 1)
        BY <1>1, <2>1, NodeAtStep DEF ParserInv, TreeAsSent
    <2>3. \A j \in OfType(events, "start", n) : AsSent(events, j, n + 1, nodes[NodeAt(events, j)])
        BY <1>1, EachAsSent, SameAsSent DEF ParserInv
    <2> QED BY <1>1, <1>4, <2>2, <2>3 DEF TreeAsSent, AsSent
<1> QED BY <1>8, <1>9, <1>10, <1>11 DEF ParserInv

(* start().                                                                *)
LEMMA StartStep == ParserInv /\ StartElement => ParserInv'
<1> SUFFICES ASSUME ParserInv, StartElement
             PROVE  ParserInv'
    OBVIOUS
<1> DEFINE n == made
           this == Len(nodes) + 1
           grown == AddChild(current_node, this)
           fresh == [name |-> events[n + 1].name, attributes |-> events[n + 1].attributes,
                     contents |-> << >>, children |-> << >>, parent |-> current_node]
           next == Append(grown, fresh)
<1>1. /\ made < Len(events) /\ n \in Nat /\ events[n + 1].type = "start"
      /\ events' = events /\ made' = n + 1 /\ n + 1 \in 1..Len(events)
      /\ nodes' = next /\ current_node' = this /\ level' = level + 1
      /\ n # 0 => Depth(events, n) > 0
      /\ events[n + 1] \in StartCall \cup EndCall \cup ContentsCall
    BY TextFacts DEF StartElement, Called, Call, ParserInv
<1>2. events[n + 1].name \in Names /\ events[n + 1].attributes \in Attributes
    BY <1>1 DEF StartCall, EndCall, ContentsCall
<1>3. /\ nodes \in Seq(Node) /\ Len(nodes) \in Nat /\ DOMAIN nodes = 1..Len(nodes)
      /\ current_node \in (IF n = 0 THEN {NoNode} ELSE 1..Len(nodes))
      /\ Len(nodes) = NodeAt(events, n)
      /\ n = 0 => Len(nodes) = 0
    BY NoneYet DEF ParserInv, ParserTypeOK, TreeAsSent
<1>4. this = NodeAt(events, n + 1) /\ this \in Nat
    <2>1. NodeAt(events, n + 1) = NodeAt(events, n) + 1
        BY <1>1, NodeAtStep
    <2> QED BY <1>3, <2>1
<1>5. fresh \in Node
    BY <1>2, <1>3 DEF Node, NoNode
<1>6. ASSUME NEW node \in Node
      PROVE  [node EXCEPT !.children = Append(@, this)] \in Node
    BY <1>4 DEF Node
<1>7. /\ grown \in Seq(Node) /\ Len(grown) = Len(nodes)
      /\ \A k \in 1..Len(nodes) :
            grown[k] = IF k = current_node THEN [nodes[k] EXCEPT !.children = Append(@, this)]
                       ELSE nodes[k]
    <2>1. CASE n = 0
        BY <1>3, <2>1 DEF AddChild, NoNode
    <2>2. CASE n # 0
        <3>1. current_node \in 1..Len(nodes) /\ current_node # NoNode /\ nodes[current_node] \in Node
            BY <1>3, <2>2 DEF NoNode
        <3>2. grown = [nodes EXCEPT ![current_node].children = Append(@, this)]
            BY <3>1 DEF AddChild
        <3>3. [nodes[current_node] EXCEPT !.children = Append(@, this)] \in Node
            BY <1>6, <3>1
        <3>4. PICK kept : kept = [nodes[current_node] EXCEPT !.children = Append(@, this)]
            OBVIOUS
        <3>5. grown = [nodes EXCEPT ![current_node] = kept]
            BY <3>2, <3>4
        <3> HIDE DEF grown, this
        <3>6. kept \in Node
            BY <3>3, <3>4
        <3>7. /\ grown \in Seq(Node) /\ Len(grown) = Len(nodes)
              /\ \A k \in 1..Len(nodes) : grown[k] = IF k = current_node THEN kept ELSE nodes[k]
            BY <1>3, <3>1, <3>5, <3>6
        <3> QED BY <3>1, <3>4, <3>7
    <2> QED BY <2>1, <2>2
<1> HIDE DEF grown, fresh, this
<1>8. /\ next \in Seq(Node) /\ Len(next) = Len(nodes) + 1
      /\ \A k \in 1..Len(nodes) : next[k] = grown[k]
      /\ next[Len(nodes) + 1] = fresh
    BY <1>3, <1>5, <1>7
<1> HIDE DEF next
<1>9. this = Len(nodes) + 1 /\ this # NoNode /\ this \in 1..Len(next)
    BY <1>3, <1>8 DEF this, NoNode
<1>10. ParserTypeOK'
    <2>1. level + 1 \in Nat /\ made + 1 \in 0..Len(events)
        BY <1>1 DEF ParserInv, ParserTypeOK
    <2>2. IsText(events)
        BY DEF ParserInv, ParserTypeOK
    <2>3. n + 1 # 0
        BY <1>1
    <2> QED BY <1>1, <1>8, <1>9, <2>1, <2>2, <2>3 DEF ParserTypeOK
<1>11. (level = Depth(events, made))'
    BY <1>1, DepthStep DEF ParserInv
<1>12. OfType(events, "start", n + 1) = OfType(events, "start", n) \cup {n + 1}
    BY <1>1, OfTypeMore
<1>13. CurrentIsInnermost'
    <2>1. Innermost(events, n + 1, n + 1)
        BY <1>1, InnermostStart
    <2>2. Depth(events, n + 1) # 0 /\ n + 1 # 0
        <3>1. n = 0 => Depth(events, n) = 0
            BY NoneYet
        <3> QED BY <1>1, <3>1, DepthStep
    <2> QED BY <1>1, <1>4, <1>12, <2>1, <2>2 DEF CurrentIsInnermost
<1>14. ASSUME NEW j \in OfType(events, "start", n)
       PROVE  AsSent(events, j, n + 1, next[NodeAt(events, j)])
    <2>1. AsSent(events, j, n, nodes[NodeAt(events, j)])
        BY EachAsSent DEF ParserInv
    <2>2. NodeAt(events, j) \in 1..Len(nodes)
        <3>1. n \in Nat
            BY <1>1
        <3> QED BY <1>3, <3>1, NodeAtRange
    <2>3. n # 0
        BY <1>1 DEF OfType
    <2>4. PICK i \in OfType(events, "start", n) :
             /\ Innermost(events, i, n)
             /\ current_node = NodeAt(events, i)
             /\ current_node \in 1..Len(nodes)
        BY <1>1, <2>3, CurrentElement
    <2>5. CASE j = i
        <3>1. nodes[current_node] \in Node
            BY <1>3, <2>4
        <3>2. next[current_node] = [nodes[current_node] EXCEPT !.children = Append(@, this)]
            BY <1>7, <1>8, <2>4
        <3>3. GetsChild(nodes[current_node], next[current_node], NodeAt(events, n + 1))
            BY <1>4, <3>1, <3>2 DEF GetsChild, Node
        <3> QED BY <1>1, <2>1, <2>4, <2>5, <3>3, ChildAdded
    <2>6. CASE j # i
        <3>1. NodeAt(events, j) # current_node
            BY <1>1, <2>4, <2>6, NodeAtOther
        <3>2. next[NodeAt(events, j)] = nodes[NodeAt(events, j)]
            BY <1>7, <1>8, <2>2, <3>1
        <3>3. ~Innermost(events, j, n)
            BY <1>1, <2>4, <2>6, InnermostOne
        <3> QED BY <1>1, <2>1, <3>2, <3>3, SameAsSent
    <2> QED BY <2>5, <2>6
<1>15. AsSent(events, n + 1, n + 1, next[NodeAt(events, n + 1)])
    <2>1. next[NodeAt(events, n + 1)] = fresh
        BY <1>4, <1>8, <1>9
    <2>2. OwnParent(events, n + 1, fresh)
        <3>1. CASE n = 0
            BY <1>3, <3>1 DEF OwnParent, fresh
        <3>2. CASE n # 0
            <4>1. PICK i \in OfType(events, "start", n) :
                     /\ Innermost(events, i, n)
                     /\ current_node = NodeAt(events, i)
                BY <1>1, <3>2, CurrentElement
            <4>2. (n + 1) - 1 = n /\ n + 1 # 1
                BY <1>1, <3>2
            <4> QED BY <4>1, <4>2 DEF OwnParent, fresh
        <3> QED BY <3>1, <3>2
    <2> QED BY <1>1, <2>1, <2>2, FreshAsSent DEF fresh
<1>16. TreeAsSent'
    <2>1. Len(next) = NodeAt(events, n + 1)
        BY <1>4, <1>8, <1>9
    <2>2. \A j \in OfType(events, "start", n + 1) :
             AsSent(events, j, n + 1, next[NodeAt(events, j)])
        BY <1>12, <1>14, <1>15
    <2> QED BY <1>1, <2>1, <2>2 DEF TreeAsSent, AsSent
<1> QED BY <1>10, <1>11, <1>13, <1>16 DEF ParserInv

-----------------------------------------------------------------------------
LEMMA ParserStart == Init => ParserInv
<1> SUFFICES ASSUME Init
             PROVE  ParserInv
    OBVIOUS
<1>1. /\ IsText(events) /\ made = 0 /\ nodes = << >> /\ current_node = NoNode /\ level = 0
    BY TextsAssumption DEF Init, ParserInit
<1>2. << >> \in Seq(Node) /\ Len(<< >>) = 0
    OBVIOUS
<1>3. Len(events) \in Nat
    BY <1>1 DEF IsText
<1>4. ParserTypeOK
    BY <1>1, <1>2, <1>3 DEF ParserTypeOK
<1>5. CurrentIsInnermost
    BY <1>1 DEF CurrentIsInnermost
<1>6. OfType(events, "start", 0) = {}
    BY DEF OfType
<1>7. TreeAsSent
    BY <1>1, <1>2, <1>6, NoneYet DEF TreeAsSent
<1> QED BY <1>1, <1>4, <1>5, <1>7, NoneYet DEF ParserInv

LEMMA ParserStutters == ParserInv /\ UNCHANGED parserVars => ParserInv'
<1> SUFFICES ASSUME ParserInv, UNCHANGED parserVars
             PROVE  ParserInv'
    OBVIOUS
<1>1. /\ events' = events /\ made' = made /\ nodes' = nodes
      /\ current_node' = current_node /\ level' = level
    BY DEF parserVars
<1> QED BY <1>1 DEF ParserInv, ParserTypeOK, CurrentIsInnermost, TreeAsSent

LEMMA ParserInvariant == ParserSpec => []ParserInv
<1>1. ParserInv /\ [Parse]_parserVars => ParserInv'
    BY StartStep, EndStep, CharactersStep, ParserStutters DEF Parse
<1> QED BY ParserStart, <1>1, PTL DEF ParserSpec

(* The handlers never follow a null pointer, and the nodes have the types  *)
(* of XMLNode.h (expat_parser.cc 53-88).                                   *)
THEOREM ParserTypes == ParserSpec => []ParserTypeOK
<1>1. ParserInv => ParserTypeOK
    BY DEF ParserInv
<1> QED BY <1>1, ParserInvariant, PTL

(* The current node is that of the innermost open element, and the root    *)
(* when parse_file() returns it (expat_parser.cc 72-79, 155).              *)
THEOREM CurrentNode == ParserSpec => []CurrentIsInnermost
<1>1. ParserInv => CurrentIsInnermost
    BY DEF ParserInv
<1> QED BY <1>1, ParserInvariant, PTL

(* For every text that expat reads, of any size, the tree is the text: the *)
(* elements with their names, attributes and last own pieces of text, each *)
(* under the one around it and in the order of the text (expat_parser.cc   *)
(* 53-88).                                                                 *)
THEOREM TreeFaithful == ParserSpec => []TreeAsSent
<1>1. ParserInv => TreeAsSent
    BY DEF ParserInv
<1> QED BY <1>1, ParserInvariant, PTL
=============================================================================
