---------------------------- MODULE SessionProofs ----------------------------
(***************************************************************************)
(* What TLAPS proves of the control socket, for any number of clients, any *)
(* commands, any key file, however TCP cuts the texts and whoever goes     *)
(* away: a command takes effect whole or not at all, and each connection   *)
(* is closed once.                                                         *)
(***************************************************************************)
EXTENDS Session, SequenceTheorems, FiniteSetTheorems, WellFoundedInduction, TLAPS

-----------------------------------------------------------------------------
(* The texts of commands.                                                  *)

LEMMA TokenTypes ==
    /\ \A v, a \in Words : Txt(v, a) \in TokenType
    /\ \A v, a \in Words, n \in Nat : Open(v, a, n) \in TokenType
    /\ \A v \in Words : Close(v) \in TokenType
    /\ Gt \in TokenType /\ Nl \in TokenType /\ Garbage \in TokenType
  <1>1. NoName \in Words /\ ">" \in Words /\ "newline" \in Words /\ "garbage" \in Words
    BY SessionAssumption DEF Words
  <1>2. ASSUME NEW class \in {"text", "open", "close", "gt", "nl"}, NEW v \in Words, NEW a \in Words,
               NEW n \in Nat
        PROVE  Token(class, v, a, n) \in TokenType
    BY DEF Token, TokenType
  <1>3. \A v, a \in Words : Txt(v, a) \in TokenType
    BY <1>2 DEF Txt
  <1>4. \A v, a \in Words, n \in Nat : Open(v, a, n) \in TokenType
    BY <1>2 DEF Open
  <1>5. \A v \in Words : Close(v) \in TokenType
    BY <1>1, <1>2 DEF Close
  <1>6. Gt \in TokenType /\ Nl \in TokenType /\ Garbage \in TokenType
    BY <1>1, <1>2, <1>3 DEF Gt, Nl, Garbage
  <1> QED
    BY <1>3, <1>4, <1>5, <1>6

LEMMA NamesAreWords == Names \subseteq Words /\ NoName \in Names
  BY SessionAssumption DEF Words

LEMMA Joined ==
    ASSUME NEW S, NEW s \in Seq(S), NEW t \in Seq(S)
    PROVE  /\ s \o t \in Seq(S) /\ Len(s \o t) = Len(s) + Len(t)
           /\ \A i \in 1..Len(s) : (s \o t)[i] = s[i]
           /\ \A i \in 1..Len(t) : (s \o t)[i + Len(s)] = t[i]
  OBVIOUS

LEMMA KidTextFacts ==
    ASSUME NEW kids \in Seq(Names)
    PROVE  /\ KidTexts(kids) \in Seq(TokenType)
           /\ Len(KidTexts(kids)) = 2 * Len(kids)
           /\ \A i \in 1..Len(kids) : /\ KidTexts(kids)[2 * i - 1] = Txt(kids[i], NoName)
                                      /\ KidTexts(kids)[2 * i] = Gt
  <1>1. ASSUME NEW i \in 1..(2 * Len(kids)), i % 2 = 1 PROVE (i + 1) \div 2 \in 1..Len(kids)
    BY <1>1
  <1>2. KidTexts(kids) \in Seq(TokenType) /\ Len(KidTexts(kids)) = 2 * Len(kids)
    <2>1. NoName \in Words /\ \A i \in 1..Len(kids) : kids[i] \in Words
      BY NamesAreWords
    <2>2. ASSUME NEW i \in 1..(2 * Len(kids))
          PROVE  (IF i % 2 = 1 THEN Txt(kids[(i + 1) \div 2], NoName) ELSE Gt) \in TokenType
      BY <1>1, <2>1, TokenTypes
    <2> QED
      BY <2>2 DEF KidTexts
  <1>3. ASSUME NEW i \in 1..Len(kids)
        PROVE  /\ KidTexts(kids)[2 * i - 1] = Txt(kids[i], NoName)
               /\ KidTexts(kids)[2 * i] = Gt
    <2>1. /\ 2 * i - 1 \in 1..(2 * Len(kids)) /\ (2 * i - 1) % 2 = 1 /\ (2 * i - 1 + 1) \div 2 = i
          /\ 2 * i \in 1..(2 * Len(kids)) /\ (2 * i) % 2 = 0
      OBVIOUS
    <2> QED
      BY <2>1 DEF KidTexts
  <1> QED
    BY <1>2, <1>3

(* An element without children, and one with them.                         *)
LEMMA TextFacts ==
    ASSUME NEW cmd \in Command
    PROVE  /\ Text(cmd) \in Seq(TokenType) /\ Len(Text(cmd)) >= 2
           /\ Text(cmd)[2] = Gt
           /\ cmd.kids = << >> => Len(Text(cmd)) = 2 /\ Text(cmd)[1] = Txt(cmd.name, cmd.arg)
           /\ cmd.kids # << >> =>
                /\ Len(Text(cmd)) = 4 + 2 * Len(cmd.kids) /\ Len(cmd.kids) > 0
                /\ Text(cmd)[1] = Open(cmd.name, cmd.arg, 0)
                /\ \A i \in 1..Len(cmd.kids) : /\ Text(cmd)[2 * i + 1] = Txt(cmd.kids[i], NoName)
                                               /\ Text(cmd)[2 * i + 2] = Gt
                /\ Text(cmd)[3 + 2 * Len(cmd.kids)] = Close(cmd.name)
                /\ Text(cmd)[4 + 2 * Len(cmd.kids)] = Gt
  <1>1. cmd.name \in Names /\ cmd.arg \in Names /\ cmd.kids \in Seq(Names)
    BY DEF Command
  <1>0. cmd.name \in Words /\ cmd.arg \in Words /\ NoName \in Words
    BY <1>1, NamesAreWords
  <1>2. CASE cmd.kids = << >>
    <2>1. Text(cmd) = <<Txt(cmd.name, cmd.arg), Gt>>
      BY <1>2 DEF Text
    <2>2. Txt(cmd.name, cmd.arg) \in TokenType /\ Gt \in TokenType
      BY <1>0, TokenTypes
    <2> QED
      BY <1>2, <2>1, <2>2
  <1>3. CASE cmd.kids # << >>
    <2>1. PICK o : o = <<Open(cmd.name, cmd.arg, 0), Gt>>
      OBVIOUS
    <2>2. PICK c : c = <<Close(cmd.name), Gt>>
      OBVIOUS
    <2>3. PICK m : m = KidTexts(cmd.kids)
      OBVIOUS
    <2>4. o \in Seq(TokenType) /\ c \in Seq(TokenType) /\ m \in Seq(TokenType)
      <3>1. Open(cmd.name, cmd.arg, 0) \in TokenType /\ Close(cmd.name) \in TokenType /\ Gt \in TokenType
        BY <1>0, TokenTypes
      <3> QED
        BY <1>1, <2>1, <2>2, <2>3, <3>1, KidTextFacts
    <2>5. Len(o) = 2 /\ Len(c) = 2 /\ Len(m) = 2 * Len(cmd.kids) /\ Len(cmd.kids) \in Nat \ {0}
      BY <1>1, <1>3, <2>1, <2>2, <2>3, KidTextFacts
    <2>6. Text(cmd) = o \o m \o c
      BY <1>3, <2>1, <2>2, <2>3 DEF Text
    <2>7. /\ Text(cmd) \in Seq(TokenType)
          /\ Len(Text(cmd)) = 4 + 2 * Len(cmd.kids)
          /\ Text(cmd)[1] = o[1] /\ Text(cmd)[2] = o[2]
          /\ \A j \in 1..(2 * Len(cmd.kids)) : Text(cmd)[j + 2] = m[j]
          /\ Text(cmd)[3 + 2 * Len(cmd.kids)] = c[1] /\ Text(cmd)[4 + 2 * Len(cmd.kids)] = c[2]
      <3>1. PICK L \in Nat : L = 2 * Len(cmd.kids)
        BY <2>5
      <3>2. PICK om : om = o \o m
        OBVIOUS
      <3>3. /\ om \in Seq(TokenType) /\ Len(om) = Len(o) + Len(m)
            /\ \A i \in 1..Len(o) : om[i] = o[i]
            /\ \A i \in 1..Len(m) : om[i + Len(o)] = m[i]
        BY <2>4, <3>2, Joined
      <3>4. /\ om \o c \in Seq(TokenType) /\ Len(om \o c) = Len(om) + Len(c)
            /\ \A i \in 1..Len(om) : (om \o c)[i] = om[i]
            /\ \A i \in 1..Len(c) : (om \o c)[i + Len(om)] = c[i]
        <4>1. om \in Seq(TokenType) /\ c \in Seq(TokenType)
          BY <2>4, <3>3
        <4> QED
          BY <4>1, Joined
      <3>5. Text(cmd) = om \o c
        BY <2>6, <3>2
      <3>6. Len(o) = 2 /\ Len(m) = L /\ Len(om) = 2 + L /\ Len(c) = 2
        BY <2>5, <3>1, <3>3
      <3>7. Text(cmd)[1] = o[1] /\ Text(cmd)[2] = o[2]
        BY <3>3, <3>4, <3>5, <3>6
      <3>8. ASSUME NEW j \in 1..L PROVE Text(cmd)[j + 2] = m[j]
        <4>1. j + 2 \in 1..Len(om) /\ j \in 1..Len(m)
          BY <3>6
        <4> QED
          BY <3>3, <3>4, <3>5, <3>6, <4>1
      <3>9. Text(cmd)[3 + L] = c[1] /\ Text(cmd)[4 + L] = c[2]
        <4>1. 1 + Len(om) = 3 + L /\ 2 + Len(om) = 4 + L /\ 1 \in 1..Len(c) /\ 2 \in 1..Len(c)
          BY <3>6
        <4> QED
          BY <3>4, <3>5, <4>1
      <3> QED
        BY <3>1, <3>4, <3>5, <3>6, <3>7, <3>8, <3>9
    <2>8. ASSUME NEW i \in 1..Len(cmd.kids)
          PROVE  Text(cmd)[2 * i + 1] = Txt(cmd.kids[i], NoName) /\ Text(cmd)[2 * i + 2] = Gt
      <3>1. /\ 2 * i - 1 \in 1..(2 * Len(cmd.kids)) /\ 2 * i \in 1..(2 * Len(cmd.kids))
            /\ (2 * i - 1) + 2 = 2 * i + 1
        BY <2>5
      <3>2. m[2 * i - 1] = Txt(cmd.kids[i], NoName) /\ m[2 * i] = Gt
        BY <1>1, <2>3, KidTextFacts
      <3> QED
        BY <2>7, <3>1, <3>2
    <2> QED
      BY <1>3, <2>1, <2>2, <2>5, <2>7, <2>8
  <1> QED
    BY <1>2, <1>3

LEMMA TokensDiffer ==
    /\ \A v, a, w, b : Txt(v, a) = Txt(w, b) => v = w /\ a = b
    /\ \A v, a, n, w, b, m : Open(v, a, n) = Open(w, b, m) => v = w /\ a = b /\ n = m
    /\ \A v, a, w, b, n : Txt(v, a) # Open(w, b, n)
    /\ \A v, a, w : Txt(v, a) # Close(w)
    /\ \A v, a : Txt(v, a).class = "text" /\ Txt(v, a).v = v /\ Txt(v, a).key = Plain
    /\ \A v, a, n : Open(v, a, n).class = "open" /\ Open(v, a, n).v = v /\ Open(v, a, n).n = n
    /\ \A v : Close(v).class = "close"
    /\ Gt.class = "gt" /\ Nl.class = "nl" /\ Gt.key = Plain /\ Nl.key = Plain /\ Gt # Nl
  BY DEF Txt, Open, Close, Gt, Nl, Token, Plain

(* No text of a command begins another one.                                *)
LEMMA PrefixFree ==
    ASSUME NEW a \in Command, NEW b \in Command, NEW n \in 0..Len(Text(b)),
           Text(a) = SubSeq(Text(b), 1, n)
    PROVE  a = b
  <1>1. /\ Len(Text(a)) = n /\ n >= 2
        /\ \A i \in 1..n : Text(a)[i] = Text(b)[i]
    BY TextFacts
  <1>2. Text(a)[1] = Text(b)[1]
    BY <1>1
  <1>3. a = [name |-> a.name, arg |-> a.arg, kids |-> a.kids] /\ a.kids \in Seq(Names)
    BY DEF Command
  <1>4. b = [name |-> b.name, arg |-> b.arg, kids |-> b.kids] /\ b.kids \in Seq(Names)
    BY DEF Command
  <1>5. (a.kids = << >>) <=> (b.kids = << >>)
    BY <1>2, TextFacts, TokensDiffer
  <1>6. a.name = b.name /\ a.arg = b.arg
    BY <1>2, <1>5, TextFacts, TokensDiffer
  <1>7. a.kids = b.kids
    <2>1. CASE a.kids = << >>
      BY <1>5, <2>1
    <2>2. CASE a.kids # << >>
      <3>1. /\ Len(Text(a)) = 4 + 2 * Len(a.kids) /\ Len(Text(b)) = 4 + 2 * Len(b.kids)
            /\ Len(a.kids) \in Nat /\ Len(b.kids) \in Nat
        <4>1. a.kids # << >> /\ b.kids # << >>
          BY <1>5, <2>2
        <4>2. Len(Text(a)) = 4 + 2 * Len(a.kids)
          BY <4>1, TextFacts
        <4>3. Len(Text(b)) = 4 + 2 * Len(b.kids)
          BY <4>1, TextFacts
        <4> QED
          BY <1>3, <1>4, <4>2, <4>3
      <3>2. Len(a.kids) <= Len(b.kids)
        BY <1>1, <3>1
      <3>3. ~(Len(a.kids) < Len(b.kids))
        <4> SUFFICES ASSUME Len(a.kids) < Len(b.kids) PROVE FALSE
          OBVIOUS
        <4>1. PICK k \in 1..Len(b.kids) : k = Len(a.kids) + 1
          BY <3>1
        <4>2. Text(a)[3 + 2 * Len(a.kids)] = Close(a.name)
          BY <2>2, TextFacts
        <4>3. Text(b)[2 * k + 1] = Txt(b.kids[k], NoName)
          BY <1>5, <2>2, TextFacts
        <4>4. 2 * k + 1 = 3 + 2 * Len(a.kids) /\ 2 * k + 1 \in 1..n
          BY <1>1, <3>1, <4>1
        <4> QED
          BY <1>1, <4>2, <4>3, <4>4, TokensDiffer
      <3>4. ASSUME NEW i \in 1..Len(a.kids) PROVE a.kids[i] = b.kids[i]
        <4>1. Text(a)[2 * i + 1] = Txt(a.kids[i], NoName)
          BY <2>2, TextFacts
        <4>2. Text(b)[2 * i + 1] = Txt(b.kids[i], NoName)
          BY <1>5, <2>2, <3>2, <3>1, TextFacts
        <4>3. 2 * i + 1 \in 1..n
          BY <1>1, <3>1
        <4> QED
          BY <1>1, <4>1, <4>2, <4>3, TokensDiffer
      <3> QED
        <4>1. Len(a.kids) = Len(b.kids)
          BY <3>1, <3>2, <3>3
        <4> QED
          BY <1>3, <1>4, <3>4, <4>1, SeqEqual
    <2> QED
      BY <2>1, <2>2
  <1> QED
    BY <1>3, <1>4, <1>6, <1>7

LEMMA WellformedType == Wellformed \subseteq Command
  <1>1. ASSUME NEW cmd \in Commands, NEW k \in Range(cmd.kids)
        PROVE  [name |-> k, arg |-> NoName, kids |-> << >>] \in Command
    <2>1. cmd.kids \in Seq(Names)
      BY SessionAssumption DEF Commands, Command
    <2>2. k \in Names
      BY <2>1 DEF Range
    <2> QED
      BY <2>2, NamesAreWords DEF Command
  <1>2. Commands \subseteq Command
    BY SessionAssumption DEF Commands
  <1> QED
    BY <1>1, <1>2 DEF Wellformed

(* A part of a command is no command, or the whole.                        *)
LEMMA Parsed ==
    ASSUME NEW cmd \in Wellformed, NEW n \in 0..Len(Text(cmd))
    PROVE  ParseString(SubSeq(Text(cmd), 1, n)) \in {Malformed, cmd}
  <1>1. \A w \in Wellformed : Text(w) = SubSeq(Text(cmd), 1, n) => w = cmd
    BY WellformedType, PrefixFree
  <1> QED
    BY <1>1 DEF ParseString

-----------------------------------------------------------------------------
(* The types of the texts that are received, decrypted and answered.       *)

LEMMA Largest ==
    ASSUME NEW n \in Nat, NEW S \in SUBSET (1..n), S # {}
    PROVE  \E i \in S : \A j \in S : j <= i
  <1>1. PICK T : T = {m \in Nat : n - m \in S}
    OBVIOUS
  <1>2. T \subseteq Nat
    BY <1>1
  <1>3. T # {}
    <2>1. PICK j \in S : TRUE
      OBVIOUS
    <2>2. n - j \in Nat /\ n - (n - j) = j
      OBVIOUS
    <2> QED
      BY <1>1, <2>2
  <1>4. PICK R : R = {r \in Nat \X Nat : r[1] < r[2]}
    OBVIOUS
  <1>5. IsWellFoundedOn(R, Nat)
    BY <1>4, NatLessThanWellFounded DEF OpToRel
  <1>6. PICK x \in T : \A y \in T : ~(<<y, x>> \in R)
    BY <1>2, <1>3, <1>5, WFMin
  <1>7. \A y \in T : ~(y < x)
    BY <1>2, <1>4, <1>6
  <1>8. x \in Nat /\ n - x \in S
    BY <1>1, <1>6
  <1>9. ASSUME NEW j \in S PROVE j <= n - x
    <2>1. n - j \in Nat /\ n - (n - j) = j
      OBVIOUS
    <2>2. n - j \in T
      BY <1>1, <2>1
    <2> QED
      BY <1>7, <1>8, <2>2
  <1> QED
    BY <1>8, <1>9

(* What read_data() and read_more() keep is a beginning of what arrived.   *)
LEMMA CutIsPrefix ==
    ASSUME NEW b \in Seq(TokenType), EndsIn(b) # {}
    PROVE  \E e \in 2..Len(b) : /\ Ends(b[e])
                                /\ CutAtEnd(b) = SubSeq(b, 1, IF b[e].class = "gt" THEN e ELSE e - 1)
  <1>1. Len(b) \in Nat /\ EndsIn(b) \in SUBSET (1..Len(b))
    BY DEF EndsIn
  <1>2. \E i \in EndsIn(b) : \A j \in EndsIn(b) : j <= i
    BY <1>1, Largest
  <1>3. PICK e : e = CHOOSE i \in EndsIn(b) : \A j \in EndsIn(b) : j <= i
    OBVIOUS
  <1>4. e \in EndsIn(b)
    BY <1>2, <1>3
  <1>5. CutAtEnd(b) = SubSeq(b, 1, IF b[e].class = "gt" THEN e ELSE e - 1)
    BY <1>3 DEF CutAtEnd
  <1>6. e \in 2..Len(b) /\ Ends(b[e])
    BY <1>4 DEF EndsIn
  <1> QED
    BY <1>5, <1>6

LEMMA PartType ==
    ASSUME NEW S, NEW b \in Seq(S), NEW m \in 1..(Len(b) + 1), NEW n \in 0..Len(b)
    PROVE  /\ SubSeq(b, m, n) \in Seq(S)
           /\ Len(SubSeq(b, m, n)) = IF m <= n THEN n - m + 1 ELSE 0
           /\ \A i \in 1..(n - m + 1) : SubSeq(b, m, n)[i] = b[m + i - 1]
  <1>1. \A i \in m..n : b[i] \in S
    OBVIOUS
  <1> QED
    BY <1>1, SubSeqProperties

LEMMA OtpTypes ==
    ASSUME NEW b \in Seq(TokenType), IsOtp(b)
    PROVE  /\ OtpOffset(b) \in Nat /\ OtpContents(b) \in Seq(TokenType)
           /\ EncodedSize(OtpContents(b)) \in Nat
           /\ AnswerOffset(b) \in Nat /\ NewPos(b) \in Nat
  <1>1. Len(b) \in Nat /\ Len(b) > 4 /\ b[1] \in TokenType
    BY DEF IsOtp
  <1>2. OtpOffset(b) \in Nat
    BY <1>1 DEF OtpOffset, TokenType
  <1>3. OtpContents(b) \in Seq(TokenType)
    BY <1>1, PartType DEF OtpContents
  <1>4. EncodedSize(OtpContents(b)) \in Nat
    BY <1>3 DEF EncodedSize
  <1> QED
    BY <1>2, <1>3, <1>4 DEF AnswerOffset, NewPos

LEMMA EncryptedType ==
    ASSUME NEW o \in Nat, NEW text \in Seq(TokenType)
    PROVE  /\ Encrypted(o, text) \in Seq(TokenType) /\ Len(Encrypted(o, text)) = Len(text)
           /\ \A i \in 1..Len(text) : Encrypted(o, text)[i] = [text[i] EXCEPT !.key = o + i - 1]
  <1>1. ASSUME NEW i \in 1..Len(text)
        PROVE  [text[i] EXCEPT !.key = o + i - 1] \in TokenType
    <2>1. text[i] \in TokenType /\ o + i - 1 \in Nat
      OBVIOUS
    <2> QED
      BY <2>1 DEF TokenType
  <1>2. DOMAIN text = 1..Len(text) /\ Len(text) \in Nat
    OBVIOUS
  <1> QED
    BY <1>1, <1>2 DEF Encrypted

LEMMA OtpMessageType ==
    ASSUME NEW o \in Nat, NEW cy \in Seq(TokenType)
    PROVE  /\ OtpMessage(o, cy) \in Seq(TokenType) /\ Len(OtpMessage(o, cy)) = Len(cy) + 4
           /\ OtpMessage(o, cy)[1] = Open("otp", NoName, o) /\ OtpMessage(o, cy)[2] = Gt
           /\ \A i \in 1..Len(cy) : OtpMessage(o, cy)[i + 2] = cy[i]
           /\ OtpMessage(o, cy)[Len(cy) + 3] = Close("otp")
           /\ OtpMessage(o, cy)[Len(cy) + 4] = Gt
  <1>1. Open("otp", NoName, o) \in TokenType /\ Close("otp") \in TokenType /\ Gt \in TokenType
    <2>1. "otp" \in Words /\ NoName \in Words
      BY NamesAreWords DEF Words
    <2> QED
      BY <2>1, TokenTypes
  <1>2. PICK h : h = <<Open("otp", NoName, o), Gt>>
    OBVIOUS
  <1>3. PICK t : t = <<Close("otp"), Gt>>
    OBVIOUS
  <1>4. h \in Seq(TokenType) /\ t \in Seq(TokenType) /\ Len(h) = 2 /\ Len(t) = 2
    BY <1>1, <1>2, <1>3
  <1>5. PICK hc : hc = h \o cy
    OBVIOUS
  <1>6. /\ hc \in Seq(TokenType) /\ Len(hc) = Len(h) + Len(cy)
        /\ \A i \in 1..Len(h) : hc[i] = h[i]
        /\ \A i \in 1..Len(cy) : hc[i + Len(h)] = cy[i]
    <2>1. h \in Seq(TokenType) /\ cy \in Seq(TokenType)
      BY <1>4
    <2> QED
      BY <1>5, <2>1, Joined
  <1>7. /\ hc \o t \in Seq(TokenType) /\ Len(hc \o t) = Len(hc) + Len(t)
        /\ \A i \in 1..Len(hc) : (hc \o t)[i] = hc[i]
        /\ \A i \in 1..Len(t) : (hc \o t)[i + Len(hc)] = t[i]
    <2>1. hc \in Seq(TokenType) /\ t \in Seq(TokenType)
      BY <1>4, <1>6
    <2> QED
      BY <2>1, Joined
  <1>8. OtpMessage(o, cy) = hc \o t
    BY <1>2, <1>3, <1>5 DEF OtpMessage
  <1>9. Len(hc) = 2 + Len(cy) /\ Len(cy) \in Nat
    BY <1>4, <1>6
  <1>10. OtpMessage(o, cy)[1] = h[1] /\ OtpMessage(o, cy)[2] = h[2]
    BY <1>4, <1>6, <1>7, <1>8, <1>9
  <1>11. ASSUME NEW i \in 1..Len(cy) PROVE OtpMessage(o, cy)[i + 2] = cy[i]
    <2>1. i + 2 \in 1..Len(hc)
      BY <1>9
    <2> QED
      BY <1>4, <1>6, <1>7, <1>8, <2>1
  <1>12. OtpMessage(o, cy)[Len(cy) + 3] = t[1] /\ OtpMessage(o, cy)[Len(cy) + 4] = t[2]
    <2>1. 1 + Len(hc) = Len(cy) + 3 /\ 2 + Len(hc) = Len(cy) + 4 /\ 1 \in 1..Len(t) /\ 2 \in 1..Len(t)
      BY <1>4, <1>9
    <2> QED
      BY <1>7, <1>8, <2>1
  <1> QED
    BY <1>2, <1>3, <1>4, <1>7, <1>8, <1>9, <1>10, <1>11, <1>12

LEMMA ShiftedType ==
    ASSUME NEW t \in TokenType
    PROVE  Shifted(t) \in TokenType
  <1>1. CASE t.class = "text" /\ t.a \in DOMAIN Lookalike
    <2>1. Lookalike[t.a] \in Words
      BY <1>1, SessionAssumption, NamesAreWords
    <2>2. [t EXCEPT !.key = Plain, !.a = Lookalike[t.a]] \in TokenType
      BY <2>1 DEF TokenType
    <2> QED
      BY <1>1, <2>2 DEF Shifted
  <1>2. CASE ~(t.class = "text" /\ t.a \in DOMAIN Lookalike)
    BY <1>2, TokenTypes DEF Shifted
  <1> QED
    BY <1>1, <1>2

LEMMA DecryptedType ==
    ASSUME NEW o \in Nat, NEW cy \in Seq(TokenType)
    PROVE  Decrypted(o, cy) \in Seq(TokenType)
  <1>1. ASSUME NEW i \in 1..Len(cy)
        PROVE  (IF cy[i].key # o + i - 1 \/ cy[i].key >= KeyLen THEN Garbage
                ELSE IF cy[i].key \in HighKey THEN Shifted(cy[i])
                ELSE [cy[i] EXCEPT !.key = Plain]) \in TokenType
    <2>1. cy[i] \in TokenType
      OBVIOUS
    <2>2. [cy[i] EXCEPT !.key = Plain] \in TokenType
      BY <2>1 DEF TokenType
    <2>3. Shifted(cy[i]) \in TokenType
      BY <2>1, ShiftedType
    <2> QED
      BY <2>2, <2>3, TokenTypes
  <1>2. DOMAIN cy = 1..Len(cy) /\ Len(cy) \in Nat
    OBVIOUS
  <1> QED
    BY <1>1, <1>2 DEF Decrypted

LEMMA CommandType == \A b : ParseString(b) \in Command /\ CommandIn(b) \in Command
  <1>1. Malformed \in Command
    BY NamesAreWords DEF Malformed, Command
  <1>2. \A b : ParseString(b) \in Command
    BY <1>1, WellformedType DEF ParseString
  <1> QED
    BY <1>1, <1>2 DEF CommandIn

LEMMA SchedNames == \A s \in Range(Scheds) : s \in Names /\ ProgsOf[s] \subseteq Names
  BY SessionAssumption DEF Range

LEMMA UnitsType ==
    ASSUME NEW cmd \in Command, NEW s \in Range(Scheds)
    PROVE  UnitsAt(s, cmd) \in Seq(WorkUnit)
  <1>1. cmd.arg \in Names /\ cmd.kids \in Seq(Names) /\ NoName \in Names
    BY NamesAreWords DEF Command
  <1>2. /\ Unit("EXIT", NoName) \in WorkUnit /\ Unit("RUN", cmd.arg) \in WorkUnit
        /\ Unit("END", cmd.arg) \in WorkUnit
    BY <1>1 DEF Unit, WorkUnit
  <1>3. QuitKids(cmd) \in Nat
    <2>1. IsFiniteSet(1..Len(cmd.kids))
      BY <1>1, FS_Interval
    <2>2. {i \in DOMAIN cmd.kids : cmd.kids[i] = "quit"} \in SUBSET (1..Len(cmd.kids))
      BY <1>1
    <2>3. IsFiniteSet({i \in DOMAIN cmd.kids : cmd.kids[i] = "quit"})
      BY <2>1, <2>2, FS_Subset
    <2> QED
      BY <2>3, FS_CardinalityType DEF QuitKids
  <1>4. [i \in 1..QuitKids(cmd) |-> Unit("EXIT", NoName)] \in Seq(WorkUnit)
    BY <1>2, <1>3
  <1>5. <<Unit("EXIT", NoName)>> \in Seq(WorkUnit)
    BY <1>2
  <1>6. <<Unit("RUN", cmd.arg)>> \in Seq(WorkUnit)
    BY <1>2
  <1>7. <<Unit("END", cmd.arg)>> \in Seq(WorkUnit)
    BY <1>2
  <1>8. << >> \in Seq(WorkUnit)
    OBVIOUS
  <1>9. UnitsAt(s, cmd) \in {<<Unit("EXIT", NoName)>>, <<Unit("RUN", cmd.arg)>>, <<Unit("END", cmd.arg)>>,
                            [i \in 1..QuitKids(cmd) |-> Unit("EXIT", NoName)], << >>}
    BY Zenon DEF UnitsAt
  <1> QED
    BY <1>4, <1>5, <1>6, <1>7, <1>8, <1>9

LEMMA AnswerTypes ==
    ASSUME NEW cmd \in Command
    PROVE  /\ ResultFor(cmd) \in Seq(TokenType)
           /\ DirectFor(cmd) \in Seq(Seq(TokenType))
  <1>1. cmd.name \in Words /\ cmd.arg \in Words /\ NoName \in Words
    BY NamesAreWords DEF Command
  <1>2. /\ Root \in TokenType /\ Txt("running", NoName) \in TokenType
        /\ Txt("error", "unknown_command") \in TokenType
    <2>1. "peter" \in Words /\ "running" \in Words /\ "error" \in Words /\ "unknown_command" \in Words
      BY DEF Words
    <2> QED
      BY <1>1, <2>1, TokenTypes DEF Root
  <1>3. ASSUME NEW s \in Range(Scheds) PROVE Txt(cmd.name, s) \in TokenType /\ Accepted(s, cmd.arg) \in TokenType
    <2>1. "accepted" \in Words /\ "error_at" \in Words /\ s \in Words
      BY SchedNames, NamesAreWords DEF Words
    <2> QED
      BY <1>1, <2>1, TokenTypes DEF Accepted
  <1>4. DOMAIN Scheds = 1..Len(Scheds) /\ Len(Scheds) \in Nat /\ \A i \in 1..Len(Scheds) : Scheds[i] \in Range(Scheds)
    BY SessionAssumption DEF Range
  <1>5. <<Root>> \o [i \in DOMAIN Scheds |-> Txt(cmd.name, Scheds[i])] \in Seq(TokenType)
    <2>1. [i \in DOMAIN Scheds |-> Txt(cmd.name, Scheds[i])] \in Seq(TokenType)
      BY <1>3, <1>4
    <2> QED
      BY <1>2, <2>1
  <1>6. <<Root>> \o [i \in DOMAIN Scheds |-> Accepted(Scheds[i], cmd.arg)] \in Seq(TokenType)
    <2>1. [i \in DOMAIN Scheds |-> Accepted(Scheds[i], cmd.arg)] \in Seq(TokenType)
      BY <1>3, <1>4
    <2> QED
      BY <1>2, <2>1
  <1>7. <<Root, Txt("running", NoName)>> \in Seq(TokenType)
    BY <1>2
  <1>8. Error("unknown_command") \in Seq(TokenType)
    BY <1>2 DEF Error
  <1>9. <<Root>> \in Seq(TokenType)
    BY <1>2
  <1>10. ResultFor(cmd) \in {<<Root, Txt("running", NoName)>>, Error("unknown_command"), <<Root>>,
                             <<Root>> \o [i \in DOMAIN Scheds |-> Txt(cmd.name, Scheds[i])],
                             <<Root>> \o [i \in DOMAIN Scheds |-> Accepted(Scheds[i], cmd.arg)]}
    BY Zenon DEF ResultFor
  <1>11. ResultFor(cmd) \in Seq(TokenType)
    BY <1>5, <1>6, <1>7, <1>8, <1>9, <1>10
  <1>12. DirectFor(cmd) \in Seq(Seq(TokenType))
    <2>1. CASE SchedulerOf(cmd) \in Range(Scheds)
      <3>1. Cardinality(ProgsOf[SchedulerOf(cmd)]) \in Nat
        BY <2>1, SessionAssumption, FS_CardinalityType
      <3>2. <<Txt("program", SchedulerOf(cmd))>> \in Seq(TokenType)
        <4>1. "program" \in Words /\ "default" \in Words
          BY DEF Words
        <4>2. Txt("program", SchedulerOf(cmd)) \in TokenType
          BY <1>1, <4>1, TokenTypes DEF SchedulerOf
        <4> QED
          BY <4>2
      <3>3. [j \in 1..Cardinality(ProgsOf[SchedulerOf(cmd)]) |-> <<Txt("program", SchedulerOf(cmd))>>]
              \in Seq(Seq(TokenType))
        <4>1. PICK line : line = <<Txt("program", SchedulerOf(cmd))>>
          OBVIOUS
        <4>2. [j \in 1..Cardinality(ProgsOf[SchedulerOf(cmd)]) |-> line] \in Seq(Seq(TokenType))
          <5>1. line \in Seq(TokenType)
            BY <3>2, <4>1
          <5> QED
            BY <3>1, <5>1
        <4> QED
          BY <4>1, <4>2, Zenon
      <3>4. << >> \in Seq(Seq(TokenType))
        OBVIOUS
      <3> QED
        BY <3>3, <3>4, Zenon DEF DirectFor
    <2>2. CASE SchedulerOf(cmd) \notin Range(Scheds)
      BY <2>2 DEF DirectFor
    <2> QED
      BY <2>1, <2>2
  <1> QED
    BY <1>11, <1>12

LEMMA ReplyType ==
    ASSUME NEW b \in Seq(TokenType), NEW text \in Seq(TokenType)
    PROVE  Reply(b, text) \in Seq(TokenType)
  <1>1. CASE ~IsOtp(b)
    BY <1>1 DEF Reply
  <1>2. CASE IsOtp(b) /\ KeyTooShort(AnswerOffset(b), text)
    <2>1. "2" \in Words /\ NoName \in Words
      BY NamesAreWords DEF Words
    <2>2. Txt("2", NoName) \in TokenType
      BY <2>1, TokenTypes
    <2>3. <<Txt("2", NoName)>> \in Seq(TokenType)
      BY <2>2
    <2> QED
      BY <1>2, <2>3 DEF Reply
  <1>3. CASE IsOtp(b) /\ ~KeyTooShort(AnswerOffset(b), text)
    <2>1. AnswerOffset(b) \in Nat
      BY <1>3, OtpTypes
    <2>2. OtpMessage(AnswerOffset(b), Encrypted(AnswerOffset(b), text)) \in Seq(TokenType)
      BY <2>1, EncryptedType, OtpMessageType
    <2> QED
      BY <1>3, <2>2 DEF Reply
  <1> QED
    BY <1>1, <1>2, <1>3

LEMMA KeyUseBound ==
    ASSUME NEW o \in Nat, NEW cy \in Seq(TokenType), ~KeyTooShort(o, cy), NEW c, NEW who
    PROVE  \A u \in KeyUse(o, cy, c, who) : u.byte \in Nat /\ u.byte < KeyLen
  <1>1. KeyLen \in Nat /\ Len(cy) \in Nat /\ DOMAIN cy = 1..Len(cy) /\ o + Len(cy) <= KeyLen
    BY SessionAssumption DEF KeyTooShort
  <1> QED
    BY <1>1 DEF KeyUse

LEMMA GuiLinesType == GuiLines \in Seq(Seq(TokenType))
  <1>1. PICK F : F = [s \in Range(Scheds) |-> {s} \X ProgsOf[s]]
    OBVIOUS
  <1>2. PICK T : T = {{s} \X ProgsOf[s] : s \in Range(Scheds)}
    OBVIOUS
  <1>3. IsFiniteSet(Range(Scheds))
    <2>1. Len(Scheds) \in Nat /\ Scheds \in [1..Len(Scheds) -> Range(Scheds)]
      BY SessionAssumption DEF Range
    <2>2. Scheds \in Surjection(1..Len(Scheds), Range(Scheds))
      BY <2>1 DEF Surjection, Range
    <2> QED
      BY <2>1, <2>2, FS_NatSurjection DEF ExistsSurjection
  <1>4. IsFiniteSet(T)
    <2>1. F \in Surjection(Range(Scheds), T)
      BY <1>1, <1>2 DEF Surjection
    <2> QED
      BY <1>3, <2>1, FS_Surjection DEF ExistsSurjection
  <1>5. ASSUME NEW X \in T PROVE IsFiniteSet(X)
    <2>1. PICK s \in Range(Scheds) : X = {s} \X ProgsOf[s]
      BY <1>2, <1>5
    <2>2. IsFiniteSet(ProgsOf[s]) /\ IsFiniteSet({s})
      BY SessionAssumption, FS_Singleton
    <2> QED
      BY <2>1, <2>2, FS_Product
  <1>6. Cardinality(UNION T) \in Nat
    <2>1. IsFiniteSet(UNION T)
      BY <1>4, <1>5, FS_UNION
    <2> QED
      BY <2>1, FS_CardinalityType
  <1>7. <<Txt("line", NoName), Nl>> \in Seq(TokenType)
    <2>1. "line" \in Words /\ NoName \in Words
      BY NamesAreWords DEF Words
    <2>2. Txt("line", NoName) \in TokenType /\ Nl \in TokenType
      BY <2>1, TokenTypes
    <2> QED
      BY <2>2
  <1>8. GuiLines = [i \in 1..Cardinality(UNION T) |-> <<Txt("line", NoName), Nl>>]
    BY <1>2 DEF GuiLines
  <1>9. PICK line : line = <<Txt("line", NoName), Nl>>
    OBVIOUS
  <1>10. PICK n : n = Cardinality(UNION T)
    OBVIOUS
  <1>11. [i \in 1..n |-> line] \in Seq(Seq(TokenType))
    <2>1. line \in Seq(TokenType) /\ n \in Nat
      BY <1>6, <1>7, <1>9, <1>10
    <2> QED
      BY <2>1
  <1> QED
    BY <1>8, <1>9, <1>10, <1>11, Zenon

-----------------------------------------------------------------------------
(* Types.  While the server is with a client, it is one of them.           *)

TypeInv == TypeOK /\ (at # "poll" => conn \in Clients)

(* Types, variable group by variable group.                                *)
FlagTypes == otp_only \in BOOLEAN /\ up \in BOOLEAN
ServerTypes ==
    /\ at \in {"poll", "read_data", "check_id", "gui", "read_more", "decide", "answer"}
    /\ conn \in Clients \cup {NoClient}
    /\ (at # "poll" => conn \in Clients)
    /\ fd \in {"open", "closed"} /\ closes \in Nat
TextTypes == buf \in Seq(TokenType) /\ out \in Seq(Seq(TokenType))
NetTypes ==
    /\ link \in [Clients -> {"none", "queued", "open", "closed"}] /\ reset \subseteq Clients
    /\ inq \in [Clients -> Seq(TokenType)]
    /\ outq \in [Clients -> Seq(TokenType)]
ClientTypes ==
    /\ cpc \in [Clients -> {"start", "hello", "send", "save", "read", "done", "killed"}]
    /\ got \in [Clients -> Seq(TokenType)]
    /\ of \in [Clients -> Nat] /\ pos \in Nat
GhostTypes ==
    /\ said \in [Clients -> Seq(TokenType)]
    /\ pushed \in [Clients -> [Range(Scheds) -> Seq(WorkUnit)]]
UsedTypes == \A u \in used : u.byte \in Nat /\ u.byte < KeyLen

LEMMA TypeParts ==
    TypeInv <=> /\ FlagTypes
                /\ ServerTypes /\ TextTypes /\ NetTypes /\ ClientTypes /\ GhostTypes /\ UsedTypes
  BY Zenon DEF TypeInv, TypeOK, FlagTypes, ServerTypes, TextTypes, NetTypes, ClientTypes, GhostTypes, UsedTypes

LEMMA InitTypes == Init => TypeInv
  <1> SUFFICES ASSUME Init PROVE TypeInv
    OBVIOUS
  <1>1. FlagTypes
    BY SessionAssumption, Zenon DEF Init, FlagTypes
  <1>2. ServerTypes /\ TextTypes
    BY DEF Init, ServerTypes, TextTypes
  <1>3. NetTypes /\ ClientTypes
    BY DEF Init, NetTypes, ClientTypes
  <1>4. GhostTypes
    BY DEF Init, GhostTypes, NoUnits
  <1>5. UsedTypes
    BY DEF Init, UsedTypes
  <1> QED
    BY <1>1, <1>2, <1>3, <1>4, <1>5, TypeParts

LEMMA SendTypes ==
    ASSUME NetTypes, conn \in Clients, NEW text \in Seq(TokenType), SendWorks(text)
    PROVE  outq' \in [Clients -> Seq(TokenType)]
  <1>1. outq[conn] \o text \in Seq(TokenType)
    BY DEF NetTypes
  <1> QED
    BY <1>1 DEF NetTypes, SendWorks

LEMMA ResetTypes ==
    ASSUME NetTypes, conn \in Clients, NEW more \in SUBSET Clients, MayReset(more)
    PROVE  reset' \subseteq Clients /\ outq' \in [Clients -> Seq(TokenType)]
  <1>1. reset' \subseteq Clients
    BY DEF NetTypes, MayReset
  <1>2. outq' = outq \/ outq' = [outq EXCEPT ![conn] = << >>]
    BY Zenon DEF MayReset
  <1>3. << >> \in Seq(TokenType) /\ outq \in [Clients -> Seq(TokenType)]
    BY DEF NetTypes
  <1> QED
    BY <1>1, <1>2, <1>3

LEMMA ClosedTypes ==
    ASSUME NetTypes, ServerTypes, conn \in Clients, Closed
    PROVE  NetTypes' /\ fd' = "closed" /\ closes' \in Nat
  <1>1. link' \in [Clients -> {"none", "queued", "open", "closed"}]
    BY DEF NetTypes, Closed
  <1>2. inq' \in [Clients -> Seq(TokenType)]
    BY DEF NetTypes, Closed
  <1>3. reset' \subseteq Clients /\ outq' \in [Clients -> Seq(TokenType)]
    BY ResetTypes DEF Closed
  <1> QED
    BY <1>1, <1>2, <1>3 DEF NetTypes, Closed, ServerTypes

LEMMA AcceptTypes ==
    ASSUME TypeInv, Accept PROVE ServerTypes' /\ TextTypes' /\ NetTypes'
  <1>1. ServerTypes'
    BY TypeParts DEF Accept, ServerTypes
  <1>2. TextTypes'
    BY TypeParts DEF Accept, TextTypes
  <1>3. NetTypes'
    BY TypeParts DEF Accept, NetTypes
  <1> QED
    BY <1>1, <1>2, <1>3

LEMMA ReceiveTypes ==
    ASSUME TypeInv, Receive PROVE ServerTypes' /\ TextTypes' /\ NetTypes'
  <1>1. conn \in Clients /\ inq[conn] \in Seq(TokenType) /\ buf \in Seq(TokenType)
    BY TypeParts DEF ServerTypes, NetTypes, TextTypes, Receive
  <1>2. PICK n \in 1..Len(inq[conn]) :
          /\ inq' = [inq EXCEPT ![conn] = SubSeq(inq[conn], n + 1, Len(inq[conn]))]
          /\ IF EndsIn(Gathered(SubSeq(inq[conn], 1, n))) = {}
               THEN buf' = Gathered(SubSeq(inq[conn], 1, n)) /\ UNCHANGED at
               ELSE buf' = CutAtEnd(Gathered(SubSeq(inq[conn], 1, n))) /\ at' = NextState
    BY Zenon DEF Receive
  <1>3. PICK b : b = Gathered(SubSeq(inq[conn], 1, n))
    OBVIOUS
  <1>4. SubSeq(inq[conn], 1, n) \in Seq(TokenType) /\ SubSeq(inq[conn], n + 1, Len(inq[conn])) \in Seq(TokenType)
    <2>1. Len(inq[conn]) \in Nat /\ n + 1 \in 1..(Len(inq[conn]) + 1)
      BY <1>1
    <2> QED
      BY <1>1, <2>1, PartType
  <1>5. b \in Seq(TokenType)
    BY <1>1, <1>3, <1>4 DEF Gathered
  <1>6. buf' \in Seq(TokenType)
    <2>1. CASE EndsIn(b) = {}
      BY <1>2, <1>3, <1>5, <2>1
    <2>2. CASE EndsIn(b) # {}
      <3>1. PICK e \in 2..Len(b) : CutAtEnd(b) = SubSeq(b, 1, IF b[e].class = "gt" THEN e ELSE e - 1)
        BY <1>5, <2>2, CutIsPrefix
      <3>2. CutAtEnd(b) \in {SubSeq(b, 1, e), SubSeq(b, 1, e - 1)} /\ e \in 0..Len(b) /\ e - 1 \in 0..Len(b)
            /\ 1 \in 1..(Len(b) + 1)
        BY <1>5, <3>1
      <3>3. CutAtEnd(b) \in Seq(TokenType)
        BY <1>5, <3>2, PartType
      <3> QED
        BY <1>2, <1>3, <2>2, <3>3
    <2> QED
      BY <2>1, <2>2
  <1>7. at' \in {at, "check_id", "decide"} /\ UNCHANGED <<conn, fd, closes, out, link, reset, outq>>
    BY <1>2 DEF NextState, Receive
  <1>8. ServerTypes'
    BY <1>1, <1>7, TypeParts DEF ServerTypes
  <1>9. TextTypes'
    BY <1>6, <1>7, TypeParts DEF TextTypes
  <1>10. NetTypes'
    BY <1>1, <1>2, <1>4, <1>7, TypeParts DEF NetTypes
  <1> QED
    BY <1>8, <1>9, <1>10

LEMMA CheckIdTypes ==
    ASSUME TypeInv, CheckId PROVE ServerTypes' /\ TextTypes' /\ NetTypes'
  <1>0. /\ conn \in Clients /\ buf' = << >> /\ conn' = conn
        /\ ServerTypes /\ TextTypes /\ NetTypes
    BY TypeParts DEF ServerTypes, CheckId
  <1>1. CASE CommandId
    <2>1. out' = out /\ (at' = "poll" \/ at' = "read_more")
      BY <1>1 DEF CommandId
    <2>2. TextTypes'
      BY <1>0, <2>1 DEF TextTypes
    <2>3. CASE SendWorks(<<Txt("1", NoName)>>) /\ at' = "read_more" /\ UNCHANGED <<fd, closes, link, reset, inq>>
      <3>1. "1" \in Words /\ NoName \in Words
        BY NamesAreWords DEF Words
      <3>2. Txt("1", NoName) \in TokenType
        BY <3>1, TokenTypes
      <3>3. <<Txt("1", NoName)>> \in Seq(TokenType)
        BY <3>2
      <3>4. outq' \in [Clients -> Seq(TokenType)]
        BY <1>0, <2>3, <3>3, SendTypes
      <3> QED
        BY <1>0, <2>2, <2>3, <3>4 DEF ServerTypes, NetTypes
    <2>4. CASE SendFails /\ Closed /\ at' = "poll"
      BY <1>0, <2>2, <2>4, ClosedTypes DEF ServerTypes
    <2> QED
      BY <1>1, <2>3, <2>4, Zenon DEF CommandId
  <1>2. CASE GuiId
    <2>1. TextTypes'
      BY <1>0, <1>2, GuiLinesType DEF GuiId, TextTypes
    <2>2. ServerTypes'
      BY <1>0, <1>2 DEF GuiId, ServerTypes
    <2>3. NetTypes'
      BY <1>0, <1>2 DEF GuiId, NetTypes, netVars
    <2> QED
      BY <2>1, <2>2, <2>3
  <1>3. CASE BadId
    <2>1. Closed /\ at' = "poll" /\ out' = out
      BY <1>3 DEF BadId
    <2> QED
      BY <1>0, <2>1, ClosedTypes DEF ServerTypes, TextTypes
  <1> QED
    BY <1>1, <1>2, <1>3 DEF CheckId

LEMMA ShorterType ==
    ASSUME NEW S, NEW q \in Seq(S), q # << >>
    PROVE  Head(q) \in S /\ Tail(q) \in Seq(S)
  OBVIOUS

LEMMA GuiTypes ==
    ASSUME TypeInv, GuiLine \/ GuiDone \/ CloseClient
    PROVE  ServerTypes' /\ TextTypes' /\ NetTypes'
  <1>0. ServerTypes /\ TextTypes /\ NetTypes
    BY TypeParts
  <1>1. CASE GuiLine
    <2>1. /\ conn \in Clients /\ Head(out) \in Seq(TokenType)
          /\ at' = at /\ conn' = conn /\ buf' = buf /\ out' \in Seq(Seq(TokenType))
      BY <1>0, <1>1, ShorterType DEF GuiLine, ServerTypes, TextTypes
    <2>2. TextTypes'
      BY <1>0, <2>1 DEF TextTypes
    <2>3. CASE SendWorks(Head(out)) /\ UNCHANGED <<fd, closes, link, reset, inq>>
      <3>1. outq' \in [Clients -> Seq(TokenType)]
        BY <1>0, <2>1, <2>3, SendTypes
      <3> QED
        BY <1>0, <2>1, <2>2, <2>3, <3>1 DEF ServerTypes, NetTypes
    <2>4. CASE SendFails /\ Closed
      <3>1. NetTypes' /\ fd' = "closed" /\ closes' \in Nat
        BY <1>0, <2>1, <2>4, ClosedTypes
      <3> QED
        BY <1>0, <2>1, <2>2, <3>1 DEF ServerTypes
    <2> QED
      BY <1>1, <2>3, <2>4, Zenon DEF GuiLine
  <1>2. CASE GuiDone \/ CloseClient
    <2>1. /\ conn \in Clients /\ Closed /\ at' = "poll" /\ conn' = conn /\ buf' = buf /\ out' = out
      BY <1>0, <1>2 DEF GuiDone, CloseClient, ServerTypes
    <2>2. NetTypes' /\ fd' = "closed" /\ closes' \in Nat
      BY <1>0, <2>1, ClosedTypes
    <2> QED
      BY <1>0, <2>1, <2>2 DEF ServerTypes, TextTypes
  <1> QED
    BY <1>1, <1>2

LEMMA SendAnswerTypes ==
    ASSUME TypeInv, SendAnswer
    PROVE  ServerTypes' /\ TextTypes' /\ NetTypes'
  <1>0. ServerTypes /\ TextTypes /\ NetTypes
    BY TypeParts
  <1>1. /\ conn \in Clients /\ Head(out) \in Seq(TokenType) /\ out' \in Seq(Seq(TokenType))
        /\ UNCHANGED <<at, conn, fd, closes, buf, link, reset, inq>>
    BY <1>0, ShorterType DEF SendAnswer, ServerTypes, TextTypes
  <1>2. outq' \in [Clients -> Seq(TokenType)]
    <2>1. CASE SendWorks(Head(out))
      BY <1>0, <1>1, <2>1, SendTypes
    <2>2. CASE UNCHANGED outq
      BY <1>0, <2>2 DEF NetTypes
    <2> QED
      BY <2>1, <2>2, Zenon DEF SendAnswer
  <1> QED
    BY <1>0, <1>1, <1>2 DEF ServerTypes, TextTypes, NetTypes

LEMMA ErrorType == \A type \in Words : Error(type) \in Seq(TokenType)
  <1> SUFFICES ASSUME NEW type \in Words PROVE Error(type) \in Seq(TokenType)
    OBVIOUS
  <1>1. "peter" \in Words /\ "error" \in Words /\ NoName \in Words
    BY NamesAreWords DEF Words
  <1>2. Root \in TokenType /\ Txt("error", type) \in TokenType
    BY <1>1, TokenTypes DEF Root
  <1> QED
    BY <1>2 DEF Error

LEMMA AnsweredTypes ==
    ASSUME TypeInv, conn \in Clients, NEW text \in Seq(TokenType), NEW replies \in Seq(Seq(TokenType)),
           Answer(text, replies), buf' = << >>, UNCHANGED <<conn, fd, closes>>
    PROVE  ServerTypes' /\ TextTypes' /\ said' \in [Clients -> Seq(TokenType)]
  BY TypeParts DEF Answer, ServerTypes, TextTypes, GhostTypes

LEMMA RefuseTypes ==
    ASSUME TypeInv, conn \in Clients, NEW type \in Words,
           Refuse(type), buf' = << >>, UNCHANGED <<conn, fd, closes>>
    PROVE  ServerTypes' /\ TextTypes' /\ GhostTypes' /\ UsedTypes'
  <1>1. PICK e : e = Error(type)
    OBVIOUS
  <1>2. e \in Seq(TokenType) /\ <<e>> \in Seq(Seq(TokenType))
    BY <1>1, ErrorType
  <1>3. Answer(e, <<e>>) /\ pushed' = pushed /\ used' = used
    BY <1>1 DEF Refuse
  <1>4. ServerTypes' /\ TextTypes' /\ said' \in [Clients -> Seq(TokenType)]
    BY <1>2, <1>3, AnsweredTypes
  <1> QED
    BY <1>3, <1>4, TypeParts DEF GhostTypes, UsedTypes

LEMMA SilentTypes ==
    ASSUME TypeInv, conn \in Clients, Answer(<< >>, << >>), UNCHANGED <<pushed, used>>,
           buf' = << >>, UNCHANGED <<conn, fd, closes>>
    PROVE  ServerTypes' /\ TextTypes' /\ GhostTypes' /\ UsedTypes'
  <1>1. << >> \in Seq(TokenType) /\ << >> \in Seq(Seq(TokenType))
    OBVIOUS
  <1>2. ServerTypes' /\ TextTypes' /\ said' \in [Clients -> Seq(TokenType)]
    BY <1>1, AnsweredTypes
  <1> QED
    BY <1>2, TypeParts DEF GhostTypes, UsedTypes

LEMMA ExecuteTypes ==
    ASSUME TypeInv, conn \in Clients, NEW cmd \in Command, Execute(cmd),
           buf' = << >>, UNCHANGED <<conn, fd, closes>>
    PROVE  ServerTypes' /\ TextTypes' /\ GhostTypes' /\ UsedTypes'
  <1>1. PICK r : r = ResultFor(cmd)
    OBVIOUS
  <1>2. r \in Seq(TokenType) /\ DirectFor(cmd) \in Seq(Seq(TokenType)) /\ buf \in Seq(TokenType)
    BY <1>1, AnswerTypes, TypeParts DEF TextTypes
  <1>3. PICK rep : rep = Reply(buf, r)
    OBVIOUS
  <1>4. rep \in Seq(TokenType)
    BY <1>2, <1>3, ReplyType
  <1>5. DirectFor(cmd) \o <<rep>> \in Seq(Seq(TokenType))
    BY <1>2, <1>4
  <1>6. Answer(r, DirectFor(cmd) \o <<rep>>)
    BY <1>1, <1>3 DEF Execute
  <1>7. ServerTypes' /\ TextTypes' /\ said' \in [Clients -> Seq(TokenType)]
    BY <1>2, <1>5, <1>6, AnsweredTypes
  <1>8. pushed' \in [Clients -> [Range(Scheds) -> Seq(WorkUnit)]]
    <2>1. pushed \in [Clients -> [Range(Scheds) -> Seq(WorkUnit)]]
      BY TypeParts DEF GhostTypes
    <2>2. pushed' = [pushed EXCEPT ![conn] = [s \in Range(Scheds) |-> pushed[conn][s] \o UnitsAt(s, cmd)]]
      BY DEF Execute
    <2>3. ASSUME NEW s \in Range(Scheds) PROVE pushed[conn][s] \o UnitsAt(s, cmd) \in Seq(WorkUnit)
      <3>1. UnitsAt(s, cmd) \in Seq(WorkUnit) /\ pushed[conn][s] \in Seq(WorkUnit)
        BY <2>1, UnitsType
      <3> QED
        BY <3>1
    <2>4. [s \in Range(Scheds) |-> pushed[conn][s] \o UnitsAt(s, cmd)] \in [Range(Scheds) -> Seq(WorkUnit)]
      BY <2>3
    <2> QED
      BY <2>1, <2>2, <2>4
  <1>9. UsedTypes'
    <2>1. CASE IsOtp(buf) /\ ~KeyTooShort(AnswerOffset(buf), r)
      <3>1. AnswerOffset(buf) \in Nat
        BY <1>2, <2>1, OtpTypes
      <3>2. used' = used \cup KeyUse(AnswerOffset(buf), r, conn, "server")
        BY <1>1, <2>1 DEF Execute
      <3>3. \A u \in KeyUse(AnswerOffset(buf), r, conn, "server") : u.byte \in Nat /\ u.byte < KeyLen
        BY <1>2, <2>1, <3>1, KeyUseBound
      <3> QED
        BY <3>2, <3>3, TypeParts DEF UsedTypes
    <2>2. CASE ~(IsOtp(buf) /\ ~KeyTooShort(AnswerOffset(buf), r))
      <3>1. used' = used
        BY <1>1, <2>2 DEF Execute
      <3> QED
        BY <3>1, TypeParts DEF UsedTypes
    <2> QED
      BY <2>1, <2>2
  <1> QED
    BY <1>7, <1>8, <1>9 DEF GhostTypes

LEMMA DecideTypes ==
    ASSUME TypeInv, Decide
    PROVE  ServerTypes' /\ TextTypes' /\ GhostTypes' /\ UsedTypes'
  <1>0. conn \in Clients /\ buf' = << >> /\ UNCHANGED <<conn, fd, closes>>
    BY TypeParts DEF Decide, ServerTypes
  <1>1. CASE Answer(<< >>, << >>) /\ UNCHANGED <<pushed, used>>
    BY <1>0, <1>1, SilentTypes
  <1>2. CASE \E type \in {"no_access", "not_allowed_or_unknown", "XML_error"} : Refuse(type)
    <2>1. PICK type \in Words : Refuse(type)
      BY <1>2 DEF Words
    <2> QED
      BY <1>0, <2>1, RefuseTypes
  <1>3. CASE Execute(CommandIn(buf))
    BY <1>0, <1>3, CommandType, ExecuteTypes
  <1> QED
    BY <1>1, <1>2, <1>3, Zenon DEF Decide

LEMMA TerminateTypes ==
    ASSUME TypeInv, Terminate
    PROVE  up' \in BOOLEAN /\ ServerTypes' /\ TextTypes' /\ NetTypes'
  <1>0. ServerTypes /\ TextTypes /\ NetTypes
    BY TypeParts
  <1>1. PICK queued : queued = {c \in Clients : link[c] = "queued"}
    OBVIOUS
  <1>2. /\ link' = [c \in Clients |-> IF c \in queued \cup {conn} THEN "closed" ELSE link[c]]
        /\ inq' = [c \in Clients |-> IF c \in queued \cup {conn} THEN << >> ELSE inq[c]]
        /\ MayReset(queued)
    BY <1>1 DEF Terminate
  <1>3. conn \in Clients
    BY <1>0 DEF Terminate, ServerTypes
  <1>4. reset' \subseteq Clients /\ outq' \in [Clients -> Seq(TokenType)]
    BY <1>0, <1>1, <1>2, <1>3, ResetTypes
  <1>5. link' \in [Clients -> {"none", "queued", "open", "closed"}]
    BY <1>0, <1>2 DEF NetTypes
  <1>6. inq' \in [Clients -> Seq(TokenType)]
    BY <1>0, <1>2 DEF NetTypes
  <1>7. ServerTypes' /\ TextTypes'
    BY <1>0 DEF Terminate, ServerTypes, TextTypes
  <1>8. up' \in BOOLEAN
    BY DEF Terminate
  <1> QED
    BY <1>4, <1>5, <1>6, <1>7, <1>8 DEF NetTypes

LEMMA IdType == \A c : IdOf(c) \in TokenType /\ <<IdOf(c), Nl>> \in Seq(TokenType)
  <1> SUFFICES ASSUME NEW c PROVE IdOf(c) \in TokenType /\ <<IdOf(c), Nl>> \in Seq(TokenType)
    OBVIOUS
  <1>1. "pcmd" \in Words /\ "pgui" \in Words /\ "hello" \in Words /\ NoName \in Words
    BY NamesAreWords DEF Words
  <1>2. {Txt("pcmd", NoName), Txt("pgui", NoName), Txt("hello", NoName)} \subseteq TokenType /\ Nl \in TokenType
    BY <1>1, TokenTypes
  <1>3. IdOf(c) \in TokenType
    BY <1>2 DEF IdOf
  <1> QED
    BY <1>2, <1>3

LEMMA TypedType ==
    ASSUME NEW c \in Clients
    PROVE  Typed[c] \in Command /\ Text(Typed[c]) \in Seq(TokenType) /\ Len(Text(Typed[c])) \in Nat
  BY SessionAssumption, TextFacts

LEMMA PlainTypes ==
    ASSUME TypeInv, NEW c \in Clients,
           \/ Connect(c) \/ ConnectFails(c) \/ GetOne(c) \/ SendPlain(c) \/ SavePos(c)
           \/ ReadAnswer(c) \/ GiveUp(c)
    PROVE  NetTypes' /\ ClientTypes'
  <1>0. NetTypes /\ ClientTypes
    BY TypeParts
  <1>1. CASE Connect(c)
    <2>1. inq' \in [Clients -> Seq(TokenType)] /\ outq' = outq
      BY <1>0, <1>1, IdType DEF Connect, NetTypes
    <2>2. link' \in [Clients -> {"none", "queued", "open", "closed"}]
      BY <1>0, <1>1 DEF Connect, NetTypes
    <2>3. ClientTypes'
      BY <1>0, <1>1 DEF Connect, Step, ClientTypes
    <2>4. reset' = reset
      BY <1>1 DEF Connect
    <2> QED
      BY <1>0, <2>1, <2>2, <2>3, <2>4 DEF NetTypes
  <1>7. CASE ConnectFails(c)
    BY <1>0, <1>7 DEF ConnectFails, Step, ClientTypes, NetTypes
  <1>2. CASE GetOne(c)
    <2>1. NetTypes'
      <3>1. (IF outq[c] = << >> THEN outq[c] ELSE Tail(outq[c])) \in Seq(TokenType)
        BY <1>0, ShorterType DEF NetTypes
      <3> QED
        BY <1>0, <1>2, <3>1 DEF GetOne, NetTypes
    <2> QED
      BY <1>0, <1>2, <2>1 DEF GetOne, Step, ClientTypes
  <1>3. CASE SendPlain(c)
    <2>1. inq[c] \o Text(Typed[c]) \o <<Nl>> \in Seq(TokenType)
      <3>1. PICK m : m = inq[c] \o Text(Typed[c])
        OBVIOUS
      <3>2. m \in Seq(TokenType)
        BY <1>0, <3>1, TypedType DEF NetTypes
      <3>3. <<Nl>> \in Seq(TokenType)
        BY TokenTypes
      <3> QED
        BY <3>1, <3>2, <3>3
    <2>2. reset' \subseteq Clients
      BY <1>0, <1>3 DEF SendPlain, Run, End, NetTypes
    <2>3. NetTypes'
      BY <1>0, <1>3, <2>1, <2>2 DEF SendPlain, NetTypes
    <2> QED
      BY <1>0, <1>3, <2>3 DEF SendPlain, Run, End, Step, ClientTypes
  <1>4. CASE SavePos(c)
    <2>1. of[c] + Len(Text(Typed[c])) \in Nat
      BY <1>0, TypedType DEF ClientTypes
    <2> QED
      BY <1>0, <1>4, <2>1 DEF SavePos, Step, ClientTypes, NetTypes, netVars
  <1>5. CASE ReadAnswer(c)
    <2>1. got[c] \o outq[c] \in Seq(TokenType) /\ << >> \in Seq(TokenType)
      BY <1>0 DEF NetTypes, ClientTypes
    <2> QED
      BY <1>0, <1>5, <2>1 DEF ReadAnswer, ClientTypes, NetTypes
  <1>6. CASE GiveUp(c)
    <2>1. << >> \in Seq(TokenType)
      OBVIOUS
    <2> QED
      BY <1>0, <1>6, <2>1 DEF GiveUp, End, Step, ClientTypes, NetTypes
  <1> QED
    BY <1>1, <1>2, <1>3, <1>4, <1>5, <1>6, <1>7

LEMMA FinishTypes ==
    ASSUME TypeInv, NEW c \in Clients, FinishRead(c)
    PROVE  NetTypes' /\ ClientTypes'
  <1>0. NetTypes /\ ClientTypes
    BY TypeParts
  <1>1. IsOtp(got[c]) => NewPos(got[c]) \in Nat
    BY <1>0, OtpTypes DEF ClientTypes
  <1>2. pos' \in Nat
    BY <1>0, <1>1 DEF FinishRead, ClientTypes
  <1>3. << >> \in Seq(TokenType)
    OBVIOUS
  <1> QED
    BY <1>0, <1>2, <1>3 DEF FinishRead, End, Step, ClientTypes, NetTypes

LEMMA SendEncryptedTypes ==
    ASSUME TypeInv, NEW c \in Clients, SendEncrypted(c)
    PROVE  NetTypes' /\ ClientTypes' /\ UsedTypes'
  <1>0. NetTypes /\ ClientTypes /\ UsedTypes
    BY TypeParts
  <1>1. ClientTypes'
    BY <1>0 DEF SendEncrypted, Run, End, Step, ClientTypes
  <1>2. PICK t : t = Text(Typed[c])
    OBVIOUS
  <1>3. t \in Seq(TokenType) /\ of[c] \in Nat
    BY <1>0, <1>2, TypedType DEF ClientTypes
  <1>4. CASE KeyTooShort(of[c], t) \/ c \in reset
    <2>1. inq' = inq /\ used' = used /\ link' = link /\ outq' = outq /\ reset' = reset \ {c}
      BY <1>2, <1>4 DEF SendEncrypted, End
    <2> QED
      BY <1>0, <1>1, <2>1 DEF NetTypes, UsedTypes
  <1>5. CASE ~(KeyTooShort(of[c], t) \/ c \in reset)
    <2>1. PICK m : m = OtpMessage(of[c], Encrypted(of[c], t))
      OBVIOUS
    <2>2. m \in Seq(TokenType)
      BY <1>3, <2>1, EncryptedType, OtpMessageType
    <2>3. /\ inq' = [inq EXCEPT ![c] = inq[c] \o m] /\ link' = link /\ outq' = outq /\ reset' = reset
          /\ used' = used \cup KeyUse(of[c], t, c, "client")
      BY <1>2, <1>5, <2>1 DEF SendEncrypted, Run
    <2>4. inq[c] \o m \in Seq(TokenType)
      BY <1>0, <2>2 DEF NetTypes
    <2>5. NetTypes'
      BY <1>0, <2>3, <2>4 DEF NetTypes
    <2>6. \A u \in KeyUse(of[c], t, c, "client") : u.byte \in Nat /\ u.byte < KeyLen
      BY <1>3, <1>5, KeyUseBound
    <2> QED
      BY <1>0, <1>1, <2>3, <2>5, <2>6 DEF UsedTypes
  <1> QED
    BY <1>4, <1>5

LEMMA TypeStep == TypeInv /\ [Next]_vars => TypeInv'
  <1> SUFFICES ASSUME TypeInv, [Next]_vars PROVE TypeInv'
    OBVIOUS
  <1>0. /\ FlagTypes
        /\ ServerTypes /\ TextTypes /\ NetTypes /\ ClientTypes /\ GhostTypes /\ UsedTypes
    BY TypeParts
  <1>a. otp_only' = otp_only /\ up' = up => FlagTypes'
    BY <1>0, Zenon DEF FlagTypes
  <1>b. FlagTypes' /\ ServerTypes' /\ TextTypes' /\ NetTypes' /\ ClientTypes' /\ GhostTypes' /\ UsedTypes'
          => TypeInv'
    BY Zenon DEF TypeInv, TypeOK, FlagTypes, ServerTypes, TextTypes, NetTypes, ClientTypes, GhostTypes, UsedTypes
  <1>1. ASSUME UNCHANGED clientVars PROVE ClientTypes'
    BY <1>0, <1>1 DEF clientVars, ClientTypes
  <1>2. ASSUME UNCHANGED ghostVars PROVE GhostTypes' /\ UsedTypes'
    BY <1>0, <1>2 DEF ghostVars, GhostTypes, UsedTypes
  <1>3. ASSUME UNCHANGED serverVars PROVE ServerTypes' /\ TextTypes' /\ up' = up
    BY <1>0, <1>3 DEF serverVars, ServerTypes, TextTypes
  <1>4. ASSUME UNCHANGED netVars PROVE NetTypes'
    BY <1>0, <1>4 DEF netVars, NetTypes
  <1>5. CASE UNCHANGED vars
    <2>1. UNCHANGED <<otp_only, serverVars, netVars, clientVars, ghostVars>>
      BY <1>5 DEF vars
    <2> QED
      BY <1>0, <1>1, <1>2, <1>3, <1>4, <2>1, <1>a, <1>b
  <1>6. CASE Server
    <2>1. otp_only' = otp_only
      BY <1>6 DEF Server
    <2>5. CASE Terminate
      <3>1. UNCHANGED <<clientVars, ghostVars>>
        BY <2>5 DEF Terminate
      <3>2. FlagTypes'
        BY <1>0, <2>1, <2>5, TerminateTypes, Zenon DEF FlagTypes
      <3> QED
        BY <1>1, <1>2, <2>5, <3>1, <3>2, TerminateTypes, <1>b
    <2>2. CASE up' = up /\ (Accept \/ Receive \/ CheckId \/ GuiLine \/ GuiDone \/ CloseClient \/ SendAnswer)
      <3>1. UNCHANGED <<clientVars, ghostVars>>
        BY <2>2 DEF Accept, Receive, CheckId, GuiLine, GuiDone, CloseClient, SendAnswer
      <3>2. ServerTypes' /\ TextTypes' /\ NetTypes'
        BY <2>2, AcceptTypes, ReceiveTypes, CheckIdTypes, GuiTypes, SendAnswerTypes
      <3> QED
        BY <1>0, <1>1, <1>2, <2>1, <2>2, <3>1, <3>2, <1>a, <1>b
    <2>3. CASE up' = up /\ ReceiveEnd
      <3>1. UNCHANGED <<netVars, clientVars, ghostVars>>
        BY <2>3 DEF ReceiveEnd
      <3>2. ServerTypes' /\ TextTypes'
        BY <1>0, <2>3 DEF ReceiveEnd, NextState, ServerTypes, TextTypes
      <3> QED
        BY <1>0, <1>1, <1>2, <1>4, <2>1, <2>3, <3>1, <3>2, <1>a, <1>b
    <2>4. CASE up' = up /\ Decide
      <3>1. UNCHANGED <<netVars, clientVars>>
        BY <2>4 DEF Decide
      <3> QED
        BY <1>0, <1>1, <1>4, <2>1, <2>4, <3>1, DecideTypes, <1>a, <1>b
    <2> QED
      BY <1>6, <2>2, <2>3, <2>4, <2>5 DEF Server
  <1>7. ASSUME NEW c \in Clients, Client(c) \/ GiveUp(c) PROVE TypeInv'
    <2>1. otp_only' = otp_only /\ UNCHANGED serverVars
      BY <1>7 DEF Client, GiveUp, Connect, ConnectFails, GetOne, SendPlain, SendEncrypted, SavePos, ReadAnswer, FinishRead
    <2>2. CASE SendEncrypted(c)
      <3>1. pushed' = pushed /\ said' = said
        BY <2>2 DEF SendEncrypted
      <3>2. GhostTypes'
        BY <1>0, <3>1 DEF GhostTypes
      <3> QED
        BY <1>0, <1>3, <2>1, <2>2, <3>2, SendEncryptedTypes, <1>a, <1>b
    <2>3. CASE Connect(c) \/ ConnectFails(c) \/ GetOne(c) \/ SendPlain(c) \/ SavePos(c) \/ ReadAnswer(c) \/ GiveUp(c) \/ FinishRead(c)
      <3>1. UNCHANGED ghostVars
        BY <2>3 DEF Connect, ConnectFails, GetOne, SendPlain, SavePos, ReadAnswer, GiveUp, FinishRead
      <3>2. NetTypes' /\ ClientTypes'
        BY <2>3, PlainTypes, FinishTypes
      <3> QED
        BY <1>0, <1>2, <1>3, <2>1, <3>1, <3>2, <1>a, <1>b
    <2> QED
      BY <1>7, <2>2, <2>3 DEF Client
  <1> QED
    BY <1>5, <1>6, <1>7 DEF Next, Quiet, AcceptFails

(* Every text, descriptor and place has its type, and no key byte behind   *)
(* the end of the key file is used, for any key file and any clients       *)
(* (Socket.h, cmd.cc, otpcmd.cc 190-262).                                  *)
THEOREM SessionTypes == Spec => []TypeOK
  <1>1. TypeInv => TypeOK
    BY DEF TypeInv
  <1> QED
    BY <1>1, InitTypes, TypeStep, PTL DEF Spec

-----------------------------------------------------------------------------
(* The inductive invariant.  What the server has read and what is still on *)
(* its way make up one text, which is the client's ID until the server has *)
(* sent its "1", and one message of the client after that.                 *)

Speaks(c) == Kind[c] \in {"pcmd", "otpcmd"}

Messages(c) ==
    IF Kind[c] = "pcmd"
      THEN {Text(Typed[c]) \o <<Nl>>}
      ELSE {OtpMessage(o, Encrypted(o, Text(Typed[c]))) :
              o \in {n \in 0..KeyLen : ~KeyTooShort(n, Text(Typed[c]))}}

(* A connection that has not been accepted, and the one that has.          *)
Links ==
    /\ \A c \in Clients : link[c] = "none" <=> cpc[c] = "start"
    /\ \A c \in Clients : link[c] \in {"none", "queued"} => pushed[c] = NoUnits /\ outq[c] = << >>
    /\ \A c \in Clients : link[c] = "queued" =>
          inq[c] = <<IdOf(c), Nl>> /\ cpc[c] \in {"hello", "read", "killed"}
    /\ at # "poll" => link[conn] \in {"open", "closed"}
    /\ at \notin {"poll", "gui"} => link[conn] = "open"

(* The descriptor: closed before the next poll, and open until the answer  *)
(* is sent, unless it is the page's.                                       *)
Descriptor ==
    /\ at \notin {"poll", "gui"} => fd = "open" /\ closes = 0
    /\ at = "gui" => Kind[conn] = "pgui"
    /\ at = "poll" => closes >= 1
    /\ (conn # NoClient /\ Kind[conn] # "pgui") => closes <= 1

Identifying ==
    /\ at \in {"read_data", "check_id"} =>
          /\ pushed[conn] = NoUnits /\ outq[conn] = << >>
          /\ cpc[conn] \in {"hello", "read", "killed"}
    /\ at = "read_data" =>
          \/ buf = << >> /\ inq[conn] = <<IdOf(conn), Nl>>
          \/ buf = <<IdOf(conn)>> /\ inq[conn] = <<Nl>>
    /\ at = "check_id" => buf = <<IdOf(conn)>> /\ inq[conn] = << >>

Commanding ==
    /\ at \in {"read_more", "decide"} => Speaks(conn) /\ pushed[conn] = NoUnits
    /\ at = "read_more" =>
          \/ buf \o inq[conn] = << >>
          \/ cpc[conn] \notin {"hello", "send"} /\ buf \o inq[conn] \in Messages(conn)
    /\ at = "decide" =>
          \/ buf = << >>
          \/ \E m \in Messages(conn) : \E k \in 0..Len(m) : buf = SubSeq(m, 1, k)

SessionInv == TypeInv /\ Links /\ Descriptor /\ Identifying /\ Commanding

-----------------------------------------------------------------------------
(* A step of a client.                                                     *)

LEMMA ClientOthers ==
    ASSUME TypeInv, NEW c \in Clients, Client(c) \/ GiveUp(c)
    PROVE  /\ UNCHANGED <<otp_only, at, conn, fd, closes, buf, out, pushed>>
           /\ \A d \in Clients \ {c} : /\ cpc'[d] = cpc[d] /\ link'[d] = link[d]
                                       /\ inq'[d] = inq[d] /\ outq'[d] = outq[d]
  <1>0. NetTypes /\ ClientTypes
    BY TypeParts
  <1>1. UNCHANGED <<otp_only, at, conn, fd, closes, buf, out, pushed>>
    BY DEF Client, GiveUp, Connect, ConnectFails, GetOne, SendPlain, SendEncrypted, SavePos, ReadAnswer, FinishRead,
           serverVars, ghostVars
  <1>2. ASSUME NEW d \in Clients \ {c}
        PROVE  cpc'[d] = cpc[d] /\ link'[d] = link[d] /\ inq'[d] = inq[d] /\ outq'[d] = outq[d]
    <2>1. CASE Connect(c)
      BY <1>0, <2>1 DEF Connect, Step, NetTypes, ClientTypes
    <2>9. CASE ConnectFails(c)
      BY <1>0, <2>9 DEF ConnectFails, Step, NetTypes, ClientTypes
    <2>2. CASE GetOne(c)
      BY <1>0, <2>2 DEF GetOne, Step, NetTypes, ClientTypes
    <2>3. CASE SendPlain(c)
      BY <1>0, <2>3 DEF SendPlain, Run, End, Step, NetTypes, ClientTypes
    <2>4. CASE SendEncrypted(c)
      BY <1>0, <2>4 DEF SendEncrypted, Run, End, Step, NetTypes, ClientTypes
    <2>5. CASE SavePos(c)
      BY <1>0, <2>5 DEF SavePos, Step, NetTypes, ClientTypes, netVars
    <2>6. CASE ReadAnswer(c)
      BY <1>0, <2>6 DEF ReadAnswer, Step, NetTypes, ClientTypes
    <2>7. CASE FinishRead(c)
      BY <1>0, <2>7 DEF FinishRead, End, Step, NetTypes, ClientTypes
    <2>8. CASE GiveUp(c)
      BY <1>0, <2>8 DEF GiveUp, End, Step, NetTypes, ClientTypes
    <2> QED
      BY <2>1, <2>2, <2>3, <2>4, <2>5, <2>6, <2>7, <2>8, <2>9 DEF Client
  <1> QED
    BY <1>1, <1>2

(* A client that has started never starts again, nor connects again.       *)
LEMMA ClientStarts ==
    ASSUME TypeInv, NEW c \in Clients, Client(c) \/ GiveUp(c)
    PROVE  \/ /\ cpc[c] = "start" /\ link'[c] = "queued" /\ inq'[c] = <<IdOf(c), Nl>>
              /\ outq'[c] = outq[c] /\ cpc'[c] \in {"hello", "read"}
           \/ /\ cpc[c] = "start" /\ link'[c] = "closed" /\ inq'[c] = inq[c]
              /\ outq'[c] = outq[c] /\ cpc'[c] = "done"
           \/ cpc[c] # "start" /\ cpc'[c] # "start" /\ link'[c] = link[c]
  <1>0. NetTypes /\ ClientTypes
    BY TypeParts
  <1>1. CASE Connect(c)
    BY <1>0, <1>1 DEF Connect, Step, NetTypes, ClientTypes
  <1>4. CASE ConnectFails(c)
    BY <1>0, <1>4 DEF ConnectFails, Step, NetTypes, ClientTypes
  <1>2. CASE GetOne(c) \/ SendPlain(c) \/ SavePos(c) \/ ReadAnswer(c) \/ FinishRead(c) \/ GiveUp(c)
    BY <1>0, <1>2 DEF GetOne, SendPlain, SavePos, ReadAnswer, FinishRead, GiveUp, Run, End, Step, NetTypes,
                        ClientTypes, netVars
  <1>3. CASE SendEncrypted(c)
    BY <1>0, <1>3 DEF SendEncrypted, Run, End, Step, NetTypes, ClientTypes
  <1> QED
    BY <1>1, <1>2, <1>3, <1>4 DEF Client

(* A client that waits for the "1", or for its lines, sends nothing.       *)
LEMMA ClientWaits ==
    ASSUME TypeInv, NEW c \in Clients, Client(c) \/ GiveUp(c),
           outq[c] = << >>, link[c] # "closed", cpc[c] \in {"hello", "read", "killed"}
    PROVE  inq'[c] = inq[c] /\ outq'[c] = << >> /\ cpc'[c] \in {"hello", "read", "killed"}
  <1>0. NetTypes /\ ClientTypes
    BY TypeParts
  <1>1. GiveUp(c)
    BY DEF Client, Connect, ConnectFails, GetOne, SendPlain, SendEncrypted, SavePos, ReadAnswer, FinishRead, ServerGone
  <1> QED
    BY <1>0, <1>1 DEF GiveUp, End, Step, NetTypes, ClientTypes

(* It sends one message, and only when it has got the "1".                 *)
LEMMA ClientSends ==
    ASSUME TypeInv, NEW c \in Clients, Client(c) \/ GiveUp(c), cpc[c] # "start"
    PROVE  \/ /\ inq'[c] = inq[c]
              /\ cpc'[c] \in {"hello", "send"} => cpc[c] = "hello"
           \/ /\ cpc[c] = "send" /\ cpc'[c] \notin {"hello", "send"}
              /\ \/ Kind[c] = "pcmd" /\ inq'[c] = inq[c] \o Text(Typed[c]) \o <<Nl>>
                 \/ /\ Kind[c] = "otpcmd" /\ ~KeyTooShort(of[c], Text(Typed[c]))
                    /\ inq'[c] = inq[c] \o OtpMessage(of[c], Encrypted(of[c], Text(Typed[c])))
  <1>0. NetTypes /\ ClientTypes
    BY TypeParts
  <1>1. CASE GetOne(c)
    BY <1>0, <1>1 DEF GetOne, Step, NetTypes, ClientTypes
  <1>2. CASE SendPlain(c)
    BY <1>0, <1>2 DEF SendPlain, Run, End, Step, NetTypes, ClientTypes
  <1>3. CASE SendEncrypted(c)
    BY <1>0, <1>3 DEF SendEncrypted, Run, End, Step, NetTypes, ClientTypes
  <1>4. CASE SavePos(c)
    BY <1>0, <1>4 DEF SavePos, Step, NetTypes, ClientTypes, netVars
  <1>5. CASE ReadAnswer(c)
    <2>1. inq' = inq /\ cpc' = cpc /\ cpc[c] = "read"
      BY <1>5 DEF ReadAnswer
    <2> QED
      BY <2>1
  <1>6. CASE FinishRead(c)
    BY <1>0, <1>6 DEF FinishRead, End, Step, NetTypes, ClientTypes
  <1>7. CASE GiveUp(c)
    BY <1>0, <1>7 DEF GiveUp, End, Step, NetTypes, ClientTypes
  <1>8. ~Connect(c) /\ ~ConnectFails(c)
    BY DEF Connect, ConnectFails
  <1> QED
    BY <1>1, <1>2, <1>3, <1>4, <1>5, <1>6, <1>7, <1>8 DEF Client

LEMMA EmptyParts ==
    ASSUME NEW S, NEW s \in Seq(S), NEW t \in Seq(S)
    PROVE  /\ s \o t = << >> => s = << >> /\ t = << >>
           /\ << >> \o t = t /\ t \o << >> = t
  BY ConcatSimplifications, ConcatEmptySeq

LEMMA MessageSent ==
    ASSUME TypeInv, NEW c \in Clients, cpc[c] # "start", Client(c) \/ GiveUp(c), Speaks(c),
           \/ buf \o inq[c] = << >>
           \/ cpc[c] \notin {"hello", "send"} /\ buf \o inq[c] \in Messages(c)
    PROVE  \/ buf \o inq'[c] = << >>
           \/ cpc'[c] \notin {"hello", "send"} /\ buf \o inq'[c] \in Messages(c)
  <1>0. buf \in Seq(TokenType) /\ inq[c] \in Seq(TokenType) /\ of[c] \in Nat
    BY TypeParts DEF TextTypes, NetTypes, ClientTypes
  <1>1. CASE inq'[c] = inq[c] /\ (cpc'[c] \in {"hello", "send"} => cpc[c] = "hello")
    BY <1>1
  <1>2. CASE cpc[c] = "send" /\ cpc'[c] \notin {"hello", "send"} /\ Kind[c] = "pcmd"
             /\ inq'[c] = inq[c] \o Text(Typed[c]) \o <<Nl>>
    <2>1. buf = << >> /\ inq[c] = << >>
      BY <1>0, <1>2, EmptyParts
    <2>2. PICK m : m = Text(Typed[c]) \o <<Nl>>
      OBVIOUS
    <2>3. m \in Seq(TokenType) /\ Text(Typed[c]) \in Seq(TokenType)
      BY <2>2, TypedType, TokenTypes
    <2>4. inq'[c] = m
      BY <1>2, <2>1, <2>2, <2>3, EmptyParts
    <2>5. buf \o inq'[c] = m
      BY <2>1, <2>3, <2>4, EmptyParts
    <2> QED
      BY <1>2, <2>2, <2>5 DEF Messages
  <1>3. CASE /\ cpc[c] = "send" /\ cpc'[c] \notin {"hello", "send"} /\ Kind[c] = "otpcmd"
             /\ ~KeyTooShort(of[c], Text(Typed[c]))
             /\ inq'[c] = inq[c] \o OtpMessage(of[c], Encrypted(of[c], Text(Typed[c])))
    <2>1. buf = << >> /\ inq[c] = << >>
      BY <1>0, <1>3, EmptyParts
    <2>2. PICK m : m = OtpMessage(of[c], Encrypted(of[c], Text(Typed[c])))
      OBVIOUS
    <2>3. m \in Seq(TokenType)
      BY <1>0, <2>2, TypedType, EncryptedType, OtpMessageType
    <2>4. inq'[c] = m
      BY <1>3, <2>1, <2>2, <2>3, EmptyParts
    <2>5. buf \o inq'[c] = m
      BY <2>1, <2>3, <2>4, EmptyParts
    <2>6. of[c] \in {n \in 0..KeyLen : ~KeyTooShort(n, Text(Typed[c]))}
      <3>1. KeyLen \in Nat /\ Len(Text(Typed[c])) \in Nat
        BY TypedType, SessionAssumption
      <3> QED
        BY <1>0, <1>3, <3>1 DEF KeyTooShort
    <2>7. m \in Messages(c)
      BY <1>3, <2>2, <2>6 DEF Messages
    <2> QED
      BY <1>3, <2>5, <2>7
  <1> QED
    BY <1>1, <1>2, <1>3, ClientSends

LEMMA ClientKeeps ==
    ASSUME SessionInv, NEW c \in Clients, Client(c) \/ GiveUp(c)
    PROVE  Links' /\ Descriptor' /\ Identifying' /\ Commanding'
  <1>0. TypeInv /\ Links /\ Descriptor /\ Identifying /\ Commanding
    BY DEF SessionInv
  <1>1. /\ UNCHANGED <<at, conn, fd, closes, buf, out, pushed>>
        /\ \A d \in Clients \ {c} : /\ cpc'[d] = cpc[d] /\ link'[d] = link[d]
                                    /\ inq'[d] = inq[d] /\ outq'[d] = outq[d]
    BY <1>0, ClientOthers
  <1>2. at # "poll" => conn \in Clients
    BY <1>0 DEF TypeInv
  <1>3. link[c] \in {"none", "queued", "open", "closed"}
    BY <1>0, TypeParts DEF NetTypes
  <1>4. Links'
    <2>1. CASE /\ cpc[c] = "start" /\ link'[c] = "queued" /\ inq'[c] = <<IdOf(c), Nl>>
               /\ outq'[c] = outq[c] /\ cpc'[c] \in {"hello", "read"}
      BY <1>0, <1>1, <1>2, <2>1 DEF Links
    <2>3. CASE /\ cpc[c] = "start" /\ link'[c] = "closed" /\ inq'[c] = inq[c]
               /\ outq'[c] = outq[c] /\ cpc'[c] = "done"
      BY <1>0, <1>1, <1>2, <2>3 DEF Links
    <2>2. CASE cpc[c] # "start" /\ cpc'[c] # "start" /\ link'[c] = link[c]
      <3>1. link[c] = "queued" => /\ inq'[c] = inq[c] /\ outq'[c] = << >>
                                  /\ cpc'[c] \in {"hello", "read", "killed"}
        BY <1>0, ClientWaits DEF Links
      <3> QED
        BY <1>0, <1>1, <1>2, <2>2, <3>1 DEF Links
    <2> QED
      BY <1>0, <2>1, <2>2, <2>3, ClientStarts
  <1>5. Descriptor'
    BY <1>0, <1>1 DEF Descriptor
  <1>6. Identifying'
    <2>1. CASE at \in {"read_data", "check_id"} /\ conn = c
      <3>1. outq[c] = << >> /\ link[c] # "closed" /\ cpc[c] \in {"hello", "read", "killed"}
        BY <1>0, <2>1 DEF Links, Identifying
      <3>2. inq'[c] = inq[c] /\ outq'[c] = << >> /\ cpc'[c] \in {"hello", "read", "killed"}
        BY <1>0, <3>1, ClientWaits
      <3> QED
        BY <1>0, <1>1, <2>1, <3>2 DEF Identifying
    <2>2. CASE ~(at \in {"read_data", "check_id"} /\ conn = c)
      BY <1>0, <1>1, <1>2, <2>2 DEF Identifying
    <2> QED
      BY <2>1, <2>2
  <1>7. Commanding'
    <2>1. CASE at = "read_more" /\ conn = c
      <3>1. cpc[c] # "start"
        BY <1>0, <2>1 DEF Links
      <3>2. /\ Speaks(c)
            /\ \/ buf \o inq[c] = << >>
               \/ cpc[c] \notin {"hello", "send"} /\ buf \o inq[c] \in Messages(c)
        BY <1>0, <2>1 DEF Commanding
      <3>3. \/ buf \o inq'[c] = << >>
            \/ cpc'[c] \notin {"hello", "send"} /\ buf \o inq'[c] \in Messages(c)
        BY <1>0, <3>1, <3>2, MessageSent
      <3> QED
        BY <1>0, <1>1, <2>1, <3>3 DEF Commanding
    <2>2. CASE ~(at = "read_more" /\ conn = c)
      BY <1>0, <1>1, <1>2, <2>2 DEF Commanding
    <2> QED
      BY <2>1, <2>2
  <1> QED
    BY <1>4, <1>5, <1>6, <1>7

-----------------------------------------------------------------------------
(* A step of the server.                                                   *)

LEMMA ClosedLinks ==
    ASSUME SessionInv, at # "poll", Closed, at' \in {"poll", "gui"},
           UNCHANGED <<conn, cpc, pushed>>
    PROVE  Links'
  <1>0. /\ Links /\ conn \in Clients /\ NetTypes /\ link[conn] \in {"open", "closed"}
        /\ at' \in {"poll", "gui"} /\ conn' = conn /\ cpc' = cpc /\ pushed' = pushed
    BY TypeParts DEF SessionInv, TypeInv, Links
  <1>1. link' = [link EXCEPT ![conn] = "closed"] /\ inq' = [inq EXCEPT ![conn] = << >>]
    BY DEF Closed
  <1>2. ASSUME NEW c \in Clients, c # conn PROVE link'[c] = link[c] /\ inq'[c] = inq[c] /\ outq'[c] = outq[c]
    <2>1. outq' = outq \/ outq' = [outq EXCEPT ![conn] = << >>]
      BY Zenon DEF Closed, MayReset
    <2> QED
      BY <1>0, <1>1, <1>2, <2>1 DEF NetTypes
  <1>3. link'[conn] = "closed"
    BY <1>0, <1>1 DEF NetTypes
  <1> QED
    BY <1>0, <1>2, <1>3 DEF Links

LEMMA AcceptKeeps ==
    ASSUME SessionInv, Accept
    PROVE  Links' /\ Descriptor' /\ Identifying' /\ Commanding'
  <1>0. Links /\ NetTypes
    BY TypeParts DEF SessionInv
  <1>1. PICK c \in Clients : link[c] = "queued" /\ conn' = c /\ link' = [link EXCEPT ![c] = "open"]
    BY DEF Accept
  <1>2. /\ fd' = "open" /\ closes' = 0 /\ buf' = << >> /\ at' = "read_data"
        /\ inq' = inq /\ outq' = outq /\ cpc' = cpc /\ pushed' = pushed
    BY DEF Accept, clientVars, ghostVars
  <1>3. /\ pushed[c] = NoUnits /\ outq[c] = << >> /\ inq[c] = <<IdOf(c), Nl>>
        /\ cpc[c] \in {"hello", "read", "killed"}
    BY <1>0, <1>1 DEF Links
  <1>4. link'[c] = "open" /\ \A d \in Clients \ {c} : link'[d] = link[d]
    BY <1>0, <1>1 DEF NetTypes
  <1>5. Links'
    BY <1>0, <1>1, <1>2, <1>3, <1>4 DEF Links
  <1>6. Descriptor'
    BY <1>2 DEF Descriptor
  <1>7. Identifying'
    BY <1>1, <1>2, <1>3 DEF Identifying
  <1>8. Commanding'
    BY <1>2 DEF Commanding
  <1> QED
    BY <1>5, <1>6, <1>7, <1>8

LEMMA OneLong ==
    ASSUME NEW S, NEW s \in Seq(S), Len(s) = 1
    PROVE  s = <<s[1]>>
  <1>1. <<s[1]>> \in Seq(S) /\ Len(<<s[1]>>) = 1 /\ \A i \in 1..1 : s[i] = <<s[1]>>[i]
    OBVIOUS
  <1> QED
    BY <1>1, SeqEqual

LEMMA TwoLong ==
    ASSUME NEW S, NEW s \in Seq(S), Len(s) = 2
    PROVE  s = <<s[1], s[2]>>
  <1>1. <<s[1], s[2]>> \in Seq(S) /\ Len(<<s[1], s[2]>>) = 2
    <2>1. s[1] \in S /\ s[2] \in S
      <3>1. 1 \in 1..Len(s) /\ 2 \in 1..Len(s)
        OBVIOUS
      <3> QED
        BY <3>1, ElementOfSeq
    <2>2. Len(<<s[1], s[2]>>) = 2
      OBVIOUS
    <2>3. <<s[1], s[2]>> \in Seq(S)
      BY <2>1
    <2> QED
      BY <2>2, <2>3
  <1>2. \A i \in 1..2 : s[i] = <<s[1], s[2]>>[i]
    OBVIOUS
  <1> QED
    BY <1>1, <1>2, SeqEqual

LEMMA TwoTokens ==
    ASSUME NEW S, NEW x \in S, NEW y \in S
    PROVE  /\ <<x, y>> \in Seq(S) /\ <<x>> \in Seq(S) /\ <<y>> \in Seq(S)
           /\ Len(<<x, y>>) = 2 /\ Len(<<y>>) = 1
           /\ SubSeq(<<x, y>>, 1, 1) = <<x>> /\ SubSeq(<<x, y>>, 2, 2) = <<y>>
           /\ SubSeq(<<x, y>>, 1, 2) = <<x, y>> /\ SubSeq(<<x, y>>, 3, 2) = << >>
           /\ SubSeq(<<y>>, 1, 1) = <<y>> /\ SubSeq(<<y>>, 2, 1) = << >>
           /\ <<x>> \o <<y>> = <<x, y>>
           /\ << >> \o <<x>> = <<x>> /\ << >> \o <<x, y>> = <<x, y>>
  <1>1. <<x, y>> \in Seq(S) /\ <<x>> \in Seq(S) /\ <<y>> \in Seq(S)
    OBVIOUS
  <1>2. Len(<<x, y>>) = 2 /\ Len(<<y>>) = 1
    OBVIOUS
  <1>a. PICK p : p = <<x, y>>
    OBVIOUS
  <1>b. p \in Seq(S) /\ Len(p) = 2 /\ p[1] = x /\ p[2] = y
    BY <1>a
  <1>c. /\ SubSeq(p, 1, 1) \in Seq(S) /\ Len(SubSeq(p, 1, 1)) = 1 /\ SubSeq(p, 1, 1)[1] = p[1]
        /\ SubSeq(p, 2, 2) \in Seq(S) /\ Len(SubSeq(p, 2, 2)) = 1 /\ SubSeq(p, 2, 2)[1] = p[2]
    BY <1>b, PartType
  <1>3. SubSeq(<<x, y>>, 1, 1) = <<x>>
    BY <1>a, <1>b, <1>c, OneLong, Zenon
  <1>4. SubSeq(<<x, y>>, 2, 2) = <<y>>
    BY <1>a, <1>b, <1>c, OneLong, Zenon
  <1>5. SubSeq(<<x, y>>, 1, 2) = <<x, y>>
    BY <1>1, <1>2, SubSeqFull
  <1>6. SubSeq(<<x, y>>, 3, 2) = << >>
    OBVIOUS
  <1>7. SubSeq(<<y>>, 1, 1) = <<y>>
    BY <1>1, <1>2, SubSeqFull
  <1>8. SubSeq(<<y>>, 2, 1) = << >>
    OBVIOUS
  <1>9. <<x>> \o <<y>> = <<x, y>>
    <2>1. /\ <<x>> \o <<y>> \in Seq(S) /\ Len(<<x>> \o <<y>>) = 2
          /\ (<<x>> \o <<y>>)[1] = x /\ (<<x>> \o <<y>>)[2] = y
      OBVIOUS
    <2> QED
      BY <2>1, TwoLong, Zenon
  <1>10. << >> \o <<x>> = <<x>> /\ << >> \o <<x, y>> = <<x, y>>
    BY <1>1, ConcatEmptySeq
  <1> QED
    BY <1>1, <1>2, <1>3, <1>4, <1>5, <1>6, <1>7, <1>8, <1>9, <1>10, Zenon

LEMMA CutId ==
    ASSUME NEW id \in TokenType
    PROVE  EndsIn(<<id, Nl>>) # {} /\ CutAtEnd(<<id, Nl>>) = <<id>> /\ EndsIn(<<id>>) = {}
  <1>1. Nl \in TokenType /\ Nl.class = "nl" /\ Ends(Nl)
    BY TokenTypes, TokensDiffer DEF Ends
  <1>2. PICK b : b = <<id, Nl>>
    OBVIOUS
  <1>3. b \in Seq(TokenType) /\ Len(b) = 2 /\ b[2] = Nl /\ SubSeq(b, 1, 1) = <<id>>
    BY <1>1, <1>2, TwoTokens
  <1>4. EndsIn(b) # {}
    BY <1>1, <1>3 DEF EndsIn
  <1>5. PICK e \in 2..Len(b) : CutAtEnd(b) = SubSeq(b, 1, IF b[e].class = "gt" THEN e ELSE e - 1)
    BY <1>3, <1>4, CutIsPrefix
  <1>6. e = 2 /\ b[e].class # "gt" /\ e - 1 = 1
    BY <1>1, <1>3, <1>5
  <1>7. CutAtEnd(b) = SubSeq(b, 1, e - 1)
    BY <1>5, <1>6, Zenon
  <1>8. CutAtEnd(b) = <<id>>
    BY <1>3, <1>6, <1>7
  <1>9. EndsIn(<<id>>) = {}
    <2>1. Len(<<id>>) = 1
      OBVIOUS
    <2> QED
      BY <2>1 DEF EndsIn
  <1> QED
    BY <1>2, <1>4, <1>8, <1>9, Zenon

(* The ID arrives whole, in one piece or in two.                           *)
IdComes(id, old, q) == (old = << >> /\ q = <<id, Nl>>) \/ (old = <<id>> /\ q = <<Nl>>)

LEMMA IdReceived ==
    ASSUME NEW id \in TokenType, NEW old, NEW q, NEW n, NEW b
    PROVE  (n \in 1..Len(q) /\ b = old \o SubSeq(q, 1, n) /\ IdComes(id, old, q))
           => \/ EndsIn(b) = {} /\ b = <<id>> /\ SubSeq(q, n + 1, Len(q)) = <<Nl>>
              \/ EndsIn(b) # {} /\ CutAtEnd(b) = <<id>> /\ SubSeq(q, n + 1, Len(q)) = << >>
  <1>1. Nl \in TokenType
    BY TokenTypes
  <1>2. ASSUME n \in 1..Len(q), b = old \o SubSeq(q, 1, n), old = << >>, q = <<id, Nl>>
        PROVE  \/ EndsIn(b) = {} /\ b = <<id>> /\ SubSeq(q, n + 1, Len(q)) = <<Nl>>
               \/ EndsIn(b) # {} /\ CutAtEnd(b) = <<id>> /\ SubSeq(q, n + 1, Len(q)) = << >>
    <2>1. Len(q) = 2
      BY <1>1, <1>2, TwoTokens
    <2>2. n = 1 \/ n = 2
      BY <1>2, <2>1
    <2>3. CASE n = 1
      <3>1. n + 1 = 2
        BY <2>3
      <3>2. SubSeq(q, 1, n) = <<id>> /\ SubSeq(q, n + 1, Len(q)) = <<Nl>>
        <4>1. SubSeq(q, 1, 1) = <<id>> /\ SubSeq(q, 2, 2) = <<Nl>>
          BY <1>1, <1>2, TwoTokens, Zenon
        <4> QED
          BY <2>1, <2>3, <3>1, <4>1, Zenon
      <3>3. b = <<id>>
        BY <1>1, <1>2, <3>2, TwoTokens, Zenon
      <3> QED
        BY <3>2, <3>3, CutId, Zenon
    <2>4. CASE n = 2
      <3>1. n + 1 = 3
        BY <2>4
      <3>2. SubSeq(q, 1, n) = <<id, Nl>> /\ SubSeq(q, n + 1, Len(q)) = << >>
        <4>1. SubSeq(q, 1, 2) = <<id, Nl>> /\ SubSeq(q, 3, 2) = << >>
          BY <1>1, <1>2, TwoTokens, Zenon
        <4> QED
          BY <2>1, <2>4, <3>1, <4>1, Zenon
      <3>3. b = <<id, Nl>>
        BY <1>1, <1>2, <3>2, TwoTokens, Zenon
      <3> QED
        BY <3>2, <3>3, CutId, Zenon
    <2> QED
      BY <2>2, <2>3, <2>4
  <1>3. ASSUME n \in 1..Len(q), b = old \o SubSeq(q, 1, n), old = <<id>>, q = <<Nl>>
        PROVE  EndsIn(b) # {} /\ CutAtEnd(b) = <<id>> /\ SubSeq(q, n + 1, Len(q)) = << >>
    <2>1. Len(q) = 1
      BY <1>1, <1>3, TwoTokens
    <2>2. n = 1 /\ n + 1 = 2
      BY <1>3, <2>1
    <2>3. SubSeq(q, 1, n) = <<Nl>> /\ SubSeq(q, n + 1, Len(q)) = << >>
      BY <1>1, <1>3, <2>1, <2>2, TwoTokens, Zenon
    <2>4. b = <<id, Nl>>
      BY <1>1, <1>3, <2>3, TwoTokens, Zenon
    <2> QED
      BY <2>3, <2>4, CutId, Zenon
  <1> QED
    BY <1>2, <1>3, Zenon DEF IdComes

(* Whatever is read of a text is a beginning of it.                        *)
LEMMA Beginning ==
    ASSUME NEW S, NEW s \in Seq(S), NEW t \in Seq(S), NEW k \in 0..Len(s)
    PROVE  /\ SubSeq(s, 1, k) = SubSeq(s \o t, 1, k) /\ k \in 0..Len(s \o t)
           /\ SubSeq(s, 1, Len(s)) = s
  <1>1. /\ s \o t \in Seq(S) /\ Len(s \o t) = Len(s) + Len(t)
        /\ \A i \in 1..Len(s) : (s \o t)[i] = s[i]
    BY Joined
  <1>2. k \in 0..Len(s \o t)
    BY <1>1
  <1>3. /\ SubSeq(s, 1, k) \in Seq(S) /\ Len(SubSeq(s, 1, k)) = k
        /\ \A i \in 1..k : SubSeq(s, 1, k)[i] = s[i]
    BY PartType
  <1>4. /\ SubSeq(s \o t, 1, k) \in Seq(S) /\ Len(SubSeq(s \o t, 1, k)) = k
        /\ \A i \in 1..k : SubSeq(s \o t, 1, k)[i] = (s \o t)[i]
    <2>1. 1 \in 1..(Len(s \o t) + 1)
      BY <1>1
    <2> QED
      BY <1>1, <1>2, <2>1, PartType
  <1>5. \A i \in 1..k : SubSeq(s, 1, k)[i] = SubSeq(s \o t, 1, k)[i]
    BY <1>1, <1>3, <1>4
  <1> QED
    BY <1>2, <1>3, <1>4, <1>5, SeqEqual, SubSeqFull

LEMMA Pieces ==
    ASSUME NEW S, NEW s \in Seq(S), NEW q \in Seq(S), NEW n \in 1..Len(q)
    PROVE  /\ s \o SubSeq(q, 1, n) \in Seq(S) /\ SubSeq(q, n + 1, Len(q)) \in Seq(S)
           /\ (s \o SubSeq(q, 1, n)) \o SubSeq(q, n + 1, Len(q)) = s \o q
  <1>1. PICK a : a = SubSeq(q, 1, n)
    OBVIOUS
  <1>2. PICK z : z = SubSeq(q, n + 1, Len(q))
    OBVIOUS
  <1>3. a \in Seq(S) /\ z \in Seq(S)
    <2>1. n \in 0..Len(q) /\ n + 1 \in 1..(Len(q) + 1) /\ 1 \in 1..(Len(q) + 1) /\ Len(q) \in 0..Len(q)
      OBVIOUS
    <2> QED
      BY <1>1, <1>2, <2>1, PartType
  <1>4. a \o z = q
    <2>1. a \o z = SubSeq(q, 1, Len(q))
      <3>1. 1 \in 1..(Len(q) + 1) /\ n \in (1 - 1)..Len(q) /\ Len(q) \in n..Len(q)
        OBVIOUS
      <3> QED
        BY <1>1, <1>2, <3>1, ConcatAdjacentSubSeq
    <2> QED
      BY <2>1, SubSeqFull
  <1>5. (s \o a) \o z = s \o (a \o z)
    <2>1. s \in Seq(S) /\ a \in Seq(S) /\ z \in Seq(S)
      BY <1>3
    <2> QED
      BY <2>1, ConcatAssociative, SMTT(60)
  <1>6. s \o a \in Seq(S)
    BY <1>3
  <1> QED
    BY <1>1, <1>2, <1>3, <1>4, <1>5, <1>6, Zenon

LEMMA MessageTypes ==
    ASSUME NEW c \in Clients, NEW m \in Messages(c)
    PROVE  m \in Seq(TokenType)
  <1>1. Text(Typed[c]) \in Seq(TokenType) /\ <<Nl>> \in Seq(TokenType)
    BY TypedType, TokenTypes
  <1>2. CASE Kind[c] = "pcmd"
    <2>1. m = Text(Typed[c]) \o <<Nl>>
      BY <1>2 DEF Messages
    <2> QED
      BY <1>1, <2>1
  <1>3. CASE Kind[c] # "pcmd"
    <2>1. PICK o \in 0..KeyLen : m = OtpMessage(o, Encrypted(o, Text(Typed[c])))
      BY <1>3 DEF Messages
    <2>2. o \in Nat
      BY SessionAssumption
    <2> QED
      BY <1>1, <2>1, <2>2, EncryptedType, OtpMessageType
  <1> QED
    BY <1>2, <1>3

(* What a receive leaves where the links are concerned.                    *)
LEMMA ReceiveLinks ==
    ASSUME SessionInv, Receive \/ ReceiveEnd
    PROVE  Links'
  <1>0. Links /\ conn \in Clients /\ NetTypes /\ at \in {"read_data", "read_more"}
    BY TypeParts DEF SessionInv, TypeInv, Receive, ReceiveEnd
  <1>1. UNCHANGED <<conn, link, outq, cpc, pushed>> /\ at' # "poll"
    BY <1>0 DEF Receive, ReceiveEnd, NextState, clientVars, ghostVars, netVars
  <1>2. \A d \in Clients \ {conn} : inq'[d] = inq[d]
    <2>1. CASE Receive
      BY <1>0, <2>1 DEF Receive, NetTypes
    <2>2. CASE ReceiveEnd
      BY <2>2 DEF ReceiveEnd, netVars
    <2> QED
      BY <2>1, <2>2
  <1>3. link[conn] = "open"
    BY <1>0 DEF Links
  <1> QED
    BY <1>0, <1>1, <1>2, <1>3 DEF Links

LEMMA ReceiveKeeps ==
    ASSUME SessionInv, Receive
    PROVE  Links' /\ Descriptor' /\ Identifying' /\ Commanding'
  <1>0. /\ Links /\ Descriptor /\ Identifying /\ Commanding
        /\ conn \in Clients /\ inq \in [Clients -> Seq(TokenType)] /\ buf \in Seq(TokenType)
        /\ at \in {"read_data", "read_more"}
    BY TypeParts DEF SessionInv, TypeInv, Receive, NetTypes, TextTypes
  <1>1. PICK q : q = inq[conn]
    OBVIOUS
  <1>2. PICK n \in 1..Len(q) :
          /\ inq' = [inq EXCEPT ![conn] = SubSeq(q, n + 1, Len(q))]
          /\ IF EndsIn(buf \o SubSeq(q, 1, n)) = {}
               THEN buf' = buf \o SubSeq(q, 1, n) /\ UNCHANGED at
               ELSE buf' = CutAtEnd(buf \o SubSeq(q, 1, n)) /\ at' = NextState
    BY <1>1, Zenon DEF Receive, Gathered
  <1>3. PICK b : b = buf \o SubSeq(q, 1, n)
    OBVIOUS
  <1>4. PICK rest : rest = SubSeq(q, n + 1, Len(q))
    OBVIOUS
  <1>5. q \in Seq(TokenType) /\ b \in Seq(TokenType) /\ rest \in Seq(TokenType) /\ b \o rest = buf \o q
    <2>1. q \in Seq(TokenType) /\ n \in 1..Len(q) /\ buf \in Seq(TokenType)
      BY <1>0, <1>1
    <2> QED
      BY <1>3, <1>4, <2>1, Pieces, Zenon
  <1>6. inq'[conn] = rest
    BY <1>0, <1>2, <1>4
  <1>7. \/ EndsIn(b) = {} /\ buf' = b /\ at' = at
        \/ EndsIn(b) # {} /\ buf' = CutAtEnd(b) /\ at' = NextState
    BY <1>2, <1>3, Zenon
  <1>8. UNCHANGED <<conn, fd, closes, outq, cpc, pushed>>
    BY DEF Receive, clientVars, ghostVars
  <1>9. Links'
    BY ReceiveLinks
  <1>10. Descriptor'
    BY <1>0, <1>7, <1>8 DEF Descriptor, NextState
  <1>11. CASE at = "read_data"
    <2>1. NextState = "check_id"
      BY <1>11 DEF NextState
    <2>2. \/ buf = << >> /\ q = <<IdOf(conn), Nl>>
          \/ buf = <<IdOf(conn)>> /\ q = <<Nl>>
      BY <1>0, <1>1, <1>11 DEF Identifying
    <2>3. \/ EndsIn(b) = {} /\ b = <<IdOf(conn)>> /\ rest = <<Nl>>
          \/ EndsIn(b) # {} /\ CutAtEnd(b) = <<IdOf(conn)>> /\ rest = << >>
      <3>1. IdOf(conn) \in TokenType /\ n \in 1..Len(q)
        BY IdType
      <3>2. \/ EndsIn(b) = {} /\ b = <<IdOf(conn)>> /\ SubSeq(q, n + 1, Len(q)) = <<Nl>>
            \/ EndsIn(b) # {} /\ CutAtEnd(b) = <<IdOf(conn)>> /\ SubSeq(q, n + 1, Len(q)) = << >>
        <4>1. PICK id \in TokenType : id = IdOf(conn)
          BY <3>1
        <4>2. n \in 1..Len(q) /\ b = buf \o SubSeq(q, 1, n) /\ IdComes(id, buf, q)
          BY <1>3, <2>2, <3>1, <4>1, Zenon DEF IdComes
        <4>3. \/ EndsIn(b) = {} /\ b = <<id>> /\ SubSeq(q, n + 1, Len(q)) = <<Nl>>
              \/ EndsIn(b) # {} /\ CutAtEnd(b) = <<id>> /\ SubSeq(q, n + 1, Len(q)) = << >>
          BY <4>2, IdReceived, Zenon
        <4> QED
          BY <4>1, <4>3, Zenon
      <3> QED
        BY <1>4, <3>2, Zenon
    <2>4. pushed[conn] = NoUnits /\ outq[conn] = << >> /\ cpc[conn] \in {"hello", "read", "killed"}
      BY <1>0, <1>11 DEF Identifying
    <2>5. \/ at' = "read_data" /\ buf' = <<IdOf(conn)>> /\ inq'[conn] = <<Nl>>
          \/ at' = "check_id" /\ buf' = <<IdOf(conn)>> /\ inq'[conn] = << >>
      BY <1>6, <1>7, <1>11, <2>1, <2>3, Zenon
    <2>6. Identifying'
      BY <1>8, <2>4, <2>5 DEF Identifying
    <2>7. Commanding'
      BY <2>5 DEF Commanding
    <2> QED
      BY <1>9, <1>10, <2>6, <2>7
  <1>12. CASE at = "read_more"
    <2>1. NextState = "decide"
      BY <1>12 DEF NextState
    <2>2. Speaks(conn) /\ pushed[conn] = NoUnits
      BY <1>0, <1>12 DEF Commanding
    <2>3. \/ buf \o q = << >>
          \/ cpc[conn] \notin {"hello", "send"} /\ buf \o q \in Messages(conn)
      BY <1>0, <1>1, <1>12 DEF Commanding
    <2>4. buf \o q # << >>
      <3>1. q # << >>
        BY <1>2, <1>5
      <3> QED
        BY <1>0, <1>5, <3>1, EmptyParts, Zenon
    <2>5. cpc[conn] \notin {"hello", "send"} /\ b \o rest \in Messages(conn)
      BY <1>5, <2>3, <2>4, Zenon
    <2>6. CASE EndsIn(b) = {}
      <3>1. buf' = b /\ at' = "read_more"
        BY <1>7, <1>12, <2>6
      <3> QED
        BY <1>6, <1>8, <1>9, <1>10, <2>2, <2>5, <3>1 DEF Identifying, Commanding, Speaks
    <2>7. CASE EndsIn(b) # {}
      <3>1. buf' = CutAtEnd(b) /\ at' = "decide"
        BY <1>7, <2>1, <2>7
      <3>2. PICK e \in 2..Len(b) : CutAtEnd(b) = SubSeq(b, 1, IF b[e].class = "gt" THEN e ELSE e - 1)
        BY <1>5, <2>7, CutIsPrefix
      <3>3. PICK k \in 0..Len(b) : CutAtEnd(b) = SubSeq(b, 1, k)
        <4>1. e \in 0..Len(b) /\ e - 1 \in 0..Len(b)
          BY <1>5
        <4> QED
          BY <3>2, <4>1
      <3>4. SubSeq(b, 1, k) = SubSeq(b \o rest, 1, k) /\ k \in 0..Len(b \o rest)
        BY <1>5, Beginning
      <3>5. \E m \in Messages(conn) : \E j \in 0..Len(m) : buf' = SubSeq(m, 1, j)
        BY <2>5, <3>1, <3>3, <3>4, Zenon
      <3> QED
        BY <1>8, <1>9, <1>10, <2>2, <3>1, <3>5 DEF Identifying, Commanding, Speaks, Messages
    <2> QED
      BY <2>6, <2>7
  <1> QED
    BY <1>0, <1>11, <1>12

LEMMA ReceiveEndKeeps ==
    ASSUME SessionInv, ReceiveEnd
    PROVE  Links' /\ Descriptor' /\ Identifying' /\ Commanding'
  <1>0. /\ Links /\ Descriptor /\ Identifying /\ Commanding
        /\ conn \in Clients /\ inq \in [Clients -> Seq(TokenType)] /\ buf \in Seq(TokenType)
    BY TypeParts DEF SessionInv, TypeInv, ReceiveEnd, NetTypes, TextTypes
  <1>1. at = "read_more" /\ inq[conn] = << >>
    <2>1. at \in {"read_data", "read_more"} /\ inq[conn] = << >>
      BY DEF ReceiveEnd
    <2>2. at # "read_data"
      <3>1. <<IdOf(conn), Nl>> # << >> /\ <<Nl>> # << >>
        OBVIOUS
      <3> QED
        BY <1>0, <2>1, <3>1 DEF Identifying
    <2> QED
      BY <2>1, <2>2
  <1>2. at' = "decide" /\ UNCHANGED <<conn, fd, closes, buf, outq, inq, cpc, pushed>>
    BY <1>1 DEF ReceiveEnd, NextState, netVars, clientVars, ghostVars
  <1>3. Speaks(conn) /\ pushed[conn] = NoUnits /\ (buf = << >> \/ buf \in Messages(conn))
    <2>1. buf \o inq[conn] = buf
      BY <1>0, <1>1, EmptyParts
    <2> QED
      BY <1>0, <1>1, <2>1 DEF Commanding
  <1>4. buf = SubSeq(buf, 1, Len(buf)) /\ Len(buf) \in 0..Len(buf)
    BY <1>0, SubSeqFull
  <1>5. Links'
    BY ReceiveLinks
  <1>6. Descriptor'
    BY <1>0, <1>1, <1>2 DEF Descriptor
  <1>7. Identifying'
    BY <1>2 DEF Identifying
  <1>8. buf = << >> \/ \E m \in Messages(conn) : \E k \in 0..Len(m) : buf = SubSeq(m, 1, k)
    BY <1>3, <1>4, Zenon
  <1>9. Commanding'
    BY <1>2, <1>3, <1>8 DEF Commanding, Speaks, Messages
  <1> QED
    BY <1>5, <1>6, <1>7, <1>9

LEMMA SentLinks ==
    ASSUME SessionInv, at # "poll", NEW text, SendWorks(text) \/ UNCHANGED outq, at' # "poll",
           at' \notin {"poll", "gui"} => link[conn] = "open",
           UNCHANGED <<conn, link, inq, cpc, pushed>>
    PROVE  Links'
  <1>0. Links /\ conn \in Clients /\ NetTypes /\ link[conn] \in {"open", "closed"}
    BY TypeParts DEF SessionInv, TypeInv, Links
  <1>1. \A d \in Clients \ {conn} : outq'[d] = outq[d]
    BY <1>0 DEF SendWorks, NetTypes
  <1> QED
    BY <1>0, <1>1 DEF Links

LEMMA IdTells ==
    ASSUME NEW c \in Clients
    PROVE  /\ <<IdOf(c)>> = <<Txt("pcmd", NoName)>> => Speaks(c)
           /\ <<IdOf(c)>> = <<Txt("pgui", NoName)>> => Kind[c] = "pgui"
  <1>1. /\ Txt("pcmd", NoName) # Txt("pgui", NoName) /\ Txt("hello", NoName) # Txt("pgui", NoName)
        /\ Txt("pcmd", NoName) # Txt("hello", NoName)
    <2>1. "pcmd" # "pgui" /\ "hello" # "pgui" /\ "pcmd" # "hello"
      OBVIOUS
    <2> QED
      BY <2>1, TokensDiffer
  <1>2. IdOf(c) = Txt("pcmd", NoName) => Speaks(c)
    BY <1>1, SessionAssumption DEF IdOf, Speaks
  <1>3. IdOf(c) = Txt("pgui", NoName) => Kind[c] = "pgui"
    BY <1>1, SessionAssumption DEF IdOf
  <1>4. \A x, y : <<x>> = <<y>> => x = y
    OBVIOUS
  <1> QED
    BY <1>2, <1>3, <1>4

LEMMA CheckIdKeeps ==
    ASSUME SessionInv, CheckId
    PROVE  Links' /\ Descriptor' /\ Identifying' /\ Commanding'
  <1>0. /\ Links /\ Descriptor /\ Identifying /\ conn \in Clients /\ NetTypes /\ closes \in Nat
    BY TypeParts DEF SessionInv, TypeInv, CheckId, ServerTypes
  <1>1. /\ at = "check_id" /\ buf' = << >> /\ conn' = conn /\ cpc' = cpc /\ pushed' = pushed
    BY DEF CheckId, clientVars, ghostVars
  <1>2. /\ pushed[conn] = NoUnits /\ buf = <<IdOf(conn)>> /\ inq[conn] = << >>
        /\ fd = "open" /\ closes = 0 /\ link[conn] = "open"
    BY <1>0, <1>1 DEF Identifying, Descriptor, Links
  <1>3. ASSUME Closed, at' = "poll" PROVE Links' /\ Descriptor' /\ Identifying' /\ Commanding'
    <2>1. closes' = 1
      BY <1>2, <1>3 DEF Closed
    <2>2. Links'
      BY <1>1, <1>3, ClosedLinks
    <2> QED
      BY <1>3, <2>1, <2>2 DEF Descriptor, Identifying, Commanding
  <1>4. CASE CommandId /\ ~(SendFails /\ Closed /\ at' = "poll")
    <2>1. Speaks(conn)
      BY <1>0, <1>2, <1>4, IdTells DEF CommandId
    <2>2. /\ SendWorks(<<Txt("1", NoName)>>) /\ at' = "read_more" /\ fd' = fd /\ closes' = closes
          /\ link' = link /\ inq' = inq
      BY <1>4, Zenon DEF CommandId
    <2>3. Links'
      BY <1>1, <1>2, <2>2, SentLinks
    <2>4. Descriptor'
      BY <1>2, <2>2 DEF Descriptor
    <2>5. buf' \o inq'[conn] = << >>
      BY <1>1, <1>2, <2>2
    <2>6. Commanding'
      BY <1>1, <1>2, <2>1, <2>2, <2>5 DEF Commanding, Speaks
    <2> QED
      BY <2>2, <2>3, <2>4, <2>6 DEF Identifying
  <1>5. CASE GuiId
    <2>1. Kind[conn] = "pgui"
      BY <1>0, <1>2, <1>5, IdTells DEF GuiId
    <2>2. at' = "gui" /\ fd' = fd /\ closes' = closes /\ link' = link /\ inq' = inq /\ outq' = outq
      BY <1>5 DEF GuiId, netVars
    <2>3. Links'
      BY <1>1, <2>2, SentLinks
    <2> QED
      BY <1>1, <2>1, <2>2, <2>3 DEF Descriptor, Identifying, Commanding
  <1>6. CASE BadId
    BY <1>3, <1>6 DEF BadId
  <1> QED
    BY <1>3, <1>4, <1>5, <1>6 DEF CheckId

LEMMA GuiKeeps ==
    ASSUME SessionInv, GuiLine \/ GuiDone \/ CloseClient
    PROVE  Links' /\ Descriptor' /\ Identifying' /\ Commanding'
  <1>0. /\ Links /\ Descriptor /\ conn \in Clients /\ closes \in Nat /\ at \in {"gui", "answer"}
    BY TypeParts DEF SessionInv, TypeInv, GuiLine, GuiDone, CloseClient, ServerTypes
  <1>1. conn' = conn /\ cpc' = cpc /\ pushed' = pushed /\ buf' = buf
    BY DEF GuiLine, GuiDone, CloseClient, clientVars, ghostVars
  <1>2. CASE GuiLine
    <2>1. at = "gui" /\ at' = "gui" /\ Kind[conn] = "pgui"
      BY <1>0, <1>2 DEF GuiLine, Descriptor
    <2>2. Links'
      <3>1. CASE SendWorks(Head(out)) /\ UNCHANGED <<fd, closes, link, reset, inq>>
        BY <1>1, <2>1, <3>1, SentLinks
      <3>2. CASE SendFails /\ Closed
        BY <1>1, <2>1, <3>2, ClosedLinks
      <3> QED
        BY <1>2, <3>1, <3>2, Zenon DEF GuiLine
    <2> QED
      BY <1>1, <2>1, <2>2 DEF Descriptor, Identifying, Commanding
  <1>3. CASE GuiDone \/ CloseClient
    <2>1. Closed /\ at' = "poll"
      BY <1>3 DEF GuiDone, CloseClient
    <2>2. Links'
      BY <1>0, <1>1, <2>1, ClosedLinks
    <2>3. closes' = closes + 1
      BY <2>1 DEF Closed
    <2>4. Descriptor'
      BY <1>0, <1>1, <2>1, <2>3 DEF Descriptor
    <2> QED
      BY <2>1, <2>2, <2>4 DEF Identifying, Commanding
  <1> QED
    BY <1>2, <1>3

LEMMA AnswerKeeps ==
    ASSUME SessionInv, SendAnswer
    PROVE  Links' /\ Descriptor' /\ Identifying' /\ Commanding'
  <1>0. /\ Links /\ Descriptor
    BY DEF SessionInv
  <1>1. /\ at = "answer" /\ at' = "answer" /\ UNCHANGED <<conn, fd, closes, link, inq, cpc, pushed>>
    BY DEF SendAnswer, clientVars, ghostVars
  <1>2. SendWorks(Head(out)) \/ UNCHANGED outq
    BY Zenon DEF SendAnswer
  <1>3. link[conn] = "open"
    BY <1>0, <1>1 DEF Links
  <1>4. Links'
    BY <1>1, <1>2, <1>3, SentLinks
  <1> QED
    BY <1>0, <1>1, <1>4 DEF Descriptor, Identifying, Commanding

LEMMA DecideKeeps ==
    ASSUME SessionInv, Decide
    PROVE  Links' /\ Descriptor' /\ Identifying' /\ Commanding'
  <1>0. /\ Links /\ Descriptor /\ conn \in Clients /\ GhostTypes /\ at = "decide"
    BY TypeParts DEF SessionInv, TypeInv, Decide
  <1>1. at' = "answer" /\ UNCHANGED <<conn, fd, closes, link, inq, outq, cpc>>
    BY DEF Decide, Answer, Refuse, Execute, netVars, clientVars
  <1>2. \A d \in Clients \ {conn} : pushed'[d] = pushed[d]
    BY <1>0 DEF Decide, Refuse, Execute, GhostTypes
  <1>3. link[conn] = "open"
    BY <1>0 DEF Links
  <1>4. Links'
    BY <1>0, <1>1, <1>2, <1>3 DEF Links
  <1> QED
    BY <1>0, <1>1, <1>4 DEF Descriptor, Identifying, Commanding

LEMMA TerminateKeeps ==
    ASSUME SessionInv, Terminate
    PROVE  Links' /\ Descriptor' /\ Identifying' /\ Commanding'
  <1>0. /\ Links /\ Descriptor /\ conn \in Clients /\ at = "decide" /\ NetTypes
    BY TypeParts DEF SessionInv, TypeInv, Terminate
  <1>1. fd = "open" /\ closes = 0 /\ link[conn] = "open"
    BY <1>0 DEF Links, Descriptor
  <1>2. /\ at' = "poll" /\ closes' = 1 /\ UNCHANGED <<conn, cpc, pushed>>
        /\ \A c \in Clients : link'[c] = IF link[c] = "queued" \/ c = conn THEN "closed" ELSE link[c]
    BY <1>1 DEF Terminate, clientVars, ghostVars
  <1>3. \A c \in Clients \ {conn} : outq'[c] = outq[c]
    <2>1. outq' = outq \/ outq' = [outq EXCEPT ![conn] = << >>]
      BY Zenon DEF Terminate, MayReset
    <2> QED
      BY <1>0, <2>1 DEF NetTypes
  <1>4. Links'
    BY <1>0, <1>1, <1>2, <1>3 DEF Links
  <1> QED
    BY <1>2, <1>4 DEF Descriptor, Identifying, Commanding

LEMMA SessionStep == SessionInv /\ [Next]_vars => SessionInv'
  <1> SUFFICES ASSUME SessionInv, [Next]_vars PROVE SessionInv'
    OBVIOUS
  <1>0. TypeInv'
    BY TypeStep DEF SessionInv
  <1>1. CASE UNCHANGED vars
    BY <1>0, <1>1 DEF SessionInv, Links, Descriptor, Identifying, Commanding,
         vars, serverVars, netVars, clientVars, ghostVars
  <1>2. CASE Server
    <2>1. Links' /\ Descriptor' /\ Identifying' /\ Commanding'
      BY <1>2, AcceptKeeps, ReceiveKeeps, ReceiveEndKeeps, CheckIdKeeps, GuiKeeps, DecideKeeps, AnswerKeeps,
         TerminateKeeps DEF Server
    <2> QED
      BY <1>0, <2>1 DEF SessionInv
  <1>3. ASSUME NEW c \in Clients, Client(c) \/ GiveUp(c) PROVE SessionInv'
    BY <1>0, <1>3, ClientKeeps DEF SessionInv
  <1> QED
    BY <1>1, <1>2, <1>3 DEF Next, Quiet, AcceptFails

LEMMA InitSession == Init => SessionInv
  <1> SUFFICES ASSUME Init PROVE SessionInv
    OBVIOUS
  <1>1. TypeInv
    BY InitTypes
  <1>2. Links /\ Descriptor /\ Identifying /\ Commanding
    BY DEF Init, Links, Descriptor, Identifying, Commanding
  <1> QED
    BY <1>1, <1>2 DEF SessionInv

(* Whoever connects, sends and goes away, a descriptor is closed before    *)
(* the next connection, and closed once unless it is the page's (Socket.cc *)
(* 214-222, 447).                                                          *)
THEOREM ConnectionsClosedOnce == Spec => []ClosedOnce
  <1>1. SessionInv => ClosedOnce
    <2> SUFFICES ASSUME SessionInv PROVE ClosedOnce
      OBVIOUS
    <2> QED
      BY DEF SessionInv, Descriptor, ClosedOnce
  <1> QED
    BY <1>1, InitSession, SessionStep, PTL DEF Spec

-----------------------------------------------------------------------------
(* What the server makes of the beginning of a message.                    *)

LEMMA TextTokens ==
    ASSUME NEW cmd \in Command
    PROVE  /\ \A i \in 1..Len(Text(cmd)) :
                 /\ Text(cmd)[i].key = Plain
                 /\ Text(cmd)[i].class \in {"open", "text"} => Text(cmd)[i].v \in {cmd.name} \cup Range(cmd.kids)
           /\ Text(cmd)[Len(Text(cmd))] = Gt
  <1>0. cmd.kids \in Seq(Names)
    BY DEF Command
  <1>1. CASE cmd.kids = << >>
    <2>1. Len(Text(cmd)) = 2 /\ Text(cmd)[1] = Txt(cmd.name, cmd.arg) /\ Text(cmd)[2] = Gt
      BY <1>1, TextFacts
    <2>2. \A i \in 1..Len(Text(cmd)) : i = 1 \/ i = 2
      BY <2>1
    <2> QED
      BY <2>1, <2>2, TokensDiffer
  <1>2. CASE cmd.kids # << >>
    <2>1. PICK L \in Nat : L = Len(cmd.kids)
      BY <1>0
    <2>2. /\ Len(Text(cmd)) = 4 + 2 * L
          /\ Text(cmd)[1] = Open(cmd.name, cmd.arg, 0) /\ Text(cmd)[2] = Gt
          /\ Text(cmd)[3 + 2 * L] = Close(cmd.name) /\ Text(cmd)[4 + 2 * L] = Gt
      BY <1>2, <2>1, TextFacts
    <2>3. \A j \in 1..L : Text(cmd)[2 * j + 1] = Txt(cmd.kids[j], NoName) /\ Text(cmd)[2 * j + 2] = Gt
      BY <1>2, <2>1, TextFacts
    <2>4. ASSUME NEW i \in 1..Len(Text(cmd))
          PROVE  \/ i \in {1, 2, 3 + 2 * L, 4 + 2 * L}
                 \/ \E j \in 1..L : i = 2 * j + 1 \/ i = 2 * j + 2
      <3>1. i \in 1..(4 + 2 * L)
        BY <2>2
      <3>2. CASE i \in 3..(2 + 2 * L)
        <4>1. (i - 1) \div 2 \in 1..L
          BY <3>2
        <4>2. i = 2 * ((i - 1) \div 2) + 1 \/ i = 2 * ((i - 1) \div 2) + 2
          BY <3>2
        <4> QED
          BY <4>1, <4>2
      <3> QED
        BY <3>1, <3>2
    <2>5. \A j \in 1..L : cmd.kids[j] \in Range(cmd.kids)
      BY <1>0, <2>1 DEF Range
    <2>6. /\ Open(cmd.name, cmd.arg, 0).key = Plain /\ Close(cmd.name).key = Plain /\ Gt.key = Plain
          /\ Open(cmd.name, cmd.arg, 0).v = cmd.name
          /\ Close(cmd.name).class \notin {"open", "text"} /\ Gt.class \notin {"open", "text"}
      BY DEF Open, Close, Gt, Token
    <2>7. \A j \in 1..L : /\ Txt(cmd.kids[j], NoName).key = Plain
                          /\ Txt(cmd.kids[j], NoName).v \in Range(cmd.kids)
      BY <2>5, TokensDiffer
    <2>8. ASSUME NEW i \in 1..Len(Text(cmd))
          PROVE  /\ Text(cmd)[i].key = Plain
                 /\ Text(cmd)[i].class \in {"open", "text"} => Text(cmd)[i].v \in {cmd.name} \cup Range(cmd.kids)
      <3>1. CASE i \in {1, 2, 3 + 2 * L, 4 + 2 * L}
        BY <2>2, <2>6, <3>1
      <3>2. CASE \E j \in 1..L : i = 2 * j + 1 \/ i = 2 * j + 2
        <4>1. PICK j \in 1..L : i = 2 * j + 1 \/ i = 2 * j + 2
          BY <3>2
        <4>2. Text(cmd)[i] = Txt(cmd.kids[j], NoName) \/ Text(cmd)[i] = Gt
          BY <2>3, <4>1
        <4> QED
          BY <2>6, <2>7, <4>2
      <3> QED
        BY <2>4, <3>1, <3>2
    <2> QED
      BY <2>2, <2>8
  <1> QED
    BY <1>1, <1>2

LEMMA OtpLooks == \A b \in Seq(TokenType) : IsOtp(b) => LooksEncrypted(b)
  <1> SUFFICES ASSUME NEW b \in Seq(TokenType), IsOtp(b) PROVE LooksEncrypted(b)
    OBVIOUS
  <1>1. 1 \in DOMAIN b /\ b[1] = Open("otp", NoName, b[1].n)
    BY DEF IsOtp
  <1>2. b[1].class = "open" /\ b[1].v = "otp" /\ b[1].key = Plain
    BY <1>1 DEF Open, Token
  <1> QED
    BY <1>1, <1>2 DEF LooksEncrypted

LEMMA TypedWellformed == \A c \in Clients : Typed[c] \in Wellformed
  BY DEF Wellformed, Commands

LEMMA ParsedWellformed ==
    /\ \A b : ParseString(b) \in Wellformed \cup {Malformed}
    /\ \A b : CommandIn(b) \in Wellformed \cup {Malformed}
    /\ Malformed.name # "otp"
  <1>1. \A b : ParseString(b) \in Wellformed \cup {Malformed}
    BY DEF ParseString
  <1> QED
    BY <1>1 DEF CommandIn, Malformed, NoName

(* A plain message: the whole command, or nothing.                         *)
LEMMA PlainPart ==
    ASSUME NEW c \in Clients, NEW k \in 0..Len(Text(Typed[c]) \o <<Nl>>),
           NEW b, b = SubSeq(Text(Typed[c]) \o <<Nl>>, 1, k)
    PROVE  /\ CommandIn(b) \in {Malformed, Typed[c]}
           /\ NoOtpChild /\ LooksEncrypted(b) => CommandIn(b) = Malformed
           /\ ~IsOtp(b)
  <1>1. PICK t : t = Text(Typed[c])
    OBVIOUS
  <1>2. PICK m : m = t \o <<Nl>>
    OBVIOUS
  <1>3. t \in Seq(TokenType) /\ <<Nl>> \in Seq(TokenType) /\ Len(<<Nl>>) = 1 /\ <<Nl>>[1] = Nl
    BY <1>1, TypedType, TokenTypes
  <1>4. /\ m \in Seq(TokenType) /\ Len(m) = Len(t) + 1 /\ Len(t) \in Nat
        /\ \A i \in 1..Len(t) : m[i] = t[i]
        /\ m[Len(t) + 1] = Nl
    <2>1. /\ t \o <<Nl>> \in Seq(TokenType) /\ Len(t \o <<Nl>>) = Len(t) + Len(<<Nl>>)
          /\ \A i \in 1..Len(t) : (t \o <<Nl>>)[i] = t[i]
          /\ \A i \in 1..Len(<<Nl>>) : (t \o <<Nl>>)[i + Len(t)] = <<Nl>>[i]
      BY <1>3, Joined
    <2>2. (t \o <<Nl>>)[1 + Len(t)] = Nl
      BY <1>3, <2>1
    <2> QED
      BY <1>2, <1>3, <2>1, <2>2
  <1>5. k \in 0..Len(m) /\ b = SubSeq(m, 1, k)
    BY <1>1, <1>2, Zenon
  <1>6. b \in Seq(TokenType) /\ Len(b) = k /\ \A i \in 1..k : b[i] = m[i]
    <2>1. 1 \in 1..(Len(m) + 1)
      BY <1>4
    <2> QED
      BY <1>4, <1>5, <2>1, PartType
  <1>7. NoOtpChild => Typed[c].name = "otp" \/ ~LooksEncrypted(b)
    <2> SUFFICES ASSUME NoOtpChild, Typed[c].name # "otp" PROVE ~LooksEncrypted(b)
      OBVIOUS
    <2>1. ASSUME NEW i \in 1..k, b[i].class \in {"open", "text"} PROVE b[i].v # "otp"
      <3>1. i \in 1..Len(t)
        <4>1. Nl.class \notin {"open", "text"}
          BY TokensDiffer
        <4>2. i \in 1..(Len(t) + 1)
          BY <1>4, <1>5
        <4>3. i # Len(t) + 1
          BY <1>4, <1>6, <2>1, <4>1
        <4> QED
          BY <1>4, <4>2, <4>3
      <3>2. b[i] = Text(Typed[c])[i]
        BY <1>1, <1>4, <1>6, <3>1
      <3>3. b[i].v \in {Typed[c].name} \cup Range(Typed[c].kids)
        BY <1>1, <2>1, <3>1, <3>2, TypedType, TextTokens
      <3>4. "otp" \notin Range(Typed[c].kids)
        BY DEF NoOtpChild, Commands
      <3> QED
        BY <3>3, <3>4
    <2>2. DOMAIN b = 1..k
      BY <1>6
    <2> QED
      BY <2>1, <2>2 DEF LooksEncrypted
  <1>8. ~IsOtp(b)
    <2> SUFFICES ASSUME IsOtp(b) PROVE FALSE
      OBVIOUS
    <2>1. k > 4 /\ b[3].key # Plain
      <3>1. Len(b) > 4 /\ 3 \in 3..(Len(b) - 2)
        BY <1>6 DEF IsOtp
      <3> QED
        BY <1>6, <3>1 DEF IsOtp
    <2>2. b[3] = m[3] /\ 3 \in 1..Len(m)
      BY <1>4, <1>5, <1>6, <2>1
    <2>3. m[3].key = Plain
      <3>1. \A i \in 1..Len(t) : m[i].key = Plain
        BY <1>1, <1>4, TypedType, TextTokens
      <3> QED
        BY <1>4, <2>2, <3>1, TokensDiffer
    <2> QED
      BY <2>1, <2>2, <2>3
  <1>b. ASSUME ParseString(b) \in {Malformed, Typed[c]}
        PROVE  /\ CommandIn(b) \in {Malformed, Typed[c]}
               /\ NoOtpChild /\ LooksEncrypted(b) => CommandIn(b) = Malformed
    <2>1. CommandIn(b) = IF TypedOtp(b) THEN Malformed ELSE ParseString(b)
      BY <1>8 DEF CommandIn
    <2>2. TypedOtp(b) <=> ParseString(b).name = "otp"
      BY <1>8 DEF TypedOtp
    <2> QED
      BY <1>7, <1>b, <2>1, <2>2
  <1>9. CASE k \in 0..Len(t)
    <2>1. b = SubSeq(t, 1, k)
      BY <1>2, <1>3, <1>5, <1>9, Beginning
    <2>2. ParseString(b) \in {Malformed, Typed[c]}
      BY <1>1, <1>9, <2>1, Parsed, TypedWellformed
    <2> QED
      BY <1>8, <1>b, <2>2
  <1>10. CASE k = Len(t) + 1
    <2>1. ASSUME NEW w \in Wellformed PROVE Text(w) # b
      <3>1. Text(w)[Len(Text(w))] = Gt
        BY WellformedType, TextTokens
      <3>2. b[Len(b)] = Nl
        <4>1. k \in 1..k
          BY <1>4, <1>10
        <4> QED
          BY <1>4, <1>6, <1>10, <4>1
      <3> QED
        BY <3>1, <3>2, TokensDiffer
    <2>2. ParseString(b) = Malformed
      BY <2>1 DEF ParseString
    <2> QED
      BY <1>8, <1>b, <2>2
  <1> QED
    BY <1>4, <1>5, <1>9, <1>10

LEMMA Deciphered ==
    ASSUME NEW o \in Nat, NEW t \in Seq(TokenType), ~KeyTooShort(o, t),
           \A i \in 1..Len(t) : t[i].key = Plain /\ o + i - 1 \notin HighKey
    PROVE  Decrypted(o, Encrypted(o, t)) = t
  <1>1. PICK cy : cy = Encrypted(o, t)
    OBVIOUS
  <1>2. /\ cy \in Seq(TokenType) /\ Len(cy) = Len(t)
        /\ \A i \in 1..Len(t) : cy[i] = [t[i] EXCEPT !.key = o + i - 1]
    BY <1>1, EncryptedType
  <1>3. ASSUME NEW i \in 1..Len(t)
        PROVE  /\ cy[i].key = o + i - 1 /\ cy[i].key < KeyLen /\ ~(cy[i].key >= KeyLen)
               /\ cy[i].key \notin HighKey
               /\ [cy[i] EXCEPT !.key = Plain] = t[i]
    <2>1. t[i] \in TokenType /\ t[i].key = Plain
      OBVIOUS
    <2>2. cy[i].key = o + i - 1
      BY <1>2, <2>1 DEF TokenType
    <2>3. o + i - 1 < KeyLen
      BY SessionAssumption DEF KeyTooShort
    <2>4. [cy[i] EXCEPT !.key = Plain] = t[i]
      BY <1>2, <2>1 DEF TokenType
    <2>5. o + i - 1 \notin HighKey
      OBVIOUS
    <2>6. KeyLen \in Nat /\ o + i - 1 \in Nat
      BY SessionAssumption
    <2>7. cy[i].key < KeyLen /\ ~(cy[i].key >= KeyLen)
      BY <2>2, <2>3, <2>6
    <2> QED
      BY <2>2, <2>4, <2>5, <2>7
  <1>4. PICK d : d = Decrypted(o, cy)
    OBVIOUS
  <1>5. d = [i \in DOMAIN cy |-> IF cy[i].key # o + i - 1 \/ cy[i].key >= KeyLen THEN Garbage
                                 ELSE IF cy[i].key \in HighKey THEN Shifted(cy[i])
                                 ELSE [cy[i] EXCEPT !.key = Plain]]
    BY <1>4 DEF Decrypted
  <1>6. d \in Seq(TokenType)
    BY <1>2, <1>4, DecryptedType
  <1>7. DOMAIN cy = 1..Len(t) /\ Len(t) \in Nat
    BY <1>2
  <1>8. Len(d) = Len(t)
    BY <1>5, <1>6, <1>7
  <1>9. ASSUME NEW i \in 1..Len(t) PROVE d[i] = t[i]
    BY <1>3, <1>5, <1>7
  <1>10. d = t
    BY <1>6, <1>8, <1>9, SeqEqual
  <1> QED
    BY <1>1, <1>4, <1>10

LEMMA TwoBack ==
    \A n \in Nat : \A k \in Nat :
        (k > 4 /\ k - 1 \in 3..(n + 2)) => (k - 3 \in 1..n /\ (k - 3) + 2 = k - 1)
  OBVIOUS

(* An encrypted message: a command only when all of it has arrived, and    *)
(* the one that was typed when no key byte is high.                        *)
LEMMA OtpPart ==
    ASSUME NEW c \in Clients, NEW o \in Nat, ~KeyTooShort(o, Text(Typed[c])),
           NEW m, m = OtpMessage(o, Encrypted(o, Text(Typed[c]))),
           NEW k \in 0..Len(m), NEW b, b = SubSeq(m, 1, k)
    PROVE  /\ ~TypedOtp(b) /\ (~IsOtp(b) => CommandIn(b) = Malformed)
           /\ (\A i \in 1..Len(b) : b[i].key \notin HighKey) => CommandIn(b) \in {Malformed, Typed[c]}
  <1>1. PICK t : t = Text(Typed[c])
    OBVIOUS
  <1>2. PICK cy : cy = Encrypted(o, t)
    OBVIOUS
  <1>3. t \in Seq(TokenType) /\ ~KeyTooShort(o, t) /\ \A i \in 1..Len(t) : t[i].key = Plain
    BY <1>1, TypedType, TextTokens
  <1>4. /\ cy \in Seq(TokenType) /\ Len(cy) = Len(t) /\ Len(cy) \in Nat
        /\ \A i \in 1..Len(t) : cy[i] = [t[i] EXCEPT !.key = o + i - 1]
    BY <1>2, <1>3, EncryptedType
  <1>5. m = OtpMessage(o, cy)
    BY <1>1, <1>2
  <1>6. /\ m \in Seq(TokenType) /\ Len(m) = Len(cy) + 4
        /\ m[1] = Open("otp", NoName, o) /\ m[2] = Gt
        /\ \A i \in 1..Len(cy) : m[i + 2] = cy[i]
    <2>1. PICK x : x = OtpMessage(o, cy)
      OBVIOUS
    <2>2. cy \in Seq(TokenType)
      BY <1>4
    <2>3. /\ x \in Seq(TokenType) /\ Len(x) = Len(cy) + 4
          /\ x[1] = Open("otp", NoName, o) /\ x[2] = Gt
          /\ \A i \in 1..Len(cy) : x[i + 2] = cy[i]
      BY <2>1, <2>2, OtpMessageType, Zenon
    <2>4. x = m
      BY <1>5, <2>1, Zenon
    <2> QED
      BY <2>3, <2>4, Zenon
  <1>7. b \in Seq(TokenType) /\ Len(b) = k /\ \A i \in 1..k : b[i] = m[i]
    <2>1. 1 \in 1..(Len(m) + 1)
      BY <1>4, <1>6
    <2> QED
      BY <1>6, <2>1, PartType
  <1>a. ASSUME NEW i \in 1..Len(cy) PROVE cy[i].key = o + i - 1 /\ cy[i].key # Plain
    <2>1. t[i] \in TokenType /\ i \in 1..Len(t)
      BY <1>3, <1>4
    <2>2. o + i - 1 # Plain
      BY <1>4 DEF Plain
    <2> QED
      BY <1>4, <2>1, <2>2 DEF TokenType
  <1>8. ASSUME NEW w \in Wellformed PROVE Text(w) # b
    <2> SUFFICES ASSUME Text(w) = b PROVE FALSE
      OBVIOUS
    <2>1. Len(Text(w)) >= 2 /\ k >= 2 /\ b[1] = Open("otp", NoName, o) /\ w \in Command
      BY <1>6, <1>7, WellformedType, TextFacts
    <2>2. CASE w.kids = << >>
      BY <2>1, <2>2, TextFacts, TokensDiffer
    <2>3. CASE w.kids # << >>
      <3>1. k = 4 + 2 * Len(w.kids) /\ Len(w.kids) > 0 /\ Len(w.kids) \in Nat
        <4>1. w.kids \in Seq(Names)
          BY <2>1 DEF Command
        <4>2. Len(Text(w)) = 4 + 2 * Len(w.kids) /\ Len(w.kids) > 0
          BY <2>1, <2>3, TextFacts
        <4> QED
          BY <1>7, <4>1, <4>2
      <3>2. b[3] = Txt(w.kids[1], NoName)
        <4>1. 1 \in 1..Len(w.kids) /\ 2 * 1 + 1 = 3
          BY <3>1
        <4> QED
          BY <2>1, <2>3, <4>1, TextFacts
      <3>3. b[3] = cy[1] /\ 1 \in 1..Len(cy)
        <4>1. 1 \in 1..Len(cy) /\ 1 + 2 = 3 /\ 3 \in 1..k
          BY <1>4, <1>6, <3>1
        <4> QED
          BY <1>6, <1>7, <4>1
      <3>4. Txt(w.kids[1], NoName).key = Plain
        BY TokensDiffer
      <3>5. cy[1].key # Plain
        BY <1>a, <3>3
      <3> QED
        BY <3>2, <3>3, <3>4, <3>5
    <2> QED
      BY <2>2, <2>3
  <1>9. ParseString(b) = Malformed
    BY <1>8 DEF ParseString
  <1>b. ~TypedOtp(b)
    BY <1>9, ParsedWellformed DEF TypedOtp
  <1>10. CASE ~IsOtp(b)
    BY <1>9, <1>10, <1>b DEF CommandIn
  <1>11. CASE IsOtp(b) /\ \A i \in 1..Len(b) : b[i].key \notin HighKey
    <2>1. k > 4 /\ k \in Nat /\ b[k - 1] = Close("otp") /\ b[1].n = o
      <3>1. k > 4 /\ b[k - 1] = Close("otp")
        BY <1>7, <1>11 DEF IsOtp
      <3>2. b[1].n = o
        BY <1>6, <1>7, <3>1, TokensDiffer
      <3> QED
        BY <3>1, <3>2
    <2>2. ASSUME NEW i \in 1..Len(cy) PROVE m[i + 2] # Close("otp")
      <3>1. cy[i].key # Plain
        BY <1>a
      <3>2. Close("otp").key = Plain
        BY DEF Close, Token
      <3> QED
        BY <1>6, <3>1, <3>2
    <2>3. k = Len(m)
      <3>1. m[k - 1] = Close("otp")
        BY <1>7, <2>1
      <3>2. ASSUME k - 1 \in 3..(Len(cy) + 2) PROVE FALSE
        <4>1. PICK i : i = k - 3
          OBVIOUS
        <4>2. i \in 1..Len(cy) /\ i + 2 = k - 1
          BY <1>4, <2>1, <3>2, <4>1, TwoBack
        <4> QED
          BY <2>2, <3>1, <4>2
      <3> QED
        BY <1>4, <1>6, <2>1, <3>2
    <2>4. b = m
      BY <1>6, <2>3, SubSeqFull
    <2>5. OtpOffset(b) = o
      BY <2>1 DEF OtpOffset
    <2>6. OtpContents(b) = cy
      <3>1. PICK x : x = SubSeq(m, 3, Len(m) - 2)
        OBVIOUS
      <3>2. Len(m) - 2 = Len(cy) + 2 /\ 3 \in 1..(Len(m) + 1) /\ Len(m) - 2 \in 0..Len(m)
        BY <1>4, <1>6
      <3>3. /\ x \in Seq(TokenType)
            /\ Len(x) = IF 3 <= Len(m) - 2 THEN (Len(m) - 2) - 3 + 1 ELSE 0
            /\ \A i \in 1..((Len(m) - 2) - 3 + 1) : x[i] = m[3 + i - 1]
        BY <1>6, <3>1, <3>2, PartType
      <3>4. Len(x) = Len(cy)
        BY <1>4, <3>2, <3>3
      <3>5. ASSUME NEW i \in 1..Len(cy) PROVE x[i] = cy[i]
        <4>1. i \in 1..((Len(m) - 2) - 3 + 1) /\ 3 + i - 1 = i + 2
          BY <1>4, <1>6
        <4> QED
          BY <1>6, <3>3, <4>1
      <3>6. x = cy
        BY <1>4, <3>3, <3>4, <3>5, SeqEqual
      <3> QED
        BY <2>4, <3>1, <3>6 DEF OtpContents
    <2>a. ASSUME NEW i \in 1..Len(t) PROVE o + i - 1 \notin HighKey
      <3>1. i \in 1..Len(cy) /\ i + 2 \in 1..Len(b)
        <4>1. Len(b) = Len(cy) + 4 /\ Len(cy) = Len(t) /\ Len(cy) \in Nat
          BY <1>4, <1>6, <2>4
        <4> QED
          BY <4>1
      <3>2. b[i + 2] = cy[i]
        BY <1>6, <2>4, <3>1
      <3> QED
        BY <1>11, <1>a, <3>1, <3>2
    <2>7. CommandIn(b) = ParseString(t)
      <3>1. Decrypted(o, cy) = t
        BY <1>2, <1>3, <2>a, Deciphered
      <3> QED
        BY <1>11, <2>5, <2>6, <3>1 DEF CommandIn
    <2>8. t = SubSeq(t, 1, Len(t)) /\ Len(t) \in 0..Len(t)
      BY <1>3, SubSeqFull
    <2>9. ParseString(SubSeq(Text(Typed[c]), 1, Len(t))) \in {Malformed, Typed[c]}
      BY <1>1, <2>8, Parsed, TypedWellformed
    <2> QED
      BY <1>1, <1>11, <1>b, <2>7, <2>8, <2>9
  <1>12. ~IsOtp(b) => CommandIn(b) = Malformed
    BY <1>9, <1>b DEF CommandIn
  <1> QED
    BY <1>10, <1>11, <1>12, <1>b

-----------------------------------------------------------------------------
(* What the server reads from a client is encrypted with key bytes that    *)
(* the client has used.                                                    *)

OwnTokens(c) ==
    {t \in TokenType : t.key = Plain \/ \E u \in used : u.byte = t.key /\ u.client = c /\ u.who = "client"}
OwnKeys ==
    /\ \A c \in Clients : inq[c] \in Seq(OwnTokens(c))
    /\ at # "poll" => buf \in Seq(OwnTokens(conn))

LEMMA UsedGrows == TypeInv /\ [Next]_vars => used \subseteq used'
  <1> SUFFICES ASSUME TypeInv, [Next]_vars PROVE used \subseteq used'
    OBVIOUS
  <1>1. CASE UNCHANGED vars
    BY <1>1 DEF vars, ghostVars
  <1>2. CASE Server
    BY <1>2 DEF Server, Terminate, Accept, Receive, ReceiveEnd, CheckId, GuiLine, GuiDone, Decide, Refuse, Execute,
                SendAnswer, CloseClient, ghostVars
  <1>3. ASSUME NEW c \in Clients, Client(c) \/ GiveUp(c) PROVE used \subseteq used'
    BY <1>3 DEF Client, GiveUp, Connect, ConnectFails, GetOne, SendPlain, SendEncrypted, SavePos, ReadAnswer,
                FinishRead, ghostVars
  <1> QED
    BY <1>1, <1>2, <1>3 DEF Next, Quiet, AcceptFails

LEMMA OwnGrows ==
    ASSUME used \subseteq used', NEW c
    PROVE  /\ OwnTokens(c) \subseteq OwnTokens(c)'
           /\ \A q \in Seq(OwnTokens(c)) : q \in Seq(OwnTokens(c)')
           /\ OwnTokens(c) \subseteq TokenType /\ OwnTokens(c)' \subseteq TokenType
  <1>1. OwnTokens(c) \subseteq OwnTokens(c)'
    BY DEF OwnTokens
  <1> QED
    BY <1>1 DEF OwnTokens

(* The texts that a client sends: the ID, a command, an encrypted command. *)
LEMMA PlainOwn ==
    ASSUME NEW c \in Clients
    PROVE  /\ <<IdOf(c), Nl>> \in Seq(OwnTokens(c)')
           /\ Text(Typed[c]) \in Seq(OwnTokens(c)') /\ <<Nl>> \in Seq(OwnTokens(c)')
  <1>1. IdOf(c) \in OwnTokens(c)' /\ Nl \in OwnTokens(c)'
    <2>1. IdOf(c).key = Plain
      BY DEF IdOf, Txt, Token
    <2> QED
      BY <2>1, IdType, TokenTypes, TokensDiffer DEF OwnTokens
  <1>2. Text(Typed[c]) \in Seq(OwnTokens(c)')
    <2>1. /\ Text(Typed[c]) \in Seq(TokenType)
          /\ \A i \in 1..Len(Text(Typed[c])) : Text(Typed[c])[i].key = Plain
      BY TypedType, TextTokens
    <2>2. PICK t : t = Text(Typed[c])
      OBVIOUS
    <2>3. \A i \in 1..Len(t) : t[i] \in OwnTokens(c)'
      BY <2>1, <2>2 DEF OwnTokens
    <2> QED
      BY <2>1, <2>2, <2>3
  <1> QED
    BY <1>1, <1>2

LEMMA CipherOwn ==
    ASSUME NEW c \in Clients, NEW o \in Nat, NEW t, t = Text(Typed[c]),
           used' = used \cup KeyUse(o, t, c, "client")
    PROVE  OtpMessage(o, Encrypted(o, t)) \in Seq(OwnTokens(c)')
  <1>1. PICK cy : cy = Encrypted(o, t)
    OBVIOUS
  <1>2. t \in Seq(TokenType) /\ \A i \in 1..Len(t) : t[i].key = Plain
    BY TypedType, TextTokens
  <1>3. /\ cy \in Seq(TokenType) /\ Len(cy) = Len(t)
        /\ \A i \in 1..Len(t) : cy[i] = [t[i] EXCEPT !.key = o + i - 1]
    BY <1>1, <1>2, EncryptedType
  <1>4. ASSUME NEW i \in 1..Len(cy) PROVE cy[i] \in OwnTokens(c)'
    <2>1. cy[i] \in TokenType /\ t[i] \in TokenType /\ i \in 1..Len(t)
      BY <1>2, <1>3
    <2>2. cy[i].key = o + i - 1
      BY <1>3, <2>1 DEF TokenType
    <2>3. [byte |-> o + i - 1, client |-> c, who |-> "client", at |-> i] \in used'
      BY <1>2, <2>1 DEF KeyUse
    <2> QED
      BY <2>1, <2>2, <2>3 DEF OwnTokens
  <1>5. /\ Open("otp", NoName, o) \in OwnTokens(c)' /\ Close("otp") \in OwnTokens(c)' /\ Gt \in OwnTokens(c)'
    <2>1. "otp" \in Words /\ NoName \in Words
      BY NamesAreWords DEF Words
    <2>2. Open("otp", NoName, o).key = Plain /\ Close("otp").key = Plain /\ Gt.key = Plain
      BY DEF Open, Close, Gt, Token
    <2> QED
      BY <2>1, <2>2, TokenTypes DEF OwnTokens
  <1>6. PICK m : m = OtpMessage(o, cy)
    OBVIOUS
  <1>7. /\ m \in Seq(TokenType) /\ Len(m) = Len(cy) + 4
        /\ m[1] = Open("otp", NoName, o) /\ m[2] = Gt
        /\ \A i \in 1..Len(cy) : m[i + 2] = cy[i]
        /\ m[Len(cy) + 3] = Close("otp") /\ m[Len(cy) + 4] = Gt
    <2>1. cy \in Seq(TokenType)
      BY <1>3
    <2> QED
      BY <1>6, <2>1, OtpMessageType, Zenon
  <1>8. ASSUME NEW j \in 1..Len(m) PROVE m[j] \in OwnTokens(c)'
    <2>1. CASE j \in 3..(Len(cy) + 2)
      <3>1. PICK i : i = j - 2
        OBVIOUS
      <3>2. i \in 1..Len(cy) /\ i + 2 = j
        BY <1>3, <2>1, <3>1
      <3> QED
        BY <1>4, <1>7, <3>2
    <2>2. CASE j \notin 3..(Len(cy) + 2)
      <3>1. j = 1 \/ j = 2 \/ j = Len(cy) + 3 \/ j = Len(cy) + 4
        BY <1>3, <1>7, <2>2
      <3> QED
        BY <1>5, <1>7, <3>1
    <2> QED
      BY <2>1, <2>2
  <1>9. m \in Seq(OwnTokens(c)')
    BY <1>7, <1>8
  <1> QED
    BY <1>1, <1>6, <1>9

LEMMA OwnSent ==
    ASSUME TypeInv, OwnKeys, NEW c \in Clients, Client(c) \/ GiveUp(c), used \subseteq used'
    PROVE  inq'[c] \in Seq(OwnTokens(c)')
  <1>0. NetTypes /\ ClientTypes /\ inq[c] \in Seq(OwnTokens(c)')
    BY TypeParts, OwnGrows DEF OwnKeys
  <1>1. CASE Connect(c)
    BY <1>0, <1>1, PlainOwn DEF Connect, NetTypes
  <1>2. CASE SendPlain(c)
    <2>1. inq'[c] = inq[c] \/ inq'[c] = inq[c] \o Text(Typed[c]) \o <<Nl>>
      BY <1>0, <1>2 DEF SendPlain, NetTypes
    <2>2. PICK S : S = OwnTokens(c)'
      OBVIOUS
    <2>3. PICK t : t = Text(Typed[c])
      OBVIOUS
    <2>4. inq[c] \in Seq(S) /\ t \in Seq(S) /\ <<Nl>> \in Seq(S)
      BY <1>0, <2>2, <2>3, PlainOwn
    <2>5. inq[c] \o t \in Seq(S)
      BY <2>4
    <2>6. (inq[c] \o t) \o <<Nl>> \in Seq(S)
      BY <2>4, <2>5
    <2> QED
      BY <1>0, <2>1, <2>2, <2>3, <2>6
  <1>3. CASE SendEncrypted(c)
    <2>1. CASE inq' = inq
      BY <1>0, <2>1
    <2>2. CASE inq' # inq
      <3>1. PICK t : t = Text(Typed[c])
        OBVIOUS
      <3>2. PICK m : m = OtpMessage(of[c], Encrypted(of[c], t))
        OBVIOUS
      <3>3. inq'[c] = inq[c] \o m /\ used' = used \cup KeyUse(of[c], t, c, "client")
        BY <1>0, <1>3, <2>2, <3>1, <3>2 DEF SendEncrypted, NetTypes
      <3>4. of[c] \in Nat
        BY <1>0 DEF ClientTypes
      <3>5. m \in Seq(OwnTokens(c)')
        BY <3>1, <3>2, <3>3, <3>4, CipherOwn
      <3> QED
        BY <1>0, <3>3, <3>5
    <2> QED
      BY <2>1, <2>2
  <1>4. CASE ConnectFails(c) \/ GetOne(c) \/ SavePos(c) \/ ReadAnswer(c) \/ FinishRead(c) \/ GiveUp(c)
    <2>1. inq' = inq
      BY <1>4 DEF ConnectFails, GetOne, SavePos, ReadAnswer, FinishRead, GiveUp, netVars
    <2> QED
      BY <1>0, <2>1
  <1> QED
    BY <1>1, <1>2, <1>3, <1>4 DEF Client

LEMMA OwnReceived ==
    ASSUME SessionInv, OwnKeys, Receive, used' = used
    PROVE  OwnKeys'
  <1>0. /\ conn \in Clients /\ inq \in [Clients -> Seq(TokenType)] /\ at # "poll"
        /\ \A c : OwnTokens(c)' = OwnTokens(c)
    BY TypeParts DEF SessionInv, TypeInv, Receive, NetTypes, OwnTokens
  <1>1. PICK q : q = inq[conn]
    OBVIOUS
  <1>2. PICK S : S = OwnTokens(conn)
    OBVIOUS
  <1>3. q \in Seq(S) /\ buf \in Seq(S) /\ S \subseteq TokenType
    BY <1>0, <1>1, <1>2 DEF OwnKeys, OwnTokens
  <1>4. PICK n \in 1..Len(q) :
          /\ inq' = [inq EXCEPT ![conn] = SubSeq(q, n + 1, Len(q))]
          /\ IF EndsIn(buf \o SubSeq(q, 1, n)) = {}
               THEN buf' = buf \o SubSeq(q, 1, n) /\ UNCHANGED at
               ELSE buf' = CutAtEnd(buf \o SubSeq(q, 1, n)) /\ at' = NextState
    BY <1>1, Zenon DEF Receive, Gathered
  <1>5. PICK b : b = buf \o SubSeq(q, 1, n)
    OBVIOUS
  <1>6. b \in Seq(S) /\ SubSeq(q, n + 1, Len(q)) \in Seq(S)
    BY <1>3, <1>5, Pieces
  <1>7. buf' \in Seq(S)
    <2>1. CASE EndsIn(b) = {}
      BY <1>4, <1>5, <1>6, <2>1
    <2>2. CASE EndsIn(b) # {}
      <3>1. b \in Seq(TokenType)
        BY <1>3, <1>6
      <3>2. PICK e \in 2..Len(b) : CutAtEnd(b) = SubSeq(b, 1, IF b[e].class = "gt" THEN e ELSE e - 1)
        BY <2>2, <3>1, CutIsPrefix
      <3>3. CutAtEnd(b) \in {SubSeq(b, 1, e), SubSeq(b, 1, e - 1)} /\ e \in 0..Len(b) /\ e - 1 \in 0..Len(b)
            /\ 1 \in 1..(Len(b) + 1)
        BY <3>1, <3>2
      <3>4. CutAtEnd(b) \in Seq(S)
        BY <1>6, <3>3, PartType
      <3> QED
        BY <1>4, <1>5, <2>2, <3>4
    <2> QED
      BY <2>1, <2>2
  <1>8. conn' = conn
    BY DEF Receive
  <1>9. ASSUME NEW c \in Clients PROVE inq'[c] \in Seq(OwnTokens(c))
    <2>1. CASE c = conn
      BY <1>0, <1>2, <1>4, <1>6, <2>1
    <2>2. CASE c # conn
      BY <1>0, <1>4, <2>2 DEF OwnKeys
    <2> QED
      BY <2>1, <2>2
  <1> QED
    BY <1>0, <1>2, <1>7, <1>8, <1>9 DEF OwnKeys

LEMMA OwnStep == SessionInv /\ OwnKeys /\ [Next]_vars => OwnKeys'
  <1> SUFFICES ASSUME SessionInv, OwnKeys, [Next]_vars PROVE OwnKeys'
    OBVIOUS
  <1>0. TypeInv /\ NetTypes /\ used \subseteq used'
    BY UsedGrows, TypeParts DEF SessionInv
  <1>b. ASSUME buf' = buf, conn' = conn, at # "poll" PROVE buf' \in Seq(OwnTokens(conn)')
    <2>1. PICK d : d = conn
      OBVIOUS
    <2>2. buf \in Seq(OwnTokens(d)')
      <3>1. buf \in Seq(OwnTokens(d))
        BY <1>b, <2>1 DEF OwnKeys
      <3> QED
        BY <1>0, <3>1, OwnGrows
    <2>3. OwnTokens(d)' = OwnTokens(conn)'
      BY <1>b, <2>1 DEF OwnTokens
    <2> QED
      BY <1>b, <2>2, <2>3
  <1>1. ASSUME \A c \in Clients : inq'[c] = inq[c] \/ inq'[c] = << >>,
               (buf' = buf /\ conn' = conn /\ (at' # "poll" => at # "poll")) \/ buf' = << >> \/ at' = "poll"
        PROVE  OwnKeys'
    <2>1. ASSUME NEW c \in Clients PROVE inq'[c] \in Seq(OwnTokens(c)')
      <3>1. inq[c] \in Seq(OwnTokens(c)')
        BY <1>0, OwnGrows DEF OwnKeys
      <3>2. << >> \in Seq(OwnTokens(c)')
        OBVIOUS
      <3> QED
        BY <1>1, <3>1, <3>2
    <2>2. ASSUME at' # "poll" PROVE buf' \in Seq(OwnTokens(conn)')
      <3>1. CASE buf' = << >>
        BY <3>1
      <3>2. CASE buf' = buf /\ conn' = conn /\ at # "poll"
        BY <1>b, <3>2
      <3> QED
        BY <1>1, <2>2, <3>1, <3>2
    <2> QED
      BY <2>1, <2>2 DEF OwnKeys
  <1>2. CASE UNCHANGED vars
    BY <1>1, <1>2 DEF vars, serverVars, netVars
  <1>3. CASE Server
    <2>1. CASE Receive
      BY <2>1, OwnReceived DEF Receive, ghostVars
    <2>2. ASSUME Closed PROVE \A c \in Clients : inq'[c] = inq[c] \/ inq'[c] = << >>
      BY <1>0, <2>2 DEF Closed, NetTypes
    <2>3. CASE Accept \/ ReceiveEnd
      BY <1>1, <2>3 DEF Accept, ReceiveEnd, netVars
    <2>4. CASE CheckId
      <3>1. Closed \/ inq' = inq
        BY <2>4, Zenon DEF CheckId, CommandId, GuiId, BadId, netVars
      <3> QED
        BY <1>1, <2>2, <2>4, <3>1 DEF CheckId
    <2>5. CASE GuiLine
      <3>1. Closed \/ inq' = inq
        BY <2>5, Zenon DEF GuiLine
      <3> QED
        BY <1>1, <2>2, <2>5, <3>1 DEF GuiLine
    <2>6. CASE GuiDone \/ CloseClient
      BY <1>1, <2>2, <2>6 DEF GuiDone, CloseClient
    <2>7. CASE Decide \/ SendAnswer
      BY <1>1, <2>7 DEF Decide, SendAnswer, netVars
    <2>8. CASE Terminate
      BY <1>1, <2>8 DEF Terminate
    <2> QED
      BY <1>3, <2>1, <2>3, <2>4, <2>5, <2>6, <2>7, <2>8 DEF Server
  <1>4. ASSUME NEW c \in Clients, Client(c) \/ GiveUp(c) PROVE OwnKeys'
    <2>1. /\ at' = at /\ conn' = conn /\ buf' = buf
          /\ \A d \in Clients \ {c} : inq'[d] = inq[d]
      BY <1>0, <1>4, ClientOthers
    <2>2. inq'[c] \in Seq(OwnTokens(c)')
      BY <1>0, <1>4, OwnSent
    <2>3. ASSUME NEW d \in Clients PROVE inq'[d] \in Seq(OwnTokens(d)')
      <3>1. inq[d] \in Seq(OwnTokens(d)')
        BY <1>0, OwnGrows DEF OwnKeys
      <3> QED
        BY <2>1, <2>2, <3>1
    <2>4. ASSUME at' # "poll" PROVE buf' \in Seq(OwnTokens(conn)')
      BY <1>b, <2>1, <2>4
    <2> QED
      BY <2>3, <2>4 DEF OwnKeys
  <1> QED
    BY <1>2, <1>3, <1>4 DEF Next, Quiet, AcceptFails

LEMMA InitOwn == Init => OwnKeys
  BY DEF Init, OwnKeys

-----------------------------------------------------------------------------
(* What is executed is a command, and what the client's user typed when no *)
(* high key byte has encrypted it.                                         *)

LEMMA DecidedCommand ==
    ASSUME SessionInv, OwnKeys, at = "decide"
    PROVE  /\ LowKeys(conn) => CommandIn(buf) \in {Malformed, Typed[conn]}
           /\ NoOtpChild /\ LooksEncrypted(buf) /\ CommandIn(buf) # Malformed => Kind[conn] = "otpcmd"
           /\ Speaks(conn) /\ (TypedOtp(buf) => Kind[conn] = "pcmd")
           /\ CommandIn(buf) # Malformed /\ ~IsOtp(buf) => Kind[conn] = "pcmd"
           /\ Kind[conn] = "pcmd" => CommandIn(buf) \in {Malformed, Typed[conn]} /\ ~IsOtp(buf)
  <1>0. /\ conn \in Clients /\ Speaks(conn) /\ buf \in Seq(OwnTokens(conn))
        /\ \/ buf = << >>
           \/ \E m \in Messages(conn) : \E k \in 0..Len(m) : buf = SubSeq(m, 1, k)
    BY DEF SessionInv, TypeInv, Commanding, OwnKeys
  <1>1. CASE buf = << >>
    <2>1. ~LooksEncrypted(buf)
      BY <1>1 DEF LooksEncrypted
    <2>2. ~IsOtp(buf)
      BY <1>1 DEF IsOtp
    <2>3. ASSUME NEW w \in Wellformed PROVE Text(w) # buf
      BY <1>1, WellformedType, TextFacts
    <2>4. ParseString(buf) = Malformed
      BY <2>3 DEF ParseString
    <2> QED
      BY <1>0, <2>1, <2>2, <2>4, ParsedWellformed DEF CommandIn, TypedOtp
  <1>2. ASSUME NEW m \in Messages(conn), NEW k \in 0..Len(m), buf = SubSeq(m, 1, k)
        PROVE  /\ LowKeys(conn) => CommandIn(buf) \in {Malformed, Typed[conn]}
               /\ NoOtpChild /\ LooksEncrypted(buf) /\ CommandIn(buf) # Malformed => Kind[conn] = "otpcmd"
               /\ TypedOtp(buf) => Kind[conn] = "pcmd"
               /\ CommandIn(buf) # Malformed /\ ~IsOtp(buf) => Kind[conn] = "pcmd"
               /\ Kind[conn] = "pcmd" => CommandIn(buf) \in {Malformed, Typed[conn]} /\ ~IsOtp(buf)
    <2>1. CASE Kind[conn] = "pcmd"
      <3>1. m = Text(Typed[conn]) \o <<Nl>>
        BY <2>1 DEF Messages
      <3> QED
        BY <1>0, <1>2, <2>1, <3>1, PlainPart
    <2>2. CASE Kind[conn] # "pcmd"
      <3>1. PICK o \in 0..KeyLen : /\ ~KeyTooShort(o, Text(Typed[conn]))
                                   /\ m = OtpMessage(o, Encrypted(o, Text(Typed[conn])))
        BY <2>2 DEF Messages
      <3>2. o \in Nat
        BY SessionAssumption
      <3>3. /\ ~TypedOtp(buf) /\ (~IsOtp(buf) => CommandIn(buf) = Malformed)
            /\ (\A i \in 1..Len(buf) : buf[i].key \notin HighKey) => CommandIn(buf) \in {Malformed, Typed[conn]}
        BY <1>0, <1>2, <3>1, <3>2, OtpPart
      <3>4. ASSUME LowKeys(conn), NEW i \in 1..Len(buf) PROVE buf[i].key \notin HighKey
        <4>1. buf[i] \in OwnTokens(conn)
          BY <1>0
        <4>2. Plain \notin HighKey
          BY SessionAssumption DEF Plain
        <4> QED
          BY <3>4, <4>1, <4>2 DEF OwnTokens, LowKeys
      <3> QED
        BY <1>0, <2>2, <3>3, <3>4 DEF Speaks
    <2> QED
      BY <2>1, <2>2
  <1> QED
    BY <1>0, <1>1, <1>2

LEMMA EffectsStep ==
    ASSUME NoOtpChild
    PROVE  SessionInv /\ OwnKeys /\ EffectsAreCommands /\ [Next]_vars => EffectsAreCommands'
  <1> SUFFICES ASSUME SessionInv, OwnKeys, EffectsAreCommands, [Next]_vars PROVE EffectsAreCommands'
    OBVIOUS
  <1>0. \A c : LowKeys(c)' => LowKeys(c)
    <2>1. used \subseteq used'
      BY UsedGrows DEF SessionInv
    <2> QED
      BY <2>1 DEF LowKeys
  <1>1. CASE UNCHANGED <<otp_only, pushed>>
    BY <1>0, <1>1 DEF EffectsAreCommands
  <1>2. CASE Server /\ Decide
    <2>0. otp_only' = otp_only /\ at = "decide" /\ conn \in Clients /\ GhostTypes
      BY <1>2, TypeParts DEF Server, Decide, SessionInv, TypeInv
    <2>1. pushed[conn] = NoUnits /\ Speaks(conn)
      BY <2>0 DEF SessionInv, Commanding
    <2>2. CASE pushed' = pushed
      BY <1>1, <2>0, <2>2
    <2>3. CASE /\ ~OnlyEncrypted(buf) /\ PeerAllowed(conn) /\ CommandIn(buf) # Malformed
               /\ CmdAllowed(CommandIn(buf).name) /\ Execute(CommandIn(buf))
      <3>0. PICK cmd : cmd = CommandIn(buf)
        OBVIOUS
      <3>1. /\ cmd \in Wellformed /\ (LowKeys(conn) => cmd = Typed[conn])
            /\ LooksEncrypted(buf) => Kind[conn] = "otpcmd"
        BY <2>0, <2>3, <3>0, DecidedCommand, ParsedWellformed
      <3>2. pushed' = [pushed EXCEPT ![conn] = [s \in Range(Scheds) |-> pushed[conn][s] \o UnitsAt(s, cmd)]]
        BY <2>3, <3>0 DEF Execute
      <3>3. ASSUME NEW s \in Range(Scheds) PROVE pushed[conn][s] \o UnitsAt(s, cmd) = UnitsAt(s, cmd)
        <4>1. pushed[conn][s] = << >>
          BY <2>1 DEF NoUnits
        <4>2. UnitsAt(s, cmd) \in Seq(WorkUnit)
          BY <3>1, WellformedType, UnitsType
        <4> QED
          BY <4>1, <4>2, ConcatEmptySeq, Zenon
      <3>4. pushed'[conn] = UnitsFor(cmd)
        <4>1. pushed'[conn] = [s \in Range(Scheds) |-> pushed[conn][s] \o UnitsAt(s, cmd)]
          BY <2>0, <3>2 DEF GhostTypes
        <4> QED
          BY <3>3, <4>1 DEF UnitsFor
      <3>5. \A d \in Clients \ {conn} : pushed'[d] = pushed[d]
        BY <2>0, <3>2 DEF GhostTypes
      <3>6. /\ Kind[conn] \in {"pcmd", "otpcmd"} /\ conn \in HostAllow /\ Permitted(cmd)
            /\ otp_only => Kind[conn] = "otpcmd"
        BY <2>1, <2>3, <3>0, <3>1, Zenon DEF Speaks, PeerAllowed, CmdAllowed, OnlyEncrypted, Permitted
      <3>7. otp_only' => otp_only
        BY <2>0, Zenon
      <3> QED
        BY <1>0, <3>1, <3>4, <3>5, <3>6, <3>7 DEF EffectsAreCommands
    <2> QED
      BY <1>2, <2>2, <2>3, Zenon DEF Decide, Refuse
  <1>3. CASE Server /\ ~Decide
    BY <1>1, <1>3 DEF Server, Terminate, Accept, Receive, ReceiveEnd, CheckId, GuiLine, GuiDone, SendAnswer,
                      CloseClient, ghostVars
  <1>4. ASSUME NEW c \in Clients, Client(c) \/ GiveUp(c) PROVE EffectsAreCommands'
    BY <1>1, <1>4, ClientOthers DEF SessionInv
  <1>5. CASE UNCHANGED vars
    BY <1>1, <1>5 DEF vars, ghostVars
  <1> QED
    BY <1>2, <1>3, <1>4, <1>5 DEF Next, Quiet, AcceptFails

(* A client brings about one command, the whole of it and once, or         *)
(* nothing, however TCP cuts its text and whoever goes away when; only     *)
(* after the "1", from a host and with a command that the configuration    *)
(* allows, and encrypted where only that is allowed; and it is the command *)
(* that its user typed, unless a key byte of 128 or more has encrypted a   *)
(* part of it (Socket.cc 260-411, otp.cc 210-241).                         *)
THEOREM CommandsWholeOrNot == ASSUME NoOtpChild PROVE Spec => []EffectsAreCommands
  <1>1. Init => EffectsAreCommands
    BY DEF Init, EffectsAreCommands
  <1>2. SessionInv /\ OwnKeys /\ EffectsAreCommands /\ [Next]_vars => EffectsAreCommands'
    BY EffectsStep
  <1> QED
    BY <1>1, <1>2, InitSession, InitOwn, OwnStep, SessionStep, PTL DEF Spec
=============================================================================
