------------------------- MODULE SessionAnswerProofs -------------------------
(***************************************************************************)
(* What TLAPS proves of the answers that clients of the control socket     *)
(* get, for any clients, commands, schedulers and key file: what otpcmd    *)
(* decrypts is what PETeR answered, and an answer tells what was done.     *)
(***************************************************************************)
EXTENDS SessionProofs

-----------------------------------------------------------------------------
(* What the server has sent to c and c has not yet shown; whether c is     *)
(* being answered; and whether the server is through with it.              *)
Stream(c) == got[c] \o outq[c]
Answering(c) == conn = c /\ at = "answer"
Answered(c) == link[c] = "closed" \/ Answering(c)

(* The types of the errors that say that nothing was done.                 *)
ErrorTypes == {"no_access", "not_allowed_or_unknown", "XML_error"}

(* A token that tells nothing about work units, and one that tells the     *)
(* truth about p, the work units added for the client.                     *)
Neutral(t) == t.class # "open" /\ t.v \notin {"accepted", "quit", "error", "error_at"}
Tells(t, p) ==
    /\ \A s \in Range(Scheds) :
         /\ t = Txt("accepted", s) \/ t = Txt("quit", s) => p[s] # << >>
         /\ t = Txt("error_at", s) => p[s] = << >>
    /\ \A e \in ErrorTypes : t = Txt("error", e) => p = NoUnits

AllNeutral(text) == \A t \in Range(text) : Neutral(t)
Truthful(text, p) == \A t \in Range(text) : Tells(t, p)

(* The encrypted forms of an answer, and the beginnings of them.           *)
Ciphers(answer) ==
    {OtpMessage(o, Encrypted(o, answer)) : o \in {n \in 0..KeyLen : ~KeyTooShort(n, answer)}}
Opens(text) == text # << >> /\ text[1].class = "open"
Begins(text, answer) == \E m \in Ciphers(answer) : \E k \in 0..Len(m) : text = SubSeq(m, 1, k)

(* An encrypted answer is the first and the last that a client gets.       *)
StreamFine(c) ==
    /\ Truthful(Stream(c), pushed[c])
    /\ ~Answered(c) => AllNeutral(Stream(c))
    /\ Opens(Stream(c)) => Begins(Stream(c), said[c]) /\ (Answering(c) => out = << >>)
Streams == \A c \in Clients : StreamFine(c)

Replies ==
    /\ at = "gui" => \A i \in 1..Len(out) : AllNeutral(out[i])
    /\ at = "answer" => \A i \in 1..Len(out) :
         /\ out[i] # << >> /\ Truthful(out[i], pushed[conn])
         /\ Opens(out[i]) => i = Len(out) /\ out[i] \in Ciphers(said[conn])

Sayings ==
    \A c \in Clients : Truthful(said[c], pushed[c]) /\ \A t \in Range(said[c]) : t.key = Plain

(* The page is sent its lines while its connection is open.                *)
Paging == at = "gui" /\ fd = "open" => link[conn] = "open"

(* A client that has not got its "1", or not yet sent, is still to be      *)
(* served, or never will be; and only one that reads has read anything.    *)
Unheard(c) ==
    \/ link[c] = "queued"
    \/ link[c] = "open" /\ conn = c /\ at \in {"read_data", "check_id", "read_more"}
    \/ link[c] = "closed" /\ c \in reset /\ outq[c] = << >>
Hearing ==
    \A c \in Clients :
        /\ cpc[c] \in {"hello", "send"} => Unheard(c)
        /\ cpc[c] \in {"hello", "send", "save"} => Speaks(c)
        /\ got[c] # << >> => cpc[c] = "read"

AnswerInv == SessionInv /\ Streams /\ Replies /\ Sayings /\ Hearing /\ Paging

-----------------------------------------------------------------------------
(* Texts and their tokens.                                                 *)

LEMMA JoinedRange ==
    ASSUME NEW S, NEW s \in Seq(S), NEW t \in Seq(S)
    PROVE  Range(s \o t) = Range(s) \cup Range(t)
  BY RangeConcatenation

LEMMA EmptyText == Range(<< >>) = {} /\ ~Opens(<< >>)
  BY DEF Range, Opens

LEMMA PartRange ==
    ASSUME NEW S, NEW s \in Seq(S), NEW k \in 0..Len(s)
    PROVE  Range(SubSeq(s, 1, k)) \subseteq Range(s)
  <1>1. 1 \in 1..(Len(s) + 1)
    OBVIOUS
  <1>2. /\ SubSeq(s, 1, k) \in Seq(S) /\ Len(SubSeq(s, 1, k)) = k
        /\ \A i \in 1..k : SubSeq(s, 1, k)[i] = s[i]
    BY <1>1, PartType
  <1> QED
    BY <1>2 DEF Range

LEMMA OpensJoined ==
    ASSUME NEW s \in Seq(TokenType), NEW t \in Seq(TokenType)
    PROVE  /\ s # << >> => (Opens(s \o t) <=> Opens(s))
           /\ s = << >> => s \o t = t
  <1>1. s = << >> => s \o t = t
    BY ConcatEmptySeq
  <1>2. ASSUME s # << >> PROVE Opens(s \o t) <=> Opens(s)
    <2>1. 1 \in 1..Len(s) /\ (s \o t)[1] = s[1] /\ s \o t # << >>
      <3>1. Len(s) \in Nat /\ Len(s) # 0
        BY <1>2
      <3>2. Len(s \o t) = Len(s) + Len(t) /\ \A i \in 1..Len(s) : (s \o t)[i] = s[i]
        BY Joined
      <3>3. s \o t # << >>
        BY <1>2, EmptyParts
      <3> QED
        BY <3>1, <3>2, <3>3
    <2> QED
      BY <1>2, <2>1 DEF Opens
  <1> QED
    BY <1>1, <1>2

(* A token that is neutral is true of whatever was done.                   *)
LEMMA NeutralTells ==
    ASSUME NEW text
    PROVE  AllNeutral(text) => \A p : Truthful(text, p)
  <1> SUFFICES ASSUME AllNeutral(text), NEW p, NEW t \in Range(text) PROVE Tells(t, p)
    BY DEF Truthful
  <1>1. t.v \notin {"accepted", "quit", "error", "error_at"}
    BY DEF AllNeutral, Neutral
  <1>2. \A v, a : t = Txt(v, a) => t.v = v
    BY TokensDiffer
  <1> QED
    BY <1>1, <1>2 DEF Tells

LEMMA NeutralCloses ==
    ASSUME NEW text \in Seq(TokenType), AllNeutral(text)
    PROVE  ~Opens(text)
  <1> SUFFICES ASSUME text # << >> PROVE text[1].class # "open"
    BY DEF Opens
  <1>1. text[1] \in Range(text)
    BY DEF Range
  <1> QED
    BY <1>1 DEF AllNeutral, Neutral

LEMMA CipherType ==
    ASSUME NEW answer \in Seq(TokenType), NEW m \in Ciphers(answer)
    PROVE  m \in Seq(TokenType) /\ m # << >> /\ Begins(m, answer)
  <1>1. PICK o \in {n \in 0..KeyLen : ~KeyTooShort(n, answer)} : m = OtpMessage(o, Encrypted(o, answer))
    BY DEF Ciphers
  <1>2. o \in Nat
    BY SessionAssumption
  <1>3. m \in Seq(TokenType) /\ Len(m) = Len(Encrypted(o, answer)) + 4 /\ Len(Encrypted(o, answer)) \in Nat
    BY <1>1, <1>2, EncryptedType, OtpMessageType
  <1>4. m = SubSeq(m, 1, Len(m)) /\ Len(m) \in 0..Len(m)
    BY <1>3, SubSeqFull
  <1>5. Begins(m, answer)
    BY <1>4 DEF Begins
  <1>6. m # << >>
    BY <1>3
  <1> QED
    BY <1>3, <1>5, <1>6

(* What is kept of the beginning of an encrypted answer is one as well.    *)
LEMMA BeginsShorter ==
    ASSUME NEW answer \in Seq(TokenType), NEW s \in Seq(TokenType), NEW t \in Seq(TokenType),
           Begins(s \o t, answer)
    PROVE  Begins(s, answer)
  <1>0. PICK m \in Ciphers(answer) : \E k \in 0..Len(m) : s \o t = SubSeq(m, 1, k)
    BY DEF Begins
  <1>1. PICK k \in 0..Len(m) : s \o t = SubSeq(m, 1, k)
    BY <1>0
  <1>2. m \in Seq(TokenType) /\ Len(m) \in Nat
    BY CipherType
  <1>3. Len(s) \in 0..Len(s) /\ s = SubSeq(s \o t, 1, Len(s)) /\ Len(s) \in 0..Len(s \o t)
    BY Beginning
  <1>4. PICK x : x = SubSeq(m, 1, k)
    OBVIOUS
  <1>5. PICK z : z = SubSeq(m, k + 1, Len(m))
    OBVIOUS
  <1>6. x \in Seq(TokenType) /\ z \in Seq(TokenType) /\ x \o z = m
    <2>1. k + 1 \in 1..(Len(m) + 1) /\ 1 \in 1..(Len(m) + 1) /\ Len(m) \in 0..Len(m)
      BY <1>2
    <2>2. x \in Seq(TokenType) /\ z \in Seq(TokenType)
      BY <1>2, <1>4, <1>5, <2>1, PartType
    <2>3. x \o z = SubSeq(m, 1, Len(m))
      <3>1. 1 \in 1..(Len(m) + 1) /\ k \in (1 - 1)..Len(m) /\ Len(m) \in k..Len(m)
        BY <1>2
      <3> QED
        BY <1>2, <1>4, <1>5, <3>1, ConcatAdjacentSubSeq
    <2> QED
      BY <1>2, <2>2, <2>3, SubSeqFull
  <1>7. SubSeq(x, 1, Len(s)) = SubSeq(x \o z, 1, Len(s)) /\ Len(s) \in 0..Len(x \o z)
    <2>1. Len(s) \in 0..Len(x)
      BY <1>1, <1>3, <1>4
    <2> QED
      BY <1>6, <2>1, Beginning
  <1>8. s = SubSeq(m, 1, Len(s)) /\ Len(s) \in 0..Len(m)
    BY <1>1, <1>3, <1>4, <1>6, <1>7
  <1> QED
    BY <1>8 DEF Begins

-----------------------------------------------------------------------------
(* What a step may do to a stream.                                         *)

LEMMA StreamTypes ==
    ASSUME NetTypes, ClientTypes, NEW c \in Clients
    PROVE  got[c] \in Seq(TokenType) /\ outq[c] \in Seq(TokenType) /\ Stream(c) \in Seq(TokenType)
  <1>1. got[c] \in Seq(TokenType) /\ outq[c] \in Seq(TokenType)
    BY DEF NetTypes, ClientTypes
  <1> QED
    BY <1>1, Joined DEF Stream

LEMMA StreamKept ==
    ASSUME NEW c, StreamFine(c), Stream(c)' = Stream(c), pushed'[c] = pushed[c], said'[c] = said[c],
           Answered(c) => Answered(c)', Answering(c)' => Answering(c) /\ (out = << >> => out' = << >>)
    PROVE  StreamFine(c)'
  BY Zenon DEF StreamFine

LEMMA StreamEmpty ==
    ASSUME NEW c, Stream(c)' = << >>
    PROVE  StreamFine(c)'
  <1>1. ~Opens(<< >>) /\ Range(<< >>) = {}
    BY EmptyText
  <1>2. \A p : Truthful(<< >>, p) /\ AllNeutral(<< >>)
    BY <1>1 DEF Truthful, AllNeutral
  <1> QED
    BY <1>1, <1>2, Zenon DEF StreamFine

LEMMA StreamNeutral ==
    ASSUME NEW c, Stream(c)' \in Seq(TokenType), AllNeutral(Stream(c)')
    PROVE  StreamFine(c)'
  <1>1. PICK s : s = Stream(c)'
    OBVIOUS
  <1>2. ~Opens(s) /\ AllNeutral(s) /\ \A p : Truthful(s, p)
    BY <1>1, NeutralCloses, NeutralTells
  <1> QED
    BY <1>1, <1>2, Zenon DEF StreamFine

(* The end of the stream is lost, with the connection.                     *)
LEMMA StreamCut ==
    ASSUME NEW c \in Clients, NetTypes, ClientTypes, said[c] \in Seq(TokenType), StreamFine(c),
           Stream(c)' = got[c], pushed'[c] = pushed[c], said'[c] = said[c],
           Answered(c)', ~Answering(c)'
    PROVE  StreamFine(c)'
  <1>0. got[c] \in Seq(TokenType) /\ outq[c] \in Seq(TokenType) /\ Stream(c) \in Seq(TokenType)
    BY StreamTypes
  <1>1. CASE got[c] = << >>
    BY <1>1, StreamEmpty
  <1>2. CASE got[c] # << >>
    <2>1. Range(got[c]) \subseteq Range(Stream(c))
      BY <1>0, JoinedRange DEF Stream
    <2>2. Truthful(got[c], pushed[c])
      BY <2>1 DEF StreamFine, Truthful
    <2>3. Opens(got[c]) => Begins(got[c], said[c])
      <3>1. Opens(got[c]) <=> Opens(Stream(c))
        BY <1>0, <1>2, OpensJoined DEF Stream
      <3>2. Begins(Stream(c), said[c]) => Begins(got[c], said[c])
        BY <1>0, BeginsShorter DEF Stream
      <3> QED
        BY <3>1, <3>2 DEF StreamFine
    <2> QED
      BY <2>2, <2>3, Zenon DEF StreamFine
  <1> QED
    BY <1>1, <1>2

-----------------------------------------------------------------------------
(* A step of a client.                                                     *)

LEMMA ClientKeepsStreams ==
    ASSUME TypeInv, Hearing, NEW c \in Clients, Client(c) \/ GiveUp(c)
    PROVE  /\ \A d \in Clients \ {c} : Stream(d)' = Stream(d) /\ got'[d] = got[d]
           /\ \A d \in Clients : d \in reset => d \in reset' \/ (d = c /\ cpc'[c] \notin {"hello", "send"})
           /\ outq[c] = << >> => outq'[c] = << >>
           /\ \/ Stream(c)' = Stream(c)
              \/ Stream(c)' = << >>
              \/ /\ cpc[c] = "hello" /\ got[c] = << >> /\ outq[c] # << >>
                 /\ Stream(c)' = Tail(Stream(c))
           /\ said' = said
           /\ got'[c] # << >> => cpc'[c] = "read"
           /\ \/ cpc'[c] = cpc[c] \/ cpc'[c] \notin {"hello", "send", "save"}
              \/ cpc[c] = "start" /\ cpc'[c] = "hello" /\ Speaks(c)
              \/ cpc[c] = "hello" /\ cpc'[c] = "send"
              \/ cpc[c] = "send" /\ cpc'[c] = "save"
  <1>0. NetTypes /\ ClientTypes
    BY TypeParts
  <1>1. got[c] # << >> => cpc[c] = "read"
    BY DEF Hearing
  <1>2. /\ got \in [Clients -> Seq(TokenType)] /\ outq \in [Clients -> Seq(TokenType)]
        /\ cpc \in [Clients -> {"start", "hello", "send", "save", "read", "done", "killed"}]
    BY <1>0 DEF NetTypes, ClientTypes
  <1>3. CASE Connect(c)
    <2>1. /\ got' = got /\ outq' = outq /\ said' = said /\ cpc[c] = "start" /\ got[c] = << >>
          /\ reset' = reset
      BY <1>1, <1>3 DEF Connect, ghostVars
    <2>2. cpc'[c] = IF Kind[c] \in {"pcmd", "otpcmd"} THEN "hello" ELSE "read"
      BY <1>2, <1>3 DEF Connect, Step
    <2> QED
      BY <2>1, <2>2 DEF Stream, Speaks
  <1>11. CASE ConnectFails(c)
    <2>1. got' = got /\ outq' = outq /\ said' = said /\ reset' = reset /\ cpc'[c] = "done" /\ got[c] = << >>
      BY <1>1, <1>2, <1>11 DEF ConnectFails, Step, ghostVars
    <2> QED
      BY <2>1 DEF Stream
  <1>4. CASE GetOne(c)
    <2>1. /\ reset' = reset /\ cpc[c] = "hello" /\ got' = got /\ got[c] = << >> /\ said' = said /\ cpc'[c] = "send"
          /\ outq' = [outq EXCEPT ![c] = IF outq[c] = << >> THEN outq[c] ELSE Tail(outq[c])]
      BY <1>1, <1>2, <1>4 DEF GetOne, Step, ghostVars
    <2>2. \A d \in Clients \ {c} : Stream(d)' = Stream(d) /\ got'[d] = got[d]
      BY <1>2, <2>1 DEF Stream
    <2>3. Stream(c) = outq[c]
      BY <1>2, <2>1, ConcatEmptySeq DEF Stream
    <2>4. Stream(c)' = outq'[c]
      <3>1. outq'[c] \in Seq(TokenType)
        <4>1. outq[c] # << >> => Tail(outq[c]) \in Seq(TokenType)
          BY <1>2, ShorterType
        <4> QED
          BY <1>2, <2>1, <4>1
      <3> QED
        BY <2>1, <3>1, ConcatEmptySeq DEF Stream
    <2>5. outq'[c] = IF outq[c] = << >> THEN outq[c] ELSE Tail(outq[c])
      BY <1>2, <2>1
    <2> QED
      BY <2>1, <2>2, <2>3, <2>4, <2>5
  <1>5. CASE SendPlain(c)
    <2>1. /\ got' = got /\ outq' = outq /\ said' = said /\ cpc[c] = "send" /\ cpc'[c] \in {"read", "done"}
          /\ got[c] = << >> /\ \A d \in Clients \ {c} : d \in reset => d \in reset'
      BY <1>1, <1>2, <1>5 DEF SendPlain, Run, End, Step, ghostVars
    <2> QED
      BY <2>1 DEF Stream
  <1>6. CASE SendEncrypted(c)
    <2>1. /\ got' = got /\ outq' = outq /\ said' = said /\ cpc[c] = "send" /\ cpc'[c] \in {"save", "done"}
          /\ got[c] = << >> /\ \A d \in Clients \ {c} : d \in reset => d \in reset'
      BY <1>1, <1>2, <1>6 DEF SendEncrypted, Run, End, Step
    <2> QED
      BY <2>1 DEF Stream
  <1>7. CASE SavePos(c)
    <2>1. /\ got' = got /\ outq' = outq /\ said' = said /\ cpc[c] = "save" /\ cpc'[c] = "read" /\ got[c] = << >>
          /\ reset' = reset
      BY <1>1, <1>2, <1>7 DEF SavePos, Step, ghostVars, netVars
    <2> QED
      BY <2>1 DEF Stream
  <1>8. CASE ReadAnswer(c)
    <2>1. /\ got' = [got EXCEPT ![c] = got[c] \o outq[c]] /\ outq' = [outq EXCEPT ![c] = << >>]
          /\ said' = said /\ cpc[c] = "read" /\ cpc' = cpc /\ reset' = reset
      BY <1>8 DEF ReadAnswer, ghostVars
    <2>2. \A d \in Clients \ {c} : Stream(d)' = Stream(d) /\ got'[d] = got[d]
      BY <1>2, <2>1 DEF Stream
    <2>3. Stream(c)' = Stream(c)
      <3>1. got'[c] = Stream(c) /\ outq'[c] = << >>
        BY <1>2, <2>1 DEF Stream
      <3>2. Stream(c) \in Seq(TokenType)
        BY <1>0, StreamTypes
      <3>3. Stream(c)' = got'[c] \o outq'[c]
        BY DEF Stream
      <3> QED
        BY <3>1, <3>2, <3>3, ConcatEmptySeq
    <2> QED
      BY <2>1, <2>2, <2>3
  <1>9. CASE FinishRead(c)
    <2>1. /\ got' = [got EXCEPT ![c] = << >>] /\ outq' = outq /\ outq[c] = << >> /\ said' = said
          /\ cpc'[c] = "done" /\ \A d \in Clients \ {c} : d \in reset => d \in reset'
      BY <1>2, <1>9 DEF FinishRead, ServerGone, End, Step, ghostVars
    <2>2. \A d \in Clients \ {c} : Stream(d)' = Stream(d) /\ got'[d] = got[d]
      BY <1>2, <2>1 DEF Stream
    <2>3. got'[c] = << >>
      BY <1>2, <2>1
    <2>4. Stream(c)' = << >>
      BY <2>1, <2>3, ConcatEmptySeq DEF Stream
    <2> QED
      BY <2>1, <2>2, <2>3, <2>4
  <1>10. CASE GiveUp(c)
    <2>1. /\ got' = [got EXCEPT ![c] = << >>] /\ outq' = [outq EXCEPT ![c] = << >>] /\ said' = said
          /\ cpc'[c] = "killed" /\ \A d \in Clients \ {c} : d \in reset => d \in reset'
      BY <1>2, <1>10 DEF GiveUp, End, Step, ghostVars
    <2>2. \A d \in Clients \ {c} : Stream(d)' = Stream(d) /\ got'[d] = got[d]
      BY <1>2, <2>1 DEF Stream
    <2>3. got'[c] = << >> /\ outq'[c] = << >>
      BY <1>2, <2>1
    <2>4. Stream(c)' = << >>
      BY <2>3, ConcatEmptySeq DEF Stream
    <2> QED
      BY <2>1, <2>2, <2>3, <2>4
  <1> QED
    BY <1>3, <1>4, <1>5, <1>6, <1>7, <1>8, <1>9, <1>10, <1>11 DEF Client

LEMMA NeutralTail ==
    ASSUME NEW s \in Seq(TokenType), s # << >>, AllNeutral(s)
    PROVE  Tail(s) \in Seq(TokenType) /\ AllNeutral(Tail(s))
  <1>1. Tail(s) \in Seq(TokenType) /\ \A i \in 1..Len(Tail(s)) : Tail(s)[i] = s[i + 1] /\ i + 1 \in 1..Len(s)
    OBVIOUS
  <1>2. Range(Tail(s)) \subseteq Range(s)
    BY <1>1 DEF Range
  <1> QED
    BY <1>1, <1>2 DEF AllNeutral

LEMMA ClientAnswered ==
    ASSUME AnswerInv, NEW c \in Clients, Client(c) \/ GiveUp(c)
    PROVE  Streams' /\ Replies' /\ Sayings' /\ Hearing' /\ Paging'
  <1>0. TypeInv /\ Links /\ Hearing /\ Paging /\ Streams /\ Replies /\ Sayings /\ NetTypes /\ ClientTypes
    BY TypeParts DEF AnswerInv, SessionInv
  <1>1. /\ UNCHANGED <<otp_only, at, conn, fd, closes, buf, out, pushed>>
        /\ \A d \in Clients \ {c} : /\ cpc'[d] = cpc[d] /\ link'[d] = link[d]
                                    /\ inq'[d] = inq[d] /\ outq'[d] = outq[d]
    BY <1>0, ClientOthers
  <1>2. /\ \A d \in Clients \ {c} : Stream(d)' = Stream(d) /\ got'[d] = got[d]
        /\ \A d \in Clients : d \in reset => d \in reset' \/ (d = c /\ cpc'[c] \notin {"hello", "send"})
        /\ outq[c] = << >> => outq'[c] = << >>
        /\ \/ Stream(c)' = Stream(c)
           \/ Stream(c)' = << >>
           \/ /\ cpc[c] = "hello" /\ got[c] = << >> /\ outq[c] # << >>
              /\ Stream(c)' = Tail(Stream(c))
        /\ said' = said
        /\ got'[c] # << >> => cpc'[c] = "read"
        /\ \/ cpc'[c] = cpc[c] \/ cpc'[c] \notin {"hello", "send", "save"}
           \/ cpc[c] = "start" /\ cpc'[c] = "hello" /\ Speaks(c)
           \/ cpc[c] = "hello" /\ cpc'[c] = "send"
           \/ cpc[c] = "send" /\ cpc'[c] = "save"
    BY <1>0, ClientKeepsStreams
  <1>3. \/ cpc[c] = "start" /\ link'[c] = "queued" /\ cpc'[c] \in {"hello", "read"}
        \/ cpc[c] = "start" /\ link'[c] = "closed" /\ cpc'[c] = "done"
        \/ cpc[c] # "start" /\ cpc'[c] # "start" /\ link'[c] = link[c]
    BY <1>0, ClientStarts
  <1>4. \A d \in Clients : link[d] = "closed" => link'[d] = "closed"
    <2>1. cpc[c] = "start" => link[c] = "none"
      BY <1>0 DEF Links
    <2> QED
      BY <1>1, <1>3, <2>1
  <1>5. ASSUME NEW d \in Clients PROVE Answered(d) => Answered(d)'
    BY <1>1, <1>4 DEF Answered, Answering
  <1>6. ASSUME NEW d \in Clients, Stream(d)' = Stream(d) PROVE StreamFine(d)'
    <2>1. StreamFine(d) /\ pushed'[d] = pushed[d] /\ said'[d] = said[d]
      BY <1>0, <1>1, <1>2 DEF Streams
    <2>2. Answering(d)' => Answering(d) /\ (out = << >> => out' = << >>)
      BY <1>1 DEF Answering
    <2> QED
      BY <1>5, <1>6, <2>1, <2>2, StreamKept
  <1>7. StreamFine(c)'
    <2>1. CASE Stream(c)' = Stream(c)
      BY <1>6, <2>1
    <2>2. CASE Stream(c)' = << >>
      BY <2>2, StreamEmpty
    <2>3. CASE cpc[c] = "hello" /\ got[c] = << >> /\ outq[c] # << >> /\ Stream(c)' = Tail(Stream(c))
      <3>1. ~Answered(c)
        BY <1>0, <2>3 DEF Hearing, Unheard, Answered, Answering, Links
      <3>2. AllNeutral(Stream(c))
        BY <1>0, <3>1 DEF Streams, StreamFine
      <3>3. Stream(c) \in Seq(TokenType) /\ Stream(c) # << >>
        <4>1. got[c] \in Seq(TokenType) /\ outq[c] \in Seq(TokenType) /\ Stream(c) \in Seq(TokenType)
          BY <1>0, StreamTypes
        <4> QED
          BY <2>3, <4>1, EmptyParts DEF Stream
      <3>4. Stream(c)' \in Seq(TokenType) /\ AllNeutral(Stream(c)')
        BY <2>3, <3>2, <3>3, NeutralTail
      <3> QED
        BY <3>4, StreamNeutral
    <2> QED
      BY <1>2, <2>1, <2>2, <2>3
  <1>8. Streams'
    BY <1>2, <1>6, <1>7 DEF Streams
  <1>9. Replies'
    BY <1>0, <1>1, <1>2 DEF Replies
  <1>10. Sayings'
    BY <1>0, <1>1, <1>2 DEF Sayings
  <1>11. Hearing'
    <2>1. ASSUME NEW d \in Clients, d # c
          PROVE /\ cpc'[d] \in {"hello", "send"} => Unheard(d)'
                /\ cpc'[d] \in {"hello", "send", "save"} => Speaks(d)
                /\ got'[d] # << >> => cpc'[d] = "read"
      BY <1>0, <1>1, <1>2, <2>1 DEF Hearing, Unheard
    <2>2. cpc'[c] \in {"hello", "send"} => Unheard(c)'
      BY <1>0, <1>1, <1>2, <1>3 DEF Hearing, Unheard
    <2>3. cpc'[c] \in {"hello", "send", "save"} => Speaks(c)
      BY <1>0, <1>2 DEF Hearing
    <2> QED
      BY <1>2, <2>1, <2>2, <2>3 DEF Hearing, Speaks
  <1>12. Paging'
    <2>1. at = "gui" => conn \in Clients
      BY <1>0 DEF TypeInv
    <2>2. \A d \in Clients : link[d] = "open" => link'[d] = "open"
      BY <1>0, <1>1, <1>3 DEF Links
    <2> QED
      BY <1>0, <1>1, <2>1, <2>2 DEF Paging
  <1> QED
    BY <1>8, <1>9, <1>10, <1>11, <1>12

-----------------------------------------------------------------------------
(* A step of the server.                                                   *)

(* A client that the server is not with notices nothing.                   *)
LEMMA OthersKept ==
    ASSUME Streams, NEW c \in Clients, UNCHANGED got, outq'[c] = outq[c], link'[c] = link[c] \/ link[c] # "closed",
           pushed'[c] = pushed[c], said'[c] = said[c], ~Answering(c), ~Answering(c)'
    PROVE  StreamFine(c)'
  <1>1. StreamFine(c)
    BY DEF Streams
  <1>2. Stream(c)' = Stream(c)
    BY DEF Stream
  <1>3. Answered(c) => Answered(c)'
    BY DEF Answered
  <1> QED
    BY <1>1, <1>2, <1>3, StreamKept

(* A client stops to wait for the server when the server is with it.       *)
LEMMA HearingKept ==
    ASSUME Hearing, at # "poll", UNCHANGED <<conn, cpc, got>>, reset \subseteq reset',
           \A d \in Clients \ {conn} : link'[d] = link[d] /\ outq'[d] = outq[d],
           \/ cpc[conn] \notin {"hello", "send"}
           \/ link'[conn] = link[conn] /\ link[conn] = "open" /\ at' \in {"read_data", "check_id", "read_more"}
    PROVE  Hearing'
  <1> SUFFICES ASSUME NEW c \in Clients
               PROVE  /\ cpc'[c] \in {"hello", "send"} => Unheard(c)'
                      /\ cpc'[c] \in {"hello", "send", "save"} => Speaks(c)
                      /\ got'[c] # << >> => cpc'[c] = "read"
    BY DEF Hearing, Speaks
  <1>1. CASE c # conn
    BY <1>1 DEF Hearing, Unheard
  <1>2. CASE c = conn
    BY <1>2 DEF Hearing, Unheard
  <1> QED
    BY <1>1, <1>2

LEMMA HeardHasSent ==
    ASSUME Hearing, Links, Descriptor, conn \in Clients, at \notin {"poll", "read_data", "check_id", "read_more"}
    PROVE  cpc[conn] \notin {"hello", "send"}
  BY DEF Hearing, Unheard, Links, Descriptor, Speaks

LEMMA ClosedStreams ==
    ASSUME AnswerInv, at # "poll", Closed, at' # "answer", UNCHANGED <<conn, got, pushed, said>>
    PROVE  /\ Streams' /\ reset \subseteq reset'
           /\ \A d \in Clients \ {conn} : link'[d] = link[d] /\ outq'[d] = outq[d]
  <1>0. /\ conn \in Clients /\ Streams /\ NetTypes /\ ClientTypes /\ said[conn] \in Seq(TokenType)
        /\ outq \in [Clients -> Seq(TokenType)] /\ link \in [Clients -> {"none", "queued", "open", "closed"}]
    BY TypeParts DEF AnswerInv, SessionInv, TypeInv, GhostTypes, NetTypes
  <1>1. /\ link' = [link EXCEPT ![conn] = "closed"]
        /\ outq' = outq \/ outq' = [outq EXCEPT ![conn] = << >>]
    BY Zenon DEF Closed, MayReset
  <1>7. reset \subseteq reset'
    BY DEF Closed, MayReset
  <1>2. link'[conn] = "closed" /\ \A d \in Clients \ {conn} : link'[d] = link[d] /\ outq'[d] = outq[d]
    BY <1>0, <1>1
  <1>3. \A d \in Clients : ~Answering(d)'
    BY DEF Answering
  <1>4. ASSUME NEW d \in Clients \ {conn} PROVE StreamFine(d)'
    <2>1. ~Answering(d)
      BY DEF Answering
    <2> QED
      BY <1>0, <1>2, <1>3, <2>1, OthersKept
  <1>5. StreamFine(conn)'
    <2>1. conn' = conn /\ Answered(conn)'
      BY <1>2 DEF Answered
    <2>2. PICK c \in Clients : c = conn
      BY <1>0
    <2>3. Stream(c)' = Stream(c) \/ Stream(c)' = got[c]
      <3>1. outq'[c] = outq[c] \/ outq'[c] = << >>
        BY <1>0, <1>1, <2>2
      <3>2. got[c] \o << >> = got[c]
        BY <1>0, StreamTypes, ConcatEmptySeq
      <3> QED
        BY <3>1, <3>2 DEF Stream
    <2>4. StreamFine(c) /\ Answered(c)' /\ ~Answering(c)' /\ pushed'[c] = pushed[c] /\ said'[c] = said[c]
      BY <1>0, <1>2, <1>3, <2>2 DEF Streams, Answered
    <2>5. StreamFine(c)'
      <3>1. CASE Stream(c)' = Stream(c)
        BY <2>4, <3>1, StreamKept
      <3>2. CASE Stream(c)' = got[c]
        BY <1>0, <2>2, <2>4, <3>2, StreamCut
      <3> QED
        BY <2>3, <3>1, <3>2
    <2>6. c = conn'
      BY <2>1, <2>2
    <2> QED
      BY <2>5, <2>6 DEF StreamFine, Stream, Answered, Answering
  <1>6. Streams'
    <2>1. ASSUME NEW d \in Clients, d = conn PROVE StreamFine(d)'
      BY <1>5, <2>1 DEF StreamFine, Stream, Answered, Answering
    <2> QED
      BY <1>4, <2>1 DEF Streams
  <1> QED
    BY <1>2, <1>6, <1>7

LEMMA AcceptAnswers ==
    ASSUME AnswerInv, Accept
    PROVE  Streams' /\ Replies' /\ Sayings' /\ Hearing' /\ Paging'
  <1>0. Streams /\ Sayings /\ Hearing /\ NetTypes /\ at = "poll"
    BY TypeParts DEF AnswerInv, SessionInv, Accept
  <1>1. PICK c \in Clients : link[c] = "queued" /\ conn' = c /\ link' = [link EXCEPT ![c] = "open"]
    BY DEF Accept
  <1>2. at' = "read_data" /\ UNCHANGED <<reset, outq, got, cpc, pushed, said>>
    BY DEF Accept, clientVars, ghostVars
  <1>3. link'[c] = "open" /\ \A d \in Clients \ {c} : link'[d] = link[d]
    BY <1>0, <1>1 DEF NetTypes
  <1>4. ASSUME NEW d \in Clients PROVE StreamFine(d)'
    <2>1. ~Answering(d) /\ ~Answering(d)'
      BY <1>0, <1>2 DEF Answering
    <2>2. link'[d] = link[d] \/ link[d] # "closed"
      BY <1>1, <1>3
    <2> QED
      BY <1>0, <1>2, <2>1, <2>2, OthersKept
  <1>5. Streams' /\ Replies' /\ Sayings'
    BY <1>0, <1>2, <1>4 DEF Streams, Replies, Sayings
  <1>6. Hearing'
    BY <1>0, <1>1, <1>2, <1>3 DEF Hearing, Unheard, Speaks
  <1>7. Paging'
    BY <1>2 DEF Paging
  <1> QED
    BY <1>5, <1>6, <1>7

LEMMA ReceiveAnswers ==
    ASSUME AnswerInv, Receive \/ ReceiveEnd
    PROVE  Streams' /\ Replies' /\ Sayings' /\ Hearing' /\ Paging'
  <1>0. /\ Links /\ Streams /\ Sayings /\ Hearing /\ Commanding /\ at \in {"read_data", "read_more"} /\ conn \in Clients
        /\ buf \in Seq(TokenType) /\ inq[conn] \in Seq(TokenType)
    BY TypeParts DEF AnswerInv, SessionInv, TypeInv, Receive, ReceiveEnd, TextTypes, NetTypes
  <1>1. /\ at' \in {at, NextState} /\ UNCHANGED <<conn, link, reset, outq, got, cpc, pushed, said>>
    BY DEF Receive, ReceiveEnd, clientVars, ghostVars, netVars
  <1>2. ASSUME NEW d \in Clients PROVE StreamFine(d)'
    <2>1. ~Answering(d) /\ ~Answering(d)'
      BY <1>0, <1>1 DEF Answering, NextState
    <2> QED
      BY <1>0, <1>1, <2>1, OthersKept
  <1>3. Streams' /\ Replies' /\ Sayings' /\ Paging'
    <2>1. at' \notin {"gui", "answer"}
      BY <1>0, <1>1 DEF NextState
    <2> QED
      BY <1>0, <1>1, <1>2, <2>1 DEF Streams, Replies, Sayings, Paging
  <1>4. at' \in {"read_data", "check_id", "read_more"} \/ cpc[conn] \notin {"hello", "send"}
    <2>1. CASE at = "read_data"
      BY <1>1, <2>1 DEF NextState
    <2>2. CASE at = "read_more" /\ Receive
      <3>1. \E n \in 1..Len(inq[conn]) : TRUE
        BY <2>2 DEF Receive
      <3>2. inq[conn] # << >>
        BY <1>0, <3>1
      <3>3. buf \o inq[conn] # << >>
        BY <1>0, <3>2, EmptyParts
      <3> QED
        BY <1>0, <2>2, <3>3 DEF Commanding
    <2>3. CASE ReceiveEnd
      BY <2>3 DEF ReceiveEnd, ClientGone
    <2> QED
      BY <1>0, <2>1, <2>2, <2>3
  <1>5. Hearing'
    <2>1. link[conn] = "open"
      BY <1>0 DEF Links
    <2> QED
      BY <1>0, <1>1, <1>4, <2>1, HearingKept
  <1> QED
    BY <1>3, <1>5

(* What a send adds to the stream.                                         *)
LEMMA SentStream ==
    ASSUME TypeInv, conn \in Clients, NEW text \in Seq(TokenType), SendWorks(text) \/ UNCHANGED outq,
           UNCHANGED <<conn, got>>
    PROVE  /\ \A d \in Clients \ {conn} : outq'[d] = outq[d]
           /\ Stream(conn) \in Seq(TokenType)
           /\ \/ Stream(conn)' = Stream(conn)
              \/ Stream(conn)' = Stream(conn) \o text
  <1>0. outq \in [Clients -> Seq(TokenType)] /\ NetTypes /\ ClientTypes
    BY TypeParts DEF NetTypes
  <1>1. got[conn] \in Seq(TokenType) /\ outq[conn] \in Seq(TokenType) /\ Stream(conn) \in Seq(TokenType)
    BY <1>0, StreamTypes
  <1>2. outq' = outq \/ outq' = [outq EXCEPT ![conn] = outq[conn] \o text]
    BY DEF SendWorks
  <1>3. \A d \in Clients \ {conn} : outq'[d] = outq[d]
    BY <1>0, <1>2
  <1>4. outq'[conn] = outq[conn] \/ outq'[conn] = outq[conn] \o text
    BY <1>0, <1>2
  <1>5. PICK g : g = got[conn]
    OBVIOUS
  <1>6. PICK o : o = outq[conn]
    OBVIOUS
  <1>7. g \o (o \o text) = (g \o o) \o text
    <2>1. g \in Seq(TokenType) /\ o \in Seq(TokenType)
      BY <1>1, <1>5, <1>6
    <2> QED
      BY <2>1, ConcatAssociative, SMTT(60)
  <1>8. Stream(conn) = g \o o
    BY <1>5, <1>6 DEF Stream
  <1>9. Stream(conn)' = g \o outq'[conn]
    BY <1>5 DEF Stream
  <1> QED
    BY <1>1, <1>3, <1>4, <1>6, <1>7, <1>8, <1>9

(* The "1" and the lines of the page are neutral.                          *)
LEMMA NeutralTexts ==
    /\ AllNeutral(<<Txt("1", NoName)>>) /\ <<Txt("1", NoName)>> \in Seq(TokenType)
    /\ \A i \in 1..Len(GuiLines) : AllNeutral(GuiLines[i])
  <1>1. "1" \in Words /\ NoName \in Words
    BY NamesAreWords DEF Words
  <1>2. Txt("1", NoName) \in TokenType
    BY <1>1, TokenTypes
  <1>3. <<Txt("1", NoName)>> \in Seq(TokenType)
    BY <1>2
  <1>4. \A x : Range(<<x>>) = {x}
    BY DEF Range
  <1>5. \A x, y : Range(<<x, y>>) = {x, y}
    BY DEF Range
  <1>6. Neutral(Txt("1", NoName)) /\ Neutral(Txt("line", NoName)) /\ Neutral(Nl)
    BY DEF Neutral, Txt, Nl, Token
  <1>7. AllNeutral(<<Txt("1", NoName)>>) /\ AllNeutral(<<Txt("line", NoName), Nl>>)
    BY <1>4, <1>5, <1>6 DEF AllNeutral
  <1>8. \A i \in DOMAIN GuiLines : GuiLines[i] = <<Txt("line", NoName), Nl>>
    <2>1. PICK n : n = Cardinality(UNION {{s} \X ProgsOf[s] : s \in Range(Scheds)})
      OBVIOUS
    <2>2. PICK line : line = <<Txt("line", NoName), Nl>>
      OBVIOUS
    <2>3. GuiLines = [i \in 1..n |-> line]
      BY <2>1, <2>2, Zenon DEF GuiLines
    <2> QED
      BY <2>2, <2>3
  <1>9. DOMAIN GuiLines = 1..Len(GuiLines)
    BY GuiLinesType
  <1> QED
    BY <1>3, <1>7, <1>8, <1>9

(* Neutral tokens may be sent to a client that is not answered.            *)
LEMMA NeutralSent ==
    ASSUME AnswerInv, at \notin {"poll", "answer"}, at' # "answer", NEW text \in Seq(TokenType), AllNeutral(text),
           SendWorks(text) \/ UNCHANGED outq, fd = "open" => link[conn] = "open",
           UNCHANGED <<conn, link, got, pushed, said>>
    PROVE  Streams'
  <1>0. TypeInv /\ conn \in Clients /\ Streams
    BY DEF AnswerInv, SessionInv, TypeInv
  <1>1. /\ \A d \in Clients \ {conn} : outq'[d] = outq[d]
        /\ Stream(conn) \in Seq(TokenType)
        /\ \/ Stream(conn)' = Stream(conn)
           \/ Stream(conn)' = Stream(conn) \o text
    BY <1>0, SentStream
  <1>2. \A d \in Clients : ~Answering(d) /\ ~Answering(d)'
    BY DEF Answering
  <1>3. ASSUME NEW d \in Clients, d # conn \/ outq'[d] = outq[d] PROVE StreamFine(d)'
    BY <1>0, <1>1, <1>2, <1>3, OthersKept
  <1>4. ASSUME SendWorks(text), Stream(conn)' = Stream(conn) \o text, NEW c \in Clients, c = conn PROVE StreamFine(c)'
    <2>1. ~Answered(conn)
      BY <1>0, <1>2, <1>4 DEF Answered, SendWorks
    <2>2. AllNeutral(Stream(conn))
      BY <1>0, <2>1 DEF Streams, StreamFine
    <2>3. Stream(conn)' \in Seq(TokenType) /\ AllNeutral(Stream(conn)')
      BY <1>1, <1>4, <2>2, JoinedRange, Joined DEF AllNeutral
    <2>4. Stream(c)' = Stream(conn)'
      BY <1>4 DEF Stream
    <2> QED
      BY <2>3, <2>4, StreamNeutral
  <1>5. ASSUME NEW c \in Clients, c = conn, Stream(conn)' = Stream(conn) PROVE StreamFine(c)'
    <2>1. Stream(c)' = Stream(c)
      BY <1>5 DEF Stream
    <2>2. StreamFine(c) /\ pushed'[c] = pushed[c] /\ said'[c] = said[c] /\ (Answered(c) => Answered(c)')
      BY <1>0, <1>2 DEF Streams, Answered
    <2> QED
      BY <1>2, <2>1, <2>2, StreamKept
  <1> QED
    BY <1>1, <1>3, <1>4, <1>5 DEF Streams

LEMMA CheckIdAnswers ==
    ASSUME AnswerInv, CheckId
    PROVE  Streams' /\ Replies' /\ Sayings' /\ Hearing' /\ Paging'
  <1>0. /\ Links /\ Descriptor /\ Identifying /\ Streams /\ Sayings /\ Hearing /\ TypeInv
        /\ at = "check_id" /\ conn \in Clients
    BY DEF AnswerInv, SessionInv, TypeInv, CheckId
  <1>1. conn' = conn /\ cpc' = cpc /\ got' = got /\ pushed' = pushed /\ said' = said
    BY DEF CheckId, clientVars, ghostVars
  <1>2. buf = <<IdOf(conn)>> /\ fd = "open" /\ link[conn] = "open"
    BY <1>0 DEF Identifying, Descriptor, Links
  <1>3. Sayings'
    BY <1>0, <1>1 DEF Sayings
  <1>4. ASSUME Closed, at' = "poll", cpc[conn] \notin {"hello", "send"}
        PROVE  Streams' /\ Replies' /\ Sayings' /\ Hearing' /\ Paging'
    <2>1. /\ Streams' /\ reset \subseteq reset'
          /\ \A d \in Clients \ {conn} : link'[d] = link[d] /\ outq'[d] = outq[d]
      BY <1>0, <1>1, <1>4, ClosedStreams
    <2>2. Hearing'
      BY <1>0, <1>1, <1>4, <2>1, HearingKept
    <2> QED
      BY <1>3, <1>4, <2>1, <2>2 DEF Replies, Paging
  <1>5. CASE CommandId /\ ~(SendFails /\ Closed /\ at' = "poll")
    <2>1. SendWorks(<<Txt("1", NoName)>>) /\ at' = "read_more" /\ link' = link /\ reset' = reset
      BY <1>5, Zenon DEF CommandId
    <2>4. \A d \in Clients \ {conn} : outq'[d] = outq[d]
      BY <1>0, <1>1, <2>1, NeutralTexts, SentStream
    <2>2. Streams'
      BY <1>0, <1>1, <1>2, <2>1, NeutralTexts, NeutralSent
    <2>3. Hearing'
      BY <1>0, <1>1, <1>2, <2>1, <2>4, HearingKept
    <2> QED
      BY <1>3, <2>1, <2>2, <2>3 DEF Replies, Paging
  <1>6. CASE SendFails /\ Closed /\ at' = "poll"
    BY <1>2, <1>4, <1>6 DEF SendFails, ClientGone
  <1>7. CASE GuiId
    <2>1. /\ at' = "gui" /\ out' = GuiLines /\ link' = link /\ reset' = reset /\ outq' = outq
          /\ buf = <<Txt("pgui", NoName)>>
      BY <1>7 DEF GuiId, netVars
    <2>2. Kind[conn] = "pgui"
      BY <1>0, <1>2, <2>1, IdTells
    <2>3. Streams'
      BY <1>0, <1>1, <1>2, <2>1, NeutralTexts, NeutralSent
    <2>4. cpc[conn] \notin {"hello", "send"}
      BY <1>0, <2>2 DEF Hearing, Speaks
    <2>5. Hearing'
      BY <1>0, <1>1, <2>1, <2>4, HearingKept
    <2>6. Replies'
      BY <2>1, NeutralTexts DEF Replies
    <2>7. Paging'
      BY <1>1, <1>2, <2>1 DEF Paging
    <2> QED
      BY <1>3, <2>3, <2>5, <2>6, <2>7
  <1>8. CASE BadId
    <2>1. cpc[conn] \notin {"hello", "send"}
      <3>1. Speaks(conn) => IdOf(conn) = Txt("pcmd", NoName)
        BY DEF Speaks, IdOf
      <3>2. ~Speaks(conn)
        BY <1>2, <1>8, <3>1 DEF BadId
      <3> QED
        BY <1>0, <3>2 DEF Hearing
    <2> QED
      BY <1>4, <1>8, <2>1 DEF BadId
  <1> QED
    BY <1>5, <1>6, <1>7, <1>8 DEF CheckId

LEMMA GuiAnswers ==
    ASSUME AnswerInv, GuiLine \/ GuiDone \/ CloseClient
    PROVE  Streams' /\ Replies' /\ Sayings' /\ Hearing' /\ Paging'
  <1>0. /\ Links /\ Descriptor /\ Streams /\ Replies /\ Sayings /\ Hearing /\ Paging /\ TypeInv
        /\ at \in {"gui", "answer"} /\ conn \in Clients /\ out \in Seq(Seq(TokenType))
    BY TypeParts DEF AnswerInv, SessionInv, TypeInv, GuiLine, GuiDone, CloseClient, TextTypes
  <1>1. conn' = conn /\ cpc' = cpc /\ got' = got /\ pushed' = pushed /\ said' = said
    BY DEF GuiLine, GuiDone, CloseClient, clientVars, ghostVars
  <1>2. Sayings' /\ cpc[conn] \notin {"hello", "send"}
    BY <1>0, <1>1, HeardHasSent DEF Sayings
  <1>3. CASE GuiLine
    <2>1. at = "gui" /\ at' = "gui" /\ out # << >> /\ out' = Tail(out)
      BY <1>3 DEF GuiLine
    <2>2. Replies'
      <3>1. /\ Len(out') = Len(out) - 1 /\ Len(out) \in Nat \ {0}
            /\ \A i \in 1..Len(out') : out'[i] = out[i + 1]
        BY <1>0, <2>1
      <3> QED
        BY <1>0, <2>1, <3>1 DEF Replies
    <2>3. CASE SendWorks(Head(out)) /\ UNCHANGED <<fd, closes, link, reset, inq>>
      <3>1. Head(out) \in Seq(TokenType) /\ AllNeutral(Head(out))
        <4>1. Head(out) = out[1] /\ 1 \in 1..Len(out)
          BY <1>0, <2>1
        <4> QED
          BY <1>0, <2>1, <4>1 DEF Replies
      <3>2. fd = "open" => link[conn] = "open"
        BY <1>0, <2>1 DEF Paging
      <3>3. Streams'
        BY <1>1, <2>1, <2>3, <3>1, <3>2, NeutralSent
      <3>6. \A d \in Clients \ {conn} : outq'[d] = outq[d]
        BY <1>0, <1>1, <2>3, <3>1, SentStream
      <3>4. Hearing'
        BY <1>0, <1>1, <1>2, <2>1, <2>3, <3>6, HearingKept
      <3>5. Paging'
        BY <1>1, <2>1, <2>3, <3>2 DEF Paging
      <3> QED
        BY <1>2, <2>2, <3>3, <3>4, <3>5
    <2>4. CASE SendFails /\ Closed
      <3>1. /\ Streams' /\ reset \subseteq reset'
            /\ \A d \in Clients \ {conn} : link'[d] = link[d] /\ outq'[d] = outq[d]
        BY <1>1, <2>1, <2>4, ClosedStreams
      <3>2. Hearing'
        BY <1>0, <1>1, <1>2, <2>1, <3>1, HearingKept
      <3>3. Paging'
        BY <2>4 DEF Closed, Paging
      <3> QED
        BY <1>2, <2>2, <3>1, <3>2, <3>3
    <2> QED
      BY <1>3, <2>3, <2>4, Zenon DEF GuiLine
  <1>4. CASE GuiDone \/ CloseClient
    <2>1. Closed /\ at' = "poll"
      BY <1>4 DEF GuiDone, CloseClient
    <2>2. /\ Streams' /\ reset \subseteq reset'
          /\ \A d \in Clients \ {conn} : link'[d] = link[d] /\ outq'[d] = outq[d]
      BY <1>0, <1>1, <2>1, ClosedStreams
    <2>3. Hearing'
      BY <1>0, <1>1, <1>2, <2>2, HearingKept
    <2> QED
      BY <1>2, <2>1, <2>2, <2>3 DEF Replies, Paging
  <1> QED
    BY <1>3, <1>4

-----------------------------------------------------------------------------
(* The answers that Decide composes.                                       *)

Composed(text, p) ==
    /\ text # << >> /\ ~Opens(text) /\ Truthful(text, p)
    /\ \A t \in Range(text) : t.key = Plain

(* Texts that begin with the root of a tree.                               *)
LEMMA RootComposed ==
    ASSUME NEW rest \in Seq(TokenType), NEW p, Truthful(rest, p), \A t \in Range(rest) : t.key = Plain
    PROVE  Composed(<<Root>> \o rest, p)
  <1>1. Root \in TokenType
    BY NamesAreWords, TokenTypes DEF Root, Words
  <1>2. PICK r : r = <<Root>>
    OBVIOUS
  <1>3. r \in Seq(TokenType) /\ r # << >> /\ r[1] = Root /\ Range(r) = {Root}
    BY <1>1, <1>2 DEF Range
  <1>4. Root.class = "text" /\ Root.key = Plain
    BY TokensDiffer DEF Root
  <1>5. Tells(Root, p)
    BY TokensDiffer DEF Root, Tells
  <1>6. Range(r \o rest) = {Root} \cup Range(rest)
    BY <1>3, JoinedRange
  <1>7. ~Opens(r \o rest)
    BY <1>3, <1>4, OpensJoined DEF Opens
  <1>8. r \o rest # << >>
    BY <1>3, EmptyParts
  <1> QED
    BY <1>2, <1>4, <1>5, <1>6, <1>7, <1>8 DEF Composed, Truthful

LEMMA RootAndOne ==
    ASSUME NEW t \in TokenType, NEW p, Tells(t, p), t.key = Plain
    PROVE  Composed(<<Root, t>>, p)
  <1>1. PICK r : r = <<t>>
    OBVIOUS
  <1>2. r \in Seq(TokenType) /\ Range(r) = {t}
    BY <1>1 DEF Range
  <1>3. Composed(<<Root>> \o r, p)
    BY <1>2, RootComposed DEF Truthful
  <1>4. <<Root>> \o r = <<Root, t>>
    <2>1. PICK x : x = Root
      OBVIOUS
    <2>2. x \in TokenType
      BY <2>1, NamesAreWords, TokenTypes DEF Root, Words
    <2>3. PICK h : h = <<x>>
      OBVIOUS
    <2>4. h \in Seq(TokenType) /\ Len(h) = 1 /\ h[1] = x /\ Len(r) = 1 /\ r[1] = t
      BY <1>1, <2>2, <2>3
    <2>5. /\ h \o r \in Seq(TokenType) /\ Len(h \o r) = 2
          /\ (h \o r)[1] = x /\ (h \o r)[1 + 1] = t
      BY <1>2, <2>4, Joined
    <2>6. PICK y : y = <<x, t>>
      OBVIOUS
    <2>7. y \in Seq(TokenType) /\ Len(y) = 2 /\ y[1] = x /\ y[2] = t
      BY <2>2, <2>6
    <2>8. ASSUME NEW i \in 1..2 PROVE (h \o r)[i] = y[i]
      BY <2>5, <2>7
    <2>9. h \o r = y
      BY <2>5, <2>7, <2>8, SeqEqual
    <2> QED
      BY <2>1, <2>3, <2>6, <2>9
  <1> QED
    BY <1>3, <1>4

LEMMA ErrorTells ==
    ASSUME NEW type, type \in ErrorTypes \/ type = "unknown_command", NEW p, p = NoUnits
    PROVE  Tells(Txt("error", type), p)
  <1>1. \A s \in Range(Scheds) : p[s] = << >>
    BY DEF NoUnits
  <1>2. \A v, a : Txt("error", type) = Txt(v, a) => v = "error"
    BY TokensDiffer
  <1> QED
    BY <1>1, <1>2 DEF Tells

LEMMA ErrorComposed ==
    ASSUME NEW type, type \in ErrorTypes \/ type = "unknown_command"
    PROVE  Composed(Error(type), NoUnits)
  <1>1. type \in Words /\ "error" \in Words
    BY DEF Words, ErrorTypes
  <1>2. Txt("error", type) \in TokenType /\ Txt("error", type).key = Plain
    BY <1>1, TokenTypes, TokensDiffer
  <1>3. Tells(Txt("error", type), NoUnits)
    BY ErrorTells
  <1> QED
    BY <1>2, <1>3, RootAndOne DEF Error

LEMMA TellsAll ==
    ASSUME NEW text \in Seq(TokenType), NEW p,
           \A i \in 1..Len(text) : Tells(text[i], p) /\ text[i].key = Plain
    PROVE  Composed(<<Root>> \o text, p)
  <1>1. \A t \in Range(text) : \E i \in 1..Len(text) : t = text[i]
    BY DEF Range
  <1>2. Truthful(text, p) /\ \A t \in Range(text) : t.key = Plain
    BY <1>1 DEF Truthful
  <1> QED
    BY <1>2, RootComposed

LEMMA ResultComposed ==
    ASSUME NEW cmd \in Command, NEW p, \A s \in Range(Scheds) : p[s] = UnitsAt(s, cmd),
           cmd.name \notin {"start", "stop", "quit", "scheduler"} => p = NoUnits
    PROVE  Composed(ResultFor(cmd), p)
  <1>0. cmd.name \in Words /\ cmd.arg \in Words /\ NoName \in Words
    BY NamesAreWords DEF Command
  <1>1. DOMAIN Scheds = 1..Len(Scheds) /\ Len(Scheds) \in Nat /\ \A i \in 1..Len(Scheds) : Scheds[i] \in Range(Scheds)
    BY SessionAssumption DEF Range
  <1>2. CASE cmd.name = "status"
    <2>1. "running" \in Words
      BY DEF Words
    <2>2. Txt("running", NoName) \in TokenType /\ Txt("running", NoName).key = Plain
      BY <1>0, <2>1, TokenTypes, TokensDiffer
    <2>3. Tells(Txt("running", NoName), p)
      BY TokensDiffer DEF Tells
    <2>4. ResultFor(cmd) = <<Root, Txt("running", NoName)>>
      BY <1>2 DEF ResultFor
    <2> QED
      BY <2>2, <2>3, <2>4, RootAndOne
  <1>3. CASE cmd.name \in {"info", "quit", "log"}
    <2>1. PICK r : r = [i \in DOMAIN Scheds |-> Txt(cmd.name, Scheds[i])]
      OBVIOUS
    <2>2. ResultFor(cmd) = <<Root>> \o r
      BY <1>3, <2>1 DEF ResultFor
    <2>3. ASSUME NEW s \in Range(Scheds)
          PROVE /\ Txt(cmd.name, s) \in TokenType /\ Txt(cmd.name, s).key = Plain
                /\ Tells(Txt(cmd.name, s), p)
      <3>1. s \in Words
        BY SchedNames, NamesAreWords
      <3>2. cmd.name = "quit" => p[s] = <<Unit("EXIT", NoName)>>
        BY DEF UnitsAt
      <3>3. \A x : <<x>> # << >>
        OBVIOUS
      <3>4. \A v, a : Txt(cmd.name, s) = Txt(v, a) => v = cmd.name /\ a = s
        BY TokensDiffer
      <3>5. Tells(Txt(cmd.name, s), p)
        BY <1>3, <3>2, <3>3, <3>4 DEF Tells
      <3> QED
        BY <1>0, <3>1, <3>5, TokenTypes, TokensDiffer
    <2>4. r \in Seq(TokenType) /\ \A i \in 1..Len(r) : Tells(r[i], p) /\ r[i].key = Plain
      BY <1>1, <2>1, <2>3
    <2> QED
      BY <2>2, <2>4, TellsAll
  <1>4. CASE cmd.name \in {"start", "stop"}
    <2>1. PICK r : r = [i \in DOMAIN Scheds |-> Accepted(Scheds[i], cmd.arg)]
      OBVIOUS
    <2>2. ResultFor(cmd) = <<Root>> \o r
      BY <1>4, <2>1 DEF ResultFor
    <2>3. ASSUME NEW s \in Range(Scheds)
          PROVE /\ Accepted(s, cmd.arg) \in TokenType /\ Accepted(s, cmd.arg).key = Plain
                /\ Tells(Accepted(s, cmd.arg), p)
      <3>1. s \in Words /\ "accepted" \in Words /\ "error_at" \in Words
        BY SchedNames, NamesAreWords DEF Words
      <3>2. IF HasProgram(s, cmd.arg) THEN p[s] # << >> ELSE p[s] = << >>
        <4>1. \A x : <<x>> # << >>
          OBVIOUS
        <4> QED
          BY <1>4, <4>1 DEF UnitsAt
      <3>3. CASE HasProgram(s, cmd.arg)
        <4>1. Accepted(s, cmd.arg) = Txt("accepted", s)
          BY <3>3 DEF Accepted
        <4>2. \A v, a : Txt("accepted", s) = Txt(v, a) => v = "accepted" /\ a = s
          BY TokensDiffer
        <4>3. Tells(Txt("accepted", s), p)
          BY <3>2, <3>3, <4>2 DEF Tells
        <4> QED
          BY <3>1, <4>1, <4>3, TokenTypes, TokensDiffer
      <3>4. CASE ~HasProgram(s, cmd.arg)
        <4>1. Accepted(s, cmd.arg) = Txt("error_at", s)
          BY <3>4 DEF Accepted
        <4>2. \A v, a : Txt("error_at", s) = Txt(v, a) => v = "error_at" /\ a = s
          BY TokensDiffer
        <4>3. Tells(Txt("error_at", s), p)
          BY <3>2, <3>4, <4>2 DEF Tells
        <4> QED
          BY <3>1, <4>1, <4>3, TokenTypes, TokensDiffer
      <3> QED
        BY <3>3, <3>4
    <2>4. r \in Seq(TokenType) /\ \A i \in 1..Len(r) : Tells(r[i], p) /\ r[i].key = Plain
      BY <1>1, <2>1, <2>3
    <2> QED
      BY <2>2, <2>4, TellsAll
  <1>5. CASE cmd.name = "scheduler"
    <2>1. ResultFor(cmd) = <<Root>>
      BY <1>5 DEF ResultFor
    <2>2. \A x : <<x>> \o << >> = <<x>>
      OBVIOUS
    <2>3. << >> \in Seq(TokenType) /\ Truthful(<< >>, p)
      BY EmptyText DEF Truthful
    <2> QED
      BY <2>1, <2>2, <2>3, EmptyText, RootComposed
  <1>6. CASE cmd.name \notin {"status", "info", "quit", "log", "start", "stop", "scheduler"}
    <2>1. ResultFor(cmd) = Error("unknown_command")
      BY <1>6 DEF ResultFor
    <2> QED
      BY <1>6, <2>1, ErrorComposed
  <1> QED
    BY <1>2, <1>3, <1>4, <1>5, <1>6

(* The answers about single programs, which are never encrypted.           *)
LEMMA DirectNeutral ==
    ASSUME NEW cmd \in Command
    PROVE  \A i \in 1..Len(DirectFor(cmd)) : DirectFor(cmd)[i] # << >> /\ AllNeutral(DirectFor(cmd)[i])
  <1>0. PICK a : a = SchedulerOf(cmd)
    OBVIOUS
  <1>1. CASE cmd.name = "scheduler" /\ a \in Range(Scheds) /\ "info" \in Range(cmd.kids)
    <2>1. PICK n : n = Cardinality(ProgsOf[a])
      OBVIOUS
    <2>2. n \in Nat
      BY <1>1, <2>1, SessionAssumption, FS_CardinalityType
    <2>3. PICK line : line = <<Txt("program", a)>>
      OBVIOUS
    <2>4. DirectFor(cmd) = [j \in 1..n |-> line]
      BY <1>0, <1>1, <2>1, <2>3, Zenon DEF DirectFor
    <2>5. line # << >> /\ Range(line) = {Txt("program", a)}
      BY <2>3 DEF Range
    <2>6. Txt("program", a).class = "text" /\ Txt("program", a).v = "program"
      BY TokensDiffer
    <2>7. AllNeutral(line)
      BY <2>5, <2>6 DEF AllNeutral, Neutral
    <2>8. Len([j \in 1..n |-> line]) = n
      BY <2>2
    <2> QED
      BY <2>4, <2>5, <2>7, <2>8
  <1>2. CASE ~(cmd.name = "scheduler" /\ a \in Range(Scheds) /\ "info" \in Range(cmd.kids))
    BY <1>0, <1>2 DEF DirectFor
  <1> QED
    BY <1>1, <1>2

(* An encrypted answer tells nothing to one who has not the key.           *)
LEMMA CipherTells ==
    ASSUME NEW text \in Seq(TokenType), NEW o \in Nat, ~KeyTooShort(o, text), NEW p,
           NEW m, m = OtpMessage(o, Encrypted(o, text))
    PROVE  m # << >> /\ Truthful(m, p) /\ m \in Ciphers(text)
  <1>1. PICK cy : cy = Encrypted(o, text)
    OBVIOUS
  <1>2. /\ cy \in Seq(TokenType) /\ Len(cy) = Len(text)
        /\ \A i \in 1..Len(text) : cy[i] = [text[i] EXCEPT !.key = o + i - 1]
    BY <1>1, EncryptedType
  <1>3. m = OtpMessage(o, cy)
    BY <1>1
  <1>4. /\ m \in Seq(TokenType) /\ Len(m) = Len(cy) + 4
        /\ m[1] = Open("otp", NoName, o) /\ m[2] = Gt
        /\ \A i \in 1..Len(cy) : m[i + 2] = cy[i]
        /\ m[Len(cy) + 3] = Close("otp")
        /\ m[Len(cy) + 4] = Gt
    BY <1>2, <1>3, OtpMessageType
  <1>5. ASSUME NEW i \in 1..Len(m) PROVE m[i].class # "text" \/ m[i].key # Plain
    <2>1. CASE i \in {1, 2, Len(cy) + 3, Len(cy) + 4}
      BY <1>4, <2>1, TokensDiffer
    <2>2. CASE i \notin {1, 2, Len(cy) + 3, Len(cy) + 4}
      <3>1. PICK j : j = i - 2
        OBVIOUS
      <3>2. j \in 1..Len(text) /\ j + 2 = i
        BY <1>2, <1>4, <2>2, <3>1
      <3>3. text[j] \in TokenType /\ o + j - 1 \in Nat
        BY <3>2
      <3>4. m[i].key = o + j - 1
        BY <1>2, <1>4, <3>2, <3>3 DEF TokenType
      <3> QED
        BY <3>3, <3>4 DEF Plain
    <2> QED
      BY <2>1, <2>2
  <1>6. Truthful(m, p)
    <2>1. ASSUME NEW t \in Range(m) PROVE \A v, a : t # Txt(v, a)
      <3>1. PICK i \in 1..Len(m) : t = m[i]
        BY DEF Range
      <3> QED
        BY <1>5, <3>1, TokensDiffer
    <2> QED
      BY <2>1 DEF Truthful, Tells
  <1>7. o \in 0..KeyLen
    BY SessionAssumption DEF KeyTooShort
  <1> QED
    BY <1>4, <1>6, <1>7 DEF Ciphers

LEMMA ReplyTells ==
    ASSUME NEW b \in Seq(TokenType), NEW text \in Seq(TokenType), NEW p, Composed(text, p)
    PROVE  /\ Reply(b, text) # << >> /\ Truthful(Reply(b, text), p)
           /\ Opens(Reply(b, text)) => Reply(b, text) \in Ciphers(text)
  <1>1. CASE ~IsOtp(b)
    BY <1>1 DEF Reply, Composed
  <1>2. CASE IsOtp(b) /\ KeyTooShort(AnswerOffset(b), text)
    <2>1. PICK r : r = <<Txt("2", NoName)>>
      OBVIOUS
    <2>2. Reply(b, text) = r
      BY <1>2, <2>1 DEF Reply
    <2>3. r # << >> /\ r[1] = Txt("2", NoName) /\ Range(r) = {Txt("2", NoName)}
      BY <2>1 DEF Range
    <2>4. Tells(Txt("2", NoName), p)
      BY TokensDiffer DEF Tells
    <2>5. ~Opens(r)
      BY <2>3, TokensDiffer DEF Opens
    <2> QED
      BY <2>2, <2>3, <2>4, <2>5 DEF Truthful
  <1>3. CASE IsOtp(b) /\ ~KeyTooShort(AnswerOffset(b), text)
    <2>1. AnswerOffset(b) \in Nat
      BY <1>3, OtpTypes
    <2>2. Reply(b, text) = OtpMessage(AnswerOffset(b), Encrypted(AnswerOffset(b), text))
      BY <1>3 DEF Reply
    <2> QED
      BY <1>3, <2>1, <2>2, CipherTells
  <1> QED
    BY <1>1, <1>2, <1>3

LEMMA ComposedAnswers ==
    ASSUME AnswerInv, at = "decide", NEW text \in Seq(TokenType), NEW replies \in Seq(Seq(TokenType)),
           Answer(text, replies), UNCHANGED <<conn, fd, closes, netVars, clientVars>>,
           \A d \in Clients \ {conn} : pushed'[d] = pushed[d],
           Truthful(text, pushed'[conn]), \A t \in Range(text) : t.key = Plain,
           \A i \in 1..Len(replies) :
               /\ replies[i] # << >> /\ Truthful(replies[i], pushed'[conn])
               /\ Opens(replies[i]) => i = Len(replies) /\ replies[i] \in Ciphers(text)
    PROVE  Streams' /\ Replies' /\ Sayings' /\ Hearing' /\ Paging'
  <1>0. /\ Links /\ Descriptor /\ Streams /\ Sayings /\ Hearing /\ TypeInv /\ conn \in Clients
        /\ NetTypes /\ ClientTypes /\ said \in [Clients -> Seq(TokenType)]
    BY TypeParts DEF AnswerInv, SessionInv, TypeInv, GhostTypes
  <1>1. conn' = conn /\ link' = link /\ reset' = reset /\ outq' = outq /\ got' = got /\ cpc' = cpc
    BY DEF netVars, clientVars
  <1>2. at' = "answer" /\ out' = replies /\ said' = [said EXCEPT ![conn] = text]
    BY DEF Answer
  <1>3. said'[conn] = text /\ \A d \in Clients \ {conn} : said'[d] = said[d]
    BY <1>0, <1>2
  <1>4. ASSUME NEW d \in Clients \ {conn} PROVE StreamFine(d)'
    <2>1. ~Answering(d) /\ ~Answering(d)'
      BY <1>1 DEF Answering
    <2> QED
      BY <1>0, <1>1, <1>3, <2>1, OthersKept
  <1>5. ASSUME NEW c \in Clients, c = conn PROVE StreamFine(c)'
    <2>1. ~Answered(c)
      BY <1>0, <1>5 DEF Answered, Answering, Links
    <2>2. AllNeutral(Stream(c)) /\ Stream(c) \in Seq(TokenType)
      BY <1>0, <2>1, StreamTypes DEF Streams, StreamFine
    <2>3. Stream(c)' = Stream(c)
      BY <1>1 DEF Stream
    <2> QED
      BY <2>2, <2>3, StreamNeutral
  <1>6. Streams'
    BY <1>4, <1>5 DEF Streams
  <1>7. Replies'
    BY <1>1, <1>2, <1>3 DEF Replies
  <1>8. Sayings'
    BY <1>0, <1>3 DEF Sayings
  <1>9. cpc[conn] \notin {"hello", "send"}
    BY <1>0, HeardHasSent
  <1>10. Hearing'
    BY <1>0, <1>1, <1>9, HearingKept
  <1> QED
    BY <1>2, <1>6, <1>7, <1>8, <1>10 DEF Paging

LEMMA DecideAnswers ==
    ASSUME AnswerInv, Decide
    PROVE  Streams' /\ Replies' /\ Sayings' /\ Hearing' /\ Paging'
  <1>0. /\ at = "decide" /\ conn \in Clients /\ pushed[conn] = NoUnits /\ buf \in Seq(TokenType)
        /\ pushed \in [Clients -> [Range(Scheds) -> Seq(WorkUnit)]]
        /\ UNCHANGED <<conn, fd, closes, netVars, clientVars>>
    BY TypeParts DEF AnswerInv, SessionInv, TypeInv, GhostTypes, TextTypes, Decide, Commanding
  <1>1. CASE Answer(<< >>, << >>) /\ UNCHANGED <<pushed, used>>
    <2>1. << >> \in Seq(TokenType) /\ << >> \in Seq(Seq(TokenType)) /\ 1..Len(<< >>) = {}
      OBVIOUS
    <2>2. Truthful(<< >>, pushed'[conn])
      BY EmptyText DEF Truthful
    <2> QED
      BY <1>0, <1>1, <2>1, <2>2, EmptyText, ComposedAnswers
  <1>2. ASSUME NEW type \in ErrorTypes, Refuse(type) PROVE Streams' /\ Replies' /\ Sayings' /\ Hearing' /\ Paging'
    <2>1. PICK e : e = Error(type)
      OBVIOUS
    <2>2. type \in Words
      BY DEF Words, ErrorTypes
    <2>3. e \in Seq(TokenType) /\ Composed(e, NoUnits)
      BY <2>1, <2>2, ErrorType, ErrorComposed
    <2>4. PICK r : r = <<e>>
      OBVIOUS
    <2>5. r \in Seq(Seq(TokenType)) /\ Len(r) = 1 /\ r[1] = e
      BY <2>3, <2>4
    <2>6. Answer(e, r) /\ pushed' = pushed
      BY <1>2, <2>1, <2>4 DEF Refuse
    <2>7. /\ Truthful(e, pushed'[conn]) /\ (\A t \in Range(e) : t.key = Plain)
          /\ e # << >> /\ ~Opens(e)
      BY <1>0, <2>3, <2>6 DEF Composed
    <2>8. \A i \in 1..Len(r) :
            /\ r[i] # << >> /\ Truthful(r[i], pushed'[conn])
            /\ Opens(r[i]) => i = Len(r) /\ r[i] \in Ciphers(e)
      BY <2>5, <2>7
    <2> QED
      BY <1>0, <2>3, <2>5, <2>6, <2>7, <2>8, ComposedAnswers
  <1>3. ASSUME NEW cmd \in Command, Execute(cmd) PROVE Streams' /\ Replies' /\ Sayings' /\ Hearing' /\ Paging'
    <2>1. PICK t : t = ResultFor(cmd)
      OBVIOUS
    <2>2. PICK d : d = DirectFor(cmd)
      OBVIOUS
    <2>3. PICK r : r = Reply(buf, t)
      OBVIOUS
    <2>4. t \in Seq(TokenType) /\ d \in Seq(Seq(TokenType)) /\ r \in Seq(TokenType)
      BY <1>0, <2>1, <2>2, <2>3, AnswerTypes, ReplyType
    <2>5. /\ pushed' = [pushed EXCEPT ![conn] = [s \in Range(Scheds) |-> pushed[conn][s] \o UnitsAt(s, cmd)]]
          /\ Answer(t, d \o <<r>>)
      BY <1>3, <2>1, <2>2, <2>3 DEF Execute
    <2>6. /\ \A s \in Range(Scheds) : pushed'[conn][s] = UnitsAt(s, cmd)
          /\ DOMAIN pushed'[conn] = Range(Scheds) /\ pushed'[conn] = [s \in Range(Scheds) |-> pushed'[conn][s]]
          /\ \A c \in Clients \ {conn} : pushed'[c] = pushed[c]
      <3>1. ASSUME NEW s \in Range(Scheds) PROVE pushed[conn][s] \o UnitsAt(s, cmd) = UnitsAt(s, cmd)
        <4>1. pushed[conn][s] = << >> /\ UnitsAt(s, cmd) \in Seq(WorkUnit)
          BY <1>0, UnitsType DEF NoUnits
        <4> QED
          BY <4>1, ConcatEmptySeq, Zenon
      <3>2. pushed'[conn] = [s \in Range(Scheds) |-> pushed[conn][s] \o UnitsAt(s, cmd)]
        BY <1>0, <2>5
      <3>3. \A c \in Clients \ {conn} : pushed'[c] = pushed[c]
        BY <1>0, <2>5
      <3> QED
        BY <3>1, <3>2, <3>3
    <2>7. cmd.name \notin {"start", "stop", "quit", "scheduler"} => pushed'[conn] = NoUnits
      <3>1. ASSUME cmd.name \notin {"start", "stop", "quit", "scheduler"}, NEW s \in Range(Scheds)
            PROVE  UnitsAt(s, cmd) = << >>
        BY <3>1 DEF UnitsAt
      <3> QED
        BY <2>6, <3>1 DEF NoUnits
    <2>8. Composed(t, pushed'[conn])
      BY <2>1, <2>6, <2>7, ResultComposed
    <2>9. /\ r # << >> /\ Truthful(r, pushed'[conn]) /\ (Opens(r) => r \in Ciphers(t))
      BY <1>0, <2>3, <2>4, <2>8, ReplyTells
    <2>10. PICK h : h = <<r>>
      OBVIOUS
    <2>11. PICK replies : replies = d \o h
      OBVIOUS
    <2>12. /\ replies \in Seq(Seq(TokenType)) /\ Len(replies) = Len(d) + 1 /\ Len(d) \in Nat
           /\ \A i \in 1..Len(d) : replies[i] = d[i]
           /\ replies[Len(d) + 1] = r
      <3>1. h \in Seq(Seq(TokenType)) /\ Len(h) = 1 /\ h[1] = r
        BY <2>4, <2>10
      <3>2. /\ d \o h \in Seq(Seq(TokenType)) /\ Len(d \o h) = Len(d) + Len(h)
            /\ \A i \in 1..Len(d) : (d \o h)[i] = d[i]
            /\ \A i \in 1..Len(h) : (d \o h)[i + Len(d)] = h[i]
        <4>1. PICK S : S = Seq(TokenType)
          OBVIOUS
        <4>2. d \in Seq(S) /\ h \in Seq(S)
          BY <2>4, <3>1, <4>1
        <4>3. /\ d \o h \in Seq(S) /\ Len(d \o h) = Len(d) + Len(h)
              /\ \A i \in 1..Len(d) : (d \o h)[i] = d[i]
              /\ \A i \in 1..Len(h) : (d \o h)[i + Len(d)] = h[i]
          BY <4>2, Joined
        <4> QED
          BY <4>1, <4>3
      <3>3. 1 \in 1..Len(h) /\ Len(d) \in Nat
        BY <2>4, <3>1
      <3>4. (d \o h)[1 + Len(d)] = r
        BY <3>1, <3>2, <3>3
      <3> QED
        BY <2>11, <3>1, <3>2, <3>3, <3>4
    <2>13. ASSUME NEW i \in 1..Len(d) PROVE d[i] # << >> /\ AllNeutral(d[i]) /\ d[i] \in Seq(TokenType)
      BY <2>2, <2>4, DirectNeutral
    <2>14. \A i \in 1..Len(replies) :
             /\ replies[i] # << >> /\ Truthful(replies[i], pushed'[conn])
             /\ Opens(replies[i]) => i = Len(replies) /\ replies[i] \in Ciphers(t)
      <3> SUFFICES ASSUME NEW i \in 1..Len(replies)
                   PROVE /\ replies[i] # << >> /\ Truthful(replies[i], pushed'[conn])
                         /\ Opens(replies[i]) => i = Len(replies) /\ replies[i] \in Ciphers(t)
        OBVIOUS
      <3>1. CASE i \in 1..Len(d)
        <4>1. replies[i] = d[i]
          BY <2>12, <3>1
        <4>2. d[i] # << >> /\ AllNeutral(d[i]) /\ d[i] \in Seq(TokenType)
          BY <2>13, <3>1
        <4>3. Truthful(d[i], pushed'[conn]) /\ ~Opens(d[i])
          BY <4>2, NeutralTells, NeutralCloses
        <4> QED
          BY <4>1, <4>2, <4>3
      <3>2. CASE i = Len(d) + 1
        BY <2>9, <2>12, <3>2
      <3> QED
        BY <2>12, <3>1, <3>2
    <2>15. Answer(t, replies)
      BY <2>5, <2>10, <2>11
    <2>16. Truthful(t, pushed'[conn]) /\ \A x \in Range(t) : x.key = Plain
      BY <2>8 DEF Composed
    <2> QED
      BY <1>0, <2>4, <2>6, <2>12, <2>14, <2>15, <2>16, ComposedAnswers
  <1> QED
    BY <1>1, <1>2, <1>3, CommandType, Zenon DEF Decide, ErrorTypes

(* One answer after the other is sent.                                     *)
LEMMA SendAnswers ==
    ASSUME AnswerInv, SendAnswer
    PROVE  Streams' /\ Replies' /\ Sayings' /\ Hearing' /\ Paging'
  <1>0. /\ Streams /\ Replies /\ Sayings /\ Hearing /\ Links /\ Descriptor /\ TypeInv /\ NetTypes /\ ClientTypes
        /\ conn \in Clients /\ at = "answer" /\ out # << >> /\ out \in Seq(Seq(TokenType)) /\ said[conn] \in Seq(TokenType)
    BY TypeParts DEF AnswerInv, SessionInv, TypeInv, GhostTypes, TextTypes, SendAnswer
  <1>1. /\ at' = "answer" /\ out' = Tail(out) /\ conn' = conn /\ link' = link /\ reset' = reset /\ got' = got
        /\ cpc' = cpc /\ pushed' = pushed /\ said' = said
    BY DEF SendAnswer, clientVars, ghostVars
  <1>2. SendWorks(Head(out)) \/ UNCHANGED outq
    BY Zenon DEF SendAnswer
  <1>3. PICK text : text = Head(out)
    OBVIOUS
  <1>4. PICK p : p = pushed[conn]
    OBVIOUS
  <1>5. /\ text = out[1] /\ text \in Seq(TokenType) /\ text # << >>
        /\ Len(out) \in Nat /\ Len(out) >= 1
    BY <1>0, <1>3 DEF Replies
  <1>6. Truthful(text, p) /\ (Opens(text) => Len(out) = 1 /\ text \in Ciphers(said[conn]))
    <2>1. 1 \in 1..Len(out)
      BY <1>5
    <2> QED
      BY <1>0, <1>4, <1>5, <2>1 DEF Replies
  <1>7. /\ \A d \in Clients \ {conn} : outq'[d] = outq[d]
        /\ Stream(conn) \in Seq(TokenType)
        /\ \/ Stream(conn)' = Stream(conn)
           \/ Stream(conn)' = Stream(conn) \o text
    <2>1. SendWorks(text) \/ UNCHANGED outq
      BY <1>2, <1>3
    <2> QED
      BY <1>0, <1>1, <1>5, <2>1, SentStream
  <1>8. ASSUME NEW d \in Clients \ {conn} PROVE StreamFine(d)'
    <2>1. ~Answering(d) /\ ~Answering(d)'
      BY <1>1 DEF Answering
    <2> QED
      BY <1>0, <1>1, <1>7, <2>1, OthersKept
  <1>9. ASSUME NEW c \in Clients, c = conn PROVE StreamFine(c)'
    <2>1. Stream(c)' = Stream(conn)' /\ Stream(c) = Stream(conn)
      BY <1>1, <1>9 DEF Stream
    <2>2. Answered(c) /\ Answering(c) /\ Answered(c)' /\ pushed'[c] = p /\ said'[c] = said[c]
      BY <1>0, <1>1, <1>4, <1>9 DEF Answered, Answering
    <2>3. StreamFine(c)
      BY <1>0 DEF Streams
    <2>4. ~Opens(Stream(c))
      BY <1>0, <2>2, <2>3 DEF StreamFine
    <2>5. CASE Stream(c)' = Stream(c)
      <3>1. out = << >> => out' = << >>
        BY <1>0
      <3> QED
        BY <1>4, <1>9, <2>2, <2>3, <2>5, <3>1, StreamKept
    <2>6. CASE Stream(c)' = Stream(c) \o text
      <3>1. PICK s : s = Stream(c)
        OBVIOUS
      <3>2. PICK z : z = s \o text
        OBVIOUS
      <3>3. s \in Seq(TokenType) /\ Stream(c)' = z
        BY <1>7, <2>1, <2>6, <3>1, <3>2
      <3>4. Truthful(z, p)
        <4>1. Range(z) = Range(s) \cup Range(text)
          BY <1>5, <3>2, <3>3, JoinedRange
        <4>2. Truthful(s, p)
          BY <1>4, <1>9, <2>3, <3>1 DEF StreamFine
        <4> QED
          BY <1>6, <4>1, <4>2 DEF Truthful
      <3>5. Opens(z) => Begins(z, said[c]) /\ out' = << >>
        <4>1. CASE s # << >>
          BY <1>5, <2>4, <3>1, <3>2, <3>3, <4>1, OpensJoined
        <4>2. CASE s = << >>
          <5>1. z = text
            BY <1>5, <3>2, <3>3, <4>2, OpensJoined
          <5>2. Opens(text) => Begins(text, said[c])
            BY <1>0, <1>6, <1>9, CipherType
          <5>3. ASSUME Len(out) = 1 PROVE out' = << >>
            <6>1. PICK S : S = Seq(TokenType)
              OBVIOUS
            <6>2. out \in Seq(S) /\ out # << >>
              BY <1>0, <6>1
            <6>3. Tail(out) \in Seq(S) /\ Len(Tail(out)) = 0
              BY <5>3, <6>2
            <6> QED
              BY <1>1, <6>3, EmptySeq
          <5> QED
            BY <1>6, <5>1, <5>2, <5>3
        <4> QED
          BY <4>1, <4>2
      <3> QED
        BY <2>2, <3>3, <3>4, <3>5, Zenon DEF StreamFine
    <2> QED
      BY <1>7, <2>1, <2>5, <2>6
  <1>10. Streams'
    BY <1>8, <1>9 DEF Streams
  <1>11. Replies'
    <2>1. /\ Len(out') = Len(out) - 1 /\ \A i \in 1..Len(out') : out'[i] = out[i + 1] /\ i + 1 \in 1..Len(out)
      BY <1>0, <1>1
    <2>2. ASSUME NEW i \in 1..Len(out')
          PROVE /\ out'[i] # << >> /\ Truthful(out'[i], p)
                /\ Opens(out'[i]) => i = Len(out') /\ out'[i] \in Ciphers(said[conn])
      <3>1. out'[i] = out[i + 1] /\ i + 1 \in 1..Len(out)
        BY <2>1
      <3>2. /\ out[i + 1] # << >> /\ Truthful(out[i + 1], p)
            /\ Opens(out[i + 1]) => i + 1 = Len(out) /\ out[i + 1] \in Ciphers(said[conn])
        BY <1>0, <1>4, <3>1 DEF Replies
      <3>3. i + 1 = Len(out) => i = Len(out')
        BY <1>5, <2>1
      <3> QED
        BY <3>1, <3>2, <3>3
    <2> QED
      BY <1>1, <1>4, <2>2 DEF Replies
  <1>12. Sayings'
    BY <1>0, <1>1 DEF Sayings
  <1>13. cpc[conn] \notin {"hello", "send"}
    BY <1>0, HeardHasSent
  <1>14. Hearing'
    BY <1>0, <1>1, <1>7, <1>13, HearingKept
  <1> QED
    BY <1>1, <1>10, <1>11, <1>12, <1>14 DEF Paging

(* Who waited is never answered, and who was heard loses its answer.       *)
LEMMA TerminateAnswers ==
    ASSUME AnswerInv, Terminate
    PROVE  Streams' /\ Replies' /\ Sayings' /\ Hearing' /\ Paging'
  <1>0. /\ Links /\ Descriptor /\ Streams /\ Sayings /\ Hearing /\ NetTypes /\ ClientTypes /\ conn \in Clients
        /\ at = "decide" /\ said[conn] \in Seq(TokenType) /\ outq \in [Clients -> Seq(TokenType)]
    BY TypeParts DEF AnswerInv, SessionInv, TypeInv, GhostTypes, NetTypes, Terminate
  <1>1. /\ at' = "poll" /\ UNCHANGED <<conn, cpc, got, pushed, said>>
        /\ \A c \in Clients : link'[c] = IF link[c] = "queued" \/ c = conn THEN "closed" ELSE link[c]
    BY DEF Terminate, clientVars, ghostVars
  <1>2. outq' = outq \/ outq' = [outq EXCEPT ![conn] = << >>]
    BY Zenon DEF Terminate, MayReset
  <1>3. \A c \in Clients \ {conn} : outq'[c] = outq[c]
    BY <1>0, <1>2
  <1>4. reset \subseteq reset' /\ \A c \in Clients : link[c] = "queued" /\ ~ClientGone(c) => c \in reset'
    BY DEF Terminate, MayReset
  <1>5. \A c \in Clients : ~Answering(c) /\ ~Answering(c)'
    BY <1>0, <1>1 DEF Answering
  <1>6. ASSUME NEW c \in Clients \ {conn} PROVE StreamFine(c)'
    BY <1>0, <1>1, <1>3, <1>5, OthersKept
  <1>7. ASSUME NEW c \in Clients, c = conn PROVE StreamFine(c)'
    <2>1. /\ StreamFine(c) /\ pushed'[c] = pushed[c] /\ said'[c] = said[c] /\ Answered(c)'
          /\ got[c] \o << >> = got[c]
      BY <1>0, <1>1, <1>7, StreamTypes, ConcatEmptySeq DEF Streams, Answered
    <2>2. outq'[c] = outq[c] \/ outq'[c] = << >>
      BY <1>0, <1>2, <1>7
    <2>3. Stream(c)' = Stream(c) \/ Stream(c)' = got[c]
      BY <1>1, <2>1, <2>2 DEF Stream
    <2> QED
      BY <1>0, <1>5, <1>7, <2>1, <2>3, StreamKept, StreamCut
  <1>8. Streams' /\ Replies' /\ Sayings' /\ Paging'
    BY <1>0, <1>1, <1>6, <1>7 DEF Streams, Replies, Sayings, Paging
  <1>9. cpc[conn] \notin {"hello", "send"}
    BY <1>0, HeardHasSent
  <1>10. ASSUME NEW c \in Clients, cpc[c] \in {"hello", "send"} PROVE Unheard(c)'
    <2>1. c # conn /\ (link[c] = "queued" => outq[c] = << >>) /\ ~ClientGone(c) /\ Unheard(c)
      BY <1>0, <1>9, <1>10 DEF Links, ClientGone, Hearing
    <2> QED
      BY <1>0, <1>1, <1>3, <1>4, <2>1 DEF Unheard
  <1>11. Hearing'
    BY <1>0, <1>1, <1>10 DEF Hearing, Speaks
  <1> QED
    BY <1>8, <1>11

LEMMA AnswerStep == AnswerInv /\ [Next]_vars => AnswerInv'
  <1> SUFFICES ASSUME AnswerInv, [Next]_vars PROVE AnswerInv'
    OBVIOUS
  <1>0. SessionInv'
    BY SessionStep DEF AnswerInv
  <1>1. CASE UNCHANGED vars
    <2>1. /\ UNCHANGED <<at, conn, fd, out, cpc, link, reset, outq, got, pushed, said>>
      BY <1>1 DEF vars, serverVars, netVars, clientVars, ghostVars
    <2>2. ASSUME NEW c \in Clients PROVE StreamFine(c)'
      <3>1. StreamFine(c) /\ Stream(c)' = Stream(c) /\ (Answered(c) => Answered(c)')
        BY <2>1 DEF AnswerInv, Streams, Stream, Answered, Answering
      <3>2. Answering(c)' => Answering(c) /\ (out = << >> => out' = << >>)
        BY <2>1 DEF Answering
      <3> QED
        BY <2>1, <3>1, <3>2, StreamKept
    <2>3. Streams'
      BY <2>2 DEF Streams
    <2>4. Replies' /\ Sayings' /\ Hearing' /\ Paging'
      BY <2>1 DEF AnswerInv, Replies, Sayings, Hearing, Unheard, Speaks, Paging
    <2> QED
      BY <1>0, <2>3, <2>4 DEF AnswerInv
  <1>2. CASE Server
    <2>1. Streams' /\ Replies' /\ Sayings' /\ Hearing' /\ Paging'
      BY <1>2, AcceptAnswers, ReceiveAnswers, CheckIdAnswers, GuiAnswers, DecideAnswers, SendAnswers,
         TerminateAnswers DEF Server
    <2> QED
      BY <1>0, <2>1 DEF AnswerInv
  <1>3. ASSUME NEW c \in Clients, Client(c) \/ GiveUp(c) PROVE AnswerInv'
    BY <1>0, <1>3, ClientAnswered DEF AnswerInv
  <1> QED
    BY <1>1, <1>2, <1>3 DEF Next, AcceptFails, Quiet

LEMMA InitAnswers == Init => AnswerInv
  <1> SUFFICES ASSUME Init PROVE AnswerInv
    OBVIOUS
  <1>1. SessionInv
    BY InitSession
  <1>2. /\ at = "poll" /\ \A c \in Clients : /\ cpc[c] = "start" /\ got[c] = << >> /\ outq[c] = << >>
                                             /\ said[c] = << >> /\ pushed[c] = NoUnits
    BY DEF Init
  <1>3. Replies /\ Paging
    BY <1>2 DEF Replies, Paging
  <1>4. Hearing
    BY <1>2 DEF Hearing
  <1>5. \A p : Truthful(<< >>, p) /\ AllNeutral(<< >>)
    BY EmptyText DEF Truthful, AllNeutral
  <1>6. Sayings
    BY <1>2, <1>5, EmptyText DEF Sayings
  <1>7. ASSUME NEW c \in Clients PROVE StreamFine(c)
    <2>1. << >> \o << >> = << >>
      OBVIOUS
    <2>2. Stream(c) = << >>
      BY <1>2, <2>1 DEF Stream
    <2> QED
      BY <1>5, <2>2, EmptyText, Zenon DEF StreamFine
  <1> QED
    BY <1>1, <1>3, <1>4, <1>6, <1>7 DEF AnswerInv, Streams

-----------------------------------------------------------------------------
(* What a client shows.                                                    *)

(* What an encrypted text is made of.                                      *)
LEMMA MessageParts ==
    ASSUME NEW o \in Nat, NEW cy \in Seq(TokenType), NEW m, m = OtpMessage(o, cy)
    PROVE  OtpOffset(m) = o /\ OtpContents(m) = cy
  <1>1. /\ m \in Seq(TokenType) /\ Len(m) = Len(cy) + 4 /\ Len(cy) \in Nat
        /\ m[1] = Open("otp", NoName, o) /\ \A i \in 1..Len(cy) : m[i + 2] = cy[i]
    <2>1. /\ m \in Seq(TokenType) /\ Len(m) = Len(cy) + 4
          /\ m[1] = Open("otp", NoName, o) /\ \A i \in 1..Len(cy) : m[i + 2] = cy[i]
      BY OtpMessageType, Zenon
    <2>2. Len(cy) \in Nat
      OBVIOUS
    <2> QED
      BY <2>1, <2>2
  <1>2. OtpOffset(m) = o
    BY <1>1, TokensDiffer DEF OtpOffset
  <1>3. PICK x : x = SubSeq(m, 3, Len(m) - 2)
    OBVIOUS
  <1>4. Len(m) - 2 = Len(cy) + 2 /\ 3 \in 1..(Len(m) + 1) /\ Len(m) - 2 \in 0..Len(m)
    BY <1>1
  <1>5. /\ x \in Seq(TokenType)
        /\ Len(x) = IF 3 <= Len(m) - 2 THEN (Len(m) - 2) - 3 + 1 ELSE 0
        /\ \A i \in 1..((Len(m) - 2) - 3 + 1) : x[i] = m[3 + i - 1]
    BY <1>1, <1>3, <1>4, PartType
  <1>6. Len(x) = Len(cy)
    BY <1>1, <1>4, <1>5
  <1>7. ASSUME NEW i \in 1..Len(cy) PROVE x[i] = cy[i]
    <2>1. i \in 1..((Len(m) - 2) - 3 + 1) /\ 3 + i - 1 = i + 2
      BY <1>1, <1>4
    <2> QED
      BY <1>1, <1>5, <2>1
  <1>8. x = cy
    BY <1>5, <1>6, <1>7, SeqEqual
  <1> QED
    BY <1>2, <1>3, <1>8 DEF OtpContents

(* Only the whole of an encrypted answer is taken for one.                 *)
LEMMA WholeCipher ==
    ASSUME NEW answer \in Seq(TokenType), \A t \in Range(answer) : t.key = Plain,
           NEW b, Begins(b, answer), IsOtp(b)
    PROVE  \E o \in 0..KeyLen : /\ ~KeyTooShort(o, answer) /\ b = OtpMessage(o, Encrypted(o, answer))
                                /\ OtpOffset(b) = o /\ OtpContents(b) = Encrypted(o, answer)
  <1>0. PICK m \in Ciphers(answer) : \E k \in 0..Len(m) : b = SubSeq(m, 1, k)
    BY DEF Begins
  <1>1. PICK k \in 0..Len(m) : b = SubSeq(m, 1, k)
    BY <1>0
  <1>2. PICK o \in 0..KeyLen : ~KeyTooShort(o, answer) /\ m = OtpMessage(o, Encrypted(o, answer))
    BY <1>0 DEF Ciphers
  <1>3. o \in Nat
    BY SessionAssumption
  <1>4. PICK cy : cy = Encrypted(o, answer)
    OBVIOUS
  <1>5. /\ cy \in Seq(TokenType) /\ Len(cy) = Len(answer) /\ Len(cy) \in Nat
        /\ \A i \in 1..Len(answer) : cy[i] = [answer[i] EXCEPT !.key = o + i - 1]
    BY <1>3, <1>4, EncryptedType
  <1>6. m = OtpMessage(o, cy)
    BY <1>2, <1>4
  <1>7. /\ m \in Seq(TokenType) /\ Len(m) = Len(cy) + 4
        /\ m[1] = Open("otp", NoName, o) /\ m[2] = Gt
        /\ \A i \in 1..Len(cy) : m[i + 2] = cy[i]
    BY <1>3, <1>5, <1>6, OtpMessageType
  <1>8. b \in Seq(TokenType) /\ Len(b) = k /\ \A i \in 1..k : b[i] = m[i]
    BY <1>1, <1>7, PartType
  <1>9. k > 4 /\ b[k - 1] = Close("otp") /\ b[1].n = o
    <2>1. k > 4 /\ b[k - 1] = Close("otp")
      BY <1>8 DEF IsOtp
    <2>2. b[1].n = o
      BY <1>7, <1>8, <2>1, TokensDiffer
    <2> QED
      BY <2>1, <2>2
  <1>10. ASSUME NEW i \in 1..Len(cy) PROVE m[i + 2] # Close("otp")
    <2>1. answer[i] \in TokenType /\ i \in 1..Len(answer) /\ o + i - 1 \in Nat
      BY <1>3, <1>5
    <2>2. cy[i].key = o + i - 1
      BY <1>5, <2>1 DEF TokenType
    <2>3. Close("otp").key = Plain
      BY DEF Close, Token
    <2> QED
      BY <1>7, <2>1, <2>2, <2>3 DEF Plain
  <1>11. k = Len(m)
    <2>1. m[k - 1] = Close("otp")
      BY <1>8, <1>9
    <2>2. ASSUME k - 1 \in 3..(Len(cy) + 2) PROVE FALSE
      <3>1. PICK i : i = k - 3
        OBVIOUS
      <3>2. i \in 1..Len(cy) /\ i + 2 = k - 1
        BY <1>5, <1>9, <2>2, <3>1, TwoBack
      <3> QED
        BY <1>10, <2>1, <3>2
    <2> QED
      BY <1>5, <1>7, <1>9, <2>2
  <1>12. b = m
    BY <1>1, <1>7, <1>11, SubSeqFull
  <1>13. OtpOffset(b) = o /\ OtpContents(b) = cy
    BY <1>3, <1>5, <1>6, <1>12, MessageParts
  <1> QED
    BY <1>2, <1>4, <1>12, <1>13

LEMMA OtpShown ==
    ASSUME AnswerInv, NEW c \in Clients, IsOtp(got[c]), ReadsBack(got[c])
    PROVE  Shown(c) = said[c]
  <1>0. got[c] \in Seq(TokenType) /\ outq[c] \in Seq(TokenType) /\ said[c] \in Seq(TokenType)
    BY TypeParts DEF AnswerInv, SessionInv, NetTypes, ClientTypes, GhostTypes
  <1>1. PICK b : b = got[c]
    OBVIOUS
  <1>2. PICK answer : answer = said[c]
    OBVIOUS
  <1>3. answer \in Seq(TokenType) /\ b \in Seq(TokenType) /\ \A t \in Range(answer) : t.key = Plain
    BY <1>0, <1>1, <1>2 DEF AnswerInv, Sayings
  <1>4. b # << >> /\ Opens(b)
    <2>1. Len(b) > 4 /\ b[1] = Open("otp", NoName, b[1].n)
      BY <1>1 DEF IsOtp
    <2> QED
      BY <1>3, <2>1, TokensDiffer DEF Opens
  <1>5. Begins(b, answer)
    <2>1. Opens(Stream(c))
      BY <1>0, <1>1, <1>4, OpensJoined DEF Stream
    <2>2. Begins(Stream(c), answer)
      BY <1>2, <2>1 DEF AnswerInv, Streams, StreamFine
    <2> QED
      BY <1>0, <1>1, <1>3, <2>2, BeginsShorter DEF Stream
  <1>6. PICK o \in 0..KeyLen : /\ ~KeyTooShort(o, answer) /\ OtpOffset(b) = o
                               /\ OtpContents(b) = Encrypted(o, answer)
    BY <1>1, <1>3, <1>5, WholeCipher
  <1>7. o \in Nat
    BY SessionAssumption
  <1>8. ASSUME NEW i \in 1..Len(answer) PROVE answer[i].key = Plain /\ o + i - 1 \notin HighKey
    <2>1. PICK cy : cy = Encrypted(o, answer)
      OBVIOUS
    <2>2. /\ cy \in Seq(TokenType) /\ Len(cy) = Len(answer)
          /\ \A j \in 1..Len(answer) : cy[j] = [answer[j] EXCEPT !.key = o + j - 1]
      BY <1>3, <1>7, <2>1, EncryptedType
    <2>3. i \in DOMAIN cy /\ answer[i] \in TokenType /\ answer[i] \in Range(answer)
      BY <1>3, <2>2 DEF Range
    <2>4. cy[i].key = o + i - 1
      BY <1>7, <2>2, <2>3 DEF TokenType
    <2>5. cy[i].key \notin HighKey
      BY <1>1, <1>6, <2>1, <2>3 DEF ReadsBack
    <2> QED
      BY <1>3, <2>3, <2>4, <2>5
  <1>9. Decrypted(o, Encrypted(o, answer)) = answer
    BY <1>3, <1>6, <1>7, <1>8, Deciphered
  <1> QED
    BY <1>1, <1>2, <1>6, <1>9 DEF Shown

(* Whatever otpcmd decrypts with key bytes below 128 is what PETeR         *)
(* answered, whole and in the order it was composed, also at the end of    *)
(* the key file and when other bytes of it are higher (Socket.cc 282-283,  *)
(* 393-416; otpcmd.cc 251-274; otp.cc 41-88).                              *)
THEOREM OtpAnswersReadable == Spec => []OtpReadable
  <1>1. AnswerInv => OtpReadable
    BY OtpShown DEF OtpReadable
  <1> QED
    BY <1>1, InitAnswers, AnswerStep, PTL DEF Spec

(* A client that shows "accepted" or "quitting" for a scheduler has added  *)
(* the work unit there, and one that shows an error has added none, also   *)
(* when the answer was cut, or encrypted with key bytes below 128          *)
(* (Socket.cc 335-388).                                                    *)
THEOREM AnswersTell == Spec => []AnswerTells
  <1>1. ASSUME AnswerInv PROVE AnswerTells
    <2> SUFFICES ASSUME NEW c \in Clients, NEW s \in Range(Scheds), IsOtp(got[c]) => ReadsBack(got[c])
                 PROVE  /\ Shows(c, Txt("accepted", s)) \/ Shows(c, Txt("quit", s)) => pushed[c][s] # << >>
                        /\ Shows(c, Txt("error_at", s)) => pushed[c][s] = << >>
                        /\ (\E e \in ErrorTypes : Shows(c, Txt("error", e))) => pushed[c] = NoUnits
      BY DEF AnswerTells, ErrorTypes
    <2>1. got[c] \in Seq(TokenType) /\ outq[c] \in Seq(TokenType)
      BY <1>1, TypeParts DEF AnswerInv, SessionInv, NetTypes, ClientTypes
    <2>2. Truthful(Shown(c), pushed[c])
      <3>1. CASE IsOtp(got[c])
        BY <1>1, <3>1, OtpShown DEF AnswerInv, Sayings
      <3>2. CASE ~IsOtp(got[c])
        <4>1. Range(got[c]) \subseteq Range(Stream(c))
          BY <2>1, JoinedRange DEF Stream
        <4>2. Truthful(Stream(c), pushed[c])
          BY <1>1 DEF AnswerInv, Streams, StreamFine
        <4> QED
          BY <3>2, <4>1, <4>2 DEF Shown, Truthful
      <3> QED
        BY <3>1, <3>2
    <2>3. \A t \in Range(Shown(c)) : Tells(t, pushed[c])
      BY <2>2 DEF Truthful
    <2> QED
      BY <2>3 DEF Shows, Tells
  <1>2. AnswerInv => AnswerTells
    BY <1>1
  <1> QED
    BY <1>2, InitAnswers, AnswerStep, PTL DEF Spec
=============================================================================
