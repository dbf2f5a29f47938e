------------------------------ MODULE PadProofs ------------------------------
(***************************************************************************)
(* What TLAPS proves of the one-time pad.  What it computes: for key bytes *)
(* below 128 each text comes back, and otherwise it does not.  What        *)
(* otpcmd and the control socket use of it: as long as otpcmd runs to its  *)
(* end, and one at a time, no byte of the key file is used twice, for any  *)
(* clients, commands, schedulers and keys.                                 *)
(*                                                                         *)
(* The argument for that: every byte used is below the number in the .pos  *)
(* file, or the one otpcmd that runs is to write a number above it.  It    *)
(* does so only when it gets the encrypted answer, so the invariant        *)
(* follows the answer from where it is composed to the last piece of it.   *)
(***************************************************************************)
EXTENDS SessionAnswerProofs, Otp

-----------------------------------------------------------------------------
(* The matrices, and what a negative key byte reads instead: the row       *)
(* before (otp.cc 166-206).                                                *)
LEMMA LowElement ==
    ASSUME NEW i \in Byte, NEW j \in LowByte
    PROVE  E(i, j) = (i + j) % 256 /\ D(i, j) = (i - j) % 256
<1>1. (256 * i + j) \div 256 = i /\ (256 * i + j) % 256 = j
    BY DEF Byte, LowByte
<1> QED BY <1>1 DEF E, D, l_add, l_sub, Byte, LowByte

LEMMA HighElement ==
    ASSUME NEW i \in 1..255, NEW j \in HighByte
    PROVE  E(i, j) = (i + j - 1) % 256 /\ D(i, j) = (i - 1 - j) % 256
<1>1. (256 * i + j) \div 256 = i - 1 /\ (256 * i + j) % 256 = j + 256
    BY DEF HighByte
<1>2. E(i, j) = (i - 1 + (j + 256)) % 256
    BY <1>1 DEF E, l_add
<1>3. D(i, j) = IF i - 1 - (j + 256) < 0 THEN i - 1 - j - 256 + 256 ELSE i - 1 - j - 256
    BY <1>1 DEF D, l_sub, HighByte
<1> QED BY <1>2, <1>3 DEF HighByte

(* The encoded form of a byte is two characters between '@' and 'O', which *)
(* are neither '>' nor a line feed, at which the socket stops reading, and *)
(* decoding gives the byte back (otp.cc 115-143).                          *)
THEOREM Encoded ==
    ASSUME NEW i \in Byte
    PROVE  /\ BinE(i)[1] \in 64..79 /\ BinE(i)[2] \in 64..79
           /\ BinD(BinE(i)[1], BinE(i)[2]) = i
<1>1. (i \div 16) % 16 = i \div 16 /\ i \div 16 \in 0..15 /\ i % 16 \in 0..15
    BY DEF Byte
<1>2. i = 16 * (i \div 16) + (i % 16)
    BY DEF Byte
<1>3. BinE(i)[1] = (i \div 16) + 64 /\ BinE(i)[2] = (i % 16) + 64
    BY <1>1 DEF BinE
<1>4. BinE(i)[1] - 64 = i \div 16 /\ BinE(i)[2] - 64 = i % 16
    BY <1>1, <1>3
<1>5. BinD(BinE(i)[1], BinE(i)[2]) = 16 * (i \div 16) + (i % 16)
    BY <1>4 DEF BinD
<1> QED BY <1>1, <1>2, <1>3, <1>5

(* A character comes back when its key byte is below 128.                  *)
LEMMA CharBack ==
    ASSUME NEW c \in Ascii, NEW k \in LowByte
    PROVE  CharD(CharE(c, k)[1], CharE(c, k)[2], k) = c
<1> DEFINE e == (c + k) % 256
<1>1. E(c, k) = e /\ e \in Byte
  <2>1. c \in Byte
      BY DEF Ascii, Byte
  <2>2. E(c, k) = e
      BY <2>1, LowElement
  <2>3. e \in Byte
      BY DEF Ascii, Byte, LowByte
  <2> QED BY <2>2, <2>3
<1>2. BinD(CharE(c, k)[1], CharE(c, k)[2]) = e
    BY <1>1, Encoded DEF CharE
<1>3. D(e, k) = (e - k) % 256
    BY <1>1, LowElement
<1>4. (e - k) % 256 = c
    BY DEF Ascii, LowByte
<1> QED BY <1>2, <1>3, <1>4 DEF CharD, ToChar, Ascii

(* With a key byte from 128 on a character becomes the one two before it,  *)
(* when the matrix has an element for it at all: the encrypted byte must   *)
(* not be 0 (otp.cc 218, 237).                                             *)
THEOREM HighKeyByteShifts ==
    ASSUME NEW c \in Ascii, NEW k \in HighByte, (c + k - 1) % 256 # 0, c > 1
    PROVE  CharD(CharE(c, k)[1], CharE(c, k)[2], k) = c - 2
<1> DEFINE e == (c + k - 1) % 256
<1>1. E(c, k) = e /\ e \in 1..255
  <2>1. c \in 1..255
      BY DEF Ascii
  <2>2. E(c, k) = e
      BY <2>1, HighElement
  <2>3. e \in 1..255
      BY DEF Ascii, HighByte
  <2> QED BY <2>2, <2>3
<1>2. BinD(CharE(c, k)[1], CharE(c, k)[2]) = e
  <2>1. e \in Byte
      BY <1>1 DEF Byte
  <2> QED BY <1>1, <2>1, Encoded DEF CharE
<1>3. D(e, k) = (e - 1 - k) % 256
    BY <1>1, HighElement
<1>4. (e - 1 - k) % 256 = c - 2
    BY DEF Ascii, HighByte
<1> QED BY <1>2, <1>3, <1>4 DEF CharD, ToChar, Ascii

(* Whatever the client encrypts, the server decrypts, and the other way    *)
(* round: a text of ASCII characters comes back when the key has a byte    *)
(* below 128 for each of them (otp.cc 211-241).                            *)
THEOREM TextBack ==
    ASSUME NEW pt \in Seq(Ascii), NEW otp \in Seq(LowByte), Len(pt) <= Len(otp)
    PROVE  otp_d_char(otp_e_char(pt, otp), otp) = pt
<1> DEFINE ct == otp_e_char(pt, otp)
<1>1. Len(pt) \in Nat /\ pt = [i \in 1..Len(pt) |-> pt[i]]
    OBVIOUS
<1>2. Len(ct) = 2 * Len(pt) /\ DOMAIN ct = 1..(2 * Len(pt))
    BY <1>1 DEF otp_e_char
<1>3. (2 * Len(pt)) \div 2 = Len(pt)
  <2>1. ASSUME NEW n \in Nat PROVE (2 * n) \div 2 = n
      OBVIOUS
  <2> QED BY <1>1, <2>1
<1>4. otp_d_char(ct, otp) = [i \in 1..Len(pt) |-> CharD(ct[2 * i - 1], ct[2 * i], otp[i])]
  <2>1. Len(ct) \div 2 = Len(pt)
      BY <1>2, <1>3
  <2> HIDE DEF ct
  <2> QED BY <2>1 DEF otp_d_char
<1>5. ASSUME NEW i \in 1..Len(pt)
      PROVE  CharD(ct[2 * i - 1], ct[2 * i], otp[i]) = pt[i]
  <2>1. pt[i] \in Ascii /\ otp[i] \in LowByte
      OBVIOUS
  <2>2. /\ 2 * i - 1 \in 1..(2 * Len(pt)) /\ 2 * i \in 1..(2 * Len(pt))
      BY <1>1
  <2>3. (2 * i - 1 + 1) \div 2 = i /\ (2 * i + 1) \div 2 = i
      BY i \in Int
  <2>4. (2 * i - 1) % 2 = 1 /\ (2 * i) % 2 = 0
      BY i \in Int
  <2>5. ct[2 * i - 1] = CharE(pt[i], otp[i])[1] /\ ct[2 * i] = CharE(pt[i], otp[i])[2]
      BY <2>2, <2>3, <2>4 DEF otp_e_char
  <2> QED BY <2>1, <2>5, CharBack
<1> QED BY <1>1, <1>4, <1>5

-----------------------------------------------------------------------------
(* The first key byte of c's command, and that of the answer to it.        *)
Length(c) == Len(Text(Typed[c]))
Start(c) == IF cpc[c] = "read" THEN of[c] - Length(c) ELSE of[c]
AnswerAt(c) == Start(c) + 2 * Length(c)
HasSent(c) == cpc[c] \in {"save", "read"}
Sending(c) == IF HasSent(c) THEN OtpMessage(Start(c), Encrypted(Start(c), Text(Typed[c]))) ELSE << >>
Message(c) == OtpMessage(AnswerAt(c), Encrypted(AnswerAt(c), said[c]))
Running(c) == cpc[c] \notin {"start", "done"}

Below(n) == \A u \in used : u.byte < n

(* Who is to wait has waited.                                              *)
Turns ==
    /\ \A c \in Clients : cpc[c] # "start" => \A d \in After[c] : ClientGone(d)
    /\ \A c \in Clients : cpc[c] = "save" => c \in Otps
    /\ \A c \in Otps : cpc[c] # "killed"

(* Until the answer comes, otpcmd is sent the "1" and nothing else.        *)
GreetedOf(c) ==
    /\ link[c] = "queued" \/ (conn = c /\ at \in {"read_data", "check_id"}) => cpc[c] = "hello"
    /\ conn = c /\ at \in {"read_more", "decide"} =>
         Stream(c) = IF cpc[c] = "hello" THEN <<Txt("1", NoName)>> ELSE << >>
Greeted == \A c \in Otps : GreetedOf(c)

(* What the server has of the command of an otpcmd, and what it leaves.    *)
SentOf(c) ==
    /\ HasSent(c) => Start(c) \in Nat /\ ~KeyTooShort(Start(c), Text(Typed[c]))
    /\ conn = c /\ at = "read_more" => buf \o inq[c] = Sending(c)
    /\ conn = c /\ at = "decide" =>
         \E k \in 0..Len(Sending(c)) : buf = SubSeq(Sending(c), 1, k) /\ k + Len(inq[c]) <= Len(Sending(c))
Sent == \A c \in Otps : SentOf(c)

(* No byte behind the command is used, or none behind the answer, which    *)
(* the client then gets whole: it has left nothing unread.                 *)
Plainly(c) ==
    /\ Below(Start(c) + Length(c))
    /\ ~Opens(Stream(c))
    /\ Answering(c) => \A i \in 1..Len(out) : out[i] # << >> /\ ~Opens(out[i])
Enciphered(c) ==
    /\ Below(AnswerAt(c) + Len(said[c])) /\ Len(said[c]) > 0
    /\ inq[c] = << >> /\ Answered(c) /\ c \notin reset
    /\ \/ Answering(c) /\ Stream(c) = << >> /\ out = <<Message(c)>>
       \/ Stream(c) = Message(c) /\ (Answering(c) => out = << >>)

(* The .pos file is ahead of every byte used, or an otpcmd is to write it. *)
PadOf(c) ==
    Running(c) =>
        /\ of[c] = pos
        /\ cpc[c] \in {"hello", "send"} => Below(pos)
        /\ HasSent(c) => Plainly(c) \/ Enciphered(c)
Pad ==
    /\ (\A c \in Otps : ~Running(c)) => Below(pos)
    /\ \A c \in Otps : PadOf(c)

(* Only a connection that the server has closed is reset.                  *)
Resets == \A c \in Clients : c \in reset => link[c] = "closed"

PadInv == AnswerInv /\ OwnKeys /\ Resets /\ Turns /\ Greeted /\ Sent /\ Pad /\ PadOnce

-----------------------------------------------------------------------------

LEMMA ClosedResets ==
    ASSUME NEW more, MayReset(more)
    PROVE  /\ reset' \subseteq reset \cup more \cup {conn}
           /\ reset' \subseteq reset \cup more \/ inq[conn] # << >>
  BY DEF MayReset

LEMMA ClientResets ==
    ASSUME NEW c \in Clients, Client(c) \/ GiveUp(c)
    PROVE  reset' \subseteq reset
  BY DEF Client, GiveUp, Connect, ConnectFails, GetOne, SendPlain, SendEncrypted, SavePos, ReadAnswer, FinishRead,
         Run, End, netVars

LEMMA ResetsStep ==
    ASSUME SessionInv, Resets, [Next]_vars
    PROVE  Resets'
  <1>0. NetTypes /\ Links /\ (at # "poll" => conn \in Clients)
    BY TypeParts DEF SessionInv, TypeInv
  <1>1. CASE Server /\ Closed
    <2>1. /\ reset' \subseteq reset \cup {conn}
          /\ link' = [link EXCEPT ![conn] = "closed"]
      BY <1>1, ClosedResets DEF Closed
    <2>2. at # "poll"
      BY <1>1 DEF Server, Terminate, Accept, Receive, ReceiveEnd, CheckId, GuiLine, GuiDone, Decide, SendAnswer,
                  CloseClient, Closed
    <2> QED
      BY <1>0, <2>1, <2>2 DEF Resets, NetTypes
  <1>2. CASE Terminate
    <2>1. reset' \subseteq reset \cup {c \in Clients : link[c] = "queued"} \cup {conn}
      BY <1>2, ClosedResets DEF Terminate
    <2>2. \A c \in Clients : link'[c] = IF link[c] = "queued" \/ c = conn THEN "closed" ELSE link[c]
      BY <1>2 DEF Terminate
    <2> QED
      BY <2>1, <2>2 DEF Resets
  <1>3. CASE Server /\ ~Closed /\ ~Terminate
    <2>1. reset' = reset /\ (link' = link \/ Accept)
      BY <1>3 DEF Server, Accept, Receive, ReceiveEnd, CheckId, CommandId, GuiId, BadId, GuiLine, GuiDone, Decide,
                  SendAnswer, CloseClient, netVars
    <2>2. CASE link' = link
      BY <2>1, <2>2 DEF Resets
    <2>3. CASE Accept
      BY <1>0, <2>1, <2>3 DEF Accept, Resets, NetTypes
    <2> QED
      BY <2>1, <2>2, <2>3
  <1>4. ASSUME NEW c \in Clients, Client(c) \/ GiveUp(c) PROVE Resets'
    <2>1. reset' \subseteq reset /\ \A d \in Clients \ {c} : link'[d] = link[d]
      BY <1>4, ClientResets, ClientOthers DEF SessionInv
    <2>2. c \in reset => link'[c] = link[c] \/ link'[c] = "closed"
      <3>1. cpc[c] = "start" => c \notin reset
        BY <1>0 DEF Links, Resets
      <3> QED
        BY <1>4, <3>1 DEF Client, GiveUp, Connect, ConnectFails, GetOne, SendPlain, SendEncrypted, SavePos,
                          ReadAnswer, FinishRead, netVars
    <2> QED
      BY <2>1, <2>2 DEF Resets
  <1>5. CASE UNCHANGED vars
    BY <1>5 DEF Resets, vars, netVars
  <1> QED
    BY <1>1, <1>2, <1>3, <1>4, <1>5 DEF Next, Quiet, AcceptFails

LEMMA OnlyOne ==
    ASSUME OneAtATime, Turns
    PROVE  \A c, d \in Otps : Running(c) /\ Running(d) => c = d
  <1> SUFFICES ASSUME NEW c \in Otps, NEW d \in Otps, Running(c), Running(d), c # d PROVE FALSE
    OBVIOUS
  <1>1. c \in After[d] \/ d \in After[c]
    BY DEF OneAtATime
  <1>2. ClientGone(c) \/ ClientGone(d)
    BY <1>1 DEF Turns, Running, Otps
  <1> QED
    BY <1>2 DEF Turns, Running, ClientGone

(* A step that leaves alone what Plainly and Enciphered speak of.          *)
LEMMA PlainlyKept ==
    ASSUME NEW c, Plainly(c), used' = used, Start(c)' = Start(c), Stream(c)' = Stream(c),
           Answering(c)' => Answering(c) /\ out' = out
    PROVE  Plainly(c)'
  <1>1. Below(Start(c) + Length(c))'
    BY DEF Plainly, Below, Length
  <1>2. ~Opens(Stream(c)')
    BY DEF Plainly
  <1> QED
    BY <1>1, <1>2 DEF Plainly

LEMMA EncipheredKept ==
    ASSUME NEW c, Enciphered(c), used' = used, Start(c)' = Start(c), Stream(c)' = Stream(c),
           said'[c] = said[c], inq'[c] = inq[c], c \in reset' => c \in reset,
           Answered(c)', Answering(c)' <=> Answering(c), Answering(c) => out' = out
    PROVE  Enciphered(c)'
  <1>1. AnswerAt(c)' = AnswerAt(c) /\ Message(c)' = Message(c)
    BY DEF AnswerAt, Message, Length
  <1>2. Below(AnswerAt(c) + Len(said[c]))'
    BY <1>1 DEF Enciphered, Below
  <1> QED
    BY <1>1, <1>2 DEF Enciphered

(* The elements of used that one text adds.                                *)
LEMMA KeyUseOnce ==
    ASSUME PadOnce, UsedTypes, NEW o \in Nat, NEW n \in Nat, NEW text \in Seq(TokenType), NEW c, NEW who,
           Below(n), n <= o, used' = used \cup KeyUse(o, text, c, who)
    PROVE  PadOnce' /\ \A m : m = o + Len(text) => Below(m)'
  <1>1. DOMAIN text = 1..Len(text) /\ Len(text) \in Nat
    OBVIOUS
  <1>2. ASSUME NEW u \in KeyUse(o, text, c, who)
        PROVE  u.byte \in Nat /\ o <= u.byte /\ u.byte < o + Len(text)
    BY <1>1 DEF KeyUse
  <1>3. ASSUME NEW u \in KeyUse(o, text, c, who), NEW v \in KeyUse(o, text, c, who), u.byte = v.byte
        PROVE  u = v
    <2>1. PICK i \in 1..Len(text) : u = [byte |-> o + i - 1, client |-> c, who |-> who, at |-> i]
      BY <1>1 DEF KeyUse
    <2>2. PICK j \in 1..Len(text) : v = [byte |-> o + j - 1, client |-> c, who |-> who, at |-> j]
      BY <1>1 DEF KeyUse
    <2>3. o + i - 1 = o + j - 1
      BY <1>3, <2>1, <2>2
    <2>4. i = j
      BY <2>3
    <2> QED
      BY <2>1, <2>2, <2>4
  <1>4. ASSUME NEW u \in used PROVE u.byte \in Nat /\ u.byte < n
    BY DEF UsedTypes, Below
  <1>5. PadOnce'
    <2> SUFFICES ASSUME NEW u \in used', NEW v \in used', u.byte = v.byte PROVE u = v
      BY DEF PadOnce
    <2>1. CASE u \in used /\ v \in used
      BY <2>1 DEF PadOnce
    <2>2. CASE u \in KeyUse(o, text, c, who) /\ v \in KeyUse(o, text, c, who)
      BY <1>3, <2>2
    <2>3. ASSUME NEW x \in used, NEW y \in KeyUse(o, text, c, who) PROVE x.byte # y.byte
      BY <1>2, <1>4
    <2> QED
      BY <2>1, <2>2, <2>3
  <1>6. ASSUME NEW u \in used' PROVE u.byte < o + Len(text)
    <2>1. CASE u \in used
      BY <1>1, <1>4, <2>1
    <2>2. CASE u \in KeyUse(o, text, c, who)
      BY <1>2, <2>2
    <2> QED
      BY <2>1, <2>2
  <1> QED
    BY <1>5, <1>6 DEF Below

(* A client that the server is not answering.                              *)
LEMMA AloneKept ==
    ASSUME NEW c, UNCHANGED <<cpc, of, got>>, used' = used, said'[c] = said[c], outq'[c] = outq[c],
           link'[c] = link[c] \/ link[c] # "closed", ~Answering(c), ~Answering(c)',
           c \in reset' => c \in reset \/ link[c] # "closed",
           inq'[c] = inq[c] \/ link[c] # "closed", Plainly(c) \/ Enciphered(c)
    PROVE  Plainly(c)' \/ Enciphered(c)'
  <1>1. Start(c)' = Start(c) /\ Stream(c)' = Stream(c)
    BY DEF Start, Stream, Length
  <1>2. CASE Plainly(c)
    BY <1>1, <1>2, PlainlyKept
  <1>3. CASE Enciphered(c)
    <2>1. link[c] = "closed"
      BY <1>3 DEF Enciphered, Answered
    <2>2. Answered(c)'
      BY <2>1 DEF Answered
    <2> QED
      BY <1>1, <1>3, <2>1, <2>2, EncipheredKept
  <1> QED
    BY <1>2, <1>3

(* A step of the server that uses no byte.                                 *)
LEMMA PadFrame ==
    ASSUME Turns, Pad, PadOnce, UNCHANGED <<cpc, of, pos, used>>,
           \A c \in Otps : HasSent(c) /\ (Plainly(c) \/ Enciphered(c)) => Plainly(c)' \/ Enciphered(c)'
    PROVE  Turns' /\ Pad' /\ PadOnce'
  <1>1. Turns' /\ PadOnce'
    BY DEF Turns, PadOnce, ClientGone, Otps
  <1>2. ASSUME NEW c \in Otps PROVE PadOf(c)'
    <2>1. (Running(c)' <=> Running(c)) /\ (HasSent(c)' <=> HasSent(c)) /\ (Below(pos)' <=> Below(pos))
      BY DEF Running, HasSent, Below
    <2>2. PadOf(c)
      BY DEF Pad
    <2> QED
      BY <2>1, <2>2 DEF PadOf
  <1>3. (\A c \in Otps : ~Running(c)') => Below(pos)'
    BY DEF Pad, Running, Below
  <1>4. Otps' = Otps
    BY DEF Otps
  <1> QED
    BY <1>1, <1>2, <1>3, <1>4, Zenon DEF Pad

LEMMA AcceptPad ==
    ASSUME PadInv, Accept
    PROVE  Turns' /\ Greeted' /\ Sent' /\ Pad' /\ PadOnce'
  <1>0. Turns /\ Greeted /\ Sent /\ Pad /\ PadOnce /\ NetTypes /\ at = "poll"
    BY TypeParts DEF PadInv, AnswerInv, SessionInv, Accept
  <1>1. PICK c \in Clients : link[c] = "queued" /\ conn' = c /\ link' = [link EXCEPT ![c] = "open"]
    BY DEF Accept
  <1>2. at' = "read_data" /\ UNCHANGED <<reset, inq, outq, got, cpc, of, pos, said, used>>
    BY DEF Accept, clientVars, ghostVars
  <1>3. link'[c] = "open" /\ \A d \in Clients \ {c} : link'[d] = link[d]
    BY <1>0, <1>1 DEF NetTypes
  <1>4. \A d \in Otps : d \in Clients /\ (link'[d] = link[d] \/ link[d] # "closed")
    BY <1>1, <1>3 DEF Otps
  <1>5. \A d \in Otps : ~Answering(d) /\ ~Answering(d)'
    BY <1>0, <1>2 DEF Answering
  <1>6. Turns' /\ Pad' /\ PadOnce'
    <2>1. ASSUME NEW d \in Otps, Plainly(d) \/ Enciphered(d) PROVE Plainly(d)' \/ Enciphered(d)'
      BY <1>2, <1>4, <1>5, <2>1, AloneKept
    <2> QED
      BY <1>0, <1>2, <2>1, PadFrame
  <1>7. Greeted'
    BY <1>0, <1>1, <1>2, <1>3 DEF Greeted, GreetedOf, Otps
  <1>8. Sent'
    BY <1>0, <1>2 DEF Sent, SentOf, HasSent, Start, Length, Otps
  <1> QED
    BY <1>6, <1>7, <1>8

(* recv() moves the command into buf, piece by piece; what is left over    *)
(* when the text is complete is no part of what was read.                  *)
LEMMA CommandReceived ==
    ASSUME SessionInv, Receive, at = "read_more", NEW s, s = buf \o inq[conn]
    PROVE  /\ \A d \in Clients \ {conn} : inq'[d] = inq[d]
           /\ \/ at' = "read_more" /\ buf' \o inq'[conn] = s
              \/ /\ at' = "decide"
                 /\ \E k \in 0..Len(s) : buf' = SubSeq(s, 1, k) /\ k + Len(inq'[conn]) <= Len(s)
  <1>0. /\ conn \in Clients /\ inq \in [Clients -> Seq(TokenType)] /\ buf \in Seq(TokenType)
    BY TypeParts DEF SessionInv, TypeInv, NetTypes, TextTypes
  <1>1. PICK q : q = inq[conn]
    OBVIOUS
  <1>2. PICK n \in 1..Len(q) :
          /\ inq' = [inq EXCEPT ![conn] = SubSeq(q, n + 1, Len(q))]
          /\ IF EndsIn(buf \o SubSeq(q, 1, n)) = {}
               THEN buf' = buf \o SubSeq(q, 1, n) /\ UNCHANGED at
               ELSE buf' = CutAtEnd(buf \o SubSeq(q, 1, n)) /\ at' = NextState
    BY <1>1, Zenon DEF Receive, Gathered
  <1>3. PICK b : b = buf \o SubSeq(q, 1, n)
    OBVIOUS
  <1>4. PICK rest : rest = SubSeq(q, n + 1, Len(q))
    OBVIOUS
  <1>5. q \in Seq(TokenType) /\ b \in Seq(TokenType) /\ rest \in Seq(TokenType) /\ b \o rest = buf \o q
    <2>1. q \in Seq(TokenType) /\ n \in 1..Len(q) /\ buf \in Seq(TokenType)
      BY <1>0, <1>1
    <2> QED
      BY <1>3, <1>4, <2>1, Pieces, Zenon
  <1>6. s \in Seq(TokenType) /\ s = b \o rest /\ Len(s) = Len(b) + Len(rest) /\ Len(b) \in Nat /\ Len(rest) \in Nat
    <2>1. s = b \o rest
      BY <1>1, <1>5
    <2>2. b \o rest \in Seq(TokenType) /\ Len(b \o rest) = Len(b) + Len(rest)
      BY <1>5, Joined
    <2>3. Len(b) \in Nat /\ Len(rest) \in Nat
      BY <1>5
    <2> QED
      BY <2>1, <2>2, <2>3
  <1>7. inq'[conn] = rest /\ \A d \in Clients \ {conn} : inq'[d] = inq[d]
    BY <1>0, <1>2, <1>4
  <1>8. \/ EndsIn(b) = {} /\ buf' = b /\ at' = at
        \/ EndsIn(b) # {} /\ buf' = CutAtEnd(b) /\ at' = NextState
    BY <1>2, <1>3, Zenon
  <1>9. CASE EndsIn(b) = {} /\ buf' = b /\ at' = at
    BY <1>6, <1>7, <1>9
  <1>10. CASE EndsIn(b) # {} /\ buf' = CutAtEnd(b) /\ at' = NextState
    <2>1. PICK e \in 2..Len(b) : CutAtEnd(b) = SubSeq(b, 1, IF b[e].class = "gt" THEN e ELSE e - 1)
      BY <1>5, <1>10, CutIsPrefix
    <2>2. PICK k : k = IF b[e].class = "gt" THEN e ELSE e - 1
      OBVIOUS
    <2>3. k \in 0..Len(b)
      BY <1>6, <2>1, <2>2
    <2>4. buf' = SubSeq(b, 1, k)
      BY <1>10, <2>1, <2>2
    <2>5. SubSeq(b, 1, k) = SubSeq(s, 1, k) /\ k \in 0..Len(s)
      <3>1. b \in Seq(TokenType) /\ rest \in Seq(TokenType)
        BY <1>5
      <3>2. SubSeq(b, 1, k) = SubSeq(b \o rest, 1, k) /\ k \in 0..Len(b \o rest)
        BY <2>3, <3>1, Beginning
      <3> QED
        BY <1>6, <3>2
    <2>6. k + Len(rest) <= Len(s)
      BY <1>6, <2>3
    <2>7. at' = "decide"
      BY <1>10 DEF NextState
    <2> QED
      BY <1>7, <2>4, <2>5, <2>6, <2>7
  <1> QED
    BY <1>8, <1>9, <1>10

LEMMA SendingType ==
    ASSUME Sent, NEW c \in Otps
    PROVE  Sending(c) \in Seq(TokenType)
  <1>1. c \in Clients
    BY DEF Otps
  <1>2. CASE ~HasSent(c)
    BY <1>2 DEF Sending
  <1>3. CASE HasSent(c)
    <2>1. Start(c) \in Nat
      BY <1>3 DEF Sent, SentOf
    <2>2. Text(Typed[c]) \in Seq(TokenType)
      BY <1>1, TypedType
    <2>3. OtpMessage(Start(c), Encrypted(Start(c), Text(Typed[c]))) \in Seq(TokenType)
      BY <2>1, <2>2, EncryptedType, OtpMessageType
    <2> QED
      BY <1>3, <2>3 DEF Sending
  <1> QED
    BY <1>2, <1>3

LEMMA ReceivePad ==
    ASSUME PadInv, Receive \/ ReceiveEnd
    PROVE  Turns' /\ Greeted' /\ Sent' /\ Pad' /\ PadOnce'
  <1>0. /\ Turns /\ Greeted /\ Sent /\ Pad /\ PadOnce /\ Links /\ SessionInv /\ conn \in Clients
        /\ at \in {"read_data", "read_more"} /\ buf \in Seq(TokenType)
        /\ inq \in [Clients -> Seq(TokenType)]
    BY TypeParts DEF PadInv, AnswerInv, SessionInv, TypeInv, Receive, ReceiveEnd, TextTypes, NetTypes
  <1>1. UNCHANGED <<conn, link, reset, outq, got, cpc, of, pos, said, used>> /\ at' \in {at, NextState}
    BY DEF Receive, ReceiveEnd, clientVars, ghostVars, netVars
  <1>2. link[conn] # "closed"
    BY <1>0 DEF Links, ReceiveEnd
  <1>3. \A d \in Clients \ {conn} : inq'[d] = inq[d]
    BY <1>0 DEF Receive, ReceiveEnd, netVars
  <1>4. \A d \in Otps : ~Answering(d) /\ ~Answering(d)'
    BY <1>0, <1>1 DEF Answering, NextState
  <1>5. Turns' /\ Pad' /\ PadOnce'
    <2>1. ASSUME NEW d \in Otps, Plainly(d) \/ Enciphered(d) PROVE Plainly(d)' \/ Enciphered(d)'
      <3>1. link'[d] = link[d] /\ (inq'[d] = inq[d] \/ link[d] # "closed")
        BY <1>1, <1>2, <1>3 DEF Otps
      <3> QED
        BY <1>1, <1>4, <2>1, <3>1, AloneKept
    <2> QED
      BY <1>0, <1>1, <2>1, PadFrame
  <1>6. Greeted'
    <2>1. \A d \in Otps : Stream(d)' = Stream(d)
      BY <1>1 DEF Stream
    <2> QED
      BY <1>0, <1>1, <2>1 DEF Greeted, GreetedOf, NextState, Otps
  <1>7. Sent'
    <2>1. \A c \in Otps : Sending(c)' = Sending(c) /\ Start(c)' = Start(c) /\ (HasSent(c)' <=> HasSent(c))
      BY <1>1 DEF Sending, Start, HasSent, Length
    <2>2. ASSUME NEW c \in Otps, c = conn, NEW s, s = Sending(c)
          PROVE  /\ at' = "read_more" => buf' \o inq'[c] = s
                 /\ at' = "decide" => \E k \in 0..Len(s) : buf' = SubSeq(s, 1, k) /\ k + Len(inq'[c]) <= Len(s)
      <3>1. CASE at = "read_data"
        BY <1>1, <3>1 DEF NextState
      <3>2. CASE at = "read_more" /\ Receive
        <4>1. s = buf \o inq[conn]
          BY <1>0, <2>2, <3>2 DEF Sent, SentOf
        <4> QED
          BY <1>0, <2>2, <3>2, <4>1, CommandReceived
      <3>3. CASE at = "read_more" /\ ReceiveEnd
        <4>1. s = buf \o inq[conn] /\ inq[conn] = << >> /\ buf' = buf /\ inq' = inq
          BY <1>0, <2>2, <3>3 DEF Sent, SentOf, ReceiveEnd, netVars
        <4>2. s = buf /\ s \in Seq(TokenType)
          BY <1>0, <4>1, ConcatEmptySeq
        <4>3. Len(s) \in 0..Len(s) /\ s = SubSeq(s, 1, Len(s)) /\ Len(s) + Len(<< >>) <= Len(s)
          BY <4>2, SubSeqFull
        <4>4. at' = "decide"
          BY <3>3 DEF ReceiveEnd, NextState
        <4> QED
          BY <2>2, <4>1, <4>2, <4>3, <4>4
      <3> QED
        BY <1>0, <3>1, <3>2, <3>3
    <2>3. Otps' = Otps
      BY DEF Otps
    <2> QED
      BY <1>0, <1>1, <2>1, <2>2, <2>3 DEF Sent, SentOf
  <1> QED
    BY <1>5, <1>6, <1>7

(* The server with a client that it is not answering: the others notice    *)
(* nothing, and this one is no otpcmd that has sent its command.           *)
LEMMA PadAside ==
    ASSUME PadInv, conn \in Clients, UNCHANGED <<conn, got, cpc, of, pos, used>>, at # "poll",
           reset' \subseteq reset \cup {conn},
           \A d \in Clients \ {conn} :
               outq'[d] = outq[d] /\ link'[d] = link[d] /\ inq'[d] = inq[d] /\ said'[d] = said[d],
           conn \in Otps /\ HasSent(conn) /\ (Plainly(conn) \/ Enciphered(conn)) =>
               Plainly(conn)' \/ Enciphered(conn)'
    PROVE  Turns' /\ Pad' /\ PadOnce'
  <1>1. ASSUME NEW d \in Otps, d # conn, Plainly(d) \/ Enciphered(d) PROVE Plainly(d)' \/ Enciphered(d)'
    <2>1. ~Answering(d) /\ ~Answering(d)'
      BY <1>1 DEF Answering
    <2>2. /\ outq'[d] = outq[d] /\ link'[d] = link[d] /\ inq'[d] = inq[d] /\ said'[d] = said[d]
          /\ d \in reset' => d \in reset
      BY <1>1 DEF Otps
    <2> QED
      BY <1>1, <2>1, <2>2, AloneKept
  <1>2. ASSUME NEW d \in Otps, d = conn, HasSent(d), Plainly(d) \/ Enciphered(d)
        PROVE  Plainly(d)' \/ Enciphered(d)'
    <2>1. Plainly(conn)' \/ Enciphered(conn)'
      BY <1>2
    <2>2. d = conn'
      BY <1>2
    <2> QED
      BY <2>1, <2>2 DEF Plainly, Enciphered, Start, AnswerAt, Length, Message, Stream, Answered, Answering
  <1>3. Turns /\ Pad /\ PadOnce
    BY DEF PadInv
  <1> QED
    BY <1>1, <1>2, <1>3, PadFrame

LEMMA CheckIdPad ==
    ASSUME PadInv, CheckId
    PROVE  Turns' /\ Greeted' /\ Sent' /\ Pad' /\ PadOnce'
  <1>0. /\ Greeted /\ Sent /\ Links /\ Descriptor /\ Identifying /\ Hearing /\ conn \in Clients
        /\ at = "check_id" /\ NetTypes /\ ClientTypes
    BY TypeParts DEF PadInv, AnswerInv, SessionInv, TypeInv, CheckId
  <1>1. buf' = << >> /\ UNCHANGED <<conn, got, cpc, of, pos, said, used>>
    BY DEF CheckId, clientVars, ghostVars
  <1>2. conn \in Otps => cpc[conn] = "hello" /\ got[conn] = << >>
    BY <1>0 DEF Greeted, GreetedOf, Hearing
  <1>3. /\ \A d \in Clients \ {conn} : outq'[d] = outq[d] /\ link'[d] = link[d] /\ inq'[d] = inq[d]
        /\ at' \in {"read_more", "poll", "gui"} /\ reset' \subseteq reset \cup {conn}
        /\ link' = link \/ link' = [link EXCEPT ![conn] = "closed"]
    BY <1>0, ClosedResets DEF CheckId, CommandId, GuiId, BadId, SendWorks, Closed, MayReset, NetTypes, netVars
  <1>4. Turns' /\ Pad' /\ PadOnce'
    <2>1. ~(conn \in Otps /\ HasSent(conn))
      BY <1>2 DEF HasSent
    <2> QED
      BY <1>0, <1>1, <1>3, <2>1, PadAside
  <1>5. ASSUME conn \in Otps, at' = "read_more" PROVE outq'[conn] = <<Txt("1", NoName)>> /\ inq' = inq
    <2>1. SendWorks(<<Txt("1", NoName)>>) /\ inq' = inq
      BY <1>5 DEF CheckId, CommandId, GuiId, BadId
    <2>2. ~ClientGone(conn)
      BY <1>2, <1>5 DEF ClientGone
    <2>3. outq'[conn] = outq[conn] \o <<Txt("1", NoName)>>
      BY <1>0, <2>1, <2>2 DEF SendWorks, NetTypes
    <2>4. outq[conn] = << >>
      BY <1>0 DEF Identifying
    <2>5. << >> \o <<Txt("1", NoName)>> = <<Txt("1", NoName)>>
      OBVIOUS
    <2> QED
      BY <2>1, <2>3, <2>4, <2>5
  <1>6. Greeted'
    <2> SUFFICES ASSUME NEW c \in Otps
                 PROVE /\ link'[c] = "queued" \/ (conn' = c /\ at' \in {"read_data", "check_id"}) => cpc'[c] = "hello"
                       /\ conn' = c /\ at' \in {"read_more", "decide"} =>
                            Stream(c)' = IF cpc'[c] = "hello" THEN <<Txt("1", NoName)>> ELSE << >>
      BY DEF Greeted, GreetedOf, Otps
    <2>1. link'[c] = "queued" \/ (conn' = c /\ at' \in {"read_data", "check_id"}) => cpc'[c] = "hello"
      BY <1>0, <1>1, <1>3 DEF Greeted, GreetedOf, NetTypes, Otps
    <2>2. ASSUME conn = c, at' = "read_more" PROVE Stream(c)' = <<Txt("1", NoName)>>
      <3>1. got'[c] = << >> /\ outq'[c] = <<Txt("1", NoName)>>
        BY <1>1, <1>2, <1>5, <2>2
      <3>2. << >> \o <<Txt("1", NoName)>> = <<Txt("1", NoName)>>
        OBVIOUS
      <3> QED
        BY <3>1, <3>2 DEF Stream
    <2> QED
      BY <1>1, <1>2, <1>3, <2>1, <2>2
  <1>7. Sent'
    <2> SUFFICES ASSUME NEW c \in Otps
                 PROVE  /\ HasSent(c)' => Start(c)' \in Nat /\ ~KeyTooShort(Start(c)', Text(Typed[c]))
                        /\ conn' = c /\ at' = "read_more" => buf' \o inq'[c] = Sending(c)'
                        /\ at' # "decide"
      BY DEF Sent, SentOf, Otps
    <2>1. (HasSent(c)' <=> HasSent(c)) /\ Start(c)' = Start(c)
      BY <1>1 DEF HasSent, Start, Length
    <2>2. ASSUME conn = c, at' = "read_more" PROVE buf' \o inq'[c] = Sending(c)'
      <3>1. inq'[c] = << >>
        BY <1>0, <1>5, <2>2 DEF Identifying
      <3>2. Sending(c)' = << >>
        BY <1>1, <1>2, <2>2 DEF Sending, HasSent
      <3>3. << >> \o << >> = << >>
        OBVIOUS
      <3> QED
        BY <1>1, <3>1, <3>2, <3>3
    <2> QED
      BY <1>0, <1>1, <1>3, <2>1, <2>2 DEF Sent, SentOf
  <1> QED
    BY <1>4, <1>6, <1>7

(* The page, and the end of an answer.                                     *)
LEMMA GuiPad ==
    ASSUME PadInv, GuiLine \/ GuiDone \/ CloseClient
    PROVE  Turns' /\ Greeted' /\ Sent' /\ Pad' /\ PadOnce'
  <1>0. /\ Greeted /\ Sent /\ Links /\ Descriptor /\ Hearing /\ conn \in Clients
        /\ at \in {"gui", "answer"} /\ NetTypes /\ ClientTypes
    BY TypeParts DEF PadInv, AnswerInv, SessionInv, TypeInv, GuiLine, GuiDone, CloseClient
  <1>1. UNCHANGED <<conn, got, cpc, of, pos, said, used>>
    BY DEF GuiLine, GuiDone, CloseClient, clientVars, ghostVars
  <1>2. /\ \A d \in Clients \ {conn} : outq'[d] = outq[d] /\ link'[d] = link[d] /\ inq'[d] = inq[d]
        /\ at' \in {"poll", "gui"} /\ reset' \subseteq reset \cup {conn}
        /\ link' = link \/ link' = [link EXCEPT ![conn] = "closed"]
    BY <1>0, ClosedResets DEF GuiLine, GuiDone, CloseClient, SendWorks, Closed, MayReset, NetTypes
  <1>3. Greeted'
    <2>1. \A c \in Otps : link'[c] = "queued" => link[c] = "queued"
      BY <1>0, <1>2 DEF NetTypes, Otps
    <2> QED
      BY <1>0, <1>1, <1>2, <2>1 DEF Greeted, GreetedOf, Otps
  <1>4. Sent'
    BY <1>0, <1>1, <1>2 DEF Sent, SentOf, HasSent, Start, Length, Otps
  <1>5. CASE at = "gui"
    <2>1. conn \notin Otps
      BY <1>0, <1>5 DEF Descriptor, Otps
    <2> QED
      BY <1>0, <1>1, <1>2, <1>3, <1>4, <2>1, PadAside
  <1>6. CASE at = "answer"
    <2>1. Closed /\ at' = "poll" /\ out = << >> /\ out' = out
      BY <1>6 DEF GuiLine, GuiDone, CloseClient
    <2>2. /\ link' = [link EXCEPT ![conn] = "closed"] /\ inq' = [inq EXCEPT ![conn] = << >>]
          /\ \/ outq' = outq
             \/ inq[conn] # << >> /\ outq' = [outq EXCEPT ![conn] = << >>]
      BY <2>1, Zenon DEF Closed, MayReset
    <2>a. reset' \subseteq reset \/ inq[conn] # << >>
      BY <2>1, ClosedResets DEF Closed
    <2>3. PICK c \in Clients : c = conn
      BY <1>0
    <2>4. Start(c)' = Start(c) /\ Answering(c) /\ ~Answering(c)' /\ Answered(c)' /\ inq'[c] = << >>
      BY <1>0, <1>1, <1>6, <2>1, <2>2, <2>3 DEF Start, Answering, Answered, NetTypes, Length
    <2>5. outq'[c] = outq[c] \/ (inq[c] # << >> /\ outq'[c] = << >>)
      BY <1>0, <2>2, <2>3 DEF NetTypes
    <2>6. ASSUME Plainly(c) PROVE Plainly(c)'
      <3>1. ~Opens(Stream(c)')
        <4>1. got[c] \in Seq(TokenType) /\ outq[c] \in Seq(TokenType)
          BY <1>0, StreamTypes
        <4>2. ~Opens(Stream(c))
          BY <2>6 DEF Plainly
        <4>3. CASE outq'[c] = outq[c]
          BY <1>1, <4>2, <4>3 DEF Stream
        <4>4. CASE outq'[c] = << >>
          <5>1. Stream(c)' = got[c]
            BY <1>1, <4>1, <4>4, ConcatEmptySeq DEF Stream
          <5>2. got[c] = << >> \/ (Opens(got[c]) <=> Opens(Stream(c)))
            BY <4>1, OpensJoined DEF Stream
          <5> QED
            BY <4>2, <5>1, <5>2, EmptyText
        <4> QED
          BY <2>5, <4>3, <4>4
      <3>2. Below(Start(c) + Length(c))'
        BY <1>1, <2>4, <2>6 DEF Plainly, Below, Length
      <3> QED
        BY <2>4, <3>1, <3>2 DEF Plainly
    <2>7. ASSUME Enciphered(c) PROVE Enciphered(c)'
      <3>1. inq[c] = << >> /\ outq'[c] = outq[c] /\ c \notin reset'
        BY <2>3, <2>5, <2>7, <2>a DEF Enciphered
      <3>2. Stream(c) = Message(c)
        <4>1. << >> # <<Message(c)>>
          OBVIOUS
        <4> QED
          BY <2>1, <2>7, <4>1 DEF Enciphered
      <3>3. Stream(c)' = Stream(c) /\ AnswerAt(c)' = AnswerAt(c) /\ Message(c)' = Message(c)
        BY <1>1, <2>4, <3>1 DEF Stream, AnswerAt, Message, Length
      <3>4. Below(AnswerAt(c) + Len(said[c]))' /\ Len(said'[c]) > 0
        BY <1>1, <2>7, <3>3 DEF Enciphered, Below
      <3> QED
        BY <2>4, <3>1, <3>2, <3>3, <3>4 DEF Enciphered
    <2>8. Turns' /\ Pad' /\ PadOnce'
      <3>1. Plainly(conn) \/ Enciphered(conn) => Plainly(conn)' \/ Enciphered(conn)'
        BY <1>1, <2>3, <2>6, <2>7
           DEF Plainly, Enciphered, Start, AnswerAt, Length, Message, Stream, Answered, Answering
      <3> QED
        BY <1>0, <1>1, <1>2, <3>1, PadAside
    <2> QED
      BY <1>3, <1>4, <2>8
  <1> QED
    BY <1>0, <1>5, <1>6

LEMMA SendAnswerPad ==
    ASSUME PadInv, SendAnswer
    PROVE  Turns' /\ Greeted' /\ Sent' /\ Pad' /\ PadOnce'
  <1>0. /\ Greeted /\ Sent /\ Turns /\ Links /\ Descriptor /\ Hearing /\ TypeInv /\ conn \in Clients
        /\ at = "answer" /\ NetTypes /\ ClientTypes /\ out # << >> /\ out \in Seq(Seq(TokenType))
    BY TypeParts DEF PadInv, AnswerInv, SessionInv, TypeInv, SendAnswer, TextTypes
  <1>1. /\ UNCHANGED <<conn, got, cpc, of, pos, said, used, at, link, reset, inq, fd>> /\ out' = Tail(out)
    BY DEF SendAnswer, clientVars, ghostVars
  <1>2. PICK text : text = Head(out)
    OBVIOUS
  <1>3. text = out[1] /\ text \in Seq(TokenType) /\ Len(out) \in Nat /\ 1 \in 1..Len(out)
    BY <1>0, <1>2
  <1>4. \A d \in Clients \ {conn} : outq'[d] = outq[d]
    BY <1>0 DEF SendAnswer, SendWorks, NetTypes
  <1>5. Greeted'
    BY <1>0, <1>1 DEF Greeted, GreetedOf, Otps
  <1>6. Sent'
    BY <1>0, <1>1 DEF Sent, SentOf, HasSent, Start, Length, Otps
  <1>7. ASSUME NEW c \in Otps, c = conn, HasSent(c), Plainly(c) \/ Enciphered(c)
        PROVE  Plainly(c)' \/ Enciphered(c)'
    <2>0. Answering(c) /\ Answering(c)' /\ Answered(c)' /\ Start(c)' = Start(c) /\ ~ClientGone(c) /\ fd = "open"
      BY <1>0, <1>1, <1>7 DEF Answering, Answered, Start, Length, ClientGone, HasSent, Descriptor
    <2>1. SendWorks(text)
      BY <1>2, <1>7, <2>0, Zenon DEF SendAnswer, SendFails
    <2>2. outq'[c] = outq[c] \o text
      BY <1>0, <1>7, <2>0, <2>1 DEF SendWorks, NetTypes
    <2>3. Stream(c) \in Seq(TokenType) /\ Stream(c)' = Stream(c) \o text
      <3>1. PICK g : g = got[c]
        OBVIOUS
      <3>2. PICK o : o = outq[c]
        OBVIOUS
      <3>3. g \in Seq(TokenType) /\ o \in Seq(TokenType) /\ Stream(c) \in Seq(TokenType)
        BY <1>0, <1>7, <3>1, <3>2, StreamTypes
      <3>4. g \o (o \o text) = (g \o o) \o text
        <4>1. g \in Seq(TokenType) /\ o \in Seq(TokenType) /\ text \in Seq(TokenType)
          BY <1>3, <3>3
        <4> QED
          BY <4>1, ConcatAssociative, SMTT(60)
      <3> QED
        BY <1>1, <2>2, <3>1, <3>2, <3>3, <3>4 DEF Stream
    <2>4. CASE Plainly(c)
      <3>1. out[1] # << >> /\ ~Opens(out[1]) /\ ~Opens(Stream(c))
        BY <1>3, <2>0, <2>4 DEF Plainly
      <3>2. ~Opens(Stream(c)')
        <4>1. PICK s : s = Stream(c)
          OBVIOUS
        <4>2. s \in Seq(TokenType) /\ ~Opens(s) /\ ~Opens(text)
          BY <1>3, <2>3, <3>1, <4>1
        <4>3. ~Opens(s \o text)
          BY <1>3, <4>2, OpensJoined
        <4> QED
          BY <2>3, <4>1, <4>3
      <3>3. \A i \in 1..Len(out') : out'[i] # << >> /\ ~Opens(out'[i])
        <4>1. \A i \in 1..Len(out') : out'[i] = out[i + 1] /\ i + 1 \in 1..Len(out)
          BY <1>0, <1>1
        <4>2. \A i \in 1..Len(out) : out[i] # << >> /\ ~Opens(out[i])
          BY <2>0, <2>4 DEF Plainly
        <4> QED
          BY <4>1, <4>2
      <3>4. Below(Start(c) + Length(c))'
        BY <1>1, <2>0, <2>4 DEF Plainly, Below, Length
      <3> QED
        BY <3>2, <3>3, <3>4 DEF Plainly
    <2>5. CASE Enciphered(c)
      <3>1. AnswerAt(c)' = AnswerAt(c) /\ Message(c)' = Message(c) /\ said'[c] = said[c] /\ inq'[c] = << >>
        BY <1>1, <2>0, <2>5 DEF AnswerAt, Message, Length, Enciphered
      <3>2. Stream(c) = << >> /\ out = <<Message(c)>>
        BY <1>0, <2>0, <2>5 DEF Enciphered
      <3>3. PICK m : m = Message(c)
        OBVIOUS
      <3>4. out' = << >> /\ text = m
        <4>1. \A x : Tail(<<x>>) = << >> /\ Head(<<x>>) = x
          OBVIOUS
        <4> QED
          BY <1>1, <1>2, <3>2, <3>3, <4>1
      <3>5. Stream(c)' = Message(c)
        BY <1>3, <2>3, <3>2, <3>3, <3>4, OpensJoined
      <3>6. Below(AnswerAt(c) + Len(said[c]))' /\ Len(said'[c]) > 0
        BY <1>1, <2>5, <3>1 DEF Enciphered, Below
      <3> QED
        BY <1>1, <2>0, <2>5, <3>1, <3>4, <3>5, <3>6 DEF Enciphered
    <2> QED
      BY <1>7, <2>4, <2>5
  <1>8. Turns' /\ Pad' /\ PadOnce'
    <2>1. conn \in Otps /\ HasSent(conn) /\ (Plainly(conn) \/ Enciphered(conn)) => Plainly(conn)' \/ Enciphered(conn)'
      <3>1. PICK c : c = conn
        OBVIOUS
      <3> QED
        BY <1>1, <1>7, <3>1
           DEF Plainly, Enciphered, Start, AnswerAt, Length, Message, Stream, Answered, Answering
    <2> QED
      BY <1>0, <1>1, <1>4, <2>1, PadAside
  <1> QED
    BY <1>5, <1>6, <1>8

(* An encrypted command that the server can read is the whole of one that  *)
(* an otpcmd has sent, and there is nothing left of it.                    *)
LEMMA OtpDecided ==
    ASSUME PadInv, at = "decide", IsOtp(buf)
    PROVE  /\ conn \in Otps /\ HasSent(conn) /\ inq[conn] = << >>
           /\ AnswerOffset(buf) = AnswerAt(conn)
           /\ \E o \in Nat : CommandIn(buf) = ParseString(Decrypted(o, Encrypted(o, Text(Typed[conn]))))
  <1>0. /\ SessionInv /\ OwnKeys /\ Sent /\ conn \in Clients
        /\ buf \in Seq(TokenType) /\ inq[conn] \in Seq(TokenType)
    BY TypeParts DEF PadInv, AnswerInv, SessionInv, TypeInv, TextTypes, NetTypes
  <1>1. conn \in Otps
    BY <1>0, DecidedCommand DEF Otps, Speaks
  <1>2. PICK s : s = Sending(conn)
    OBVIOUS
  <1>3. PICK k \in 0..Len(s) : buf = SubSeq(s, 1, k) /\ k + Len(inq[conn]) <= Len(s)
    BY <1>0, <1>1, <1>2 DEF Sent, SentOf
  <1>4. s \in Seq(TokenType) /\ Len(s) \in Nat
    BY <1>0, <1>1, <1>2, SendingType
  <1>5. Len(buf) = k /\ k > 4 /\ \A i \in 1..k : buf[i] = s[i]
    <2>1. Len(buf) = k /\ \A i \in 1..k : buf[i] = s[i]
      BY <1>3, <1>4, PartType
    <2>2. Len(buf) > 4
      BY DEF IsOtp
    <2> QED
      BY <2>1, <2>2
  <1>6. HasSent(conn)
    <2>1. s # << >>
      BY <1>3, <1>5
    <2> QED
      BY <1>2, <2>1 DEF Sending
  <1>7. PICK o : o = Start(conn)
    OBVIOUS
  <1>8. PICK t : t = Text(Typed[conn])
    OBVIOUS
  <1>9. o \in Nat /\ ~KeyTooShort(o, t) /\ s = OtpMessage(o, Encrypted(o, t))
    BY <1>0, <1>1, <1>2, <1>6, <1>7, <1>8 DEF Sent, SentOf, Sending
  <1>10. t \in Seq(TokenType) /\ \A x \in Range(t) : x.key = Plain
    <2>1. Typed[conn] \in Command /\ t \in Seq(TokenType)
      BY <1>0, <1>8, TypedType
    <2>2. \A i \in 1..Len(t) : t[i].key = Plain
      BY <1>8, <2>1, TextTokens
    <2> QED
      BY <2>1, <2>2 DEF Range
  <1>11. Begins(buf, t)
    <2>1. s \in Ciphers(t)
      BY <1>9, <1>10, CipherTells
    <2> QED
      BY <1>3, <2>1 DEF Begins
  <1>12. PICK p \in 0..KeyLen : buf = OtpMessage(p, Encrypted(p, t)) /\ OtpOffset(buf) = p
                                /\ OtpContents(buf) = Encrypted(p, t)
    BY <1>10, <1>11, WholeCipher
  <1>13. p = o
    <2>1. s[1] = Open("otp", NoName, o)
      <3>1. PICK cy : cy = Encrypted(o, t)
        OBVIOUS
      <3>2. cy \in Seq(TokenType)
        BY <1>9, <1>10, <3>1, EncryptedType
      <3>3. s = OtpMessage(o, cy)
        BY <1>9, <3>1
      <3>4. PICK m : m = OtpMessage(o, cy)
        OBVIOUS
      <3>5. m[1] = Open("otp", NoName, o)
        BY <1>9, <3>2, <3>4, OtpMessageType
      <3> QED
        BY <3>3, <3>4, <3>5
    <2>2. 1 \in 1..k
      BY <1>5
    <2>3. buf[1] = s[1]
      BY <1>5, <2>2
    <2>4. OtpOffset(buf) = buf[1].n
      BY DEF OtpOffset
    <2> QED
      BY <1>12, <2>1, <2>3, <2>4, TokensDiffer
  <1>14. buf = s
    BY <1>9, <1>12, <1>13
  <1>15. inq[conn] = << >>
    <2>1. k = Len(s) /\ Len(inq[conn]) \in Nat
      BY <1>0, <1>5, <1>14
    <2>2. Len(inq[conn]) = 0
      BY <1>3, <1>4, <2>1
    <2> QED
      BY <1>0, <2>2, EmptySeq
  <1>16. AnswerOffset(buf) = AnswerAt(conn)
    <2>1. PICK cy : cy = Encrypted(o, t)
      OBVIOUS
    <2>2. Len(cy) = Len(t)
      BY <1>9, <1>10, <2>1, EncryptedType
    <2>3. AnswerOffset(buf) = o + 2 * Len(cy)
      BY <1>12, <1>13, <2>1 DEF AnswerOffset, EncodedSize
    <2> QED
      BY <1>7, <1>8, <2>2, <2>3 DEF AnswerAt, Length
  <1>17. CommandIn(buf) = ParseString(Decrypted(o, Encrypted(o, Text(Typed[conn]))))
    BY <1>8, <1>12, <1>13 DEF CommandIn
  <1> QED
    BY <1>1, <1>6, <1>9, <1>15, <1>16, <1>17

(* An answer that is not encrypted.                                        *)
LEMMA PlainlyDecided ==
    ASSUME PadInv, at = "decide", at' = "answer", UNCHANGED <<conn, fd, closes, netVars, clientVars, used>>,
           \A d \in Clients \ {conn} : said'[d] = said[d],
           conn \in Otps => \A i \in 1..Len(out') : out'[i] # << >> /\ ~Opens(out'[i])
    PROVE  Turns' /\ Pad' /\ PadOnce'
  <1>0. conn \in Clients /\ link[conn] = "open" /\ UNCHANGED <<cpc, of, got, pos, link, reset, inq, outq>>
    BY DEF PadInv, AnswerInv, SessionInv, TypeInv, Links, netVars, clientVars
  <1>1. ASSUME conn \in Otps, Plainly(conn) \/ Enciphered(conn) PROVE Plainly(conn)'
    <2>1. ~Enciphered(conn)
      BY <1>0 DEF Enciphered, Answered, Answering
    <2>2. Below(Start(conn) + Length(conn))'
      BY <1>0, <1>1, <2>1 DEF Plainly, Below, Start, Length
    <2>3. ~Opens(Stream(conn)')
      BY <1>0, <1>1, <2>1 DEF Plainly, Stream
    <2> QED
      BY <1>1, <2>2, <2>3 DEF Plainly
  <1>2. Otps' = Otps
    BY DEF Otps
  <1> QED
    BY <1>0, <1>1, PadAside

(* One that is: it begins behind the encoded command.                      *)
LEMMA EncipheredDecided ==
    ASSUME OneAtATime, PadInv, at = "decide", IsOtp(buf), NEW t \in Seq(TokenType), t # << >>,
           ~KeyTooShort(AnswerOffset(buf), t),
           Answer(t, <<OtpMessage(AnswerOffset(buf), Encrypted(AnswerOffset(buf), t))>>),
           used' = used \cup KeyUse(AnswerOffset(buf), t, conn, "server"),
           UNCHANGED <<conn, fd, closes, netVars, clientVars>>
    PROVE  Turns' /\ Pad' /\ PadOnce'
  <1>0. /\ Turns /\ Greeted /\ Sent /\ Pad /\ PadOnce /\ UsedTypes /\ conn \in Clients /\ link[conn] = "open"
        /\ said \in [Clients -> Seq(TokenType)] /\ conn \notin reset
        /\ UNCHANGED <<cpc, of, got, pos, link, reset, inq, outq>>
    BY TypeParts DEF Resets, PadInv, AnswerInv, SessionInv, TypeInv, GhostTypes, Links, netVars, clientVars
  <1>1. conn \in Otps /\ HasSent(conn) /\ inq[conn] = << >> /\ AnswerOffset(buf) = AnswerAt(conn)
    BY OtpDecided
  <1>2. PICK c \in Otps : c = conn
    BY <1>1
  <1>3. PICK a : a = AnswerAt(c)
    OBVIOUS
  <1>4. Running(c) /\ Start(c) \in Nat /\ Length(c) \in Nat /\ a = Start(c) + 2 * Length(c)
    <2>1. Running(c)
      BY <1>1, <1>2 DEF HasSent, Running
    <2>2. Start(c) \in Nat
      BY <1>0, <1>1, <1>2 DEF Sent, SentOf
    <2>3. Length(c) \in Nat
      BY TypedType DEF Length, Otps
    <2> QED
      BY <1>3, <2>1, <2>2, <2>3 DEF AnswerAt
  <1>5. Below(Start(c) + Length(c)) /\ of[c] = pos
    <2>1. ~Enciphered(c)
      BY <1>0, <1>2 DEF Enciphered, Answered, Answering
    <2>2. PadOf(c)
      BY <1>0 DEF Pad
    <2> QED
      BY <1>1, <1>2, <1>4, <2>1, <2>2 DEF PadOf, Plainly
  <1>6. PadOnce' /\ Below(a + Len(t))'
    <2>1. Start(c) + Length(c) \in Nat /\ Start(c) + Length(c) <= a /\ a \in Nat
      BY <1>4
    <2>2. used' = used \cup KeyUse(a, t, conn, "server")
      BY <1>1, <1>2, <1>3
    <2> QED
      BY <1>0, <1>5, <2>1, <2>2, KeyUseOnce
  <1>7. Enciphered(c)'
    <2>1. at' = "answer" /\ said'[c] = t /\ out' = <<OtpMessage(a, Encrypted(a, t))>>
      BY <1>0, <1>1, <1>2, <1>3 DEF Answer, Otps
    <2>2. AnswerAt(c)' = a
      BY <1>0, <1>3 DEF AnswerAt, Start, Length
    <2>3. Message(c)' = OtpMessage(a, Encrypted(a, t))
      BY <2>1, <2>2 DEF Message
    <2>4. Stream(c)' = << >>
      <3>1. Stream(c)' = Stream(c)
        BY <1>0 DEF Stream
      <3>2. cpc[c] # "hello"
        BY <1>1, <1>2 DEF HasSent
      <3>3. Stream(c) = << >>
        BY <1>0, <1>2, <3>2 DEF Greeted, GreetedOf
      <3> QED
        BY <3>1, <3>3
    <2>5. Len(t) > 0
      OBVIOUS
    <2>6. Answering(c)' /\ Answered(c)' /\ inq'[c] = << >> /\ c \notin reset'
      BY <1>0, <1>1, <1>2, <2>1 DEF Answering, Answered
    <2> QED
      BY <1>6, <2>1, <2>2, <2>3, <2>4, <2>5, <2>6 DEF Enciphered
  <1>8. ASSUME NEW d \in Otps PROVE PadOf(d)'
    <2>1. CASE ~Running(d)
      BY <1>0, <2>1 DEF PadOf, Running
    <2>2. CASE Running(d)
      <3>1. d = c
        BY <1>0, <1>4, <2>2, OnlyOne
      <3>2. HasSent(c)' /\ of'[c] = pos' /\ cpc'[c] \notin {"hello", "send"}
        BY <1>0, <1>1, <1>2, <1>5 DEF HasSent
      <3> QED
        BY <1>7, <3>1, <3>2 DEF PadOf
    <2> QED
      BY <2>1, <2>2
  <1>9. Pad'
    <2>1. Running(c)' /\ Otps' = Otps
      BY <1>0, <1>4 DEF Running, Otps
    <2> QED
      BY <1>8, <2>1 DEF Pad
  <1>10. Turns'
    BY <1>0 DEF Turns, ClientGone, Otps
  <1> QED
    BY <1>6, <1>9, <1>10

(* The bytes of 128 and more make no question for programs of a command    *)
(* that is none.                                                           *)
LEMMA NoQuestion ==
    ASSUME NEW one \in Command, NEW cmd \in Command, NEW o \in Nat,
           Text(cmd) = Decrypted(o, Encrypted(o, Text(one))), DirectFor(one) = << >>
    PROVE  DirectFor(cmd) = << >>
  <1> SUFFICES ASSUME cmd.name = "scheduler", "info" \in Range(cmd.kids)
               PROVE  one.name = cmd.name /\ one.arg = cmd.arg /\ "info" \in Range(one.kids)
    BY DEF DirectFor, SchedulerOf
  <1>1. PICK t : t = Text(one)
    OBVIOUS
  <1>2. PICK d : d = Text(cmd)
    OBVIOUS
  <1>3. t \in Seq(TokenType) /\ d \in Seq(TokenType) /\ (\A i \in 1..Len(t) : t[i].key = Plain)
    <2>1. \A i \in 1..Len(Text(one)) : Text(one)[i].key = Plain
      BY TextTokens
    <2> QED
      BY <1>1, <1>2, <2>1, TextFacts
  <1>4. PICK cy : cy = Encrypted(o, t)
    OBVIOUS
  <1>5. /\ cy \in Seq(TokenType) /\ Len(cy) = Len(t)
        /\ \A i \in 1..Len(t) : cy[i] = [t[i] EXCEPT !.key = o + i - 1]
    BY <1>3, <1>4, EncryptedType
  <1>6. d = [i \in DOMAIN cy |-> IF cy[i].key # o + i - 1 \/ cy[i].key >= KeyLen THEN Garbage
                                 ELSE IF cy[i].key \in HighKey THEN Shifted(cy[i])
                                 ELSE [cy[i] EXCEPT !.key = Plain]]
    BY <1>1, <1>2, <1>4 DEF Decrypted
  <1>7. Len(d) = Len(t) /\ DOMAIN cy = 1..Len(t)
    BY <1>3, <1>5, <1>6
  <1>8. ASSUME NEW i \in 1..Len(t) PROVE d[i] = t[i] \/ d[i] = Garbage \/ (d[i].class = "text" /\ d[i].v = t[i].v)
    <2>1. t[i] \in TokenType /\ t[i].key = Plain
      BY <1>3
    <2>2. [cy[i] EXCEPT !.key = Plain] = t[i] /\ cy[i].v = t[i].v
      BY <1>5, <2>1 DEF TokenType
    <2>3. Shifted(cy[i]) = Garbage \/ (Shifted(cy[i]).class = "text" /\ Shifted(cy[i]).v = cy[i].v)
      <3>1. cy[i] \in TokenType
        BY <1>5, <1>7
      <3> QED
        BY <3>1 DEF Shifted, TokenType
    <2> QED
      BY <1>6, <1>7, <2>2, <2>3
  <1>9. PICK j \in 1..Len(cmd.kids) : cmd.kids[j] = "info"
    BY DEF Command, Range
  <1>10. /\ Len(cmd.kids) \in Nat /\ Len(d) = 4 + 2 * Len(cmd.kids)
         /\ d[1] = Open(cmd.name, cmd.arg, 0) /\ d[2 * j + 1] = Txt("info", NoName)
    <2>1. cmd.kids \in Seq(Names) /\ cmd.kids # << >>
      BY <1>9 DEF Command
    <2> QED
      BY <1>2, <1>9, <2>1, TextFacts
  <1>11. t[1] = Open(cmd.name, cmd.arg, 0)
    <2>1. 1 \in 1..Len(t)
      BY <1>7, <1>10
    <2>2. d[1].class = "open" /\ Garbage.class = "text"
      BY <1>10, TokensDiffer DEF Garbage
    <2> QED
      BY <1>8, <1>10, <2>1, <2>2
  <1>12. one.kids # << >>
    BY <1>1, <1>11, TextFacts, TokensDiffer
  <1>13. /\ Len(one.kids) = Len(cmd.kids)
         /\ t[1] = Open(one.name, one.arg, 0) /\ t[2 * j + 1] = Txt(one.kids[j], NoName)
    <2>1. one.kids \in Seq(Names)
      BY DEF Command
    <2>2. Len(t) = 4 + 2 * Len(one.kids) /\ t[1] = Open(one.name, one.arg, 0)
      BY <1>1, <1>12, TextFacts
    <2>3. Len(one.kids) = Len(cmd.kids)
      <3>1. PICK m \in Nat : m = Len(one.kids)
        BY <2>1
      <3>2. PICK n \in Nat : n = Len(cmd.kids)
        BY <1>10
      <3>3. 4 + 2 * m = 4 + 2 * n
        BY <1>7, <1>10, <2>2, <3>1, <3>2
      <3> QED
        BY <3>1, <3>2, <3>3
    <2>4. j \in 1..Len(one.kids)
      BY <2>3
    <2> QED
      BY <1>1, <1>12, <2>2, <2>3, <2>4, TextFacts
  <1>14. one.kids[j] = "info"
    <2>1. 2 * j + 1 \in 1..Len(t)
      BY <1>7, <1>10
    <2>2. d[2 * j + 1].v = "info" /\ Garbage.v = "garbage" /\ t[2 * j + 1].v = one.kids[j]
      BY <1>10, <1>13, TokensDiffer DEF Garbage
    <2> QED
      BY <1>8, <2>1, <2>2
  <1> QED
    BY <1>11, <1>13, <1>14, TokensDiffer DEF Range

LEMMA DecidePad ==
    ASSUME OneAtATime, PadInv, Decide
    PROVE  Turns' /\ Greeted' /\ Sent' /\ Pad' /\ PadOnce'
  <1>0. /\ Greeted /\ Sent /\ SessionInv /\ OwnKeys /\ at = "decide"
        /\ conn \in Clients /\ buf \in Seq(TokenType)
        /\ UNCHANGED <<conn, fd, closes, netVars, clientVars>>
        /\ said \in [Clients -> Seq(TokenType)]
    BY TypeParts DEF PadInv, AnswerInv, SessionInv, TypeInv, TextTypes, GhostTypes, Decide
  <1>1. at' = "answer" /\ UNCHANGED <<cpc, of, got, pos, link, inq, outq>>
    BY <1>0 DEF Decide, Answer, Refuse, Execute, netVars, clientVars
  <1>2. \A d \in Clients \ {conn} : said'[d] = said[d]
    BY <1>0 DEF Decide, Answer, Refuse, Execute
  <1>3. Greeted'
    BY <1>0, <1>1 DEF Greeted, GreetedOf, Otps
  <1>4. Sent'
    BY <1>0, <1>1 DEF Sent, SentOf, HasSent, Start, Length, Otps
  <1>5. CASE Answer(<< >>, << >>) /\ UNCHANGED <<pushed, used>>
    <2>1. out' = << >> /\ 1..Len(<< >>) = {}
      BY <1>5 DEF Answer
    <2>2. Turns' /\ Pad' /\ PadOnce'
      BY <1>0, <1>1, <1>2, <1>5, <2>1, PlainlyDecided
    <2> QED
      BY <1>3, <1>4, <2>2
  <1>6. ASSUME NEW type \in ErrorTypes, Refuse(type) PROVE Turns' /\ Pad' /\ PadOnce'
    <2>1. PICK e : e = Error(type)
      OBVIOUS
    <2>2. e # << >> /\ ~Opens(e)
      BY <2>1, ErrorComposed DEF Composed
    <2>3. out' = <<e>> /\ used' = used
      BY <1>6, <2>1 DEF Refuse, Answer
    <2>4. \A i \in 1..Len(out') : out'[i] # << >> /\ ~Opens(out'[i])
      BY <2>2, <2>3
    <2> QED
      BY <1>0, <1>1, <1>2, <2>3, <2>4, PlainlyDecided
  <1>7. ASSUME NEW cmd, cmd = CommandIn(buf), cmd # Malformed, Execute(cmd) PROVE Turns' /\ Pad' /\ PadOnce'
    <2>1. PICK t : t = ResultFor(cmd)
      OBVIOUS
    <2>2. PICK r : r = Reply(buf, t)
      OBVIOUS
    <2>3. cmd \in Command /\ t \in Seq(TokenType) /\ r \in Seq(TokenType)
      BY <1>0, <1>7, <2>1, <2>2, CommandType, AnswerTypes, ReplyType
    <2>4. Answer(t, DirectFor(cmd) \o <<r>>)
      BY <1>7, <2>1, <2>2 DEF Execute
    <2>5. t # << >> /\ ~Opens(t)
      <3>1. PICK p : p = [s \in Range(Scheds) |-> UnitsAt(s, cmd)]
        OBVIOUS
      <3>2. \A s \in Range(Scheds) : p[s] = UnitsAt(s, cmd)
        BY <3>1
      <3>3. cmd.name \notin {"start", "stop", "quit", "scheduler"} => p = NoUnits
        <4>1. ASSUME cmd.name \notin {"start", "stop", "quit", "scheduler"}, NEW s \in Range(Scheds)
              PROVE  UnitsAt(s, cmd) = << >>
          BY <4>1 DEF UnitsAt
        <4> QED
          BY <3>1, <4>1 DEF NoUnits
      <3> QED
        BY <2>1, <2>3, <3>2, <3>3, ResultComposed DEF Composed
    <2>6. ASSUME conn \in Otps PROVE out' = <<r>>
      <3>1. IsOtp(buf)
        BY <1>0, <1>7, <2>6, DecidedCommand DEF Otps
      <3>2. DirectFor(cmd) = << >>
        <4>1. PICK o \in Nat : cmd = ParseString(Decrypted(o, Encrypted(o, Text(Typed[conn]))))
          BY <1>0, <1>7, <3>1, OtpDecided
        <4>2. Text(cmd) = Decrypted(o, Encrypted(o, Text(Typed[conn])))
          BY <1>7, <4>1 DEF ParseString
        <4>3. Typed[conn] \in Command /\ DirectFor(Typed[conn]) = << >>
          BY <1>0, <2>6, SessionAssumption DEF OneAtATime
        <4> QED
          BY <2>3, <4>2, <4>3, NoQuestion
      <3>3. << >> \o <<r>> = <<r>>
        OBVIOUS
      <3> QED
        BY <2>4, <3>2, <3>3 DEF Answer
    <2>7. CASE ~(IsOtp(buf) /\ ~KeyTooShort(AnswerOffset(buf), t))
      <3>1. used' = used
        BY <1>7, <2>1, <2>7 DEF Execute
      <3>2. r # << >> /\ ~Opens(r)
        <4>1. CASE ~IsOtp(buf)
          BY <2>2, <2>5, <4>1 DEF Reply
        <4>2. CASE IsOtp(buf) /\ KeyTooShort(AnswerOffset(buf), t)
          <5>1. r = <<Txt("2", NoName)>>
            BY <2>2, <4>2 DEF Reply
          <5> QED
            BY <5>1, TokensDiffer DEF Opens
        <4> QED
          BY <2>7, <4>1, <4>2
      <3>3. ASSUME conn \in Otps PROVE \A i \in 1..Len(out') : out'[i] # << >> /\ ~Opens(out'[i])
        <4>1. Len(<<r>>) = 1 /\ <<r>>[1] = r
          OBVIOUS
        <4>2. \A i \in 1..Len(<<r>>) : <<r>>[i] = r
          BY <4>1
        <4> QED
          BY <2>6, <3>2, <3>3, <4>2
      <3> QED
        BY <1>0, <1>1, <1>2, <3>1, <3>3, PlainlyDecided
    <2>8. CASE IsOtp(buf) /\ ~KeyTooShort(AnswerOffset(buf), t)
      <3>1. used' = used \cup KeyUse(AnswerOffset(buf), t, conn, "server")
        BY <1>7, <2>1, <2>8 DEF Execute
      <3>2. conn \in Otps
        BY <1>0, <2>8, OtpDecided
      <3>3. r = OtpMessage(AnswerOffset(buf), Encrypted(AnswerOffset(buf), t))
        BY <2>2, <2>8 DEF Reply
      <3>4. Answer(t, <<r>>)
        BY <2>4, <2>6, <3>2 DEF Answer
      <3> QED
        BY <1>0, <2>3, <2>5, <2>8, <3>1, <3>3, <3>4, EncipheredDecided
    <2> QED
      BY <2>7, <2>8
  <1>8. Turns' /\ Pad' /\ PadOnce'
    BY <1>3, <1>4, <1>5, <1>6, <1>7, Zenon DEF Decide, ErrorTypes
  <1> QED
    BY <1>3, <1>4, <1>8

(* The end of the process: the queue of connections is closed with it.     *)
LEMMA TerminatePad ==
    ASSUME PadInv, Terminate
    PROVE  Turns' /\ Greeted' /\ Sent' /\ Pad' /\ PadOnce'
  <1>0. /\ Turns /\ Greeted /\ Sent /\ Pad /\ PadOnce /\ NetTypes /\ conn \in Clients /\ at = "decide"
        /\ SessionInv /\ OwnKeys /\ link[conn] = "open"
    BY TypeParts DEF PadInv, AnswerInv, SessionInv, TypeInv, Links, Terminate
  <1>1. conn \notin Otps
    BY <1>0, DecidedCommand DEF Terminate, Throws, OffsetThrows, Otps
  <1>2. /\ at' = "poll" /\ UNCHANGED <<conn, cpc, of, got, pos, said, used>>
        /\ \A c \in Clients : /\ link'[c] = IF link[c] = "queued" \/ c = conn THEN "closed" ELSE link[c]
                              /\ inq'[c] = IF link[c] = "queued" \/ c = conn THEN << >> ELSE inq[c]
    BY DEF Terminate, clientVars, ghostVars
  <1>3. /\ \A c \in Clients \ {conn} : outq'[c] = outq[c]
        /\ reset' \subseteq reset \cup {c \in Clients : link[c] = "queued"} \cup {conn}
    <2>1. outq' = outq \/ outq' = [outq EXCEPT ![conn] = << >>]
      BY Zenon DEF Terminate, MayReset
    <2> QED
      BY <1>0, <2>1, ClosedResets DEF Terminate, NetTypes
  <1>4. ASSUME NEW c \in Otps, Plainly(c) \/ Enciphered(c) PROVE Plainly(c)' \/ Enciphered(c)'
    <2>1. /\ c \in Clients /\ c # conn /\ ~Answering(c) /\ ~Answering(c)' /\ outq'[c] = outq[c]
          /\ link'[c] = link[c] \/ link[c] # "closed"
          /\ inq'[c] = inq[c] \/ link[c] # "closed"
          /\ c \in reset' => c \in reset \/ link[c] # "closed"
      BY <1>0, <1>1, <1>2, <1>3 DEF Answering, Otps
    <2> QED
      BY <1>2, <1>4, <2>1, AloneKept
  <1>5. Turns' /\ Pad' /\ PadOnce'
    BY <1>0, <1>2, <1>4, PadFrame
  <1>6. Greeted' /\ Sent'
    BY <1>0, <1>2 DEF Greeted, GreetedOf, Sent, SentOf, HasSent, Start, Length, Otps
  <1> QED
    BY <1>5, <1>6

-----------------------------------------------------------------------------
(* A step of a client.                                                     *)

LEMMA ClientTurns ==
    ASSUME OneAtATime, PadInv, NEW c \in Clients, Client(c) \/ GiveUp(c)
    PROVE  Turns' /\ ~ClientGone(c) /\ (c \in Otps => Client(c))
  <1>0. TypeInv /\ Turns /\ ClientTypes
    BY TypeParts DEF PadInv, AnswerInv, SessionInv
  <1>1. \A d \in Clients \ {c} : cpc'[d] = cpc[d]
    BY <1>0, ClientOthers
  <1>2. ~ClientGone(c)
    BY DEF ClientGone, Client, Connect, ConnectFails, GetOne, SendPlain, SendEncrypted, SavePos, ReadAnswer, FinishRead, GiveUp
  <1>3. c \in Otps => Client(c)
    BY DEF OneAtATime, GiveUp
  <1>4. ASSUME NEW d \in Clients, ClientGone(d) PROVE ClientGone(d)'
    BY <1>1, <1>2, <1>4 DEF ClientGone
  <1>5. /\ cpc'[c] = "start" => cpc[c] = "start"
        /\ cpc[c] = "start" => \A d \in After[c] : ClientGone(d)
        /\ cpc'[c] = "save" => c \in Otps
        /\ Client(c) => cpc'[c] # "killed"
    BY <1>0, <1>2 DEF Turns, ClientTypes, Otps, ClientGone, Step, Run, End,
       Client, Connect, ConnectFails, GetOne, SendPlain, SendEncrypted, SavePos, ReadAnswer, FinishRead, GiveUp
  <1>6. ASSUME NEW d \in Clients, cpc'[d] # "start", NEW e \in After[d] PROVE ClientGone(e)'
    <2>1. e \in Clients
      BY SessionAssumption
    <2>2. ClientGone(e)
      BY <1>0, <1>1, <1>5, <1>6 DEF Turns
    <2> QED
      BY <1>4, <2>1, <2>2
  <1>7. \A d \in Clients : cpc'[d] = "save" => d \in Otps
    BY <1>0, <1>1, <1>5 DEF Turns
  <1>8. \A d \in Otps : cpc'[d] # "killed"
    BY <1>0, <1>1, <1>3, <1>5 DEF Turns, Otps
  <1>9. Turns'
    BY <1>6, <1>7, <1>8 DEF Turns, Otps
  <1> QED
    BY <1>2, <1>3, <1>9

(* The other otpcmds wait, or have come and gone.                          *)
LEMMA OthersIdle ==
    ASSUME OneAtATime, PadInv, NEW c \in Otps, Client(c)
    PROVE  \A d \in Otps \ {c} : ~Running(d) /\ ~Running(d)'
  <1>0. TypeInv /\ Turns /\ c \in Clients
    BY DEF PadInv, AnswerInv, SessionInv, Otps
  <1>1. \A d \in Clients \ {c} : cpc'[d] = cpc[d]
    BY <1>0, ClientOthers
  <1>2. ASSUME NEW d \in Otps \ {c} PROVE ~Running(d)
    <2>1. CASE Running(c)
      BY <1>0, <2>1, OnlyOne
    <2>2. CASE cpc[c] = "start"
      <3>1. \A e \in After[c] : ClientGone(e)
        BY <2>2 DEF Client, Connect, ConnectFails, GetOne, SendPlain, SendEncrypted, SavePos, ReadAnswer, FinishRead
      <3>2. d \in After[c] \/ c \in After[d]
        BY DEF OneAtATime
      <3>3. Running(d) => \A e \in After[d] : ClientGone(e)
        BY <1>0 DEF Turns, Running, Otps
      <3> QED
        BY <1>0, <2>2, <3>1, <3>2, <3>3 DEF ClientGone, Running, Turns
    <2>3. cpc[c] # "done"
      BY <1>0, ClientTurns DEF ClientGone
    <2> QED
      BY <2>1, <2>2, <2>3 DEF Running
  <1>3. ASSUME NEW d \in Otps \ {c} PROVE Running(d)' <=> Running(d)
    BY <1>1 DEF Running, Otps
  <1> QED
    BY <1>2, <1>3

LEMMA PadOfOne ==
    ASSUME OneAtATime, PadInv, NEW c \in Otps, Client(c), PadOf(c)', Running(c)' \/ Below(pos)'
    PROVE  Pad'
  <1>1. \A d \in Otps \ {c} : ~Running(d)'
    BY OthersIdle
  <1>2. \A d \in Otps : PadOf(d)'
    BY <1>1 DEF PadOf
  <1>3. Otps' = Otps
    BY DEF Otps
  <1> QED
    BY <1>2, <1>3 DEF Pad

LEMMA OthersOffsets ==
    ASSUME TypeInv, NEW c \in Clients, Client(c) \/ GiveUp(c)
    PROVE  /\ \A d \in Clients \ {c} : of'[d] = of[d]
           /\ c \notin Otps /\ cpc[c] # "save" => pos' = pos /\ used' = used
  <1>0. ClientTypes
    BY TypeParts
  <1>1. \/ of' = of
        \/ of' = [of EXCEPT ![c] = pos]
        \/ of' = [of EXCEPT ![c] = of[c] + Len(Text(Typed[c]))]
    BY DEF Client, Connect, ConnectFails, GetOne, SendPlain, SendEncrypted, SavePos, ReadAnswer, FinishRead, GiveUp
  <1>2. c \notin Otps /\ cpc[c] # "save" => pos' = pos /\ used' = used
    BY DEF Otps, Client, Connect, ConnectFails, GetOne, SendPlain, SendEncrypted, SavePos, ReadAnswer, FinishRead, GiveUp,
           ghostVars
  <1> QED
    BY <1>0, <1>1, <1>2 DEF ClientTypes

(* The other otpcmds notice nothing of it.                                 *)
LEMMA OthersKeep ==
    ASSUME PadInv, NEW c \in Clients, Client(c) \/ GiveUp(c), NEW d \in Otps, d # c
    PROVE  /\ UNCHANGED <<at, conn, buf, out>>
           /\ cpc'[d] = cpc[d] /\ of'[d] = of[d] /\ said'[d] = said[d]
           /\ link'[d] = link[d] /\ inq'[d] = inq[d] /\ reset' \subseteq reset
           /\ Stream(d)' = Stream(d) /\ Start(d)' = Start(d)
           /\ GreetedOf(d)' /\ SentOf(d)'
  <1>0. TypeInv /\ Hearing /\ GreetedOf(d) /\ SentOf(d) /\ d \in Clients
    BY DEF PadInv, AnswerInv, SessionInv, Greeted, Sent, Otps
  <1>1. UNCHANGED <<at, conn, buf, out>> /\ cpc'[d] = cpc[d] /\ link'[d] = link[d] /\ inq'[d] = inq[d]
    BY <1>0, ClientOthers
  <1>2. of'[d] = of[d]
    BY <1>0, OthersOffsets
  <1>3. Stream(d)' = Stream(d) /\ said'[d] = said[d]
    BY <1>0, ClientKeepsStreams
  <1>4. Start(d)' = Start(d) /\ (HasSent(d)' <=> HasSent(d)) /\ Sending(d)' = Sending(d)
    BY <1>1, <1>2 DEF Start, HasSent, Length, Sending
  <1>5. GreetedOf(d)'
    BY <1>0, <1>1, <1>3 DEF GreetedOf
  <1>6. SentOf(d)'
    BY <1>0, <1>1, <1>4 DEF SentOf
  <1> QED
    BY <1>1, <1>2, <1>3, <1>4, <1>5, <1>6, ClientResets

(* A client that is no otpcmd has nothing to do with the pad.              *)
LEMMA OtherClientPad ==
    ASSUME OneAtATime, PadInv, NEW c \in Clients \ Otps, Client(c) \/ GiveUp(c)
    PROVE  Turns' /\ Greeted' /\ Sent' /\ Pad' /\ PadOnce'
  <1>0. TypeInv /\ Turns /\ Pad /\ PadOnce
    BY DEF PadInv, AnswerInv, SessionInv
  <1>1. pos' = pos /\ used' = used
    BY <1>0, OthersOffsets DEF Turns
  <1>2. Turns' /\ PadOnce'
    BY <1>0, <1>1, ClientTurns DEF PadOnce
  <1>3. \A d \in Otps : d # c
    OBVIOUS
  <1>4. Greeted' /\ Sent'
    BY <1>3, OthersKeep DEF Greeted, Sent, Otps
  <1>5. ASSUME NEW d \in Otps PROVE PadOf(d)' /\ (Running(d)' <=> Running(d))
    <2>1. /\ UNCHANGED <<at, conn, out>>
          /\ cpc'[d] = cpc[d] /\ of'[d] = of[d] /\ said'[d] = said[d] /\ link'[d] = link[d] /\ inq'[d] = inq[d]
          /\ reset' \subseteq reset
          /\ Stream(d)' = Stream(d) /\ Start(d)' = Start(d)
      BY <1>3, OthersKeep
    <2>2. (Answering(d)' <=> Answering(d)) /\ (Answered(d)' <=> Answered(d))
      BY <2>1 DEF Answering, Answered
    <2>3. ASSUME Plainly(d) PROVE Plainly(d)'
      BY <1>1, <2>1, <2>2, <2>3, PlainlyKept
    <2>4. ASSUME Enciphered(d) PROVE Enciphered(d)'
      <3>1. Answered(d)'
        BY <2>2, <2>4 DEF Enciphered
      <3> QED
        BY <1>1, <2>1, <2>2, <2>4, <3>1, EncipheredKept
    <2>5. (Running(d)' <=> Running(d)) /\ (HasSent(d)' <=> HasSent(d)) /\ (Below(pos)' <=> Below(pos))
      BY <1>1, <2>1 DEF Running, HasSent, Below
    <2>6. PadOf(d)
      BY <1>0 DEF Pad
    <2> QED
      BY <1>1, <2>1, <2>3, <2>4, <2>5, <2>6 DEF PadOf
  <1>6. Otps' = Otps /\ (Below(pos)' <=> Below(pos))
    BY <1>1 DEF Otps, Below
  <1>7. Pad'
    BY <1>0, <1>5, <1>6 DEF Pad
  <1> QED
    BY <1>2, <1>4, <1>7

(* What is left to show of a step of an otpcmd.                            *)
LEMMA OwnPad ==
    ASSUME OneAtATime, PadInv, NEW c \in Otps, Client(c),
           GreetedOf(c)', SentOf(c)', PadOf(c)', Running(c)' \/ Below(pos)'
    PROVE  Greeted' /\ Sent' /\ Pad'
  <1>1. \A d \in Otps : GreetedOf(d)' /\ SentOf(d)'
    BY OthersKeep DEF Otps
  <1>2. Otps' = Otps
    BY DEF Otps
  <1> QED
    BY <1>1, <1>2, PadOfOne DEF Greeted, Sent

LEMMA ConnectPad ==
    ASSUME OneAtATime, PadInv, NEW c \in Otps, Client(c), Connect(c)
    PROVE  Greeted' /\ Sent' /\ Pad' /\ PadOnce'
  <1>0. Links /\ Pad /\ PadOnce /\ ClientTypes /\ NetTypes /\ c \in Clients /\ Kind[c] = "otpcmd"
    BY TypeParts DEF PadInv, AnswerInv, SessionInv, Otps
  <1>1. /\ cpc[c] = "start" /\ cpc'[c] = "hello" /\ of'[c] = pos
        /\ UNCHANGED <<at, conn, buf, pos, used>>
    BY <1>0 DEF Connect, Step, ClientTypes, serverVars, ghostVars
  <1>2. conn = c => at = "poll"
    BY <1>0, <1>1 DEF Links
  <1>3. Below(pos)'
    <2>1. \A d \in Otps : ~Running(d)
      BY <1>1, OthersIdle DEF Running
    <2> QED
      BY <1>0, <1>1, <2>1 DEF Pad, Below
  <1>4. GreetedOf(c)'
    BY <1>1, <1>2 DEF GreetedOf
  <1>5. SentOf(c)'
    BY <1>1, <1>2 DEF SentOf, HasSent
  <1>6. PadOf(c)'
    BY <1>1, <1>3 DEF PadOf, HasSent
  <1> QED
    BY <1>0, <1>1, <1>3, <1>4, <1>5, <1>6, OwnPad DEF PadOnce

LEMMA ConnectFailsPad ==
    ASSUME OneAtATime, PadInv, NEW c \in Otps, Client(c), ConnectFails(c)
    PROVE  Greeted' /\ Sent' /\ Pad' /\ PadOnce'
  <1>0. Links /\ Pad /\ PadOnce /\ ClientTypes /\ NetTypes /\ c \in Clients
    BY TypeParts DEF PadInv, AnswerInv, SessionInv, Otps
  <1>1. /\ cpc[c] = "start" /\ cpc'[c] = "done" /\ link'[c] = "closed"
        /\ UNCHANGED <<at, conn, buf, pos, used>>
    BY <1>0 DEF ConnectFails, Step, ClientTypes, NetTypes, serverVars, ghostVars
  <1>2. conn = c => at = "poll"
    BY <1>0, <1>1 DEF Links
  <1>3. Below(pos)'
    <2>1. \A d \in Otps : ~Running(d)
      BY <1>1, OthersIdle DEF Running
    <2> QED
      BY <1>0, <1>1, <2>1 DEF Pad, Below
  <1>4. GreetedOf(c)' /\ SentOf(c)' /\ PadOf(c)'
    BY <1>1, <1>2 DEF GreetedOf, SentOf, PadOf, HasSent, Running
  <1> QED
    BY <1>0, <1>1, <1>3, <1>4, OwnPad DEF PadOnce

(* While otpcmd has not sent its command, the server waits for it, unless  *)
(* it has not yet sent the "1", or the connection is reset.                *)
LEMMA Awaited ==
    ASSUME PadInv, NEW c \in Otps, cpc[c] \in {"hello", "send"}, cpc[c] = "send" \/ outq[c] # << >>,
           c \notin reset \/ outq[c] # << >>
    PROVE  /\ at = "read_more" /\ conn = c /\ link[c] = "open" /\ ~HasSent(c) /\ got[c] = << >>
           /\ buf = << >> /\ inq[c] = << >>
  <1>0. /\ Links /\ Hearing /\ Identifying /\ GreetedOf(c) /\ SentOf(c) /\ c \in Clients
        /\ buf \in Seq(TokenType) /\ inq[c] \in Seq(TokenType)
    BY TypeParts DEF PadInv, AnswerInv, SessionInv, Greeted, Sent, Otps, TextTypes, NetTypes
  <1>1. \/ link[c] = "queued"
        \/ link[c] = "open" /\ conn = c /\ at \in {"read_data", "check_id", "read_more"}
    BY <1>0 DEF Hearing, Unheard
  <1>2. link[c] # "queued"
    BY <1>0 DEF GreetedOf, Links
  <1>3. at \notin {"read_data", "check_id"}
    BY <1>0, <1>1, <1>2 DEF GreetedOf, Identifying
  <1>4. ~HasSent(c) /\ got[c] = << >>
    BY <1>0 DEF HasSent, Hearing
  <1>5. buf \o inq[c] = << >>
    BY <1>0, <1>1, <1>2, <1>3, <1>4 DEF SentOf, Sending
  <1>6. buf = << >> /\ inq[c] = << >>
    BY <1>0, <1>5, EmptyParts
  <1> QED
    BY <1>1, <1>2, <1>3, <1>4, <1>6

(* The server has done with a connection that it has closed.               *)
LEMMA Gone ==
    ASSUME Links, Descriptor, NEW c \in Otps, link[c] = "closed", conn = c
    PROVE  at = "poll"
  BY DEF Links, Descriptor, Otps

LEMMA GetOnePad ==
    ASSUME OneAtATime, PadInv, NEW c \in Otps, Client(c), GetOne(c)
    PROVE  Greeted' /\ Sent' /\ Pad' /\ PadOnce'
  <1>0. /\ Links /\ Descriptor /\ Hearing /\ GreetedOf(c) /\ SentOf(c) /\ PadOf(c) /\ PadOnce /\ ClientTypes /\ NetTypes
        /\ c \in Clients
    BY TypeParts DEF PadInv, AnswerInv, SessionInv, Greeted, Sent, Pad, Otps
  <1>1. /\ cpc[c] = "hello" /\ cpc'[c] = "send"
        /\ outq'[c] = IF outq[c] = << >> THEN outq[c] ELSE Tail(outq[c])
        /\ UNCHANGED <<at, conn, buf, link, inq, got, of, pos, used>>
    BY <1>0 DEF GetOne, Step, ClientTypes, NetTypes, serverVars, ghostVars
  <1>2. ASSUME outq[c] = << >> PROVE GreetedOf(c)' /\ SentOf(c)'
    <2>1. link[c] = "closed"
      BY <1>2 DEF GetOne, ServerGone
    <2>2. conn = c => at = "poll"
      BY <1>0, <2>1, Gone
    <2> QED
      BY <1>1, <2>1, <2>2 DEF GreetedOf, SentOf, HasSent
  <1>3. ASSUME outq[c] # << >>
        PROVE  /\ at = "read_more" /\ conn = c /\ link[c] = "open" /\ ~HasSent(c) /\ got[c] = << >>
               /\ buf = << >> /\ inq[c] = << >>
    BY <1>1, <1>3, Awaited
  <1>4. ASSUME outq[c] # << >> PROVE Stream(c)' = << >>
    <2>1. PICK one : one = Txt("1", NoName)
      OBVIOUS
    <2>2. Stream(c) = <<one>>
      BY <1>0, <1>1, <1>3, <1>4, <2>1 DEF GreetedOf
    <2>3. Stream(c) = outq[c]
      BY <1>0, <1>3, <1>4, ConcatEmptySeq DEF Stream, NetTypes
    <2>4. outq'[c] = << >>
      <3>1. \A x : Tail(<<x>>) = << >>
        OBVIOUS
      <3>2. outq'[c] = Tail(outq[c])
        BY <1>1, <1>4
      <3> QED
        BY <2>2, <2>3, <3>1, <3>2
    <2>5. << >> \o << >> = << >>
      OBVIOUS
    <2> QED
      BY <1>1, <1>3, <1>4, <2>4, <2>5 DEF Stream
  <1>5. ASSUME outq[c] # << >> PROVE GreetedOf(c)'
    BY <1>1, <1>3, <1>4, <1>5 DEF GreetedOf
  <1>6. ASSUME outq[c] # << >> PROVE SentOf(c)'
    <2>1. ~HasSent(c)' /\ Sending(c)' = << >>
      BY <1>1 DEF HasSent, Sending
    <2>2. << >> \o << >> = << >>
      OBVIOUS
    <2> QED
      BY <1>1, <1>3, <1>6, <2>1, <2>2 DEF SentOf
  <1>7. PadOf(c)'
    <2>1. of[c] = pos /\ Below(pos)
      BY <1>0, <1>1 DEF PadOf, Running
    <2> QED
      BY <1>1, <2>1 DEF PadOf, HasSent, Below
  <1>8. Running(c)'
    BY <1>1 DEF Running
  <1> QED
    BY <1>0, <1>1, <1>2, <1>5, <1>6, <1>7, <1>8, OwnPad DEF PadOnce

LEMMA SendEncryptedPad ==
    ASSUME OneAtATime, PadInv, NEW c \in Otps, Client(c), SendEncrypted(c)
    PROVE  Greeted' /\ Sent' /\ Pad' /\ PadOnce'
  <1>0. /\ Links /\ Descriptor /\ Resets /\ GreetedOf(c) /\ SentOf(c) /\ PadOf(c) /\ PadOnce /\ ClientTypes /\ NetTypes /\ UsedTypes
        /\ c \in Clients
    BY TypeParts DEF PadInv, AnswerInv, SessionInv, Greeted, Sent, Pad, Otps
  <1>1. PICK t : t = Text(Typed[c])
    OBVIOUS
  <1>2. t \in Seq(TokenType) /\ Len(t) \in Nat /\ t = Text(Typed[c]) /\ of[c] \in Nat /\ pos \in Nat
    BY <1>0, <1>1, TypedType DEF ClientTypes
  <1>3. /\ cpc[c] = "send"
        /\ UNCHANGED <<at, conn, buf, out, link, outq, got, of, pos>>
    BY DEF SendEncrypted, serverVars
  <1>4. ASSUME c \notin reset
        PROVE  /\ at = "read_more" /\ conn = c /\ link[c] = "open" /\ ~HasSent(c) /\ got[c] = << >>
               /\ buf = << >> /\ inq[c] = << >>
    BY <1>3, <1>4, Awaited
  <1>5. of[c] = pos /\ Below(pos)
    BY <1>0, <1>3 DEF PadOf, Running
  <1>6. ASSUME c \notin reset PROVE Stream(c)' = << >>
    BY <1>0, <1>3, <1>4, <1>6 DEF GreetedOf, Stream
  <1>9. CASE c \in reset
    <2>1. cpc'[c] = "done" /\ inq' = inq /\ used' = used
      BY <1>0, <1>9 DEF SendEncrypted, End, Step, ClientTypes
    <2>2. link[c] = "closed" /\ (conn = c => at = "poll")
      BY <1>0, <1>9, Gone DEF Resets
    <2>3. GreetedOf(c)' /\ SentOf(c)' /\ PadOf(c)' /\ Below(pos)'
      BY <1>3, <1>5, <2>1, <2>2 DEF GreetedOf, SentOf, PadOf, HasSent, Running, Below
    <2> QED
      BY <1>0, <2>1, <2>3, OwnPad DEF PadOnce
  <1>7. CASE c \notin reset /\ KeyTooShort(of[c], t)
    <2>1. cpc'[c] = "done" /\ inq' = inq /\ used' = used
      BY <1>0, <1>1, <1>7 DEF SendEncrypted, End, Step, ClientTypes
    <2>2. GreetedOf(c)'
      BY <1>3, <1>4, <1>6, <1>7, <2>1 DEF GreetedOf
    <2>3. SentOf(c)'
      <3>1. ~HasSent(c)' /\ Sending(c)' = << >>
        BY <2>1 DEF HasSent, Sending
      <3>2. << >> \o << >> = << >>
        OBVIOUS
      <3> QED
        BY <1>3, <1>4, <1>7, <2>1, <3>1, <3>2 DEF SentOf
    <2>4. PadOf(c)' /\ Below(pos)'
      BY <1>3, <1>5, <2>1 DEF PadOf, Running, Below
    <2> QED
      BY <1>0, <2>1, <2>2, <2>3, <2>4, OwnPad DEF PadOnce
  <1>8. CASE c \notin reset /\ ~KeyTooShort(of[c], t)
    <2>1. PICK m : m = OtpMessage(of[c], Encrypted(of[c], t))
      OBVIOUS
    <2>2. /\ cpc'[c] = "save" /\ inq' = [inq EXCEPT ![c] = inq[c] \o m]
          /\ used' = used \cup KeyUse(of[c], t, c, "client")
      BY <1>0, <1>1, <1>8, <2>1 DEF SendEncrypted, Run, Step, ClientTypes
    <2>3. m \in Seq(TokenType)
      BY <1>2, <2>1, EncryptedType, OtpMessageType
    <2>4. PadOnce' /\ \A m0 : m0 = pos + Len(t) => Below(m0)'
      <3>1. PICK o \in Nat : o = pos
        BY <1>2
      <3>2. used' = used \cup KeyUse(o, t, c, "client") /\ Below(o)
        BY <1>5, <2>2, <3>1
      <3>3. PadOnce' /\ \A m0 : m0 = o + Len(t) => Below(m0)'
        <4>1. t \in Seq(TokenType) /\ o <= o
          BY <1>2
        <4>2. PadOnce /\ UsedTypes
          BY <1>0
        <4> QED
          BY <3>2, <4>1, <4>2, KeyUseOnce
      <3> QED
        BY <3>1, <3>3
    <2>5. HasSent(c)' /\ Start(c)' = of[c] /\ Length(c) = Len(t) /\ Sending(c)' = m
      BY <1>1, <1>3, <2>1, <2>2 DEF HasSent, Start, Length, Sending
    <2>6. inq'[c] = m
      BY <1>0, <1>4, <1>8, <2>2, <2>3, ConcatEmptySeq DEF NetTypes
    <2>7. GreetedOf(c)'
      BY <1>3, <1>4, <1>6, <1>8, <2>2 DEF GreetedOf
    <2>8. SentOf(c)'
      <3>1. buf' \o inq'[c] = m
        BY <1>3, <1>4, <1>8, <2>3, <2>6, ConcatEmptySeq
      <3> QED
        BY <1>2, <1>3, <1>4, <1>8, <2>5, <3>1 DEF SentOf
    <2>9. Plainly(c)'
      <3>1. ~Opens(Stream(c)')
        BY <1>6, <1>8, EmptyText
      <3>2. ~Answering(c)'
        BY <1>3, <1>4, <1>8 DEF Answering
      <3>3. Below(Start(c) + Length(c))'
        <4>1. PICK end : end = pos + Len(t)
          OBVIOUS
        <4>2. Below(end)'
          BY <2>4, <4>1
        <4>3. Start(c)' + Length(c) = end
          BY <1>5, <2>5, <4>1
        <4> QED
          BY <4>2, <4>3 DEF Below, Length
      <3> QED
        BY <3>1, <3>2, <3>3 DEF Plainly
    <2>10. PadOf(c)' /\ Running(c)'
      BY <1>3, <1>5, <2>2, <2>5, <2>9 DEF PadOf, Running
    <2> QED
      BY <2>4, <2>7, <2>8, <2>10, OwnPad
  <1> QED
    BY <1>7, <1>8, <1>9

(* otpcmd writes the .pos file, or reads a piece of the answer: what the   *)
(* invariant speaks of is the same as before.                              *)
LEMMA OwnKept ==
    ASSUME OneAtATime, PadInv, NEW c \in Otps, Client(c), HasSent(c), HasSent(c)', Start(c)' = Start(c),
           Stream(c)' = Stream(c), of'[c] = pos', link[c] # "queued",
           UNCHANGED <<at, conn, buf, out, link, reset, inq, said, used>>
    PROVE  Greeted' /\ Sent' /\ Pad' /\ PadOnce'
  <1>0. GreetedOf(c) /\ SentOf(c) /\ PadOf(c) /\ PadOnce /\ cpc[c] # "hello" /\ cpc'[c] # "hello"
    BY DEF PadInv, Greeted, Sent, Pad, HasSent
  <1>1. GreetedOf(c)'
    BY <1>0 DEF GreetedOf
  <1>2. SentOf(c)'
    BY <1>0 DEF SentOf, Sending
  <1>3. (Answering(c)' <=> Answering(c)) /\ (Answered(c)' <=> Answered(c))
    BY DEF Answering, Answered
  <1>4. ASSUME Plainly(c) PROVE Plainly(c)'
    BY <1>3, <1>4, PlainlyKept
  <1>5. ASSUME Enciphered(c) PROVE Enciphered(c)'
    <2>1. Answered(c)'
      BY <1>3, <1>5 DEF Enciphered
    <2> QED
      BY <1>3, <1>5, <2>1, EncipheredKept
  <1>6. Running(c) /\ Running(c)' /\ cpc'[c] \notin {"hello", "send"}
    BY DEF Running, HasSent
  <1>7. PadOf(c)'
    BY <1>0, <1>4, <1>5, <1>6 DEF PadOf
  <1> QED
    BY <1>0, <1>1, <1>2, <1>6, <1>7, OwnPad DEF PadOnce

LEMMA SavePosPad ==
    ASSUME OneAtATime, PadInv, NEW c \in Otps, Client(c), SavePos(c) \/ ReadAnswer(c)
    PROVE  Greeted' /\ Sent' /\ Pad' /\ PadOnce'
  <1>0. /\ GreetedOf(c) /\ PadOf(c) /\ ClientTypes /\ NetTypes /\ c \in Clients
    BY TypeParts DEF PadInv, AnswerInv, SessionInv, Greeted, Pad, Otps
  <1>1. of[c] \in Nat /\ Length(c) \in Nat
    BY <1>0, TypedType DEF ClientTypes, Length
  <1>2. HasSent(c) /\ HasSent(c)' /\ UNCHANGED <<at, conn, buf, out, link, reset, inq, said, used>>
    BY <1>0 DEF SavePos, ReadAnswer, HasSent, Step, ClientTypes, netVars, serverVars, ghostVars
  <1>3. link[c] # "queued" /\ of[c] = pos
    BY <1>0, <1>2 DEF GreetedOf, PadOf, HasSent, Running
  <1>4. CASE SavePos(c)
    <2>1. cpc[c] = "save" /\ cpc'[c] = "read" /\ of'[c] = of[c] + Length(c) /\ pos' = of[c] + Length(c)
      BY <1>0, <1>4 DEF SavePos, Step, ClientTypes, Length
    <2>2. Start(c)' = Start(c)
      <3>1. Start(c) = of[c]
        BY <2>1 DEF Start
      <3>2. Start(c)' = of'[c] - Length(c)
        BY <2>1 DEF Start, Length
      <3> QED
        BY <1>1, <2>1, <3>1, <3>2
    <2>3. Stream(c)' = Stream(c)
      BY <1>4 DEF SavePos, Stream, netVars
    <2> QED
      BY <1>2, <1>3, <2>1, <2>2, <2>3, OwnKept
  <1>5. CASE ReadAnswer(c)
    <2>1. /\ UNCHANGED <<cpc, of, pos>> /\ got'[c] = got[c] \o outq[c] /\ outq'[c] = << >>
      BY <1>0, <1>5 DEF ReadAnswer, ClientTypes, NetTypes
    <2>2. Stream(c)' = Stream(c)
      <3>1. Stream(c) \in Seq(TokenType)
        BY <1>0, StreamTypes
      <3>2. PICK s : s = Stream(c)
        OBVIOUS
      <3>3. s \o << >> = s
        BY <3>1, <3>2, ConcatEmptySeq
      <3>4. Stream(c)' = s \o << >>
        BY <2>1, <3>2 DEF Stream
      <3> QED
        BY <3>2, <3>3, <3>4
    <2>3. Start(c)' = Start(c)
      BY <2>1 DEF Start, Length
    <2> QED
      BY <1>2, <1>3, <2>1, <2>2, <2>3, OwnKept
  <1> QED
    BY <1>4, <1>5

(* What an answer tells otpcmd about the place behind it.                  *)
LEMMA MessageRead ==
    ASSUME NEW o \in Nat, NEW t \in Seq(TokenType), Len(t) > 0, NEW m, m = OtpMessage(o, Encrypted(o, t))
    PROVE  IsOtp(m) /\ NewPos(m) = o + 2 * Len(t)
  <1>1. PICK cy : cy = Encrypted(o, t)
    OBVIOUS
  <1>2. PICK n \in Nat : n = Len(t)
    OBVIOUS
  <1>3. /\ cy \in Seq(TokenType) /\ Len(cy) = n
        /\ \A i \in 1..n : cy[i] = [t[i] EXCEPT !.key = o + i - 1]
    BY <1>1, <1>2, EncryptedType
  <1>4. m = OtpMessage(o, cy)
    BY <1>1
  <1>5. /\ m \in Seq(TokenType) /\ Len(m) = n + 4 /\ m[1] = Open("otp", NoName, o)
        /\ \A i \in 1..n : m[i + 2] = cy[i]
        /\ m[n + 3] = Close("otp") /\ m[n + 4] = Gt
    <2>1. /\ m \in Seq(TokenType) /\ Len(m) = Len(cy) + 4 /\ m[1] = Open("otp", NoName, o)
          /\ \A i \in 1..Len(cy) : m[i + 2] = cy[i]
          /\ m[Len(cy) + 3] = Close("otp") /\ m[Len(cy) + 4] = Gt
      <3>1. cy \in Seq(TokenType)
        BY <1>3
      <3>2. PICK z : z = OtpMessage(o, cy)
        OBVIOUS
      <3>3. /\ z \in Seq(TokenType) /\ Len(z) = Len(cy) + 4 /\ z[1] = Open("otp", NoName, o)
            /\ \A i \in 1..Len(cy) : z[i + 2] = cy[i]
            /\ z[Len(cy) + 3] = Close("otp") /\ z[Len(cy) + 4] = Gt
        BY <3>1, <3>2, OtpMessageType
      <3> QED
        BY <1>4, <3>2, <3>3
    <2> QED
      BY <1>3, <2>1
  <1>6. OtpOffset(m) = o /\ OtpContents(m) = cy
    BY <1>3, <1>4, MessageParts
  <1>7. NewPos(m) = o + 2 * n
    BY <1>3, <1>6 DEF NewPos, EncodedSize
  <1>8. \A i \in 3..(Len(m) - 2) : m[i].key # Plain
    <2> SUFFICES ASSUME NEW i \in 3..(Len(m) - 2) PROVE m[i].key # Plain
      OBVIOUS
    <2>1. PICK j \in 1..n : i = j + 2
      <3>1. i - 2 \in 1..n /\ i = (i - 2) + 2
        BY <1>5
      <3> QED
        BY <3>1
    <2>2. t[j] \in TokenType
      BY <1>2, <2>1
    <2>3. cy[j].key = o + j - 1
      BY <1>3, <2>1, <2>2 DEF TokenType
    <2> QED
      BY <1>5, <2>1, <2>3 DEF Plain
  <1>9. IsOtp(m)
    <2>1. m[1].n = o
      BY <1>5, TokensDiffer
    <2>2. Len(m) > 4 /\ m[Len(m) - 1] = Close("otp") /\ m[Len(m)] = Gt
      BY <1>2, <1>5
    <2> QED
      BY <1>5, <1>8, <2>1, <2>2 DEF IsOtp
  <1> QED
    BY <1>2, <1>7, <1>9

LEMMA FinishReadPad ==
    ASSUME OneAtATime, PadInv, NEW c \in Otps, Client(c), FinishRead(c)
    PROVE  Greeted' /\ Sent' /\ Pad' /\ PadOnce'
  <1>0. /\ Links /\ Descriptor /\ SentOf(c) /\ PadOf(c) /\ PadOnce /\ UsedTypes /\ c \in Clients
        /\ Kind[c] = "otpcmd" /\ ClientTypes /\ NetTypes /\ said[c] \in Seq(TokenType)
    BY TypeParts DEF PadInv, AnswerInv, SessionInv, Greeted, Sent, Pad, Otps, GhostTypes
  <1>1. /\ cpc[c] = "read" /\ cpc'[c] = "done" /\ link[c] = "closed" /\ outq[c] = << >>
        /\ UNCHANGED <<at, conn, buf, link, inq, outq, of, used>>
    BY <1>0 DEF FinishRead, ServerGone, End, Step, ClientTypes, netVars, serverVars, ghostVars
  <1>2. conn = c => at = "poll"
    BY <1>0, <1>1 DEF Links, Descriptor
  <1>3. GreetedOf(c)' /\ SentOf(c)' /\ PadOf(c)'
    BY <1>1, <1>2 DEF GreetedOf, SentOf, PadOf, HasSent, Running
  <1>4. of[c] = pos /\ (Plainly(c) \/ Enciphered(c)) /\ Start(c) \in Nat
    BY <1>0, <1>1 DEF PadOf, SentOf, HasSent, Running
  <1>5. of[c] \in Nat /\ Length(c) \in Nat /\ Start(c) + Length(c) = of[c]
    <2>1. of[c] \in Nat /\ Length(c) \in Nat
      BY <1>0, TypedType DEF ClientTypes, Length
    <2>2. Start(c) = of[c] - Length(c)
      BY <1>1 DEF Start
    <2> QED
      BY <2>1, <2>2
  <1>6. Stream(c) = got[c] /\ got[c] \in Seq(TokenType)
    BY <1>0, <1>1, ConcatEmptySeq DEF Stream, ClientTypes
  <1>7. pos' = IF c \in reset THEN pos
               ELSE IF IsOtp(got[c]) THEN NewPos(got[c]) ELSE IF OneElement(got[c]) THEN of[c] ELSE pos
    BY <1>0 DEF FinishRead
  <1>8. Below(pos)'
    <2>1. CASE Plainly(c)
      <3>1. ~Opens(got[c])
        BY <1>6, <2>1 DEF Plainly
      <3>2. ~IsOtp(got[c])
        <4>1. IsOtp(got[c]) => got[c] # << >> /\ got[c][1] = Open("otp", NoName, got[c][1].n)
          BY <1>6 DEF IsOtp
        <4> QED
          BY <3>1, <4>1, TokensDiffer DEF Opens
      <3>3. pos' = of[c]
        BY <1>4, <1>7, <3>2
      <3>4. Below(of[c])
        BY <1>5, <2>1 DEF Plainly
      <3> QED
        BY <1>1, <3>3, <3>4 DEF Below
    <2>2. CASE Enciphered(c)
      <3>1. Below(AnswerAt(c) + Len(said[c])) /\ Len(said[c]) > 0 /\ got[c] = Message(c)
        BY <1>1, <1>2, <1>6, <2>2 DEF Enciphered, Answering
      <3>2. PICK a : a = AnswerAt(c)
        OBVIOUS
      <3>3. PICK t : t = said[c]
        OBVIOUS
      <3>4. a \in Nat /\ t \in Seq(TokenType) /\ Len(t) > 0
        BY <1>0, <1>4, <1>5, <3>1, <3>2, <3>3 DEF AnswerAt
      <3>5. got[c] = OtpMessage(a, Encrypted(a, t))
        BY <3>1, <3>2, <3>3 DEF Message
      <3>6. IsOtp(got[c]) /\ NewPos(got[c]) = a + 2 * Len(t)
        BY <3>4, <3>5, MessageRead
      <3>7. pos' = a + 2 * Len(t)
        BY <1>7, <2>2, <3>6 DEF Enciphered
      <3>8. \A u \in used : u.byte \in Nat /\ u.byte < a + Len(t)
        BY <1>0, <3>1, <3>2, <3>3 DEF Below, UsedTypes
      <3>9. \A u \in used : u.byte < a + 2 * Len(t)
        <4>1. Len(t) \in Nat
          BY <3>4
        <4> QED
          BY <3>4, <3>8, <4>1
      <3> QED
        BY <1>1, <3>7, <3>9 DEF Below
    <2> QED
      BY <1>4, <2>1, <2>2
  <1> QED
    BY <1>0, <1>1, <1>3, <1>8, OwnPad DEF PadOnce

LEMMA ClientPad ==
    ASSUME OneAtATime, PadInv, NEW c \in Clients, Client(c) \/ GiveUp(c)
    PROVE  Turns' /\ Greeted' /\ Sent' /\ Pad' /\ PadOnce'
  <1>1. CASE c \notin Otps
    BY <1>1, OtherClientPad
  <1>2. CASE c \in Otps
    <2>1. Turns' /\ Client(c)
      BY <1>2, ClientTurns
    <2>2. ~SendPlain(c)
      BY <1>2 DEF SendPlain, Otps
    <2>3. \/ Connect(c) \/ ConnectFails(c) \/ GetOne(c) \/ SendEncrypted(c)
          \/ SavePos(c) \/ ReadAnswer(c) \/ FinishRead(c)
      BY <2>1, <2>2 DEF Client
    <2>4. Greeted' /\ Sent' /\ Pad' /\ PadOnce'
      BY <1>2, <2>1, <2>3, ConnectPad, ConnectFailsPad, GetOnePad, SendEncryptedPad, SavePosPad, FinishReadPad
    <2> QED
      BY <2>1, <2>4
  <1> QED
    BY <1>1, <1>2

LEMMA PadSame ==
    ASSUME PadInv, UNCHANGED vars
    PROVE  Turns' /\ Greeted' /\ Sent' /\ Pad' /\ PadOnce'
  <1>0. /\ Turns /\ Greeted /\ Sent /\ Pad /\ PadOnce
        /\ UNCHANGED <<at, conn, buf, out, cpc, link, reset, inq, outq, got, of, pos, said, used>>
    BY DEF PadInv, vars, serverVars, netVars, clientVars, ghostVars
  <1>1. \A c \in Otps : Stream(c)' = Stream(c) /\ Start(c)' = Start(c) /\ Sending(c)' = Sending(c)
    BY <1>0 DEF Stream, Start, Length, Sending, HasSent
  <1>2. ASSUME NEW c \in Otps, Plainly(c) \/ Enciphered(c) PROVE Plainly(c)' \/ Enciphered(c)'
    <2>1. (Answering(c)' <=> Answering(c)) /\ (Answered(c)' <=> Answered(c))
      BY <1>0 DEF Answering, Answered
    <2>2. CASE Plainly(c)
      BY <1>0, <1>1, <2>1, <2>2, PlainlyKept
    <2>3. CASE Enciphered(c)
      <3>1. Answered(c)'
        BY <2>1, <2>3 DEF Enciphered
      <3> QED
        BY <1>0, <1>1, <2>1, <2>3, <3>1, EncipheredKept
    <2> QED
      BY <1>2, <2>2, <2>3
  <1>3. Turns' /\ Pad' /\ PadOnce'
    BY <1>0, <1>2, PadFrame
  <1>4. Otps' = Otps
    BY DEF Otps
  <1>5. Greeted'
    BY <1>0, <1>1, <1>4 DEF Greeted, GreetedOf
  <1>6. Sent'
    BY <1>0, <1>1, <1>4 DEF Sent, SentOf, HasSent
  <1> QED
    BY <1>3, <1>5, <1>6

LEMMA PadStep ==
    ASSUME OneAtATime
    PROVE  PadInv /\ [Next]_vars => PadInv'
  <1> SUFFICES ASSUME PadInv, [Next]_vars PROVE PadInv'
    OBVIOUS
  <1>1. AnswerInv' /\ OwnKeys' /\ Resets'
    BY AnswerStep, OwnStep, ResetsStep DEF PadInv, AnswerInv
  <1>2. CASE Server
    <2>1. Turns' /\ Greeted' /\ Sent' /\ Pad' /\ PadOnce'
      BY <1>2, AcceptPad, ReceivePad, CheckIdPad, GuiPad, DecidePad, SendAnswerPad, TerminatePad DEF Server
    <2> QED
      BY <1>1, <2>1 DEF PadInv
  <1>3. ASSUME NEW c \in Clients, Client(c) \/ GiveUp(c) PROVE PadInv'
    BY <1>1, <1>3, ClientPad DEF PadInv
  <1>4. CASE UNCHANGED vars
    BY <1>1, <1>4, PadSame DEF PadInv
  <1> QED
    BY <1>2, <1>3, <1>4 DEF Next, Quiet, AcceptFails

LEMMA InitPad == Init => PadInv
  <1> SUFFICES ASSUME Init PROVE PadInv
    OBVIOUS
  <1>1. AnswerInv /\ OwnKeys /\ Resets
    BY InitAnswers, InitOwn DEF Init, Resets
  <1>2. /\ at = "poll" /\ used = {}
        /\ \A c \in Clients : cpc[c] = "start" /\ link[c] = "none"
    BY DEF Init
  <1>3. Turns /\ Greeted /\ Sent /\ Pad /\ PadOnce
    BY <1>2 DEF Turns, Greeted, GreetedOf, Sent, SentOf, Pad, PadOf, PadOnce, Below, Running, HasSent, Otps
  <1> QED
    BY <1>1, <1>3 DEF PadInv

(* "Never ever reuse a one time pad (really)." (man/peter.1 363): as long  *)
(* as otpcmd runs to its end and one at a time, and asks no scheduler for  *)
(* its programs, no byte of the key file encrypts two characters, whoever  *)
(* encrypts them, whatever is answered and whether the key file lasts      *)
(* (Socket.cc 282-283, 393-416, otpcmd.cc 199-281).                        *)
THEOREM KeyBytesUsedOnce ==
    ASSUME OneAtATime
    PROVE  Spec => []PadOnce
  <1>1. PadInv => PadOnce
    BY DEF PadInv
  <1> QED
    BY <1>1, InitPad, PadStep, PTL DEF Spec
=============================================================================
