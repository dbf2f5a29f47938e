------------------------------- MODULE Session -------------------------------
(***************************************************************************)
(* The control socket of PETeR: socket_thread() of src/src/Socket.cc, which *)
(* serves one client after the other, and the clients pcmd (cmd.cc),       *)
(* otpcmd (otpcmd.cc) and the web page (web/parse2.php).                   *)
(*                                                                         *)
(* A text is a sequence of tokens.  TCP keeps their order and delivers     *)
(* them in pieces of any size; recv(2) returns a piece.  What a '>' and a  *)
(* line feed do to the reading loops is in the model, the other characters *)
(* are not.  Encryption is symbolic: an encrypted token carries the place  *)
(* of its key byte (module Otp has the arithmetic).                        *)
(***************************************************************************)
EXTENDS Integers, FiniteSets, SequencesExt

CONSTANTS
    Names,          \* the names of commands, programs and schedulers, and NoName
    Clients,        \* the client processes, each of which sends one command
    Kind,           \* Kind[c]: "pcmd", "otpcmd", "pgui", or "other": one that sends another ID
    Typed,          \* Typed[c]: the command on its standard input
    After,          \* After[c]: the clients that the user lets finish before c starts
    Interruptible,  \* the clients that may be interrupted, or give up
    HostAllow,      \* h_allow, as the clients whose host is in it
    CmdAllow,       \* c_allow: the sequence of the names in the attribute "commands"
    OtpOnly,        \* the values of otp_only, which the configuration sets
    Scheds,         \* the vector `schedulers`, as names
    ProgsOf,        \* ProgsOf[s]: the names of the programs of s
    KeyLen,         \* the length of the key file
    HighKey,        \* the places of the key file whose byte is 128 or more
    Lookalike       \* what some names become two characters lower, of those that are names

(* No name, no attribute.                                                  *)
NoName == "-"

(* A command: an element, its "name" attribute, and its children's names.  *)
Command == [name : Names, arg : Names, kids : Seq(Names)]
Commands == {Typed[c] : c \in Clients}

ASSUME SessionAssumption ==
    /\ \A c \in Clients : Kind[c] \in {"pcmd", "otpcmd", "pgui", "other"}
    /\ Typed \in [Clients -> Command]
    /\ \A c \in Clients : After[c] \subseteq Clients
    /\ Interruptible \subseteq Clients /\ HostAllow \subseteq Clients
    /\ OtpOnly \subseteq BOOLEAN
    /\ NoName \in Names
    /\ Scheds \in Seq(Names)
    /\ \A i, j \in DOMAIN Scheds : Scheds[i] = Scheds[j] => i = j
    /\ ProgsOf \in [Range(Scheds) -> SUBSET Names]
    /\ \A s \in Range(Scheds) : IsFiniteSet(ProgsOf[s])
    /\ KeyLen \in Nat
    /\ HighKey \subseteq Nat
    /\ DOMAIN Lookalike \subseteq Names /\ \A a \in DOMAIN Lookalike : Lookalike[a] \in Names

VARIABLES
    up,         \* PETeR runs
    otp_only,   \* otp_only: only encrypted commands are executed
    at,         \* where socket_thread is
    conn,       \* the client of client_fd
    fd,         \* client_fd: "open", or "closed"
    closes,     \* how often close_client() has been called on this client_fd
    buf,        \* the text in buf
    out,        \* the texts it will still send
    cpc,        \* cpc[c]: where client c is
    link,       \* link[c]: its connection: "none", "queued", "open", "closed" by the server
    reset,      \* the clients that run and whose connection is reset: send() and recv() return -1
    inq,        \* inq[c]: on its way to the server
    outq,       \* outq[c]: on its way to the client
    got,        \* got[c]: what the client has read after the "1" and not yet shown
    of,         \* of[c]: the offset that otpcmd has read
    pos,        \* the number in the .pos file of the key file
    pushed,     \* pushed[c][s]: the work units added to the schedule of s for c
    said,       \* said[c]: the answer to c as the server composed it
    used        \* the key bytes used so far, with what each one encrypts

serverVars == <<up, at, conn, fd, closes, buf, out>>
netVars == <<link, reset, inq, outq>>
clientVars == <<cpc, got, of, pos>>
ghostVars == <<pushed, said, used>>
vars == <<otp_only, serverVars, netVars, clientVars, ghostVars>>

NoClient == "none"

(***************************************************************************)
(* Texts.                                                                  *)
(***************************************************************************)
Plain == -1
Token(class, v, a, n) == [class |-> class, v |-> v, a |-> a, n |-> n, key |-> Plain]
Txt(v, a) == Token("text", v, a, 0)
Gt == Token("gt", ">", NoName, 0)
Nl == Token("nl", "newline", NoName, 0)
Garbage == Txt("garbage", NoName)
Ends(t) == t.class \in {"gt", "nl"} /\ t.key = Plain

(* <name arg/>, or <name arg><kid/>...</name>.                             *)
Open(v, a, n) == Token("open", v, a, n)
Close(v) == Token("close", v, NoName, 0)
KidTexts(kids) == [i \in 1..(2 * Len(kids)) |-> IF i % 2 = 1 THEN Txt(kids[(i + 1) \div 2], NoName) ELSE Gt]
Text(cmd) ==
    IF cmd.kids = << >> THEN <<Txt(cmd.name, cmd.arg), Gt>>
    ELSE <<Open(cmd.name, cmd.arg, 0), Gt>> \o KidTexts(cmd.kids) \o <<Close(cmd.name), Gt>>

(* parse_string(), for a text that is a command; a child of a command      *)
(* would be one by itself.                                                 *)
Wellformed ==
    Commands \cup {[name |-> k, arg |-> NoName, kids |-> << >>] :
                     k \in UNION {Range(cmd.kids) : cmd \in Commands}}
Malformed == [name |-> NoName, arg |-> NoName, kids |-> << >>]
ParseString(b) ==
    IF \E cmd \in Wellformed : Text(cmd) = b
      THEN CHOOSE cmd \in Wellformed : Text(cmd) = b
      ELSE Malformed

(* otp_e() at offset o: fails when the key file ends before o + Len(text). *)
KeyTooShortLate(o, text) == o + Len(text) > KeyLen + 1            \* mutant
KeyTooShort(o, text) == o + Len(text) > KeyLen
Encrypted(o, text) == [i \in DOMAIN text |-> [text[i] EXCEPT !.key = o + i - 1]]
(* otp_d(): another key byte, or one behind the end, gives another token,  *)
(* and a byte of 128 or more, which is negative as a char, gives the text  *)
(* two characters lower (HighKeyByteShifts in PadProofs).                  *)
Shifted(t) ==
    IF t.class = "text" /\ t.a \in DOMAIN Lookalike
      THEN [t EXCEPT !.key = Plain, !.a = Lookalike[t.a]] ELSE Garbage
Decrypted(o, cy) ==
    [i \in DOMAIN cy |-> IF cy[i].key # o + i - 1 \/ cy[i].key >= KeyLen THEN Garbage
                           ELSE IF cy[i].key \in HighKey THEN Shifted(cy[i])
                           ELSE [cy[i] EXCEPT !.key = Plain]]
(* The encoded text has two characters per byte.                           *)
EncodedSize(cy) == 2 * Len(cy)

(* <otp keyfile offset>...</otp>                                           *)
OtpMessage(o, cy) == <<Open("otp", NoName, o), Gt>> \o cy \o <<Close("otp"), Gt>>
IsOtp(b) ==
    /\ Len(b) > 4
    /\ b[1] = Open("otp", NoName, b[1].n) /\ b[Len(b) - 1] = Close("otp") /\ b[Len(b)] = Gt
    /\ \A i \in 3..(Len(b) - 2) : b[i].key # Plain
OtpContents(b) == SubSeq(b, 3, Len(b) - 2)
OtpOffset(b) == b[1].n

(* An <otp/> that a user types: nothing in it can be read, and an offset   *)
(* that is no number makes std::stol() throw what nobody catches.          *)
TypedOtp(b) == ~IsOtp(b) /\ ParseString(b).name = "otp"
OffsetThrows(b) == TypedOtp(b) /\ ParseString(b).arg # NoName

(* cmd.find( "<otp " )                                                     *)
LooksEncrypted(b) ==
    \E i \in DOMAIN b : b[i].class \in {"open", "text"} /\ b[i].v = "otp" /\ b[i].key = Plain

(***************************************************************************)
(* read_data() and read_more(): recv() until what has arrived holds a '>'  *)
(* or a line feed, but for the first character, or until the client is     *)
(* gone.  The text ends at the last of them: a '>' is kept, a line feed is *)
(* not, and what came behind it in the same piece is dropped.              *)
(***************************************************************************)
EndsIn(b) == {i \in 2..Len(b) : Ends(b[i])}
CutAtEnd(b) ==
    LET e == CHOOSE i \in EndsIn(b) : \A j \in EndsIn(b) : j <= i
    IN  SubSeq(b, 1, IF b[e].class = "gt" THEN e ELSE e - 1)

ClientGone(c) == cpc[c] \in {"done", "killed"}

(* recv() into &buf[buf_pos].                                              *)
Gathered(piece) == buf \o piece

NextState == IF at = "read_data" THEN "check_id" ELSE "decide"

Receive ==
    /\ at \in {"read_data", "read_more"}
    /\ \E n \in 1..Len(inq[conn]) :
         LET b == Gathered(SubSeq(inq[conn], 1, n)) IN
         /\ inq' = [inq EXCEPT ![conn] = SubSeq(@, n + 1, Len(@))]
         /\ IF EndsIn(b) = {} THEN buf' = b /\ UNCHANGED at
                              ELSE buf' = CutAtEnd(b) /\ at' = NextState
    /\ UNCHANGED <<conn, fd, closes, out, link, reset, outq, clientVars, ghostVars>>

ReceiveEndIgnored ==                                             \* mutant
    /\ at \in {"read_data", "read_more"}
    /\ inq[conn] = << >> /\ ClientGone(conn)
    /\ UNCHANGED vars
ReceiveEnd ==
    /\ at \in {"read_data", "read_more"}
    /\ inq[conn] = << >> /\ ClientGone(conn)
    /\ at' = NextState
    /\ UNCHANGED <<conn, fd, closes, buf, out, netVars, clientVars, ghostVars>>

(***************************************************************************)
(* The server.                                                             *)
(***************************************************************************)
(* have_client(), and accept() in read_data().                             *)
Accept ==
    /\ at = "poll"
    /\ \E c \in Clients :
         /\ link[c] = "queued"
         /\ conn' = c
         /\ link' = [link EXCEPT ![c] = "open"]
    /\ fd' = "open" /\ closes' = 0 /\ buf' = << >>
    /\ at' = "read_data"
    /\ UNCHANGED <<out, reset, inq, outq, clientVars, ghostVars>>

(* accept() fails: the loop takes what is left in buf for an ID, and sends *)
(* to and closes the descriptor -1, which does nothing.                    *)
AcceptFails ==
    /\ up /\ at = "poll"
    /\ \E c \in Clients : link[c] = "queued"
    /\ UNCHANGED vars

(* send(): a client that is gone makes it fail now or later; on a closed   *)
(* descriptor it fails.                                                    *)
SendWorks(text) ==
    /\ fd = "open"
    /\ outq' = IF ClientGone(conn) THEN outq ELSE [outq EXCEPT ![conn] = @ \o text]
SendFails == fd = "closed" \/ ClientGone(conn)

(* close_client().  When it leaves a part of the command unread, TCP may   *)
(* reset the connection, and what the client has not read yet may be lost. *)
MayReset(more) ==
    \/ reset' = reset \cup {c \in more : ~ClientGone(c)} /\ UNCHANGED outq
    \/ /\ inq[conn] # << >> /\ ~ClientGone(conn)
       /\ reset' = reset \cup {conn} \cup {c \in more : ~ClientGone(c)}
       /\ outq' = outq \/ outq' = [outq EXCEPT ![conn] = << >>]
Closed ==
    /\ fd' = "closed"
    /\ closes' = closes + 1
    /\ link' = [link EXCEPT ![conn] = "closed"]
    /\ inq' = [inq EXCEPT ![conn] = << >>]
    /\ MayReset({})

(* A line for every program of every scheduler.                            *)
GuiLines ==
    [i \in 1..Cardinality(UNION {{s} \X ProgsOf[s] : s \in Range(Scheds)}) |-> <<Txt("line", NoName), Nl>>]

BadIdGoesOn ==                                                   \* mutant
    /\ buf \notin {<<Txt("pcmd", NoName)>>, <<Txt("pgui", NoName)>>}
    /\ Closed
    /\ at' = "read_more"
    /\ UNCHANGED out
BadId ==
    /\ buf \notin {<<Txt("pcmd", NoName)>>, <<Txt("pgui", NoName)>>}
    /\ Closed
    /\ at' = "poll"
    /\ UNCHANGED out

GuiId ==
    /\ buf = <<Txt("pgui", NoName)>>
    /\ at' = "gui" /\ out' = GuiLines
    /\ UNCHANGED <<fd, closes, netVars>>

CommandId ==
    /\ buf = <<Txt("pcmd", NoName)>>
    /\ \/ SendWorks(<<Txt("1", NoName)>>) /\ at' = "read_more" /\ UNCHANGED <<fd, closes, link, reset, inq>>
       \/ SendFails /\ Closed /\ at' = "poll"
    /\ UNCHANGED out

CheckId ==
    /\ at = "check_id"
    /\ CommandId \/ GuiId \/ BadId
    /\ buf' = << >>
    /\ UNCHANGED <<conn, clientVars, ghostVars>>

(* One line of a program's state; the loop goes on after a failed send.    *)
GuiLine ==
    /\ at = "gui" /\ out # << >>
    /\ \/ SendWorks(Head(out)) /\ UNCHANGED <<fd, closes, link, reset, inq>>
       \/ SendFails /\ Closed
    /\ out' = Tail(out)
    /\ UNCHANGED <<at, conn, buf, clientVars, ghostVars>>

GuiDone ==
    /\ at = "gui" /\ out = << >>
    /\ Closed
    /\ at' = "poll"
    /\ UNCHANGED <<conn, buf, out, clientVars, ghostVars>>

PeerAllowedAny(c) == HostAllow # {}                              \* mutant
PeerAllowed(c) == c \in HostAllow
CmdAllowed(name) ==
    /\ CmdAllow # << >>
    /\ CmdAllow[1] = "all" \/ name \in Range(CmdAllow)

(* The work units a command adds to the schedule of each scheduler.  A     *)
(* <scheduler/> without a name means the one called "default".             *)
SchedulerOf(cmd) == IF cmd.arg = NoName THEN "default" ELSE cmd.arg
WorkUnit == [type : {"RUN", "END", "EXIT"}, prog : Names]
Unit(type, p) == [type |-> type, prog |-> p]
HasProgram(s, p) == p \in ProgsOf[s]
QuitKids(cmd) == Cardinality({i \in DOMAIN cmd.kids : cmd.kids[i] = "quit"})
UnitsAt(s, cmd) ==
    CASE cmd.name = "quit" -> <<Unit("EXIT", NoName)>>
      [] cmd.name = "start" /\ HasProgram(s, cmd.arg) -> <<Unit("RUN", cmd.arg)>>
      [] cmd.name = "stop" /\ HasProgram(s, cmd.arg) -> <<Unit("END", cmd.arg)>>
      [] cmd.name = "scheduler" /\ SchedulerOf(cmd) = s -> [i \in 1..QuitKids(cmd) |-> Unit("EXIT", NoName)]
      [] OTHER -> << >>
UnitsFor(cmd) == [s \in Range(Scheds) |-> UnitsAt(s, cmd)]
NoUnits == [s \in Range(Scheds) |-> << >>]

(* The tree `result`; an <error/> without a type is that of a scheduler.   *)
Root == Txt("peter", NoName)
Error(type) == <<Root, Txt("error", type)>>
AcceptedAlways(s, p) == Txt("accepted", s)                       \* mutant
Accepted(s, p) == IF HasProgram(s, p) THEN Txt("accepted", s) ELSE Txt("error_at", s)
ResultFor(cmd) ==
    CASE cmd.name = "status" -> <<Root, Txt("running", NoName)>>
      [] cmd.name \in {"info", "quit", "log"} ->
           <<Root>> \o [i \in DOMAIN Scheds |-> Txt(cmd.name, Scheds[i])]
      [] cmd.name \in {"start", "stop"} ->
           <<Root>> \o [i \in DOMAIN Scheds |-> Accepted(Scheds[i], cmd.arg)]
      [] cmd.name = "scheduler" -> <<Root>>
      [] OTHER -> Error("unknown_command")

(* <scheduler><info/></scheduler> is answered on the spot, program by      *)
(* program, and never encrypted.                                           *)
DirectFor(cmd) ==
    IF cmd.name = "scheduler" /\ SchedulerOf(cmd) \in Range(Scheds) /\ "info" \in Range(cmd.kids)
      THEN [j \in 1..Cardinality(ProgsOf[SchedulerOf(cmd)]) |-> <<Txt("program", SchedulerOf(cmd))>>]
      ELSE << >>

(* The answer to an encrypted command uses the key behind the encoded      *)
(* command, which is twice as long as the command.                         *)
AnswerOffsetSame(b) == OtpOffset(b)                              \* mutant
AnswerOffset(b) == OtpOffset(b) + EncodedSize(OtpContents(b))

Reply(b, text) ==
    IF ~IsOtp(b) THEN text
    ELSE IF KeyTooShort(AnswerOffset(b), text) THEN <<Txt("2", NoName)>>
    ELSE OtpMessage(AnswerOffset(b), Encrypted(AnswerOffset(b), text))

KeyUse(o, cy, c, who) == {[byte |-> o + i - 1, client |-> c, who |-> who, at |-> i] : i \in DOMAIN cy}

(* From the checks to the answer that is ready to be sent.                 *)
Answer(text, replies) ==
    /\ said' = [said EXCEPT ![conn] = text]
    /\ out' = replies
    /\ at' = "answer"

Refuse(type) ==
    /\ Answer(Error(type), <<Error(type)>>)
    /\ UNCHANGED <<pushed, used>>

CommandIn(b) ==
    IF IsOtp(b) THEN ParseString(Decrypted(OtpOffset(b), OtpContents(b)))
    ELSE IF TypedOtp(b) THEN Malformed
    ELSE ParseString(b)

OnlyEncrypted(b) == otp_only /\ ~LooksEncrypted(b)

Throws == ~OnlyEncrypted(buf) /\ PeerAllowed(conn) /\ OffsetThrows(buf)

Execute(cmd) ==
    /\ pushed' = [pushed EXCEPT ![conn] = [s \in Range(Scheds) |-> @[s] \o UnitsAt(s, cmd)]]
    /\ Answer(ResultFor(cmd), DirectFor(cmd) \o <<Reply(buf, ResultFor(cmd))>>)
    /\ used' = IF IsOtp(buf) /\ ~KeyTooShort(AnswerOffset(buf), ResultFor(cmd))
                 THEN used \cup KeyUse(AnswerOffset(buf), ResultFor(cmd), conn, "server")
                 ELSE used

Decide ==
    /\ at = "decide" /\ ~Throws
    /\ \/ /\ OnlyEncrypted(buf)
          /\ Answer(<< >>, << >>)
          /\ UNCHANGED <<pushed, used>>
       \/ /\ ~OnlyEncrypted(buf) /\ ~PeerAllowed(conn)
          /\ Refuse("no_access")
       \/ /\ ~OnlyEncrypted(buf) /\ PeerAllowed(conn)
          /\ LET cmd == CommandIn(buf) IN
             \/ /\ cmd = Malformed
                /\ IF IsOtp(buf) \/ TypedOtp(buf) THEN Answer(<< >>, << >>) /\ UNCHANGED <<pushed, used>>
                                 ELSE Refuse("XML_error")
             \/ /\ cmd # Malformed /\ ~CmdAllowed(cmd.name)
                /\ Refuse("not_allowed_or_unknown")
             \/ /\ cmd # Malformed /\ CmdAllowed(cmd.name)
                /\ Execute(cmd)
    /\ buf' = << >>
    /\ UNCHANGED <<conn, fd, closes, netVars, clientVars>>

(* The exception ends the process, and the kernel closes its connections:  *)
(* those that have not been accepted are reset.                            *)
Terminate ==
    /\ at = "decide" /\ Throws
    /\ up' = FALSE /\ at' = "poll"
    /\ fd' = "closed" /\ closes' = closes + 1 /\ buf' = << >>
    /\ LET queued == {c \in Clients : link[c] = "queued"} IN
         /\ link' = [c \in Clients |-> IF c \in queued \cup {conn} THEN "closed" ELSE link[c]]
         /\ inq' = [c \in Clients |-> IF c \in queued \cup {conn} THEN << >> ELSE inq[c]]
         /\ MayReset(queued)
    /\ UNCHANGED <<conn, out, clientVars, ghostVars>>

(* The sends of the answer; a failure of one is only logged.               *)
SendAnswer ==
    /\ at = "answer" /\ out # << >>
    /\ \/ SendWorks(Head(out))
       \/ SendFails /\ UNCHANGED outq
    /\ out' = Tail(out)
    /\ UNCHANGED <<at, conn, fd, closes, buf, link, reset, inq, clientVars, ghostVars>>

CloseClient ==
    /\ at = "answer" /\ out = << >>
    /\ Closed
    /\ at' = "poll"
    /\ UNCHANGED <<conn, buf, out, clientVars, ghostVars>>

Server ==
    /\ UNCHANGED otp_only /\ up
    /\ \/ Terminate
       \/ /\ UNCHANGED up
          /\ \/ Accept \/ Receive \/ ReceiveEnd \/ CheckId
             \/ GuiLine \/ GuiDone
             \/ Decide \/ SendAnswer \/ CloseClient

(***************************************************************************)
(* The clients.                                                            *)
(***************************************************************************)
Step(c, to) == cpc' = [cpc EXCEPT ![c] = to]
Run(c, to) == Step(c, to) /\ UNCHANGED reset
End(c, to) == Step(c, to) /\ reset' = reset \ {c}

IdOf(c) ==
    CASE Kind[c] \in {"pcmd", "otpcmd"} -> Txt("pcmd", NoName)
      [] Kind[c] = "pgui" -> Txt("pgui", NoName)
      [] OTHER -> Txt("hello", NoName)

(* connect(), the offset from the .pos file, and the ID.                   *)
Connect(c) ==
    /\ cpc[c] = "start" /\ up
    /\ \A d \in After[c] : ClientGone(d)
    /\ link' = [link EXCEPT ![c] = "queued"]
    /\ inq' = [inq EXCEPT ![c] = <<IdOf(c), Nl>>]
    /\ of' = IF Kind[c] = "otpcmd" THEN [of EXCEPT ![c] = pos] ELSE of
    /\ Step(c, IF Kind[c] \in {"pcmd", "otpcmd"} THEN "hello" ELSE "read")
    /\ UNCHANGED <<reset, outq, got, pos, serverVars, ghostVars>>

(* connect() finds nobody, and the client ends.                            *)
ConnectFails(c) ==
    /\ cpc[c] = "start" /\ ~up
    /\ \A d \in After[c] : ClientGone(d)
    /\ link' = [link EXCEPT ![c] = "closed"]
    /\ Step(c, "done")
    /\ UNCHANGED <<reset, inq, outq, got, of, pos, serverVars, ghostVars>>

(* The "1", or the end of the connection, which is taken for it.           *)
ServerGone(c) == link[c] = "closed" /\ outq[c] = << >>
GetOne(c) ==
    /\ cpc[c] = "hello"
    /\ outq[c] # << >> \/ ServerGone(c)
    /\ outq' = [outq EXCEPT ![c] = IF @ = << >> THEN @ ELSE Tail(@)]
    /\ Step(c, "send")
    /\ UNCHANGED <<link, reset, inq, got, of, pos, serverVars, ghostVars>>

(* send() fails on a connection that is reset, which ends the client.      *)
SendPlain(c) ==
    /\ cpc[c] = "send" /\ Kind[c] = "pcmd"
    /\ IF c \in reset THEN End(c, "done") /\ UNCHANGED inq
       ELSE Run(c, "read") /\ inq' = [inq EXCEPT ![c] = @ \o Text(Typed[c]) \o <<Nl>>]
    /\ UNCHANGED <<link, outq, got, of, pos, serverVars, ghostVars>>

(* otpcmd cuts the line feed, and ends when the key file is too short, or  *)
(* when send() fails: nothing is sent, and the .pos file stays as it is.   *)
SendEncrypted(c) ==
    /\ cpc[c] = "send" /\ Kind[c] = "otpcmd"
    /\ LET text == Text(Typed[c]) IN
         IF KeyTooShort(of[c], text) \/ c \in reset
           THEN End(c, "done") /\ UNCHANGED <<inq, used>>
           ELSE /\ inq' = [inq EXCEPT ![c] = @ \o OtpMessage(of[c], Encrypted(of[c], text))]
                /\ used' = used \cup KeyUse(of[c], text, c, "client")
                /\ Run(c, "save")
    /\ UNCHANGED <<link, outq, got, of, pos, pushed, said, serverVars>>

(* The first write of the .pos file.                                       *)
SavePos(c) ==
    /\ cpc[c] = "save"
    /\ of' = [of EXCEPT ![c] = @ + Len(Text(Typed[c]))]
    /\ pos' = of[c] + Len(Text(Typed[c]))
    /\ Step(c, "read")
    /\ UNCHANGED <<netVars, got, serverVars, ghostVars>>

ReadAnswer(c) ==
    /\ cpc[c] = "read" /\ outq[c] # << >>
    /\ got' = [got EXCEPT ![c] = @ \o outq[c]]
    /\ outq' = [outq EXCEPT ![c] = << >>]
    /\ UNCHANGED <<link, reset, inq, cpc, of, pos, serverVars, ghostVars>>

(* The answer is shown; the last write of the .pos file, unless the answer *)
(* is "2" or not XML, or recv() fails on a connection that is reset.       *)
OneElement(b) == b # << >> /\ b[1] = Root
NewPos(b) == OtpOffset(b) + EncodedSize(OtpContents(b))
FinishRead(c) ==
    /\ cpc[c] = "read" /\ ServerGone(c)
    /\ pos' = IF Kind[c] # "otpcmd" \/ c \in reset THEN pos
              ELSE IF IsOtp(got[c]) THEN NewPos(got[c])
              ELSE IF OneElement(got[c]) THEN of[c]
              ELSE pos
    /\ got' = [got EXCEPT ![c] = << >>]
    /\ End(c, "done")
    /\ UNCHANGED <<link, inq, outq, of, serverVars, ghostVars>>

(* The user interrupts it, or the web page waits no longer.                *)
GiveUp(c) ==
    /\ c \in Interruptible
    /\ cpc[c] \notin {"start", "done", "killed"}
    /\ End(c, "killed")
    /\ outq' = [outq EXCEPT ![c] = << >>]
    /\ got' = [got EXCEPT ![c] = << >>]
    /\ UNCHANGED <<otp_only, link, inq, of, pos, serverVars, ghostVars>>

Client(c) ==
    /\ UNCHANGED otp_only
    /\ \/ Connect(c) \/ ConnectFails(c) \/ GetOne(c) \/ SendPlain(c) \/ SendEncrypted(c) \/ SavePos(c)
       \/ ReadAnswer(c) \/ FinishRead(c)

Init ==
    /\ otp_only \in OtpOnly /\ up = TRUE
    /\ at = "poll" /\ conn = NoClient /\ fd = "closed" /\ closes = 1
    /\ buf = << >> /\ out = << >>
    /\ cpc = [c \in Clients |-> "start"]
    /\ link = [c \in Clients |-> "none"] /\ reset = {}
    /\ inq = [c \in Clients |-> << >>]
    /\ outq = [c \in Clients |-> << >>]
    /\ got = [c \in Clients |-> << >>]
    /\ of = [c \in Clients |-> 0]
    /\ pos = 0
    /\ pushed = [c \in Clients |-> NoUnits]
    /\ said = [c \in Clients |-> << >>]
    /\ used = {}

(* Every client has come and gone: the server goes on polling, if it runs. *)
Quiet ==
    /\ at = "poll" /\ \A c \in Clients : ClientGone(c) /\ link[c] # "queued"
    /\ UNCHANGED vars

Next == Server \/ (\E c \in Clients : Client(c) \/ GiveUp(c)) \/ AcceptFails \/ Quiet

(* The thread and the clients run; a piece of a text arrives in the end,   *)
(* and accept() does not fail for ever.                                    *)
Spec == Init /\ [][Next]_vars /\ WF_vars(Server) /\ \A c \in Clients : WF_vars(Client(c))

(***************************************************************************)
(* Properties.                                                             *)
(***************************************************************************)
Words ==
    Names \cup {"default", "pcmd", "pgui", "hello", "1", "2", "otp", "garbage", ">", "newline", "line", "peter",
               "running", "accepted", "program", "info", "quit", "log", "error", "error_at", "no_access",
               "not_allowed_or_unknown", "XML_error", "unknown_command"}
TokenType ==
    [class : {"text", "open", "close", "gt", "nl"}, v : Words, a : Words, n : Nat, key : Nat \cup {Plain}]

(* The places, descriptors and texts have the types that Socket.h, cmd.cc  *)
(* and otpcmd.cc give them; no key byte is behind the end of the key file, *)
(* where an offset may well be.                                            *)
TypeOK ==
    /\ otp_only \in BOOLEAN /\ up \in BOOLEAN
    /\ at \in {"poll", "read_data", "check_id", "gui", "read_more", "decide", "answer"}
    /\ conn \in Clients \cup {NoClient}
    /\ fd \in {"open", "closed"} /\ closes \in Nat
    /\ buf \in Seq(TokenType) /\ out \in Seq(Seq(TokenType))
    /\ cpc \in [Clients -> {"start", "hello", "send", "save", "read", "done", "killed"}]
    /\ link \in [Clients -> {"none", "queued", "open", "closed"}] /\ reset \subseteq Clients
    /\ {inq, outq, got, said} \subseteq [Clients -> Seq(TokenType)]
    /\ of \in [Clients -> Nat] /\ pos \in Nat
    /\ pushed \in [Clients -> [Range(Scheds) -> Seq(WorkUnit)]]
    /\ \A u \in used : u.byte \in Nat /\ u.byte < KeyLen

(* What a client brings about is one command, the whole of it, once, or    *)
(* nothing, however TCP cuts the text and whenever the client goes away;   *)
(* and nothing without the "1", from another host, or for a command that   *)
(* is not in the list (Socket.cc 226-391, 549-581).  It is the command     *)
(* typed, unless a key byte of 128 or more has encrypted a part of it.     *)
LowKeys(c) == \A u \in used : u.client = c /\ u.who = "client" => u.byte \notin HighKey
Permitted(cmd) == CmdAllow[1] = "all" \/ cmd.name \in Range(CmdAllow)
EffectsAreCommands ==
    \A c \in Clients : pushed[c] # NoUnits =>
        /\ \E cmd \in Wellformed :
             /\ pushed[c] = UnitsFor(cmd) /\ Permitted(cmd)
             /\ LowKeys(c) => cmd = Typed[c]
        /\ Kind[c] \in {"pcmd", "otpcmd"}
        /\ c \in HostAllow
        /\ otp_only => Kind[c] = "otpcmd"

(* What a client shows when it has read the whole answer.                  *)
HasRead(c) == cpc[c] = "read" /\ ServerGone(c)
Shown(c) ==
    IF IsOtp(got[c]) THEN Decrypted(OtpOffset(got[c]), OtpContents(got[c])) ELSE got[c]
Shows(c, t) == t \in Range(Shown(c))

(* No key byte of an encrypted text is 128 or more.                        *)
ReadsBack(b) == \A i \in DOMAIN OtpContents(b) : OtpContents(b)[i].key \notin HighKey

(* A client that shows "accepted" or "quitting" for a scheduler has added  *)
(* the work unit there; one that shows an error has added none (Socket.cc  *)
(* 335-388).                                                               *)
AnswerTells ==
    \A c \in Clients : \A s \in Range(Scheds) : HasRead(c) /\ (IsOtp(got[c]) => ReadsBack(got[c])) =>
        /\ Shows(c, Txt("accepted", s)) \/ Shows(c, Txt("quit", s)) => pushed[c][s] # << >>
        /\ Shows(c, Txt("error_at", s)) => pushed[c][s] = << >>
        /\ (\E e \in {"no_access", "not_allowed_or_unknown", "XML_error"} : Shows(c, Txt("error", e)))
             => pushed[c] = NoUnits

(* Whatever otpcmd decrypts with key bytes below 128 is what PETeR         *)
(* answered, whole and in order, also at the end of the key file and when  *)
(* other bytes of the file are higher (Socket.cc 282-283, 393-416;         *)
(* otpcmd.cc 251-274; otp.cc 41-88).                                       *)
OtpReadable ==
    \A c \in Clients : (Kind[c] = "otpcmd" /\ IsOtp(got[c]) /\ ReadsBack(got[c])) => Shown(c) = said[c]

(* Each connection is closed, and closed once: the next close() could hit  *)
(* a descriptor that another thread has opened meanwhile.  The page that   *)
(* goes away while its lines are sent is the exception (Socket.cc 206-215).*)
ClosedOnce ==
    conn # NoClient =>
        /\ at = "poll" => closes >= 1
        /\ Kind[conn] # "pgui" => closes <= 1

(* Nobody types a command with a child "otp", the element that otpcmd      *)
(* wraps around a command: cmd.find() (Socket.cc 229) would take it for an *)
(* encrypted one.  man/peter.1 and Scheduler::command() know no such child.*)
NoOtpChild == \A cmd \in Commands : "otp" \notin Range(cmd.kids)

(* otpcmd is run to its end, one at a time; and never to ask a scheduler   *)
(* for its programs, an answer that it cannot parse: it would leave the    *)
(* .pos file behind its command, and key bytes would be used twice.        *)
Otps == {c \in Clients : Kind[c] = "otpcmd"}
OneAtATime ==
    /\ \A c, d \in Otps : c = d \/ c \in After[d] \/ d \in After[c]
    /\ Otps \cap Interruptible = {}
    /\ \A c \in Otps : DirectFor(Typed[c]) = << >>

(* "Never ever reuse a one time pad (really)." (man/peter.1 363): a byte   *)
(* of the key file encrypts one character of one text, when OneAtATime     *)
(* holds.                                                                  *)
PadOnce == \A u, v \in used : u.byte = v.byte => u = v

(* Every client is served and ends, whoever gives up before it and however *)
(* its text arrives; a client that stays and sends nothing is not in the   *)
(* model: the server would wait for it for ever (Socket.cc 520-544).       *)
Served == \A c \in Clients : (cpc[c] # "start") ~> ClientGone(c)
=============================================================================
