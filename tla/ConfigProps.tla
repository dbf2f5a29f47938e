----------------------------- MODULE ConfigProps -----------------------------
(***************************************************************************)
(* What the configuration reader must make of a file.  The file is the     *)
(* document itself here: these definitions use neither the tree of nodes   *)
(* nor the functions on texts, but for the values of numbers.              *)
(***************************************************************************)
EXTENDS Launch

Read == phase = "done"

(* The vectors and the nodes have the types that Config.h and XMLNode.h    *)
(* give them.                                                              *)
TypeOK ==
    /\ phase \in {"parse", "general", "programs", "done", "exit"}
    /\ document \in Documents
    /\ level \in Nat
    /\ current_node \in (IF nodes = << >> THEN {NoNode} ELSE 1..Len(nodes))
    /\ \A i \in DOMAIN nodes :
         /\ nodes[i].parent \in 0..(i - 1)
         /\ \A c \in Range(nodes[i].children) : c \in (i + 1)..Len(nodes)
    /\ general.otp_only \in BOOLEAN /\ general.cl_env \in BOOLEAN
    /\ \A i \in DOMAIN schedulers : schedulers[i].rate \in Nat
    /\ {DOMAIN cmd, DOMAIN seq_idx, DOMAIN s_attribs, DOMAIN proc} = {DOMAIN programs}
    /\ todo \subseteq DOMAIN programs
    /\ \A k \in DOMAIN programs : seq_idx[k] \in Nat /\ (seq_idx[k] > 0 => seq_idx[k] < Len(programs[k].seq))

(* The document that the tree under a node stands for, and the one that a  *)
(* file means: of an element's own text only the last piece.               *)
RECURSIVE TreeOf(_)
TreeOf(n) ==
    [name |-> Name(n), attributes |-> nodes[n].attributes, contents |-> nodes[n].contents,
     kids |-> [i \in DOMAIN Children(n) |-> TreeOf(Children(n)[i])]]

RECURSIVE Meant(_)
Meant(item) ==
    LET elements == SelectSeq(item.kids, IsElement)
        texts == SelectSeq(item.kids, LAMBDA k : ~IsElement(k))
    IN  [name |-> item.name, attributes |-> item.attributes,
         contents |-> IF texts = << >> THEN << >> ELSE Last(texts).text,
         kids |-> [i \in DOMAIN elements |-> Meant(elements[i])]]

(* parse_file() returns the tree of the file: every element under its      *)
(* parent, in order, with its attributes and its own text, wherever line   *)
(* feeds and comments break the text around it (expat_parser.cc 53-88).    *)
TreeIsDocument == phase \notin {"parse", "exit"} => TreeOf(Root) = Meant(document)

(***************************************************************************)
(* Parts of the document.                                                  *)
(***************************************************************************)
Elements(item) == SelectSeq(item.kids, IsElement)
Named(item, name) == SelectSeq(Elements(item), LAMBDA e : e.name = name)
Has(item, name) == Named(item, name) # << >>
First(item, name) == Head(Named(item, name))
Attr(item, a) == item.attributes[a]
HasAttr(item, a) == a \in DOMAIN item.attributes
Listed == Elements(First(document, "programs"))

(* A list of codes as the manual means it: a code stands there alone, or   *)
(* between the ends of a range.                                            *)
IsNumber(w) == w \in DOMAIN Numerals
Names(text, c) ==
    \/ \E i \in DOMAIN text :
         /\ IsNumber(text[i]) /\ Numerals[text[i]] = c
         /\ "-" \notin {text[j] : j \in {i - 1, i + 1} \cap DOMAIN text}
    \/ \E i \in 1..(Len(text) - 2) :
         /\ text[i + 1] = "-" /\ IsNumber(text[i]) /\ IsNumber(text[i + 2])
         /\ c \in Numerals[text[i]]..Numerals[text[i + 2]]
GoodList(text) ==
    \A i \in DOMAIN text :
       IF i % 2 = 1 THEN IsNumber(text[i]) /\ Len(text) % 2 = 1
       ELSE text[i] = "," \/ (text[i] = "-" /\ i > 2 => text[i - 2] # "-")

Applies(x, kind, c) ==
    CASE kind = "signal" -> HasAttr(x, "signal") /\ Names(Attr(x, "signal"), c)
      [] HasAttr(x, "signal") -> FALSE
      [] HasAttr(x, "result") -> Names(Attr(x, "result"), c)
      [] OTHER -> c = 0
GoodAfter(e) == HasAttr(e, "after") => Len(Attr(e, "after")) = 1 /\ IsNumber(Attr(e, "after")[1])
GoodExit(x) ==
    /\ \A a \in {"signal", "result"} : HasAttr(x, a) => GoodList(Attr(x, a))
    /\ \A e \in Range(Elements(x)) : GoodAfter(e)
Meaning(x) ==
    [i \in DOMAIN Elements(x) |->
        LET e == Elements(x)[i]
        IN  [type |-> e.name, prog |-> IF HasAttr(e, "name") THEN Attr(e, "name") ELSE << >>,
             after |-> IF HasAttr(e, "after") THEN Numerals[Attr(e, "after")[1]] ELSE 0]]

AllCodes == 0..25
LastFor(exits, kind, c) ==
    LET S == {i \in DOMAIN exits : Applies(exits[i], kind, c)}
    IN  IF S = {} THEN 0 ELSE CHOOSE i \in S : \A j \in S : j <= i
TableOf(p, kind) == IF kind = "signal" THEN p.sgnl_actions ELSE p.exit_actions
DefaultOnly == (0 :> DefaultActions)

(* A program reacts to an exit code, or a signal, as the last <exit>       *)
(* element that names it says; to code and signal 0 with a restart when    *)
(* there is no <actions>, or when a part of it is no number: then what     *)
(* comes before that part still counts (Config.cc 340-451, Program.cc      *)
(* 378-384).                                                               *)
ActionsAsWritten ==
    Read => \A k \in DOMAIN programs : \A kind \in {"result", "signal"} :
        LET e == Listed[k]
            exits == IF Has(e, "actions") THEN Elements(First(e, "actions")) ELSE << >>
            bad == {i \in DOMAIN exits : ~GoodExit(exits[i])}
            t == TableOf(programs[k], kind)
        IN  IF ~Has(e, "actions") THEN t = DefaultOnly
            ELSE IF bad = {}
              THEN \A c \in AllCodes :
                     /\ c \in DOMAIN t <=> LastFor(exits, kind, c) # 0
                     /\ c \in DOMAIN t => t[c] = Meaning(exits[LastFor(exits, kind, c)])
            ELSE /\ t[0] = DefaultActions
                 /\ \A c \in AllCodes \ {0} :
                      LET before == SubSeq(exits, 1, Min(bad) - 1)
                      IN  (LastFor(before, kind, c) # 0 /\ ~Applies(exits[Min(bad)], kind, c))
                            => t[c] = Meaning(exits[LastFor(before, kind, c)])

(* The schedule of the scheduler that runs a program has the work units of *)
(* its <init>, in their order and at their times, and no other schedule    *)
(* has one: without <init> the program is started at once, and behind the  *)
(* units in front of one whose time is no number as well (Config.cc        *)
(* 304-335, 453-459; WorkUnit.cc).                                         *)
HasDate(u) == HasAttr(u, "at") /\ Attr(u, "at") \in DOMAIN DateTimes
TimeOf(u) ==
    CASE u.name = "nostart" -> 0
      [] HasDate(u) -> DateTimes[Attr(u, "at")]
      [] OTHER -> IF HasAttr(u, "after") THEN Numerals[Attr(u, "after")[1]] ELSE 0
StartsAsWritten ==
    Read => \A k \in DOMAIN programs :
        LET e == Listed[k]
            own == programs[k].name
            Mine(i) == SelectSeq(schedulers[i].schedule, LAMBDA wu : wu.program = own)
            asked == SelectSeq(Elements(First(e, "init")),
                               LAMBDA u : u.name \in {"start", "stop", "nostart"})
            bad == {i \in DOMAIN asked : asked[i].name # "nostart" /\ ~HasDate(asked[i])
                                        /\ ~GoodAfter(asked[i])}
            before == IF bad = {} THEN asked ELSE SubSeq(asked, 1, Min(bad) - 1)
            written == [i \in DOMAIN before |->
                          Unit(UnitType[before[i].name], own, TimeOf(before[i]))]
            units == IF ~Has(e, "init") THEN <<DefaultUnit(own)>>
                     ELSE IF bad = {} THEN written ELSE Append(written, DefaultUnit(own))
        IN  \A i \in DOMAIN schedulers :
               Mine(i) = IF own \in Range(schedulers[i].programs) THEN units ELSE << >>

(* What module Scheduler assumes of its constants, for a file that gives   *)
(* each program a name of its own and a command: every program belongs to  *)
(* one scheduler, there once, and what a scheduler has to start or stop is *)
(* a program of its own.  The code checks neither names nor commands       *)
(* (Config.cc 453-459).                                                    *)
Distinct(seq) == \A i, j \in DOMAIN seq : seq[i] = seq[j] => i = j
NamesOf(list) == [i \in DOMAIN list |-> Attr(list[i], "name")]
SchedulerReady ==
    (Read /\ Distinct(NamesOf(Listed)) /\ \A i \in DOMAIN Listed : Has(Listed[i], "cmd")) =>
        /\ \A i \in DOMAIN schedulers : Distinct(schedulers[i].programs)
        /\ \A i, j \in DOMAIN schedulers : i # j =>
             Range(schedulers[i].programs) \cap Range(schedulers[j].programs) = {}
        /\ Range(NamesOf(Listed)) = UNION {Range(s.programs) : s \in Range(schedulers)}
        /\ \A s \in Range(schedulers) : \A wu \in Range(s.schedule) :
             wu.program \in Range(s.programs)
        /\ \A k \in DOMAIN programs : programs[k].seq # << >>

(* The commands and the hosts of the socket are the words between the      *)
(* commas of the lists, in their order, the hosts as addresses: a comma at *)
(* an end, or one behind another, makes an empty word, and an empty list   *)
(* has no word.  What is not written is the default; with a port of 0 or   *)
(* less nothing is read (Config.cc 216-240, util.cc 292-307).              *)
CommasBefore(text, i) == Cardinality({j \in 1..(i - 1) : text[j] = ","})
WordsOf(text) ==
    LET Is(i, n) == text[i] \notin {",", Blank} /\ CommasBefore(text, i) = n
        WordAt(n) == SelectSeq([i \in DOMAIN text |-> IF Is(i, n) THEN text[i] ELSE ""],
                               LAMBDA t : t # "")
    IN  IF Range(text) \subseteq {Blank} THEN << >>
        ELSE [k \in 1..(CommasBefore(text, Len(text) + 1) + 1) |-> WordAt(k - 1)]
AccessAsWritten ==
    Read =>
        LET s == First(First(document, "general"), "socket")
            hosts == WordsOf(IF HasAttr(s, "allow") THEN Attr(s, "allow") ELSE Word("localhost"))
            reads == general.port > 0
        IN  /\ general.c_allow =
                 IF ~reads THEN << >>
                 ELSE IF HasAttr(s, "commands") THEN WordsOf(Attr(s, "commands"))
                 ELSE <<Word("info"), Word("log"), Word("status")>>
            /\ Len(general.h_allow) = IF reads THEN Len(hosts) ELSE 0
            /\ \A i \in DOMAIN general.h_allow :
                 general.h_allow[i] = IF hosts[i] \in DOMAIN Address THEN Address[hosts[i]]
                                                                    ELSE hosts[i]

(* What is written as the commands of a program: the last piece of text of *)
(* each <cmd>.                                                             *)
Written(k) == [i \in DOMAIN Named(Listed[k], "cmd") |-> Meant(Named(Listed[k], "cmd")[i]).contents]

(* Whatever has died before, execvp() gets the words of the command that   *)
(* the sequence is at, as they are written (see NotificationTells), the    *)
(* quoted ones whole: the blanks between them are gone and no other        *)
(* character is.  A blank at the end leaves one more argument, which is    *)
(* empty (Program.cc 133-153, 279-293, util.cc 250-281).                   *)
Quoted(text, i) == InString(text, 1, i)
WordStarts(text) ==
    {i \in DOMAIN text : /\ text[i] # Blank
                         /\ i > 1 => text[i - 1] = Blank /\ ~Quoted(text, i)}
ArgsAsWritten ==
    Read => \A k \in DOMAIN programs : proc[k].st = "runs" =>
        LET args == proc[k].args
            text == Written(k)[seq_idx[k] + 1]
            outside == {i \in DOMAIN text : text[i] = Blank /\ ~Quoted(text, i)}
            marked == [i \in DOMAIN text |-> IF i \in outside THEN "" ELSE text[i]]
            last == IF Len(text) \in outside THEN 1 ELSE 0
        IN  /\ FlattenSeq(args) = SelectSeq(marked, LAMBDA w : w # "")
            /\ Len(args) = Cardinality(WordStarts(text)) + last
            /\ \A i \in 1..(Len(args) - last) : args[i] # << >>

(* The check of the binary before the fork and execvp() do not look for    *)
(* the same thing in the same places: the check takes a name in PATH,      *)
(* whatever the file is, and one in the home directory, which is not       *)
(* searched, and "./" is PETeR's own directory to it, not the program's.   *)
(* But for "./", it refuses no command that execvp() would run; and what   *)
(* it takes fails only where there is something of that name and nothing   *)
(* that can be executed (Program.cc 170-214, 281-293).  The command's      *)
(* first word is its first argument here: no blank before it, no quote.    *)
Kinds(name, dirs) == {FileKind[f] : f \in {<<d, name>> : d \in dirs} \cap DOMAIN FileKind}
Searched(name, home) ==
    IF name \in FullPath THEN {<< >>} ELSE IF name \in DotPath THEN {home} ELSE Range(PathDirs)
Checked(name, home) ==
    IF name \in FullPath THEN {<< >>}
    ELSE IF name \in DotPath THEN {Word("./")} ELSE Range(PathDirs) \cup {home}
CheckTellsExec ==
    Read => \A k \in DOMAIN programs : programs[k].seq # << >> =>
        LET home == programs[k].home
            text == TextOf(k)
            name == BinOf(text)
            runs == home \in Dirs /\ "executable" \in Kinds(name, Searched(name, home))
        IN  name # << >> /\ ArgSplit(text)[1] = name =>
              /\ proc[k].st = "runs" => runs
              /\ proc[k].st = "refused" => ~runs \/ name \in DotPath
              /\ proc[k].st = "failed" =>
                   home \in Dirs /\ ~runs /\ Kinds(name, Checked(name, home)) # {}

(* "the UTC, NAME, RES and SIG strings are changed into the real values    *)
(* when the program is started" (README 234-236).  The run of it expects a *)
(* violation.                                                              *)
NotificationTells ==
    Read => \A k \in DOMAIN programs : proc[k].st = "runs" =>
        {"UTC", "NAME", "RES", "SIG"} \cap Range(FlattenSeq(proc[k].args)) = {}

(* PETeR reads a file to its end when expat does, the socket, its port,    *)
(* and <programs> are there, and every program has a name, a scheduler of  *)
(* the list, and a stop signal and limits that are numbers; on any other   *)
(* file it ends.  A rate that is no number ends the list of schedulers,    *)
(* and not PETeR; no program at all is enough (Config.cc 94-124, 216-218,  *)
(* 242-310).                                                               *)
IsNumeric(item, a) == HasAttr(item, a) => ~Throws(Attr(item, a))
ContentsOf(item, name) == Meant(First(item, name)).contents
KnownSchedulers ==
    LET gen == First(document, "general")
        list == IF Has(gen, "schedulers") THEN Elements(First(gen, "schedulers")) ELSE << >>
        known == {i \in DOMAIN list : \A j \in 1..i : IsNumeric(list[j], "rate")}
    IN  {Default} \cup {IF HasAttr(list[i], "name") THEN Attr(list[i], "name") ELSE Word("??") :
                          i \in known}
GoodProgram(p) ==
    /\ HasAttr(p, "name")
    /\ Has(p, "scheduler") => ContentsOf(p, "scheduler") \in KnownSchedulers
    /\ Has(p, "signal") => ~Throws(ContentsOf(p, "signal"))
    /\ Has(p, "limit") => \A limit \in LimitNames : IsNumeric(First(p, "limit"), limit)
Runnable ==
    /\ document \notin Broken
    /\ Has(document, "general") /\ Has(document, "programs")
    /\ Has(First(document, "general"), "socket")
    /\ IsNumeric(First(First(document, "general"), "socket"), "port")
    /\ \A i \in DOMAIN Listed : GoodProgram(Listed[i])
ExitsOrReads ==
    /\ phase = "done" => Runnable
    /\ phase = "exit" => ~Runnable
=============================================================================
