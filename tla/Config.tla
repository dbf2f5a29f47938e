------------------------------- MODULE Config -------------------------------
(***************************************************************************)
(* The configuration: Config::read_config() of src/src/Config.cc, which    *)
(* reads the tree of the configuration file and creates the schedulers,    *)
(* the programs, their first work units and their actions, or ends PETeR.  *)
(* Module Launch goes on from here.                                        *)
(*                                                                         *)
(* Times are seconds from now.  A program in an Action or a work unit is   *)
(* named, "" for the program itself.                                       *)
(***************************************************************************)
EXTENDS XMLNode, Util

CONSTANTS
    Documents,      \* the configuration files, as elements
    Broken,         \* the files among them that are cut off: expat finds an error at the end
    DateTimes,      \* the texts of 19 characters, with the seconds until then, 0 when no date
    Address,        \* the host names that resolve, with their addresses
    HaveClearEnv    \* HAVE_CLEARENV, which configure sets

(* What expat makes of a document.                                         *)
RECURSIVE EventsOf(_)
EventsOf(item) ==
    IF ~IsElement(item) THEN <<[type |-> "contents", text |-> item.text]>>
    ELSE <<[type |-> "start", name |-> item.name, attributes |-> item.attributes]>>
         \o FlattenSeq([i \in DOMAIN item.kids |-> EventsOf(item.kids[i])])
         \o <<[type |-> "end"]>>
SyntaxError == [type |-> "error"]
CallsOf(d) == EventsOf(d) \o IF d \in Broken THEN <<SyntaxError>> ELSE << >>

ASSUME ConfigAssumption ==
    /\ \A d \in Documents : IsElement(d) /\ Nested(EventsOf(d))
    /\ Broken \subseteq Documents
    /\ \A t \in DOMAIN DateTimes : DateTimes[t] \in Int
    /\ HaveClearEnv \in BOOLEAN

VARIABLES
    phase,          \* "parse", "general", "programs", "done", or "exit"
    document,       \* the file that is read
    general,        \* what <general> says: otp_only, s_uid, s_gid, cl_env, pidfile, port, ...
    schedulers,     \* the vector schedulers: names, rates, programs and work units
    programs,       \* the vector programs
    prog            \* read_config's prog: the position among the children of <programs>

configVars == <<general, schedulers, programs, prog>>
vars == <<phase, document, parserVars, configVars>>

(* find_contents() with a default: when no child has the name it looks in  *)
(* the children of the children, and takes the first that is not empty;    *)
(* the default is not empty, so that the search ends in the first child.   *)
RECURSIVE FindContents(_, _, _)
FindContents(n, name, default) ==
    IF NamedChild(n, name) # NoNode THEN nodes[NamedChild(n, name)].contents
    ELSE LET deeper == [i \in DOMAIN Children(n) |-> FindContents(Children(n)[i], name, default)]
             some == SelectSeq(deeper, LAMBDA text : text # << >>)
         IN  IF some = << >> THEN default ELSE Head(some)

Root == current_node
Word(w) == <<w>>
Default == Word("default")

Scheduler(name, rate) == [name |-> name, rate |-> rate, programs |-> << >>, schedule |-> << >>]

(* Config::Config(); the pid file is told by its directory, and this is    *)
(* the one of a <general> without <pidfile>.                               *)
DefaultGeneral ==
    [otp_only |-> FALSE, s_uid |-> 0, s_gid |-> 0, cl_env |-> FALSE,
     pidfile |-> <<"/tmp", "/">>, port |-> 0, h_allow |-> << >>, c_allow |-> << >>]

Init ==
    /\ document \in Documents
    /\ ParserInit(CallsOf(document))
    /\ phase = "parse"
    /\ general = DefaultGeneral
    /\ schedulers = <<Scheduler(Default, 0)>>
    /\ programs = << >>
    /\ prog = 1

Exit ==
    /\ phase' = "exit"
    /\ UNCHANGED <<document, parserVars, configVars>>

(* parse_file()                                                            *)
ParseFile ==
    /\ phase = "parse"
    /\ \/ /\ made < Len(events) /\ Call # SyntaxError
          /\ Parse
          /\ UNCHANGED <<phase, document, configVars>>
       \/ /\ made < Len(events) /\ Call = SyntaxError
          /\ Exit
       \/ /\ made = Len(events)
          /\ phase' = "general"
          /\ UNCHANGED <<document, parserVars, configVars>>

(***************************************************************************)
(* <general>: each of its parts is optional but for the socket.            *)
(***************************************************************************)
(* The position of the first text that is no number, or one behind them.   *)
FirstThrow(texts) ==
    Least({i \in DOMAIN texts : Throws(texts[i])} \cup {Len(texts) + 1})

(* A rate that is no number ends the list, and is not an error.            *)
SchedulersOf(g) ==
    LET list == IF NamedChild(g, "schedulers") = NoNode THEN << >>
                ELSE Children(NamedChild(g, "schedulers"))
        rates == [i \in DOMAIN list |-> GetAttribute(list[i], "rate", Word("0"))]
        number == FirstThrow(rates) - 1
        Positive(r) == IF r > 0 THEN r ELSE 0
    IN  [i \in 1..number |-> Scheduler(GetAttribute(list[i], "name", Word("??")),
                                       Positive(Stoi(rates[i])))]

(* A uid that is no number leaves the gid and the environment alone.       *)
PrivOf(g, old) ==
    LET p == NamedChild(g, "priv")
        uid == GetAttribute(p, "uid", Word("0"))
        gid == GetAttribute(p, "gid", Word("0"))
    IN  IF p = NoNode \/ Throws(uid) THEN old
        ELSE IF Throws(gid) THEN [old EXCEPT !.s_uid = Stoi(uid)]
        ELSE [old EXCEPT !.s_uid = Stoi(uid), !.s_gid = Stoi(gid),
                         !.cl_env = HaveClearEnv
                                    /\ GetAttribute(p, "clearenv", Word("1")) # Word("0")]

OtpOf(g, old) ==
    LET o == NamedChild(g, "otp")
    IN  [old EXCEPT !.otp_only = o # NoNode /\ GetAttribute(o, "only", Word("0")) # Word("0")]

PidfileOf(g, old) ==
    LET f == NamedChild(g, "pidfile")
        dir == GetAttribute(f, "dir", <<".", "/">>)
    IN  IF f = NoNode THEN old
        ELSE [old EXCEPT !.pidfile = IF Last(dir) = "/" THEN dir ELSE Append(dir, "/")]

(* dnslookup() returns a name that does not resolve as it is.              *)
DnsLookup(host) == IF host \in DOMAIN Address THEN Address[host] ELSE host

SocketOf(s, old) ==
    LET port == Stoi(GetAttribute(s, "port", Word("2048")))
        hosts == Tokenize(NoBlanks(GetAttribute(s, "allow", Word("localhost"))), ",")
        names == Tokenize(NoBlanks(GetAttribute(s, "commands",
                             <<"info", ",", "log", ",", "status">>)), ",")
    IN  IF port <= 0 THEN [old EXCEPT !.port = port]
        ELSE [old EXCEPT !.port = port, !.h_allow = [i \in DOMAIN hosts |-> DnsLookup(hosts[i])],
                         !.c_allow = names]

ReadGeneral ==
    /\ phase = "general"
    /\ LET g == NamedChild(Root, "general")
           s == IF g = NoNode THEN NoNode ELSE NamedChild(g, "socket")
       IN  IF s = NoNode \/ Throws(GetAttribute(s, "port", Word("2048"))) THEN Exit
           ELSE /\ general' = SocketOf(s, PidfileOf(g, OtpOf(g, PrivOf(g, general))))
                /\ schedulers' = schedulers \o SchedulersOf(g)
                /\ phase' = IF NamedChild(Root, "programs") = NoNode THEN "exit" ELSE "programs"
                /\ UNCHANGED <<document, parserVars, programs, prog>>

(***************************************************************************)
(* A program.                                                              *)
(***************************************************************************)
(* get_scheduler(): the first with the name.                               *)
GetScheduler(name) == SelectInSeq(schedulers, LAMBDA s : s.name = name)

(* WorkUnit::WorkUnit( XMLNode *xml ): no unit, or one; may throw.         *)
AtOf(n) == GetAttribute(n, "at", Word("0"))
AfterOf(n) == GetAttribute(n, "after", Word("0"))
IsDate(n) == AtOf(n) \in DOMAIN DateTimes
UnitThrows(n) == Name(n) \in {"start", "stop"} /\ ~IsDate(n) /\ Throws(AfterOf(n))
UnitType == [start |-> "RUN", stop |-> "END", nostart |-> "NOSTART"]
Unit(type, p, t_at) == [type |-> type, program |-> p, t_at |-> t_at]
UnitsOf(n, p) ==
    CASE Name(n) = "nostart" -> <<Unit("NOSTART", p, 0)>>
      [] Name(n) \in {"start", "stop"} ->
           <<Unit(UnitType[Name(n)], p,
                  IF IsDate(n) THEN DateTimes[AtOf(n)] ELSE Stoi(AfterOf(n)))>>
      [] OTHER -> << >>

(* <init>: a unit that throws ends the list, and the default is added.     *)
DefaultUnit(p) == Unit("RUN", p, 0)
DefaultStartNone(init, list, good, p) ==                         \* mutant
    IF init = NoNode THEN <<DefaultUnit(p)>> ELSE << >>
DefaultStart(init, list, good, p) ==
    IF init = NoNode \/ good < Len(list) THEN <<DefaultUnit(p)>> ELSE << >>
InitUnits(n, p) ==
    LET init == NamedChild(n, "init")
        list == IF init = NoNode THEN << >> ELSE Children(init)
        good == Least({i \in DOMAIN list : UnitThrows(list[i])} \cup {Len(list) + 1}) - 1
    IN  FlattenSeq([i \in 1..good |-> UnitsOf(list[i], p)]) \o DefaultStart(init, list, good, p)

(* The codes of a list like 0,2,3,8-24, as far as they are numbers.        *)
RangeCodesOpen(a, b) == a..(b - 1)                               \* mutant
RangeCodes(a, b) == a..b
PartThrows(part) ==
    IF Contains(part, "-")
      THEN LET ends == Tokenize(part, "-") IN Throws(ends[1]) \/ Throws(ends[2])
      ELSE Throws(part)
PartCodes(part) ==
    IF Contains(part, "-")
      THEN LET ends == Tokenize(part, "-") IN RangeCodes(Stoi(ends[1]), Stoi(ends[2]))
      ELSE {Stoi(part)}
GoodParts(text) ==
    LET parts == Tokenize(text, ",")
    IN  SubSeq(parts, 1, Least({i \in DOMAIN parts : PartThrows(parts[i])}
                                 \cup {Len(parts) + 1}) - 1)
Codes(text) == UNION {PartCodes(part) : part \in Range(GoodParts(text))}
ListThrows(text) == Len(GoodParts(text)) < Len(Tokenize(text, ","))

(* The ActionList of an <exit>; its children are start, stop and exit: the *)
(* Action of another one would be an uninitialized pointer.                *)
Action(type, p, after) == [type |-> type, prog |-> p, after |-> after]
ActionThrows(c) == Name(c) \in {"start", "stop"} /\ Throws(AfterOf(c))
ActionList(x) ==
    [i \in DOMAIN Children(x) |->
        LET c == Children(x)[i] IN
        IF Name(c) = "exit" THEN Action("exit", << >>, 0)
        ELSE Action(Name(c), GetAttribute(c, "name", << >>), Stoi(AfterOf(c)))]

(* exit_actions, sgnl_actions, and whether something threw.                *)
NoActions == [res |-> << >>, sig |-> << >>, threw |-> FALSE]
Added(codes, al, old) == [c \in codes |-> al] @@ old
ExitElement(acts, x) ==
    IF acts.threw THEN acts
    ELSE IF \E i \in DOMAIN Children(x) : ActionThrows(Children(x)[i])
      THEN [acts EXCEPT !.threw = TRUE]
    ELSE IF HasAttribute(x, "signal")
      THEN LET text == GetAttribute(x, "signal", << >>)
           IN  [acts EXCEPT !.sig = Added(Codes(text), ActionList(x), @), !.threw = ListThrows(text)]
    ELSE LET text == GetAttribute(x, "result", Word("0"))
         IN  [acts EXCEPT !.res = Added(Codes(text), ActionList(x), @), !.threw = ListThrows(text)]

DefaultActions == <<Action("start", << >>, 0)>>
ProgramActions(n) ==
    LET actions == NamedChild(n, "actions")
        acts == IF actions = NoNode THEN [NoActions EXCEPT !.threw = TRUE]
                ELSE FoldLeft(ExitElement, NoActions, Children(actions))
    IN  IF acts.threw THEN [res |-> Added({0}, DefaultActions, acts.res),
                            sig |-> Added({0}, DefaultActions, acts.sig)]
                      ELSE [res |-> acts.res, sig |-> acts.sig]

LimitNames == {"restarts", "minruntime", "maxruntime"}
LimitText(n, limit) ==
    LET l == NamedChild(n, "limit")
    IN  IF l = NoNode THEN <<"-", "1">> ELSE GetAttribute(l, limit, <<"-", "1">>)
RedirectOf(n, stream) ==
    LET r == NamedChild(n, "redirect")
    IN  IF r = NoNode THEN Word("/dev/null") ELSE GetAttribute(r, stream, Word("/dev/null"))
StopSignal(n) == FindContents(n, "signal", Word("15"))
SchedulerName(n) == FindContents(n, "scheduler", Default)

(* What ends PETeR with "PETeR ended." or "unknown scheduler".             *)
ProgramThrowsNoName(n) ==                                        \* mutant
    \/ Throws(StopSignal(n))
    \/ \E limit \in LimitNames : Throws(LimitText(n, limit))
    \/ GetScheduler(SchedulerName(n)) = 0
ProgramThrows(n) ==
    \/ ~HasAttribute(n, "name")
    \/ Throws(StopSignal(n))
    \/ \E limit \in LimitNames : Throws(LimitText(n, limit))
    \/ GetScheduler(SchedulerName(n)) = 0

Commands(n) ==
    LET cmds == SelectSeq(Children(n), LAMBDA c : Name(c) = "cmd")
    IN  [i \in DOMAIN cmds |-> nodes[cmds[i]].contents]

ProgramOf(n) ==
    [name |-> GetAttribute(n, "name", << >>),
     seq |-> Commands(n),
     home |-> FindContents(n, "home", Word("./")),
     stop_sig |-> Stoi(StopSignal(n)),
     stdout |-> RedirectOf(n, "stdout"), stderr |-> RedirectOf(n, "stderr"),
     limits |-> [limit \in LimitNames |-> Stoi(LimitText(n, limit))],
     exit_actions |-> ProgramActions(n).res, sgnl_actions |-> ProgramActions(n).sig]

EnlistedDefault(s, name, units) ==                               \* mutant
    [schedulers EXCEPT ![s].programs = Append(@, name), ![1].schedule = @ \o units]
Enlisted(s, name, units) ==
    [schedulers EXCEPT ![s].programs = Append(@, name), ![s].schedule = @ \o units]

ReadProgram ==
    /\ phase = "programs"
    /\ LET list == Children(NamedChild(Root, "programs"))
           n == list[prog]
           name == GetAttribute(n, "name", << >>)
           s == GetScheduler(SchedulerName(n))
       IN  /\ prog <= Len(list)
           /\ IF ProgramThrows(n) THEN Exit
              ELSE /\ programs' = Append(programs, ProgramOf(n))
                   /\ schedulers' = Enlisted(s, name, InitUnits(n, name))
                   /\ prog' = prog + 1
                   /\ UNCHANGED <<phase, document, parserVars, general>>

ProgramsRead ==
    /\ phase = "programs"
    /\ prog > Len(Children(NamedChild(Root, "programs")))
    /\ phase' = "done"
    /\ UNCHANGED <<document, parserVars, configVars>>
=============================================================================
