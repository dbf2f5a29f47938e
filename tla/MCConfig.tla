------------------------------ MODULE MCConfig ------------------------------
(***************************************************************************)
(* Configuration files for TLC: one part of a file varies at a time.       *)
(***************************************************************************)
EXTENDS ConfigProps

E(name, kids) == Element(name, NoAttrs, kids)
A(name, attrs) == Element(name, attrs, << >>)
Line == Chars(<<"\n">>)
Text(name, text) == E(name, <<Chars(text)>>)
W(w) == <<w>>

Words ==
    "0" :> 0 @@ "1" :> 1 @@ "2" :> 2 @@ "3" :> 3 @@ "5" :> 5 @@ "8" :> 8 @@ "15" :> 15
    @@ "11" :> 11 @@ "17" :> 17 @@ "20" :> 20 @@ "24" :> 24 @@ "2048" :> 2048
Dates == (W("2019-03-28 21:55:28") :> -100) @@ (W("2099-03-28 21:55:28") :> 100)
         @@ (W("not.a.date.at.all..") :> 0)
Hosts == (W("localhost") :> W("127.0.0.1")) @@ (W("dante") :> W("10.0.0.2"))

Socket == A("socket", [port |-> W("2048"), commands |-> <<"info", ",", " ", "quit">>,
                       allow |-> <<"localhost", " ", ",", "dante", ",", "10.0.0.9">>])
PlainGeneral == E("general", <<Line, Socket, Line>>)
Cmd == Text("cmd", <<"sleep", " ", "10">>)
Program(name, kids) == Element("program", [name |-> W(name)], <<Line, Cmd, Line>> \o kids)
File(gen, progs) == E("peter", <<Line, gen, Line, E("programs", <<Line>> \o progs), Line>>)

(* <init> and <actions> in all their forms.                                *)
Start == A("start", NoAttrs)
StartAfter(t) == A("start", [after |-> t])
Inits == {
    << >>, <<E("init", << >>)>>, <<E("init", <<A("nostart", NoAttrs)>>)>>,
    <<E("init", <<Line, StartAfter(W("20")), Line, A("stop", [after |-> W("5")])>>)>>,
    <<E("init", <<A("start", [at |-> W("2019-03-28 21:55:28")]), A("wait", NoAttrs),
                  A("stop", [at |-> W("2099-03-28 21:55:28")])>>)>>,
    <<E("init", <<A("start", [at |-> W("not.a.date.at.all..")])>>)>>,
    <<E("init", <<StartAfter(W("20")), StartAfter(W("soon")), A("stop", NoAttrs)>>)>>}
Exit0(kids) == E("exit", kids)
ExitOn(kind, text, kids) == Element("exit", (kind :> text), kids)
StartOther == A("start", [name |-> W("p2"), after |-> W("3")])
Actions == {
    << >>,
    <<E("actions", << >>)>>,
    <<E("actions", <<Exit0(<< >>)>>)>>,
    <<E("actions", <<ExitOn("result", <<"0", ",", "2", "-", "5", ",", "8">>, <<Start>>),
                     Line, ExitOn("result", W("3"), <<StartOther, A("exit", NoAttrs)>>),
                     ExitOn("signal", W("15"), <<A("stop", [name |-> W("p2")])>>)>>)>>,
    <<E("actions", <<ExitOn("signal", <<"1", "-", "3">>, <<Start>>), ExitOn("signal", W("0"), << >>),
                     Exit0(<<StartOther>>)>>)>>,
    <<E("actions", <<ExitOn("result", <<"5", "-", "3">>, <<Start>>),
                     ExitOn("result", <<"1", ",", "some", ",", "2">>, <<StartOther>>),
                     ExitOn("result", W("8"), << >>)>>)>>,
    <<E("actions", <<ExitOn("result", W("2"), <<StartOther>>),
                     ExitOn("signal", W("2"), <<StartAfter(W("soon"))>>)>>)>>}

Behaviours == {File(PlainGeneral, <<Program("p1", i \o a), Program("p2", << >>)>>) :
                 i \in Inits, a \in Actions}

(* The other parts of a program.                                           *)
Others == {
    <<E("home", <<Chars(<<"/srv">>)>>), Text("signal", W("20"))>>,
    <<Text("signal", W("2")), A("limit", [restarts |-> W("3"), minruntime |-> W("2")]),
      A("redirect", [stderr |-> W("foo.txt")])>>,
    <<A("limit", [maxruntime |-> W("long")])>>,
    <<Text("scheduler", W("s2"))>>, <<Text("scheduler", W("s9"))>>, <<A("signal", NoAttrs)>>,
    <<Text("cmd", <<"sh", " ", "-c", " ", "\"", "a", " ", " ", "b", "\"", " ", " ", "c">>)>>,
    <<Text("cmd", <<" ", "ls", " ">>)>>,
    <<E("cmd", <<Chars(<<"one">>), Line, Chars(<<"two", " ", "three">>)>>)>>}
TwoSchedulers ==
    E("schedulers", <<A("scheduler", [name |-> W("s1")]), Line,
                      A("scheduler", [name |-> W("s2"), rate |-> W("2")])>>)
WithSchedulers == E("general", <<TwoSchedulers, Line, Socket>>)
Programs == {File(WithSchedulers, <<Program("p1", << >>), Line, Program("p2", o), Program("p3", << >>)>>) :
               o \in Others}

(* <general>.                                                              *)
Generals == {
    E("general", <<Socket, A("priv", [uid |-> W("5"), gid |-> W("x")])>>),
    E("general", <<A("priv", [uid |-> W("x"), gid |-> W("5")]), Socket>>),
    E("general", <<A("priv", [gid |-> W("5")]), A("otp", [only |-> W("1")]), Socket>>),
    E("general", <<A("otp", [keydir |-> W("otp")]), A("pidfile", [dir |-> W("run")]), Socket>>),
    E("general", <<A("pidfile", [dir |-> <<"/run", "/">>]), A("log", NoAttrs),
                   A("socket", [port |-> W("0")])>>),
    E("general", <<A("socket", NoAttrs)>>), E("general", <<A("socket", [port |-> W("x")])>>),
    E("general", <<A("socket", [commands |-> <<"info", " ", ",">>,
                                allow |-> <<"dante", ",", ",", "localhost">>])>>),
    E("general", <<A("socket", [port |-> W("2048"), commands |-> << >>,
                                allow |-> <<" ">>])>>),
    E("general", <<Line>>),
    E("general", <<E("schedulers", <<A("scheduler", [name |-> W("s1"), rate |-> W("x")])>>), Socket>>)}
Files == {File(g, <<Program("p1", << >>)>>) : g \in Generals}

(* What programs are started from, and a notification (README 228-251).    *)
Job(name, kids) == Element("program", [name |-> W(name)], kids)
Home(dir) == E("home", <<Chars(dir)>>)
Notify == <<"mail", " ", "-text", " ", "\"", "UTC", ":Program ", "NAME", " failed (", "RES", "/",
            "SIG", ").", "\"">>
Notification ==
    File(PlainGeneral,
         <<Job("P1", <<Cmd, E("actions", <<ExitOn("signal", W("0"),
                               <<A("start", [name |-> W("Fail")]), Start>>)>>)>>),
           Job("Fail", <<Text("cmd", Notify), E("init", << >>),
                         E("actions", <<ExitOn("result", W("0"), << >>)>>)>>)>>)
Launches == {
    <<Home(<<"/none">>), Text("cmd", <<"mail", " ", "NAME">>)>>,
    <<Home(<<"/srv">>), Text("cmd", <<"job">>), Text("cmd", <<"sleep">>)>>,
    <<Home(<<"/srv">>), Text("cmd", <<"./job">>)>>, <<Text("cmd", <<"./job">>)>>,
    <<Text("cmd", <<"/opt/run", " ", "-v">>)>>, <<Text("cmd", <<"/opt/away">>)>>,
    <<Text("cmd", <<"away">>)>>, <<Text("cmd", <<"notes">>), Text("cmd", <<"sh">>)>>,
    <<Text("cmd", <<"log.d", " ", "x">>)>>, <<Text("cmd", <<"old">>)>>, <<Text("cmd", <<"/opt">>)>>,
    <<Text("cmd", <<"/opt/old">>)>>,
    <<Text("cmd", <<"sleep">>), A("redirect", [stdout |-> W("/none/log")])>>,
    <<Text("cmd", <<"sleep">>), Text("cmd", <<"job2">>), Text("cmd", <<"sh", " ", "NAME">>)>>}
Launched == {File(PlainGeneral, <<Job("p1", l)>>) : l \in Launches}

NotifyOnly == {Notification}

(* The file system and the deaths.                                         *)
Path == <<W("/bin"), W("/usr/bin")>>
HomeDirs == {W("./"), W("/srv")}
Kind(kind, dir, names) == [f \in {<<dir, W(n)>> : n \in names} |-> kind]
FilesThere ==
    Kind("executable", W("/bin"), {"sleep", "sh", "ls", "one"})
    @@ Kind("executable", W("/usr/bin"), {"mail", "job2", "notes"})
    @@ Kind("executable", W("/srv"), {"job", "./job"})
    @@ Kind("executable", << >>, {"/opt/run"})
    @@ Kind("plain", W("/bin"), {"notes"}) @@ Kind("dangling", W("/bin"), {"old"})
    @@ Kind("directory", W("/usr/bin"), {"log.d"}) @@ Kind("directory", << >>, {"/opt"})
    @@ Kind("dangling", << >>, {"/opt/old"})
    @@ (<<W("/bin"), << >>>> :> "directory")
Full == {W("/opt/run"), W("/opt/away"), W("/opt"), W("/opt/old")}
Dot == {W("./job")}
Logs == {W("/dev/null"), W("foo.txt")}
SomeDeaths == {[res |-> 0, sig |-> 0], [res |-> 17, sig |-> 0], [res |-> 0, sig |-> 11]}

Cut == File(PlainGeneral, <<Program("p9", << >>)>>)
Bare == E("peter", <<PlainGeneral>>)
NoGeneral == E("peter", <<E("programs", <<Program("p1", << >>)>>)>>)
Idle == File(PlainGeneral, << >>)
Unnamed == File(PlainGeneral, <<Program("p1", << >>), E("program", <<Cmd>>)>>)

AllFiles == Behaviours \cup Programs \cup Files \cup Launched \cup {Notification, Cut, Bare, NoGeneral, Idle,
                                                            Unnamed}
CutOff == {Cut}
=============================================================================
