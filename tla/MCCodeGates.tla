------------------------------- MODULE MCCodeGates -------------------------------
(***************************************************************************)
(* For each gate the lines that matter to it, extracts that pass or nearly *)
(* pass, and a few worlds.                                                 *)
(***************************************************************************)
EXTENDS CodeGates, TLC

(* Leaks: the tree d1 holds f1 and a link to d2, which holds f2; f3 is out of reach
   of the authorized roots. *)
Goes(dir, name, to) ==
  [of |-> "entry", dir |-> dir, name |-> name, to |-> to, scanned |-> TRUE, skipped |-> FALSE]
Fact(file, token) == [of |-> "fact", file |-> file, token |-> token]
Waives(token) == [of |-> "waiver", is |-> "row", token |-> token]
Quote(text, form) == [is |-> "string", text |-> text, form |-> form, size |-> 3]
Number(n) == [is |-> "number", value |-> n]
Quoted(n) == [is |-> "quoted", value |-> n]

LeakTree == <<Goes("d1", "a", "f1"), Goes("d1", "b", "d2"), Goes("d2", "c", "f2")>>

LeakLines ==
  {Fact(f, t) : f \in {"f1", "f2", "f3"}, t \in {Quote("t1", "NFC"), Quote("t1", "NFD"), Number(10), Quoted(10)}}
    \cup {Fact("f2", [is |-> "comment"]), Fact("f2", [Quote("t1", "NFC") EXCEPT !.size = 2]), Fact("f2", Number(9))}
    \cup {Waives(Quote("t1", "NFD")), Waives(Quoted(10)), Waives(Number(11)), [of |-> "waiver", is |-> "malformed"]}
    \cup {Goes("d2", "loop", "d1"), Goes("d1", "again", "f2"), Goes("d2", "out", "f3"), Goes("d1", "gone", "dangling"),
          [Goes("d1", "skip", "d2") EXCEPT !.skipped = TRUE], [Goes("d2", "other", "f3") EXCEPT !.scanned = FALSE]}

LeakDrafts ==
  {LeakTree \o <<Fact("f1", Quote("t1", "NFC")), Fact("f2", Number(10))>>,
   SubSeq(LeakTree, 1, 1) \o <<Fact("f1", Quoted(10)), Fact("f3", Number(10))>>}

LeakSites ==
  LET home == ("d1" :> "here") @@ ("d2" :> "here") @@ ("f1" :> "here") @@ ("f2" :> "here") @@ ("f3" :> "there")
  IN  {[tops |-> {"d1"}, named |-> {}, roots |-> {"here"}, home |-> home],
       [tops |-> {"d1"}, named |-> {"f3"}, roots |-> {"here"}, home |-> home],
       [tops |-> {"d1"}, named |-> {"f3"}, roots |-> {"here", "there"}, home |-> home]}
LeakWorlds == [site : LeakSites, noStale : BOOLEAN]

(* Coupling *)
Mod(m, how) == [of |-> "module", name |-> <<m, how>>]
Dep(m, n) == [of |-> "edge", from |-> <<m, "plain">>, to |-> <<n, "plain">>]
Why(m, n, size) == [of |-> "reason", from |-> <<m, "plain">>, to |-> <<n, "composed">>, size |-> size]

CouplingLines ==
  {Dep(m, n) : m, n \in {"x", "y", "z"}}
    \cup {Why("x", "y", 2), Why("y", "z", 2), Why("z", "x", 1), Mod("x", "cased"), [of |-> "malformed"]}

CouplingDrafts ==
  {<<Mod("x", "plain"), Mod("y", "composed"), Mod("z", "plain"), Dep("x", "y"), Why("y", "z", 2)>>,
   <<Mod("x", "plain"), Mod("y", "plain"), Mod("z", "plain"), Dep("z", "y"), Dep("x", "y"), Why("x", "y", 2)>>}

Arc(m, n) == <<<<m, FALSE>>, <<n, FALSE>>>>
CouplingWorlds ==
  [baseline : {{Arc("x", "y")}, {Arc("z", "y"), Arc("y", "y")}, {Arc("x", "y"), Arc("z", "x")}},
   budget : {1}, reason : {2}, adopted : {0}]

(* Cohesion *)
Size(c, how, n) == [of |-> "component", name |-> <<c, how>>, size |-> n]
Commit(r, members) == [of |-> "commit", ref |-> <<r, "plain">>, members |-> members]
Commits(n) == [of |-> "commits", total |-> n]

CohesionLines ==
  {Commits(1), Commits(2), Size("c1", "plain", 1), Size("c2", "respelt", 2), Size("c2", "plain", 3),
   Commit("r2", {<<"c1", "plain">>, <<"c1", "respelt">>}), Commit("r2", {<<"c1", "plain">>, <<"c2", "plain">>}),
   Commit("r1", {<<"c2", "plain">>}), Commit("r2", {}), [of |-> "comment"], [of |-> "malformed"]}

CohesionDrafts ==
  {<<Commits(2), Size("c1", "plain", 2), Size("c2", "plain", 2),
     Commit("r1", {<<"c1", "plain">>, <<"c1", "respelt">>})>>,
   <<Commits(1), Size("c1", "respelt", 2), Commit("r1", {<<"c1", "plain">>})>>}

CohesionWorlds == [context : {2}, fan : {1}, percent : {0, 50}]

(* Stability *)
Part(c, a, n) == [of |-> "component", name |-> c, abstract |-> a, total |-> n]
Needs(c, d) == [of |-> "edge", from |-> c, to |-> d]

StabilityLines ==
  {Needs(c, d) : c, d \in {"c1", "c2", "c3"}} \cup {Part("c3", 1, 2), Part("c1", 2, 2), Part("c1", 2, 1), [of |-> "malformed"]}

StabilityDrafts == {<<Part("c1", 0, 1), Part("c2", 1, 1), Part("c3", 1, 2)>>, <<Part("c1", 0, 1), Part("c2", 1, 1), Needs("c1", "c2")>>}

(* Fences: a is a layer's root, a.b is mapped on its own, c is mapped or not. *)
Maps(prefix, layer) == [of |-> "module", prefix |-> prefix, slash |-> FALSE, layer |-> layer]
Imports(from, to) == [of |-> "edge", from |-> from, to |-> to]

FenceLines ==
  {Imports(p, q) : p, q \in {<<"a">>, <<"a", "b">>, <<"a", "b", "a">>, <<"b">>}}
    \cup {Maps(<<"b">>, "out"), Maps(<<"a", "b">>, "in"), Maps(<<"a", "b">>, "mid"), Maps(<<"b">>, "unknown"),
          [Maps(<<"a", "b">>, "mid") EXCEPT !.slash = TRUE]}

FenceDrafts == {<<Maps(<<"a">>, "mid")>>, <<Maps(<<"a">>, "out"), Maps(<<"a", "b">>, "in"), Maps(<<"b">>, "mid")>>}

(* Graphs *)
Node(i, p, path) == [of |-> "module", id |-> i, parent |-> p, path |-> path]
Link(i, j) == [of |-> "edge", from |-> i, to |-> j]

GraphLines ==
  {Node(i, p, "inside") : i \in {"i1", "i2", "i3"}, p \in {"i1", "i2", "i3", "null"}}
    \cup {Link("i1", "i2"), Link("i2", "i2"), Node("i2", "null", "outside"), Node("i3", "i1", "root"),
          Node("", "null", "inside"), Node("i3", "i1", "none"), [of |-> "malformed"]}

GraphDrafts == {<<>>, <<Node("i1", "i2", "inside")>>}

(* Destinations *)
DestinationLines ==
  [name : {"l1", "l2", "o"}, is : {"file", "directory", "special"}, leads : {"here"}]
    \cup [name : {"l1", "l2", "o"}, is : {"symlink"}, leads : {"repository", "elsewhere"}]

DestinationWorlds ==
  [mode : {"look", "instrument", "other"}, place : {"root", "inside", "outside"},
   dest : {"absent", "file", "directory", "locked"}, rootIsDir : {TRUE}, overwrite : BOOLEAN]

(* Trends *)
Change(c, how, n, style) == [of |-> "row", id |-> <<c, how>>, n |-> n, style |-> style]

TrendLines ==
  {Change(c, "plain", n, "plain") : c \in {"h1", "h2"}, n \in {1, 2, 3}}
    \cup {Change("h1", "respelt", 1, "plain"), Change("h3", "plain", 1, "ticket"), Change("h3", "plain", 2, "hash"),
          Change("h3", "plain", 4, "plain"), [of |-> "skipped"], [of |-> "malformed"]}

TrendDrafts == {<<Change("h4", "plain", 1, "plain"), Change("h5", "plain", 2, "plain")>>,
                <<Change("h4", "plain", 3, "plain"), [of |-> "skipped"], Change("h5", "plain", 1, "plain")>>}

TrendWorlds ==
  [order : {"newest-first", "oldest-first"},
   budget : [window : {1, 2}, baseline : {1, 2}, climb : {<<3, 2>>}, ceiling : {2}]]

(* Scores *)
CrapLines == {[is |-> "skipped"], [is |-> "malformed"]} \cup [is : {"row"}, comp : {0, 1, 2, 5, 6, 7}, cov : {0, 50, 80, 100, 101}]

(* Fleets *)
Field(key, n) == [is |-> "field", key |-> key, value |-> n, point |-> FALSE]

FleetDrafts ==
  {<<Field("serial_minutes", s), Field("partitionable", p), Field("handoff_minutes", h), Field("fleet", n)>> :
     s \in {1, 7, 20, 60}, p \in 0..4, h \in 0..4, n \in 1..2}

FleetLines == {Field("fleet", 2), Field("partitionable", 5), [Field("fleet", 1) EXCEPT !.point = TRUE], Field("unknown", 1),
               [is |-> "skipped"], [is |-> "malformed"]}

(* Tests *)
Good == [id |-> "good", test |-> TRUE, stray |-> FALSE, words |-> 3, filler |-> FALSE, mirrors |-> FALSE]
Names == {Good, [Good EXCEPT !.id = "fine"], [Good EXCEPT !.id = "thin", !.words = 2], [Good EXCEPT !.id = "stray", !.stray = TRUE],
          [Good EXCEPT !.id = "mirror", !.mirrors = TRUE], [Good EXCEPT !.id = "helper", !.test = FALSE]}
Compound == [is |-> "compound"]
Def == [is |-> "def"]
Class(c) == [is |-> "class", name |-> c]

TestLines ==
  [is : {"binds"}, name : Names,
   blocks : {<<>>, <<Compound>>, <<Class("K")>>, <<Compound, Class("K")>>, <<Class("K"), Class("L")>>, <<Def>>, <<Class("K"), Def>>}]
    \cup [is : {"global"}, name : {Good, [Good EXCEPT !.id = "thin", !.words = 2]}, blocks : {<<Def>>, <<Class("K"), Def, Compound>>, <<Def, Def>>, <<>>}]
    \cup {[is |-> "broken"]}

(* Assertions *)
V(is) == [is |-> is]
Name(n) == [is |-> "name", name |-> n]
Asserts(values) == [is |-> "asserts", values |-> values, nested |-> FALSE]
Binds(n, v, where) == [is |-> "binds", name |-> n, value |-> v, where |-> where]
Handles(broad, body) == [is |-> "handler", broad |-> broad, body |-> body]
HandlesBy(v) == [is |-> "handler", broad |-> TRUE, body |-> "assert", value |-> v]

AssertlessLines ==
  {Asserts(vs) : vs \in {{V("true")}, {V("observed")}, {V("observed"), V("true")}, {V("real"), V("true")}, {V("observed"), V("call")},
                         {Name("n")}, {Name("n"), V("observed")}, {Name("m"), V("true")}}}
    \cup {[Asserts({V("real")}) EXCEPT !.nested = TRUE]}
    \cup {Binds("n", v, "test") : v \in {V("true"), V("observed"), V("real"), Name("m")}}
    \cup {Binds("m", V("observed"), "test"), Binds("m", V("false"), "test"), Binds("n", V("true"), "module"), Binds("m", V("real"), "module")}
    \cup {[is |-> "rebinds", name |-> "n"], Handles(TRUE, "pass"), Handles(FALSE, "pass"), Handles(TRUE, "raise"), Handles(TRUE, "helper"),
          HandlesBy(V("true")), HandlesBy(Name("m")), [is |-> "suppress", broad |-> TRUE], V("raises"), V("helper"), V("mock assert"), V("broken")}

(* Errors *)
D(d) == [is |-> "def", name |-> d]
A(d) == [is |-> "assigned", name |-> d]
ErrorLines == {D("d1"), D("d2"), A("d1"), V("raise"), V("except"), V("assert"), V("broken")}
ErrorWorlds == {<<D("d1"), V("raise"), V("raise")>>, <<D("d1"), D("d2"), V("except"), V("raise")>>, <<A("d1"), V("raise")>>}

(* Probes *)
Does(path, to) == [of |-> "command", path |-> path, to |-> to]
ProbeLines == {Does(p, to) : p \in {"e1", "e2"}, to \in {"q1", "q2", "gone"}} \cup {Does(".", "q2"), Does(".", "q1")}
ProbeWorlds ==
  [tree : {("." :> "q1"), ("." :> "q1") @@ ("e1" :> "q1"), ("." :> "q1") @@ ("e1" :> "q2") @@ ("e2" :> "q1")},
   run : [usable : {TRUE}, launched : BOOLEAN, red : BOOLEAN, code : {0, 1}]]

(* Lanes: p is a hazard and q is none, s a shell, c a copy, d a delete,
   o a shell with an option for the value of another. *)
Programs == ("p" :> <<<<"curl">>>>) @@ ("q" :> <<<<"true">>>>) @@ ("s" :> <<<<"sh">>>>) @@ ("c" :> <<<<"cat">>>>)
              @@ ("d" :> <<<<"true">>, <<"rm", "-r", "loose">>>>) @@ ("e" :> <<<<"env", "A=1", "curl">>>>)
              @@ ("o" :> <<<<"sh", "-o", "-c", "fd3">>>>)
Lengths == ("p" :> 4) @@ ("q" :> 4) @@ ("s" :> 2) @@ ("c" :> 3) @@ ("d" :> 17) @@ ("e" :> 12) @@ ("o" :> 15)

Argvs ==
  {<<"curl">>, <<"x", "curl">>, <<"rm", "loose", "-r">>, <<"rm", "--", "loose", "-r">>, <<"rm", "-r", "kept">>,
   <<"eval", "x">>, <<"command", "eval", "x">>, <<"time", "eval", "x">>, <<"nohup", "eval", "x">>,
   <<"builtin", "exec", "-a", "x", "curl">>, <<"builtin", "nohup", "curl">>, <<"command", "-v", "curl">>,
   <<"trap", "p", "EXIT">>, <<"trap", "-", "EXIT">>, <<"trap", "--", "d", "EXIT">>, <<"A=1", "trap", "p">>,
   <<"env", "-S", "e">>, <<"xargs", "-a", "file", "curl">>, <<"timeout", "5", "sh", "-c", "d">>, <<"sh", "x">>,
   <<"sh", "-O", "x", "-c", "p">>, <<"sh", "-o", "x", "-c", "p">>, <<"sh", "-c", "s">>,
   <<"find", "x", "-exec", "true", ";", "-exec", "curl", ";">>,
   <<"find", "-exec", "curl">>}

Command(argv, join, redirs) == [of |-> "command", join |-> join, argv |-> argv, redirs |-> redirs]
CommandLines == {Command(argv, ";", <<>>) : argv \in Argvs}
LauncherLines ==
  [of : {"call"}, argv : Argvs, shell : {FALSE}] \cup [of : {"import"}, net : BOOLEAN]
    \cup {[of |-> "call", argv |-> <<"x">>, shell |-> TRUE]} \cup [of : {"rmtree"}, path : {"loose", "kept"}]

Here(fd, w) == [is |-> "here", fd |-> fd, text |-> w]
Dup(fd, from, move) == [is |-> "dup", fd |-> fd, from |-> from, move |-> move]
PipeLines ==
  {Command(argv, join, <<>>) : argv \in {<<"cat">>, <<"sh">>, <<"true">>, <<"false">>},
                               join \in {";", "&&", "||", "|"}}
    \cup {Command(argv, ";", redirs) :
            argv \in {<<"cat">>, <<"sh">>, <<"source", "fd3">>},
            redirs \in {<<Here(0, "p")>>, <<Here(3, "p"), Dup(0, 3, TRUE)>>, <<Dup(0, 3, FALSE)>>,
                        <<Here(0, "p"), Dup(3, 0, FALSE)>>}}
    \cup {Command(<<"sh", "-s", "x">>, ";", <<Here(0, "p"), Dup(0, 9, FALSE)>>),
          Command(<<"sh", "-o", "-c", "fd3">>, ";", <<Here(3, "p")>>),
          Command(<<"sh", "-o", "x", "-s">>, ";", <<Here(0, "p")>>)}
PipeDrafts ==
  {<<Command(argv, ";", <<>>)>> : argv \in {<<"cat">>, <<"xargs", "sh">>}}
    \cup {<<Command(<<"cat">>, ";", <<Here(0, "p")>>), Command(<<"cat">>, "|", <<>>)>>}

Alone == [is |-> FALSE, redirs |-> <<>>]
Shipped == [isDir |-> TRUE, shipped |-> 1, readable |-> TRUE, contract |-> TRUE, group |-> Alone]
LaneWorlds == {Shipped, [Shipped EXCEPT !.contract = FALSE], [Shipped EXCEPT !.isDir = FALSE], [Shipped EXCEPT !.shipped = 0],
   [Shipped EXCEPT !.readable = FALSE]}
PipeWorlds ==
  {Shipped} \cup {[Shipped EXCEPT !.group = [is |-> TRUE, redirs |-> r]] :
                    r \in {<<Here(0, "p")>>, <<Here(0, "q"), Here(3, "d")>>, <<Here(0, "p"), Dup(3, 0, TRUE)>>}}

(* Interfaces: "c" is the body of C, "b" that of _B, "n" that of a class inside C. *)
Explains == {"more"}
DefOf(at, n, doc, maybe) == [is |-> "def", at |-> at, name |-> n, doc |-> doc, maybe |-> maybe]
ClassOf(at, n, body, bases) ==
  [is |-> "class", at |-> at, name |-> n, doc |-> Explains, maybe |-> FALSE, body |-> body, bases |-> bases]
Maybe(s) == [s EXCEPT !.maybe = TRUE]
AliasOf(at, n, of, maybe) == [is |-> "alias", at |-> at, name |-> n, of |-> of, maybe |-> maybe]
Other(at, n, maybe) == [is |-> "other", at |-> at, name |-> n, maybe |-> maybe]
All(how, names) == [is |-> "all", how |-> how, names |-> names]

InterfaceLines ==
  {DefOf("module", n, doc, maybe) : n \in {"f", "_x"}, doc \in {{}, Explains}, maybe \in BOOLEAN}
    \cup {DefOf("c", "f", doc, maybe) : doc \in {{}, Explains}, maybe \in BOOLEAN}
    \cup {DefOf("c", "_x", {}, FALSE), DefOf("b", "f", {"f"}, FALSE), DefOf("n", "f", {}, FALSE)}
    \cup {DefOf("module", "f", {"more", "leak"}, FALSE), ClassOf("c", "g", "n", <<>>), ClassOf("c", "g", "n", <<"_B">>)}
    \cup {AliasOf(at, "f", "_x", maybe) : at \in {"module", "c"}, maybe \in BOOLEAN}
    \cup {AliasOf("n", "f", "_x", FALSE), AliasOf("module", "g", "_B", FALSE), Other("module", "f", TRUE), Other("c", "f", FALSE)}
    \cup {All("=", <<"C", "g">>), All("+=", <<"_x">>), All("irreducible", <<>>)}

InterfaceDrafts ==
  {<<DefOf("module", "_x", {}, FALSE), ClassOf("module", "C", "c", <<>>)>>,
   <<DefOf("module", "f", Explains, TRUE), DefOf("module", "_x", Explains, FALSE)>>,
   <<ClassOf("module", "_B", "b", <<>>), DefOf("b", "f", {}, FALSE), ClassOf("module", "C", "c", <<"_B">>)>>,
   <<ClassOf("module", "_B", "b", <<>>), ClassOf("module", "_x", "n", <<"_B">>), ClassOf("module", "C", "c", <<"_x">>)>>,
   <<Maybe(ClassOf("module", "_B", "b", <<>>)), DefOf("b", "f", Explains, FALSE),
     Maybe(ClassOf("module", "_B", "n", <<>>)), DefOf("n", "f", {}, FALSE), ClassOf("module", "C", "c", <<"_B">>)>>}

-----------------------------------------------------------------------------
MCLinesOf ==
  [leaks |-> LeakLines, coupling |-> CouplingLines, cohesion |-> CohesionLines, stability |-> StabilityLines,
   fence |-> FenceLines, graph |-> GraphLines, destination |-> DestinationLines, tornado |-> TrendLines,
   cost |-> TrendLines, crap |-> CrapLines, fleet |-> FleetLines, tests |-> TestLines,
   assertless |-> AssertlessLines, errors |-> ErrorLines, probe |-> ProbeLines,
   commands |-> CommandLines, launchers |-> LauncherLines, pipes |-> PipeLines,
   interface |-> InterfaceLines]

MCDrafts ==
  [leaks |-> LeakDrafts, coupling |-> CouplingDrafts, cohesion |-> CohesionDrafts, stability |-> StabilityDrafts,
   fence |-> FenceDrafts, graph |-> GraphDrafts, destination |-> {<<>>}, tornado |-> TrendDrafts,
   cost |-> TrendDrafts, crap |-> {<<>>}, fleet |-> FleetDrafts, tests |-> {<<>>},
   assertless |-> {<<>>}, errors |-> {<<>>}, probe |-> {<<>>},
   commands |-> {<<l>> : l \in CommandLines}, launchers |-> {<<>>}, pipes |-> PipeDrafts,
   interface |-> InterfaceDrafts]

MCWorlds ==
  [leaks |-> LeakWorlds, coupling |-> CouplingWorlds, cohesion |-> CohesionWorlds,
   stability |-> {<<1, 1>>, <<1, 2>>}, fence |-> {<<"out", "mid", "in">>, <<"in">>}, graph |-> BOOLEAN,
   destination |-> DestinationWorlds, tornado |-> TrendWorlds, cost |-> TrendWorlds, crap |-> {1, 6},
   fleet |-> {"own"}, tests |-> {3, 0}, assertless |-> BOOLEAN, errors |-> ErrorWorlds, probe |-> ProbeWorlds,
   commands |-> LaneWorlds, launchers |-> LaneWorlds, pipes |-> PipeWorlds,
   interface |-> BOOLEAN]

MCMaxEdits ==
  [leaks |-> 2, coupling |-> 2, cohesion |-> 2, stability |-> 3, fence |-> 2, graph |-> 3,
   destination |-> 2, tornado |-> 2, cost |-> 2, crap |-> 2, fleet |-> 2, tests |-> 2,
   assertless |-> 3, errors |-> 4, probe |-> 3,
   commands |-> 2, launchers |-> 2, pipes |-> 2, interface |-> 2]

=============================================================================
