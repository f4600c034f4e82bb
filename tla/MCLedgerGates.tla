------------------------------ MODULE MCLedgerGates ------------------------------
(***************************************************************************)
(* For each gate the lines that matter to it, drafts that pass or nearly   *)
(* pass, and a few worlds.                                                 *)
(***************************************************************************)
EXTENDS LedgerGates, TLC

(* Excusals *)
Said(place, head, name, size) == [place |-> place, head |-> head, name |-> name, size |-> size]
Opens(m, how) == Said("opener", <<m, how>>, "prose", 0)
States(name, size) == Said("indented", <<>>, name, size)

ExcusalLines ==
  {Opens("m1", "bare"), Opens("m1", "decorated"), Opens("m2", "bare"),
   States("argument", 2), States("argument", 1), States("mutation", 1), States("mutation", 0),
   States("prose", 1), States("other", 1), Said("indented", <<"m1", "bare">>, "prose", 1),
   Said("heading", <<"m2", "bare">>, "prose", 0), Said("skipped", <<"m1", "bare">>, "argument", 2)}

ExcusalDrafts ==
  {<<Opens("m1", "bare"), States("mutation", 1), States("argument", 2)>>,
   <<Opens("m1", "bare"), States("argument", 1), States("prose", 1),
     Opens("m2", "bare"), States("mutation", 1), States("argument", 2)>>,
   <<Said("heading", <<"m1", "bare">>, "prose", 0), Opens("m2", "decorated"),
     States("argument", 2), States("other", 1), States("prose", 1)>>}

ExcusalWorlds == {{}, {<<"m1", "bare">>}, {<<"m1", "bare">>, <<"m2", "bare">>}}

(* Pilot *)
Slice == [key |-> "slice"]
Stage(s, how) == [key |-> "stage", name |-> <<s, how>>]
Walked(s, how, code, path) == [key |-> "walked", name |-> <<s, how>>, code |-> code, artifact |-> path]

PilotLines ==
  {Slice, [key |-> "other"], Stage("s1", "plain"), Stage("s1", "variant"), Stage("s1", "foreign"),
   Walked("s1", "variant", 0, "p2"), Walked("s1", "foreign", 0, "p3"), Walked("s2", "plain", 1, "p2"),
   Walked("s2", "plain", 0, "p1"), Walked("s2", "plain", 0, "p3")}

PilotDrafts ==
  {<<Slice, Stage("s1", "plain"), Stage("s2", "plain"),
     Walked("s1", "plain", 0, "p1"), Walked("s2", "variant", 0, "p2")>>,
   <<Slice, Stage("s1", "plain"), Stage("s2", "plain"), Walked("s1", "plain", 0, "p1")>>}

\* p1 and p2 may be two names of one file.
PilotWorlds ==
  {("p1" :> "A") @@ ("p2" :> "B") @@ ("p3" :> "C"), ("p1" :> "A") @@ ("p2" :> "A") @@ ("p3" :> "B"),
   ("p1" :> "A") @@ ("p2" :> "empty") @@ ("p3" :> "B"), ("p1" :> "unreadable") @@ ("p2" :> "B") @@ ("p3" :> "absent")}

(* Reviews *)
Entry(kind, i, how) == [kind |-> kind, id |-> <<i, how>>]

ReviewLines ==
  {Entry("FOUND", "i1", "plain"), Entry("FALSIFIED", "i1", "variant"), Entry("FOUND", "i2", "plain"),
   Entry("FOUND", "i2", "invisible"), [kind |-> "blank"], [kind |-> "prose"]}

ReviewDrafts == {<<>>, <<Entry("FOUND", "i1", "plain")>>}

AtLeast(n) == [is |-> "min", n |-> n]
PathWord == [is |-> "path"]
ReviewWorlds ==
  [argv : {<<PathWord>>, <<AtLeast(2), PathWord>>, <<PathWord, AtLeast(0)>>, <<AtLeast(2), PathWord, AtLeast(1)>>,
           <<[is |-> "unpaired"]>>, <<PathWord, [is |-> "help"]>>},
   refusal : {"none", "control"}]

(* Plans *)
Named(base, case, form) == [base |-> base, case |-> case, form |-> form]
x == Named("b1", "lower", "NFC")
y == Named("b2", "lower", "NFC")
Full == Plan!File([digest |-> "dig", literals |-> {"lit"}])
Bare == Plan!File([digest |-> "other", literals |-> {}])

Trees ==
  {<<>> :> Plan!Dir,
   (<<>> :> Plan!Dir) @@ (<<x>> :> Full),
   (<<>> :> Plan!Dir) @@ (<<[x EXCEPT !.form = "NFD"]>> :> Bare),
   (<<>> :> Plan!Dir) @@ (<<[x EXCEPT !.case = "upper"]>> :> Full),
   (<<>> :> Plan!Dir) @@ (<<x>> :> Full) @@ (<<[x EXCEPT !.form = "NFD"]>> :> Bare),
   (<<>> :> Plan!Dir) @@ (<<x>> :> Plan!Dir) @@ (<<x, y>> :> Plan!Opaque),
   (<<>> :> Plan!Dir) @@ (<<x>> :> Plan!Dir) @@ (<<x, y>> :> Full) @@ (<<y>> :> Bare),
   (<<>> :> Plan!Locked) @@ (<<x>> :> Full)}

PlanRows ==
  [kind : {"exists", "absent"}, path : {<<x>>, <<x, y>>}]
    \cup [kind : {"contains", "lacks"}, path : {<<x>>, <<x, y>>}, arg : {"lit"}]
    \cup {[kind |-> "unchanged", path |-> <<x>>, arg |-> "dig"], [kind |-> "malformed"]}

PlanLines == [row : PlanRows, tree : Trees]

(* Margins, within a floor of 3/2 *)
MarginLines == [gated : {1, 2}, human : 1..4] \cup {Sums!Bad}
Floor(n, d) == [n |-> n, d |-> d]

(* Toolchain *)
Flag(f, value) == [is |-> "flag", flag |-> f, value |-> value]
Word(is) == [is |-> is]
ToolWord(t) == [is |-> "tool", tool |-> t]

Commands ==
  UNION {[1..n -> {ToolWord("radon"), Flag("--in-diff", "none"), Flag("--in-diff", "off"), Flag("--in-diff", "on"), Flag("--all", "none")}] : n \in 1..3}
    \cup {<<Word("runner"), ToolWord("radon"), Flag("--in-diff", "none")>>,
          <<Word("runner"), Flag("--no-install", "none"), ToolWord("cc"), Flag("--in-diff", "none")>>,
          <<Word("npm"), Word("exec"), ToolWord("radon"), Flag("--in-diff", "on")>>,
          <<Word("exec"), Word("npm"), ToolWord("radon"), Flag("--in-diff", "on")>>}

ToolchainLines ==
  [lang : {"py"}, gate : {"crap", "nope"}, tool : {"radon"},
   scope : {Flag("--in-diff", "none"), Flag("--in-diff", "on"), Flag("--in-diff", "off"), Flag("--all", "none"), Word("plain")},
   cmd : Commands]

(* Metrics *)
Just(is) == [is |-> is]
W(word) == [is |-> "word", word |-> word, dressed |-> FALSE]
Dressed(word) == [is |-> "word", word |-> word, dressed |-> TRUE]
Metric(m, th, c, letters, day) ==
  [kind |-> "row", row |-> [metric |-> m, threshold |-> th, corrupts |-> c, letters |-> letters, review |-> day]]

RegisterLines ==
  {Metric(W("w1"), W("w2"), W("w3"), 3, 3), Metric(Dressed("w1"), W("w2"), W("w3"), 3, 4),
   Metric(W("w2"), W("w1"), W("w3"), 3, 2), Metric(W("w2"), W("w3"), Dressed("w2"), 3, 4),
   Metric(W("w2"), W("w3"), Dressed("w3"), 3, 4), Metric(W("w2"), Just("evasion"), W("w3"), 3, 4),
   Metric(W("w3"), W("w1"), Just("evasion"), 3, 4), Metric(W("w3"), W("w1"), W("w2"), 2, 4),
   Metric(Just("marks"), W("w1"), W("w2"), 3, 4), Metric(W("w3"), W("w2"), W("w1"), 3, 4),
   Metric(W("w3"), W("w2"), W("w1"), 3, 0), [kind |-> "comment"], [kind |-> "short"]}

RegisterDrafts ==
  {<<Metric(W("w1"), W("w2"), W("w3"), 3, 3)>>,
   <<Metric(W("w1"), W("w2"), W("w3"), 3, 4), Metric(W("w3"), W("w2"), W("w1"), 3, 4)>>}

(* Surfaces: v2 leaves the manifest's tree through a link, v3 lies textually outside. *)
SurfaceLines ==
  {[key |-> "comment"], [key |-> "garbled"]}
    \cup [key : {"tier"}, value : {"routine", "elevated", "critical", "unknown"}]
    \cup [key : {"spec", "qa", "code"}, value : {"v1", "v2", "v3"}]

At(tier, spec, qa) ==
  <<[key |-> "tier", value |-> tier], [key |-> "spec", value |-> spec], [key |-> "qa", value |-> qa]>>

SurfaceDrafts == {At("routine", "v1", "v1"), At("critical", "v3", "v1"), At("elevated", "v1", "v2")}

Prose(n, bytes) == [is |-> "file", lines |-> n, bytes |-> bytes, visible |-> TRUE]
Site(one, two) ==
  [resolve |-> ("v1" :> "here") @@ ("v2" :> "out") @@ ("v3" :> "there"),
   textual |-> ("v1" :> "base") @@ ("v2" :> "base") @@ ("v3" :> "beside"),
   within |-> ("here" :> "base") @@ ("there" :> "base") @@ ("out" :> "beside"),
   disk |-> ("here" :> one) @@ ("there" :> two) @@ ("out" :> Prose(1, 1))]

Artifacts ==
  {Prose(2, 2), Prose(3, 2), Prose(1, 3), [Prose(2, 2) EXCEPT !.visible = FALSE],
   [is |-> "absent"], [is |-> "error"]}

SurfaceWorlds ==
  {[site |-> Site(Prose(2, 2), two), roots |-> roots, cap |-> 2, bytes |-> 2] :
     two \in Artifacts, roots \in {{"base"}, {"base", "beside"}}}
    \cup {[site |-> [Site(Prose(2, 2), Prose(2, 2)) EXCEPT !.resolve["v3"] = how],
           roots |-> {"base"}, cap |-> 2, bytes |-> 2] : how \in {"absolute", "unusable"}}

(* Loads, within a share of 1/2 *)
Load(t, path, kind, tokens, why) ==
  [is |-> "row", row |-> [task |-> t, path |-> path, kind |-> kind, tokens |-> tokens, justified |-> why]]

LoadLines ==
  {Load(<<t, "lower">>, <<b, "plain">>, kind, 1, TRUE) :
     t \in {"t1", "t2"}, b \in {"b1", "b2"}, kind \in {"interface", "test", "impl"}}
    \cup {Load(<<"t1", "upper">>, <<"b1", "respelt">>, kind, 2, TRUE) : kind \in {"interface", "impl"}}
    \cup {Load(<<"t1", "lower">>, <<"b1", "plain">>, "impl", 1, FALSE), [is |-> "blank"], [is |-> "bad"]}

(* Shares, between 50 and 60 percent *)
Hours(tag, n, evidence) == [is |-> "row", tag |-> tag, minutes |-> n, evidence |-> evidence]
ShareLines ==
  {Hours("tactical", n, "none") : n \in 0..2} \cup {Hours("tactical", 1, "moved")}
    \cup {Hours("strategic", n, e) : n \in 1..2, e \in {"none", "garbled", "flat", "moved"}}
    \cup {[is |-> "skipped"], [is |-> "malformed"]}
ShareWorlds == {[floor |-> 50, ceiling |-> 60], [floor |-> 60, ceiling |-> 50], [floor |-> 0, ceiling |-> 100], [floor |-> 1, ceiling |-> 101]}

(* Secrets *)
Says(n) == [chars |-> n, stub |-> FALSE, empty |-> FALSE]
Hides(path, says) == [of |-> "manifest", is |-> "row", path |-> path, says |-> says]
Lists(path) == [of |-> "list", is |-> "row", path |-> path]
SecretLines ==
  {Hides(<<"o1", how>>, Says(n)) : how \in {"plain", "dotted", "cased"}, n \in 1..2}
    \cup {Hides(<<"o2", "dotted">>, Says(2)), Hides(<<"o2", "plain">>, [Says(2) EXCEPT !.stub = TRUE]),
          Hides(<<"o2", "plain">>, [Says(0) EXCEPT !.empty = TRUE]), Hides(<<"nothing">>, Says(2)),
          [of |-> "manifest", is |-> "skipped"], [of |-> "manifest", is |-> "malformed"], [of |-> "list", is |-> "blank"]}
    \cup {Lists(<<m, how>>) : m \in {"o1", "o2"}, how \in {"plain", "dotted", "cased"}}
SecretDrafts == {<<Lists(<<"o1", "plain">>), Hides(<<"o1", "dotted">>, Says(2))>>,
                 <<Hides(<<"o2", "plain">>, Says(2)), Lists(<<"o2", "dotted">>), Lists(<<"o1", "cased">>)>>}

(* Rules *)
Program(n) == [is |-> "word", name |-> n]
Path(n) == [is |-> "path", name |-> n]
Python == [is |-> "interpreter", python |-> TRUE, listed |-> TRUE]
Versioned == [Python EXCEPT !.listed = FALSE]
Option == [is |-> "option", takes |-> FALSE]
OptionOf == [is |-> "option", takes |-> TRUE]
Joined(n) == [is |-> "-mod", name |-> n]
Measure(words) == [is |-> "row", says |-> "command", words |-> words]
RuleLines ==
  {Measure(f \o rest) :
     f \in {<<>>, <<Just("wrapper")>>, <<Just("wrapper"), Just("argument")>>, <<Just("wrapper"), Just("-m")>>, <<Option>>, <<Just("wrapper"), OptionOf>>},
     rest \in {<<Program("tool")>>, <<Program("gone")>>, <<Path("hook")>>, <<Path("guide")>>, <<Path("far")>>, <<Just("noop")>>, <<Just("prose"), Program("tool")>>,
              <<Program("tool"), Path("guide")>>, <<Program("tool"), Path("gone")>>, <<Program("tool"), Program("gone"), Program("gone")>>,
              <<Python>>, <<Python, Path("guide")>>, <<Python, Just("-m"), Program("tool")>>, <<Python, Just("-m"), Program("gone")>>, <<>>,
              <<Python, Joined("tool")>>, <<Python, Joined("gone")>>, <<Versioned>>, <<Versioned, Just("-m"), Program("tool")>>}}
    \cup {[is |-> "row", says |-> "nothing"], [is |-> "row", says |-> "advisory"], [is |-> "skipped"], [is |-> "malformed"]}
RuleWorlds ==
  [leads : {("tool" :> "absent") @@ ("guide" :> "text") @@ ("hook" :> "run") @@ ("gone" :> "absent") @@ ("far" :> "outside")},
   commands : {{"tool"}}, modules : {{"tool"}}, interpreters : BOOLEAN]

(* Prompts, as three gates see one *)
Marked(char, width, bare, modal) == [is |-> "fence", char |-> char, width |-> width, bare |-> bare, modal |-> modal]
DensityLines ==
  {Just("blank"), Just("list"), Just("prose")} \cup [is : {"table"}, delimiter : BOOLEAN]
    \cup {Marked("tick", 3, TRUE, FALSE), Marked("tick", 3, FALSE, TRUE), Marked("tick", 4, TRUE, FALSE), Marked("tilde", 3, TRUE, FALSE)}
Fence(char, width, bare) == [is |-> "fence", char |-> char, width |-> width, bare |-> bare]
FenceLines == {Fence("tick", 3, TRUE), Fence("tick", 3, FALSE), Fence("tick", 4, TRUE), Fence("tilde", 3, TRUE)}
ZoneLines ==
  {[is |-> "fence", char |-> f.char, width |-> f.width, bare |-> f.bare, chars |-> 4] : f \in FenceLines}
    \cup {[is |-> "shouts", chars |-> n] : n \in {4, 8}} \cup {[is |-> "blank", chars |-> 4]}
AuditLines == FenceLines \cup {Just("item")}
Row(numbers, destined) == [numbers |-> numbers, destined |-> destined]
AuditWorlds ==
  [mode : {"check", "extract", "other"}, found : BOOLEAN,
   audit : {<<>>, <<Row({1}, TRUE)>>, <<Row({1, 2}, TRUE)>>, <<Row({1}, TRUE), Row({2}, FALSE)>>, <<Row({2}, TRUE), Row({1, 3}, TRUE)>>}]

-----------------------------------------------------------------------------
MCLinesOf ==
  [excusals |-> ExcusalLines, pilot |-> PilotLines, review |-> ReviewLines, plan |-> PlanLines,
   margins |-> MarginLines, toolchain |-> ToolchainLines, register |-> RegisterLines,
   surface |-> SurfaceLines, loads |-> LoadLines, share |-> ShareLines, secrets |-> SecretLines,
   rules |-> RuleLines, density |-> DensityLines, zone |-> ZoneLines, audit |-> AuditLines]

MCDrafts ==
  [excusals |-> ExcusalDrafts, pilot |-> PilotDrafts, review |-> ReviewDrafts, plan |-> {<<>>},
   margins |-> {<<>>}, toolchain |-> {<<>>}, register |-> RegisterDrafts,
   surface |-> SurfaceDrafts, loads |-> {<<>>}, share |-> {<<>>}, secrets |-> SecretDrafts,
   rules |-> {<<>>}, density |-> {<<>>}, zone |-> {<<>>}, audit |-> {<<>>}]

MCWorlds ==
  [excusals |-> ExcusalWorlds, pilot |-> PilotWorlds, review |-> ReviewWorlds, plan |-> {"own"},
   margins |-> {Floor(3, 2), Floor(2, 1), Floor(0, 1)}, toolchain |-> {"own"}, register |-> {0, 2},
   surface |-> SurfaceWorlds, loads |-> {Floor(1, 2), Floor(1, 1)}, share |-> ShareWorlds,
   secrets |-> {1, 2}, rules |-> RuleWorlds, density |-> 0..2,
   zone |-> [lines : {3, 6}, tokens : {5}, head : {1, 2}], audit |-> AuditWorlds]

MCMaxEdits ==
  [excusals |-> 2, pilot |-> 2, review |-> 3, plan |-> 2, margins |-> 3, toolchain |-> 1,
   register |-> 2, surface |-> 2, loads |-> 4, share |-> 3, secrets |-> 2, rules |-> 2,
   density |-> 5, zone |-> 5, audit |-> 5]

MCGates == ("crap" :> ("py" :> {"radon"})) @@ ("dup" :> ("py" :> {"pylint"}))
MCAlias == ("radon" :> "radon") @@ ("cc" :> "radon") @@ ("pylint" :> "pylint")

=============================================================================
