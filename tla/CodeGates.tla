------------------------------- MODULE CodeGates -------------------------------
(***************************************************************************)
(* The gates that judge what was extracted from code or measured in it,    *)
(* and the people who feed them: the extract changes line by line and the  *)
(* gate is run after each change.  What a gate reads besides its lines is  *)
(* the `world`.                                                            *)
(***************************************************************************)
EXTENDS Integers, Sequences, SequencesExt, FiniteSets

CONSTANTS Dirs, Files, Texts, Modules, Components, Refs, Segments, Layers, Ids,
          Lens, Others, Changes, MaxFiles, Unit, MaxFleet, Bindable, Classes,
          Definitions, Entries, Prints, Locals, Body, Chars, Symbols, Hidden, Bodies,
          LinesOf,   \* gate |-> the lines an extract may have
          Drafts,    \* gate |-> the extracts to start from
          Worlds,    \* gate |-> what else the gate may find
          MaxEdits   \* gate |-> how often the extract changes

Leaks == INSTANCE LeakScan
Edges == INSTANCE ModuleGates
Parts == INSTANCE ComponentGates
Scores == INSTANCE ScoreGates
Scans == INSTANCE TestScans
Compared == INSTANCE BeforeAfter
Lanes == INSTANCE LaneCheck
Comments == INSTANCE InterfaceLint

GateNames == {"leaks", "coupling", "cohesion", "stability", "fence", "graph", "destination",
              "tornado", "cost", "crap", "fleet", "tests", "assertless", "errors", "probe",
              "commands", "launchers", "pipes", "interface"}

\* One check of the shell commands a script runs one after the other, of the calls of
\* a Python script and of the descriptors and pipes of one statement.
LaneGates == {"commands", "launchers", "pipes"}

\* The lines of an extract, and what else its gate may find, are of the gate's own
\* kind; the identities of a tree and of a graph are finitely many.
ASSUME EditsAssumption == \A g \in GateNames : MaxEdits[g] \in Nat

ASSUME IdentitiesAssumption ==
  /\ IsFiniteSet(Dirs) /\ IsFiniteSet(Files) /\ IsFiniteSet(Ids) /\ IsFiniteSet(Components)
  /\ IsFiniteSet(Locals)
  /\ Dirs \cap Files = {} /\ "dangling" \notin Dirs \cup Files

LineOf(g) ==
  CASE g = "leaks" -> Leaks!Line
    [] g = "coupling" -> Edges!CouplingLine
    [] g = "stability" -> Parts!StabilityLine
    [] g = "fence" -> Edges!FenceLine
    [] g = "graph" -> Edges!GraphLine
    [] g = "destination" -> Edges!DestinationLine
    [] g = "probe" -> Compared!ProbeLine
    [] g = "cohesion" -> Parts!CohesionLine
    [] g = "crap" -> Scores!CrapLine
    [] g = "fleet" -> Scores!FleetLine
    [] g = "tests" -> Scans!TestsLine
    [] g = "errors" -> Compared!ErrorsLine
    [] g \in {"tornado", "cost"} -> Compared!Line
    [] g = "assertless" -> Scans!AssertlessLine
    [] g = "commands" -> {l \in Lanes!CommandLine : l.redirs = <<>>}
    [] g = "launchers" -> Lanes!LauncherLine
    [] g = "pipes" -> Lanes!CommandLine

TypedGates == {"leaks", "coupling", "stability", "fence", "graph", "destination", "probe",
               "cohesion", "crap", "fleet", "tests", "errors", "tornado", "cost", "assertless",
               "commands", "launchers", "pipes"}

ASSUME LinesAssumption ==
  \A g \in TypedGates : LinesOf[g] \subseteq LineOf(g) /\ Drafts[g] \subseteq Seq(LineOf(g))

ASSUME WorldsAssumption ==
  /\ \A w \in Worlds["leaks"] : w.site.tops \subseteq Dirs /\ w.site.named \subseteq Files
  /\ \A w \in Worlds["coupling"] : {"baseline", "budget", "adopted"} \subseteq DOMAIN w /\ w.budget \in Nat
  /\ Worlds["fence"] \subseteq Seq(Layers)
  /\ \A w \in Worlds["probe"] : w.tree \in Compared!Trees
  /\ \A w \in Worlds["cohesion"] : w.context \in Nat /\ w.fan \in Nat /\ w.percent \in Nat
  /\ Worlds["crap"] \subseteq Int
  /\ Worlds["errors"] \subseteq Seq(Compared!ErrorsLine)
  /\ Worlds["tests"] \subseteq Int
  /\ \A g \in {"tornado", "cost"} : \A w \in Worlds[g] : {"order", "budget"} \subseteq DOMAIN w
  /\ \A g \in {"commands", "launchers"} : \A w \in Worlds[g] : ~w.group.is

\* Plans are in units, fleets have a size, and the words of a name are counted.
ASSUME NumbersAssumption ==
  /\ Unit \in Nat \ {0} /\ MaxFleet \in Nat
  /\ \A name \in Bindable : name.words \in Nat

\* The words a command is run through are words.
ASSUME WordsAssumption ==
  {"nohup", "timeout", "-k", "5", "9", "env", "-u", "x", "A=1", "sh", "-c", "find", "-exec", ";"} \subseteq STRING

\* No text is blank, and what a command in it says is not longer than it.
ASSUME TextsAssumption ==
  \A w \in DOMAIN Body :
    /\ w \in STRING /\ Chars[w] \in Nat \ {0}
    /\ Body[w] \in Seq(Seq(STRING)) \ {<<>>}
    /\ \A k \in 1..Len(Body[w]) : Lanes!Written(Body[w][k]) <= Chars[w]

VARIABLES gate, lines, world, exit, edits

vars == <<gate, lines, world, exit, edits>>

\* What the gate answers to an extract in a world.
RunGate(g, ls, w) ==
  CASE g = "leaks" -> Leaks!Exit(ls, w.site, w.noStale)
    [] g = "coupling" -> Edges!CouplingExit(ls, w.baseline, w.budget, w.reason)
    [] g = "cohesion" -> Parts!CohesionExit(ls, w)
    [] g = "stability" -> Parts!StabilityExit(ls, w)
    [] g = "fence" -> Edges!FenceExit(ls, w)
    [] g = "graph" -> Edges!GraphExit(ls, w)
    [] g = "destination" -> Edges!DestinationExit(ls, w)
    [] g = "tornado" -> Compared!TornadoExit(ls, w.order, w.budget)
    [] g = "cost" -> Compared!CostExit(ls, w.order, w.budget)
    [] g = "crap" -> Scores!CrapExit(ls, w)
    [] g = "fleet" -> Scores!FleetExit(ls)
    [] g = "tests" -> Scans!TestsExit(ls, w)
    [] g = "assertless" -> Scans!AssertlessExit(w, ls)
    [] g = "errors" -> Compared!ErrorsExit(w, ls)
    [] g = "probe" -> Compared!ProbeExit(w.tree, ls, w.run)
    [] g \in LaneGates -> Lanes!Exit(ls, w)
    [] g = "interface" -> Comments!Exit(ls, w)

Init ==
  /\ gate \in GateNames
  /\ lines \in Drafts[gate]
  /\ world \in Worlds[gate]
  /\ exit = RunGate(gate, lines, world)
  /\ edits = 0

Reruns == exit' = RunGate(gate, lines', world')

Edits == edits < MaxEdits[gate] /\ edits' = edits + 1

AddLine ==
  /\ Edits
  /\ \E i \in 1..(Len(lines) + 1), line \in LinesOf[gate] : lines' = InsertAt(lines, i, line)
  /\ UNCHANGED <<gate, world>>
  /\ Reruns

DropLine ==
  /\ Edits
  /\ \E i \in 1..Len(lines) : lines' = RemoveAt(lines, i)
  /\ UNCHANGED <<gate, world>>
  /\ Reruns

\* After a pass the current edges become the baseline of the next change.
Adopt ==
  /\ Edits
  /\ gate = "coupling" /\ exit = 0
  /\ world' = [world EXCEPT !.baseline = Edges!Current(lines), !.adopted = @ + 1]
  /\ UNCHANGED <<gate, lines>>
  /\ Reruns

\* A history is exported again in the other order.
Turn ==
  /\ Edits
  /\ gate \in {"tornado", "cost"}
  /\ lines' = Reverse(lines)
  /\ world' = [world EXCEPT !.order = IF @ = "newest-first" THEN "oldest-first" ELSE "newest-first"]
  /\ UNCHANGED gate
  /\ Reruns

\* What an assertion is about is given a name first.
Hoist(v) ==
  /\ Edits
  /\ gate = "assertless"
  /\ \E i \in 1..Len(lines), n \in Locals :
       /\ lines[i].is = "asserts" /\ ~lines[i].nested
       /\ Scans!Bound(lines, n) = {} /\ Scans!AtModule(lines, n) = {}
       /\ \A j \in 1..Len(lines) : n \notin Scans!Mentioned(lines[j])
       /\ v \in lines[i].values
       /\ lines' = <<[is |-> "binds", name |-> n, value |-> v, where |-> "test"]>>
                     \o [lines EXCEPT ![i].values = (@ \ {v}) \cup {[is |-> "name", name |-> n]}]
  /\ UNCHANGED <<gate, world>>
  /\ Reruns

\* The fleet of a plan gets one more agent.
Hire ==
  /\ Edits
  /\ gate = "fleet"
  /\ \E i \in 1..Len(lines) :
       /\ lines[i].is = "field" /\ lines[i].key = "fleet" /\ lines[i].value < MaxFleet
       /\ lines' = [lines EXCEPT ![i].value = @ + 1]
  /\ UNCHANGED <<gate, world>>
  /\ Reruns

\* A function is simplified or covered by more tests.
Improve ==
  /\ Edits
  /\ gate = "crap"
  /\ \E i \in 1..Len(lines), better \in LinesOf["crap"] :
       /\ lines[i].is = "row" /\ better.is = "row"
       /\ better.comp \in 1..lines[i].comp /\ better.cov \in lines[i].cov..100
       /\ lines' = [lines EXCEPT ![i] = better]
  /\ UNCHANGED <<gate, world>>
  /\ Reruns

\* A command is run through a wrapper or given to a shell as text.
Respell ==
  /\ Edits
  /\ gate \in LaneGates
  /\ \E i \in 1..Len(lines) :
       /\ lines[i].of \in {"command", "call"}
       /\ \E argv \in Lanes!Respelled(lines[i].argv, gate = "pipes") : lines' = [lines EXCEPT ![i].argv = argv]
  /\ UNCHANGED <<gate, world>>
  /\ Reruns

\* The branches of a module that bind one name change places.
Regate ==
  /\ Edits
  /\ gate = "interface"
  /\ \E i, j \in Comments!Branches(lines) :
       /\ i < j /\ lines[i].at = lines[j].at /\ lines[i].name = lines[j].name
       /\ lines' = [lines EXCEPT ![i] = lines[j], ![j] = lines[i]]
  /\ UNCHANGED <<gate, world>>
  /\ Reruns

Next ==
  \/ AddLine \/ DropLine \/ Adopt \/ Turn \/ Hire \/ Improve \/ Respell \/ Regate
  \/ \E v \in Scans!Value : Hoist(v)

Spec == Init /\ [][Next]_vars

-----------------------------------------------------------------------------
TypeOK ==
  /\ gate \in GateNames
  /\ exit \in 0..(IF gate \in {"leaks", "assertless"} \cup LaneGates THEN 3 ELSE 2)
  /\ edits \in 0..MaxEdits[gate]

Ruled(g) == gate = g /\ exit \in {0, 1, 3}

\* A fact that two reached files state has an owner's reason, or the scan is red; a
\* reason for what is no leak any more is told from that by a code of its own.
LeaksHaveOwners ==
  Ruled("leaks") => /\ exit # 1 <=> Leaks!Owned(lines, world.site)
                    /\ exit = 3 => Leaks!Stale(lines, world.site)
                    /\ exit = 0 /\ ~world.noStale => ~Leaks!Stale(lines, world.site)

\* Gates that look at one edge at a time mean something of all paths: no component
\* rests at any distance on a less stable one, no file reaches a layer further
\* out, and the modules' parents make a forest.
FlowsOneWay ==
  exit = 0 => /\ gate = "stability" => Parts!RestsOnStable(lines)
              /\ gate = "fence" => Edges!PointsInward(lines, world)
              /\ gate = "graph" => Edges!IsForest(lines)

\* What a count is worth: the budgets hold as a person counts; a fleet that pays is
\* faster than every smaller one, and what is printed beside the verdict is the
\* fastest; no simple function is scored over the threshold nor a tangled one
\* under it; the tests that can be collected read as sentences and none is
\* shadowed; a redesign kept each definition.
CountIsRight ==
  exit \in {0, 1} =>
    /\ gate = "cohesion" => (exit = 0 <=> Parts!WithinBudgets(lines, world))
    /\ gate = "fleet" =>
         /\ exit = 0 <=> Scores!IsWorthIt(Scores!Plan(lines))
         /\ Scores!CrossoverIsBest(Scores!Plan(lines))
    /\ gate = "crap" => /\ exit = 0 => Scores!PassesByHand(lines, world)
                        /\ Scores!FailsByHand(lines, world) => exit = 1
    /\ gate = "tests" =>
         (exit = 0 <=> Scans!ReadsAsSpec(lines, world) /\ Scans!NoneShadowed(lines))
    /\ gate = "errors" => \A i \in 1..Len(world) : world[i].is = "def" =>
                            \E j \in 1..Len(lines) : lines[j] = world[i]

\* What a reading is worth: text given to a shell is read where it is executed, and a
\* module explains all that its callers can reach.
ReadingIsRight ==
  exit \in {0, 1} =>
    /\ gate = "pipes" => Lanes!ReadsWhatRuns(lines, world.group)
    /\ gate = "interface" => Comments!ReadsWhatCallersSee(lines, exit)

\* What a pass is worth: what was counted and what was read is as a person finds it.
PassIsEarned == CountIsRight /\ ReadingIsRight

\* A look that may begin writes nothing into the repository, an instrument nothing
\* beside it, and neither replaces a lens unasked; a probe that passes leaves the
\* tree it was given.
LooksChangeNothing ==
  exit = 0 => /\ gate = "destination" => Edges!Renders(lines, world)
              /\ gate = "probe" => Compared!After(world.tree, lines) = world.tree

\* An edge enters the baseline only with its reason, and no more of them than the
\* budget at a time, however many edges went away in the same change.
BaselineIsPaidFor ==
  [][gate = "coupling" /\ world' # world =>
       LET new == world'.baseline \ world.baseline
       IN  /\ \A e \in new : e[1] # e[2] => e \in Edges!Justified(lines, world.reason)
           /\ Cardinality(Edges!Cross(new)) <= world.budget]_vars

\* The same facts told in another way get the same verdict: a history in the other
\* order; what an assertion is about under a name, unless it is the result of a call or
\* has a name; a command behind a wrapper or as a shell's text, unless a statement with
\* redirections gives a shell an option for a value; the branches that bind one name in
\* the other order, unless a class inherits. (In each exception verdicts do change.)
SameFactsSameVerdict ==
  [][\/ Turn
     \/ \E v \in Scans!Value : v.is \notin {"call", "name"} /\ Hoist(v)
     \/ Respell /\ (gate = "pipes" => \A i \in 1..Len(lines) : Lanes!Starts[lines[i].argv])
     \/ Regate /\ ~Comments!Inherits(lines)
     => exit' = exit]_vars

\* Branch order never decides the verdict, as SKILL.md says of every name that is bound
\* more than once.
BranchOrderNeverDecides == [][Regate => exit' = exit]_vars

\* Once a fleet does not pay it never pays again by growing, and no function that
\* passes fails for having fewer branches or more coverage.
VerdictsAreMonotone ==
  [][/\ Hire /\ exit = 1 => exit' = 1
     /\ Improve /\ exit = 0 => exit' = 0]_vars

=============================================================================
