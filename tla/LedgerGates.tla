------------------------------- MODULE LedgerGates -------------------------------
(***************************************************************************)
(* The gates that judge a file people write (a ledger, a manifest, a       *)
(* prompt), and the author of that file: a draft is edited line by line    *)
(* and the gate is run after each edit.  What the gate reads besides the   *)
(* file is the `world`: the surviving mutants, the files a record names, a *)
(* floor, a command line, the day.                                         *)
(***************************************************************************)
EXTENDS Integers, Sequences, SequencesExt, FiniteSets

CONSTANTS Mutants, Required, Least,
          Stages, Paths, MinStages,
          Ids,
          Bases, Literals, Digests,
          Gates, Alias, Flags, DenyScope, LocalPin,
          Words, MinLetters,
          Values, Places,
          Tasks, Bodies,
          Hidden, Targets,
          LinesOf,   \* gate |-> the lines its author may write
          Drafts,    \* gate |-> the files its author starts from
          Worlds,    \* gate |-> what else the gate may find
          MaxEdits,  \* gate |-> how often the file is edited
          LastDay    \* bound on the clock

Excusals == INSTANCE ExcusalLedger
Pilot == INSTANCE PilotGate
Review == INSTANCE ReviewRecord
Plan == INSTANCE PlanDecay
Sums == INSTANCE LedgerSums
Tools == INSTANCE CommandGates
Register == INSTANCE MetricRegister
Surface == INSTANCE SurfaceCheck
Secrets == INSTANCE SecretManifest
Prompts == INSTANCE PromptGates

GateNames == {"excusals", "pilot", "review", "plan", "margins", "toolchain",
              "register", "surface", "loads", "share", "secrets", "rules",
              "density", "zone", "audit"}

\* A line is one its gate tells apart, a world one it can find.
IsLine(g, line) ==
  CASE g = "excusals" -> line \in Excusals!Line
    [] g = "pilot" -> line \in Pilot!Line
    [] g = "review" -> line \in Review!Line
    [] g = "plan" -> line.row \in Plan!Row /\ Plan!IsTree(line.tree)
    [] g = "margins" -> line \in Sums!MarginRow \cup {Sums!Bad}
    [] g = "toolchain" -> line \in Tools!Row
    [] g = "register" -> line \in Register!Line
    [] g = "surface" -> line \in Surface!Line
    [] g = "loads" -> line \in Sums!LoadLine
    [] g = "share" -> line \in Sums!ShareLine
    [] g = "secrets" -> line \in Secrets!Line
    [] g = "rules" -> line \in Tools!Line
    [] g = "density" -> line \in Prompts!DensityLine
    [] g = "zone" -> line \in Prompts!ZoneLine
    [] g = "audit" -> line \in Prompts!PromptLine

IsWorld(g, w) ==
  CASE g = "excusals" -> w \subseteq Excusals!Raw
    [] g = "review" -> w.argv \in Seq(Review!Word) /\ w.refusal \in Review!Refusals \cup {"none"}
    [] g \in {"margins", "loads"} -> w \in Sums!Floors
    [] g \in {"register", "secrets", "density"} -> w \in Nat
    [] g = "surface" -> Surface!IsSite(w.site) /\ w.cap \in Nat /\ w.bytes \in Nat
    [] g = "share" -> w.floor \in Int /\ w.ceiling \in Int
    [] g = "rules" -> w \in Tools!Disks
    [] g = "zone" -> w \in [lines : Nat, tokens : Nat, head : Nat]
    [] g = "audit" -> w.audit \in Seq(Prompts!AuditLine)
    [] OTHER -> TRUE

\* What can stand in the gate's file.
Written(g) == LinesOf[g] \cup UNION {ToSet(draft) : draft \in Drafts[g]}

ASSUME EditsAssumption == \A g \in GateNames : MaxEdits[g] \in Nat

ASSUME BoundsAssumption == {Least, MinStages, MinLetters, LastDay} \subseteq Nat

ASSUME FieldsAssumption == "argument" \in Required /\ Required \cap {"other", "prose", "none"} = {}

ASSUME LinesAssumption ==
  \A g \in GateNames :
    /\ Drafts[g] \subseteq Seq(Written(g))
    /\ \A line \in Written(g) : IsLine(g, line)

ASSUME WorldsAssumption == \A g \in GateNames : \A w \in Worlds[g] : IsWorld(g, w)

\* What a value cannot resolve to is no place.
ASSUME PlacesAssumption == Places \cap (Surface!Refused \cup {"malformed"}) = {}

VARIABLES gate, lines, world, exit, edits

vars == <<gate, lines, world, exit, edits>>

\* What the gate answers to a file in a world.
RunGate(g, ls, w) ==
  CASE g = "excusals" -> Excusals!Exit(w, ls)
    [] g = "pilot" -> Pilot!Exit(ls, w)
    [] g = "review" -> Review!Exit(w.argv, [refusal |-> w.refusal, lines |-> ls])
    [] g = "plan" -> Plan!Exit(ls)
    [] g = "margins" -> Sums!MarginExit([readable |-> TRUE, rows |-> ls], w)
    [] g = "toolchain" -> Tools!ToolchainExit(TRUE, ls)
    [] g = "register" -> Register!Exit(ls, w)
    [] g = "surface" -> Surface!Exit(TRUE, <<ls>>, w.site, w.roots, w.cap, w.bytes)
    [] g = "loads" -> Sums!LoadExit(TRUE, ls, w)
    [] g = "share" -> Sums!ShareExit(ls, w)
    [] g = "secrets" -> Secrets!Exit(ls, w)
    [] g = "rules" -> Tools!RulesExit(ls, w)
    [] g = "density" -> Prompts!DensityExit(TRUE, ls, w)
    [] g = "zone" -> Prompts!ZoneExit("readable", ls, w)
    [] g = "audit" -> Prompts!AuditExit(ls, w)

Init ==
  /\ gate \in GateNames
  /\ lines \in Drafts[gate]
  /\ world \in Worlds[gate]
  /\ exit = RunGate(gate, lines, world)
  /\ edits = 0

Reruns == exit' = RunGate(gate, lines', world')

AddLine ==
  /\ edits < MaxEdits[gate]
  /\ \E i \in 1..(Len(lines) + 1), line \in LinesOf[gate] : lines' = InsertAt(lines, i, line)
  /\ edits' = edits + 1
  /\ UNCHANGED <<gate, world>>
  /\ Reruns

DropLine ==
  /\ edits < MaxEdits[gate]
  /\ \E i \in 1..Len(lines) : lines' = RemoveAt(lines, i)
  /\ edits' = edits + 1
  /\ UNCHANGED <<gate, world>>
  /\ Reruns

\* A day goes by over a register nobody edits.
Tick ==
  /\ gate = "register" /\ world \in 1..(LastDay - 1)
  /\ world' = world + 1
  /\ UNCHANGED <<gate, lines, edits>>
  /\ Reruns

Next == AddLine \/ DropLine \/ Tick

Spec == Init /\ [][Next]_vars

-----------------------------------------------------------------------------
TypeOK ==
  /\ gate \in GateNames
  /\ exit \in 0..(IF gate \in {"margins", "share"} THEN 3 ELSE 2)
  /\ edits \in 0..MaxEdits[gate]
  /\ gate = "plan" => \A i \in 1..Len(lines) : Plan!IsTree(lines[i].tree)

\* A verdict: --help exits 0 as well and rules on nothing, and neither does the
\* inventory of a prompt.
Ruled ==
  /\ exit \in {0, 1}
  /\ gate = "review" => ~Review!ParseArgs(world.argv).help
  /\ gate = "audit" => world.mode = "check"

\* Most gates judge a text alone: what a pass means to a reader who takes the text
\* as a whole.
SaysWhatItShould ==
  CASE gate = "excusals" -> \A m \in world : Excusals!Excused(lines, m)
    [] gate = "review" -> Review!IsReview(lines, Review!ParseArgs(world.argv).min)
    [] gate = "margins" ->
         \A i \in 1..Len(lines) : ~Sums!Below(lines[i].human, lines[i].gated, world)
    [] gate = "toolchain" -> \A i \in 1..Len(lines) : Tools!RunsScoped(lines[i])
    [] gate = "register" -> Register!Reviewed(lines, world)
    [] gate = "loads" -> Sums!Disciplined(lines, world)
    [] gate = "share" -> Sums!IsInvested(lines, world)
    [] gate = "secrets" -> Secrets!Declared(lines, world)
    [] gate = "rules" -> Tools!IsMeasured(lines, world)
    [] gate = "density" -> Cardinality(Prompts!Directives(lines)) <= world
    [] gate = "zone" -> Prompts!ZonePlaced(lines, world)
    [] gate = "audit" -> Prompts!AuditPlaced(lines, world)
    [] OTHER -> TRUE

\* The files a gate reads as its own documents say: a ledger in which no id heads an
\* indented line without an entry of its own, commands whose options stand alone
\* and whose interpreters are listed, a prompt whose fences match two by two.  Of
\* the others the code makes something else than its reader, each against a line
\* that the README quotes.
ReadsOneWay ==
  CASE gate = "excusals" -> ~Excusals!Orphaned(lines)
    [] gate = "rules" -> Tools!CommandsRead(lines)
    [] gate = "zone" -> Prompts!ZoneRead(lines)
    [] gate = "audit" -> Prompts!FencesMatch(lines)
    [] OTHER -> TRUE

\* Of a file that reads one way, a line-by-line reading with its state gives the
\* verdict of a reader of the whole: every survivor has one excusal of substance
\* under its exact id; a review is a list of distinct things; no story is under the
\* floor, and none is hidden or blamed by the aggregate; each metric is guarded and
\* not due; each task's loads climb within its share; enough minutes moved a metric;
\* each module hides one thing; a prompt's directives, as it is rendered, are few,
\* stand at its head and have a destination each.  A pass of a toolchain or of an
\* inventory of rules (which fail for other reasons too) means that each command runs
\* on the change whichever of a flag's occurrences the tool obeys, and that whatever
\* a measure is wrapped in, the program it runs can go red.
VerdictIsTheReaders ==
  Ruled /\ ReadsOneWay =>
           /\ exit = 0 => SaysWhatItShould
           /\ SaysWhatItShould /\ gate \notin {"toolchain", "rules", "pilot", "plan", "surface"}
                => exit = 0

\* Three gates judge a text against a disk.
IsSoOnDisk ==
  CASE gate = "pilot" -> Pilot!Evidenced(lines, world)
    [] gate = "plan" -> \A i \in 1..Len(lines) : Plan!True(lines[i].row, lines[i].tree)
    [] gate = "surface" ->
         Surface!Reviewable(lines, world.site, world.roots, world.cap, world.bytes)
    [] OTHER -> TRUE

\* The verdict is about the files that are there and not about the names a text
\* gives them: a pilot left as many files as stages, however they are spelled; a
\* plan's row holds exactly if it is true of the tree it was checked against; a
\* surface lies in the trees put in scope and can be read.
VerdictIsTheDisks ==
  Ruled /\ gate \in {"pilot", "plan", "surface"} => ((exit = 0) <=> IsSoOnDisk)

\* A file that says two things where one is asked for gets no verdict, whichever
\* of the two a person would have read: two openings or two statements for one
\* mutant (and for excusals nothing else is refused), two walks of a stage, two
\* tiers, two directory entries that are one name.  The third case of an ambiguous
\* ledger, an id that heads an indented line and opens no entry at all, is the
\* exception: the program promises a refusal there too and gives none.
TwoReadingsNoVerdict ==
  CASE gate = "excusals" ->
         /\ exit = 2 => Excusals!Ambiguous(lines)
         /\ Excusals!Ambiguous(lines) /\ ~Excusals!Orphaned(lines) => exit = 2
    [] gate = "pilot" ->
         (\E s \in Pilot!Declared(lines) : Cardinality(Pilot!Walks(lines, s)) > 1) => exit = 2
    [] gate = "surface" -> Cardinality(Surface!At(lines, "tier")) # 1 => exit = 2
    [] gate = "plan" ->
         (\E i \in 1..Len(lines) :
            lines[i].row.kind # "malformed"
              /\ \E p, q \in Plan!Meant(lines[i].tree, lines[i].row.path) : p # q) => exit = 2
    [] OTHER -> TRUE

\* A register nobody edits only decays: no day turns a refusal into a verdict or a
\* breach into a pass.
TimeOnlyDecays ==
  [][lines' = lines => exit' >= exit /\ (exit' = 2 => exit = 2)]_vars

=============================================================================
