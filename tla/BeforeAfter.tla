------------------------------- MODULE BeforeAfter -------------------------------
(* The gates that compare what was there before with what is there after. *)
EXTENDS Naturals, FiniteSets, Sequences, SequencesExt

CONSTANTS Definitions
CONSTANTS Entries,   \* paths below the root
          Prints     \* fingerprints: kind, mode, link target, digest of the bytes
CONSTANTS Changes,
          MaxFiles   \* MAX_FILES, MAX_COST

(***************************************************************************)
(* skills/define-errors-out/scripts/error-paths.py: a redesign keeps its   *)
(* interface and exposes strictly fewer error paths.                       *)
(***************************************************************************)
\* What a module's source has in it: a definition at its top level, an assignment
\* to such a name, or an error path.
ErrorsLine ==
  [is : {"def", "assigned"}, name : Definitions]
    \cup [is : {"raise", "except", "assert"}] \cup [is : {"broken"}]

Sites(lines) == {i \in 1..Len(lines) : lines[i].is \in {"raise", "except", "assert"}}

\* Mutant of TopDefs: an assigned name stands in for a definition.
TopDefsByName(lines) ==
  {lines[i].name : i \in {j \in 1..Len(lines) : lines[j].is \in {"def", "assigned"}}}

TopDefs(lines) == {lines[i].name : i \in {j \in 1..Len(lines) : lines[j].is = "def"}}

Unparseable(lines) == \E i \in 1..Len(lines) : lines[i].is = "broken"

\* The gate over BEFORE and AFTER.
ErrorsExit(before, after) ==
  IF \/ Unparseable(before) \/ Unparseable(after)
     \/ TopDefs(before) = {} \/ ~(TopDefs(before) \subseteq TopDefs(after))
  THEN 2
  ELSE IF Cardinality(Sites(after)) < Cardinality(Sites(before)) THEN 0 ELSE 1

-----------------------------------------------------------------------------
(***************************************************************************)
(* skills/steering-audit/scripts/readonly-probe.py: the audit's commands   *)
(* leave the tree they read as it was.  The commands run over a copy.      *)
(***************************************************************************)
\* What a probed command does to one path: it gives it a fingerprint, or "gone".
ProbeLine == [of : {"command"}, path : Entries \cup {"."}, to : Prints \cup {"gone"}]

\* A tree: the entries that are there, with the root always one of them.
Trees == UNION {[S \cup {"."} -> Prints] : S \in SUBSET Entries}

After(tree, lines) ==
  LET step(t, act) ==
        IF act.to = "gone" THEN [p \in DOMAIN t \ {act.path} |-> t[p]]
        ELSE [p \in DOMAIN t \cup {act.path} |-> IF p = act.path THEN act.to ELSE t[p]]
      then[k \in 0..Len(lines)] == IF k = 0 THEN tree ELSE step(then[k - 1], lines[k])
  IN  then[Len(lines)]

\* Mutant of Breaches: entries that appeared are not compared.
BreachesOfBefore(before, after) ==
  {p \in DOMAIN before : p \notin DOMAIN after \/ before[p] # after[p]}

\* DELETED, CREATED and MODIFIED
Breaches(before, after) ==
  {p \in DOMAIN before \cup DOMAIN after :
     \/ p \notin DOMAIN after \/ p \notin DOMAIN before
     \/ before[p] # after[p]}

\* Mutant of ProbeExit: the number of breaches is the status.
ExitCounting(tree, lines, run) == Cardinality(Breaches(tree, After(tree, lines)))

\* An empty sandbox proves nothing, and neither does a command that could not be
\* launched or a red control (--red) that failed.
ProbeExit(tree, lines, run) ==
  IF ~run.usable \/ Cardinality(DOMAIN tree) < 2 \/ ~run.launched \/ (run.red /\ run.code # 0) THEN 2
  ELSE IF Breaches(tree, After(tree, lines)) # {} THEN 1 ELSE 0

-----------------------------------------------------------------------------
(***************************************************************************)
(* Two gates over a history, a row per change: the files it touched        *)
(* (skills/tornado-detector/scripts/tornado-scan.py) and what a story cost *)
(* (skills/change-cost-probe/scripts/cost-trend.py).  Means and thresholds *)
(* are compared exactly.                                                   *)
(***************************************************************************)
\* A change id as written, folded by NFC and case.
Names == Changes \X {"plain", "respelt"}
IdKey(name) == name[1]

\* A blank or comment line, a row with its number (files, or units of cost), or a
\* line that is neither.  `ticket`: an id of `#` and digits; `hash`: another that
\* begins with `#`, for one gate an id and for the other an annotation.
Line ==
  [of : {"skipped", "malformed"}]
    \cup [of : {"row"}, id : Names, n : Nat, style : {"plain", "ticket", "hash"}]

Rows(lines) ==
  LET kept[k \in 0..Len(lines)] ==
        IF k = 0 THEN <<>>
        ELSE IF lines[k].of = "row" THEN Append(kept[k - 1], lines[k]) ELSE kept[k - 1]
  IN  kept[Len(lines)]

Repeats(rows) == \E i, j \in 1..Len(rows) : i # j /\ IdKey(rows[i].id) = IdKey(rows[j].id)

Refused(lines) ==
  \/ \E i \in 1..Len(lines) : lines[i].of = "malformed"
  \/ Repeats(Rows(lines))
  \/ \E i \in 1..Len(Rows(lines)) : Rows(lines)[i].n \notin 1..MaxFiles

Total(rows) == FoldLeft(LAMBDA sum, row : sum + row.n, 0, rows)

\* The last changes, and those just before them.
Recent(rows, b) == SubSeq(rows, Len(rows) - b.window + 1, Len(rows))
Base(rows, b) == SubSeq(rows, Len(rows) - b.window - b.baseline + 1, Len(rows) - b.window)

\* Mutant of Ordered: the declared order is not applied.
OrderedAsCaptured(lines, order) == Rows(lines)

Ordered(lines, order) == IF order = "newest-first" THEN Reverse(Rows(lines)) ELSE Rows(lines)

\* recent / base > climb, in whole numbers.
Climbs(rows, b) ==
  Total(Recent(rows, b)) * b.baseline * b.climb[2] > b.climb[1] * Total(Base(rows, b)) * b.window

TornadoExit(lines, order, b) ==
  LET rows == Ordered(lines, order)
  IN  IF Refused(lines) \/ Len(rows) < b.window + b.baseline THEN 2
      ELSE IF Climbs(rows, b) \/ Total(Recent(rows, b)) > b.ceiling * b.window THEN 1 ELSE 0

CostExit(lines, order, b) ==
  LET rows == Ordered(lines, order)
  IN  IF \/ Refused(lines) \/ Len(rows) < b.window + b.baseline
         \/ \E i \in 1..Len(rows) : rows[i].style = "hash"
      THEN 2
      ELSE IF Climbs(rows, b) THEN 1 ELSE 0

=============================================================================
