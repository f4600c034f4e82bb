------------------------------- MODULE PilotGate -------------------------------
(***************************************************************************)
(* skills/do-it-twice/scripts/pilot-gate.py: no fan-out before every stage *)
(* of one pilot slice was walked and left a file of its own.               *)
(***************************************************************************)
EXTENDS Naturals, FiniteSets, Sequences

CONSTANTS Stages, Paths,
          MinStages   \* MIN_STAGES

\* A name as written: as first declared, in another case or composition, or in a
\* spelling the fold does not reach.
Names == Stages \X {"plain", "variant", "foreign"}

\* `norm`: the join key of a stage name.
Norm(name) == <<name[1], name[2] = "foreign">>

\* A line of the record: `slice=`, `stage=NAME`, `walked=NAME|CODE|PATH`, or none
\* of them (also one with a bad name, exit code or path).
Line ==
  [key : {"slice"}] \cup [key : {"stage"}, name : Names]
    \cup [key : {"walked"}, name : Names, code : {0, 1}, artifact : Paths]
    \cup [key : {"other"}]

\* What `stat` says of a path: nothing there, an error, no regular file, an empty
\* one, or the identity (device, inode) of a file with content.
Faults == {"absent", "unreadable", "special", "empty"}
Disk(Files) == [Paths -> Faults \cup Files]

Start == [slices |-> 0, order |-> <<>>, walked |-> <<>>, malformed |-> FALSE]

\* f with y at x as well.
With(f, x, y) == [z \in DOMAIN f \cup {x} |-> IF z = x THEN y ELSE f[z]]

\* The members of an order.
Among(order) == {order[i] : i \in DOMAIN order}

\* Mutant of Walkable: a second walk of a stage replaces the first.
WalkableAgain(st, line) == line.key = "walked"

Walkable(st, line) == line.key = "walked" /\ Norm(line.name) \notin DOMAIN st.walked

Parse(st, line) ==
  IF st.malformed THEN st
  ELSE CASE line.key = "slice" /\ st.slices = 0 -> [st EXCEPT !.slices = 1]
         [] line.key = "stage" /\ Norm(line.name) \notin Among(st.order) ->
              [st EXCEPT !.order = Append(@, Norm(line.name))]
         [] Walkable(st, line) -> [st EXCEPT !.walked = With(@, Norm(line.name), line)]
         [] OTHER -> [st EXCEPT !.malformed = TRUE]

Read(lines) ==
  LET st[k \in 0..Len(lines)] == IF k = 0 THEN Start ELSE Parse(st[k - 1], lines[k])
  IN  st[Len(lines)]

\* inspect_artifact and the loop of `judge` over the declared stages: which files
\* were seen so far, and whether there was a problem or an error.
Inspect(walked, disk, st, stage) ==
  IF stage \notin DOMAIN walked THEN [st EXCEPT !.problem = TRUE]
  ELSE LET found == disk[walked[stage].artifact]
           failed == walked[stage].code # 0
       IN  IF found = "unreadable" THEN [st EXCEPT !.error = TRUE]
           ELSE IF found \in Faults \cup st.seen THEN [st EXCEPT !.problem = TRUE]
           ELSE [st EXCEPT !.seen = @ \cup {found}, !.problem = @ \/ failed]

Judge(order, walked, disk) ==
  LET first == [seen |-> {}, problem |-> Len(order) < MinStages, error |-> FALSE]
      st[k \in 0..Len(order)] ==
        IF k = 0 THEN first ELSE Inspect(walked, disk, st[k - 1], order[k])
  IN  st[Len(order)]

Exit(lines, disk) ==
  LET record == Read(lines)
      verdict == Judge(record.order, record.walked, disk)
  IN  IF record.malformed \/ record.slices = 0 \/ verdict.error THEN 2
      ELSE IF verdict.problem \/ ~(DOMAIN record.walked \subseteq Among(record.order))
           THEN 1 ELSE 0

-----------------------------------------------------------------------------
Declared(lines) == {Norm(lines[i].name) : i \in {j \in 1..Len(lines) : lines[j].key = "stage"}}
Walks(lines, stage) ==
  {i \in 1..Len(lines) : lines[i].key = "walked" /\ Norm(lines[i].name) = stage}

\* A pilot slice: one name, enough stages, each with one successful walk and each
\* walk with a stage, and as many files with content as stages.
Evidenced(lines, disk) ==
  LET walks == {i \in 1..Len(lines) : lines[i].key = "walked"}
      files == {disk[lines[i].artifact] : i \in walks}
  IN  /\ \A i \in 1..Len(lines) : lines[i].key # "other"
      /\ Cardinality({i \in 1..Len(lines) : lines[i].key = "slice"}) = 1
      /\ Cardinality({i \in 1..Len(lines) : lines[i].key = "stage"}) = Cardinality(Declared(lines))
      /\ Cardinality(Declared(lines)) >= MinStages
      /\ \A s \in Declared(lines) : \E i \in walks : Walks(lines, s) = {i} /\ lines[i].code = 0
      /\ \A i \in walks : Norm(lines[i].name) \in Declared(lines)
      /\ files \cap Faults = {} /\ Cardinality(files) = Cardinality(Declared(lines))

=============================================================================
