------------------------------- MODULE ModuleGates -------------------------------
(* The gates over a graph of modules: where its edges point, how many a change
   may add, whether it is whole and where it may be drawn. *)
EXTENDS Naturals, FiniteSets, Sequences, SequencesExt

CONSTANTS Segments, Layers
CONSTANTS Modules
CONSTANTS Ids
CONSTANTS Lens,    \* the reserved names of a drawing
          Others   \* names of no concern

(***************************************************************************)
(* skills/dependency-fence/scripts/fence-check.py: every dependency points *)
(* inward or stays in its layer.  A path is a sequence of names.           *)
(***************************************************************************)
\* A key of `modules`, with a final slash or without, and its layer; an edge of the
\* extract.
Path == Seq(Segments)
FenceLine ==
  [of : {"module"}, prefix : Path, slash : BOOLEAN, layer : Layers \cup {"unknown"}]
    \cup [of : {"edge"}, from : Path, to : Path]

Rows(lines, kind) == {lines[i] : i \in {j \in 1..Len(lines) : lines[j].of = kind}}

SameKey(m, n) ==
  m.of = "module" /\ n.of = "module" /\ m.prefix = n.prefix /\ m.slash = n.slash

\* What is read of `modules`: a key listed twice has the later layer, in the first place.
Listed(lines) ==
  {lines[i] : i \in {j \in 1..Len(lines) :
     /\ lines[j].of = "module"
     /\ \A k \in (j + 1)..Len(lines) : ~SameKey(lines[j], lines[k])}}

Place(lines, m) ==
  CHOOSE i \in 1..Len(lines) : SameKey(lines[i], m) /\ \A k \in 1..(i - 1) : ~SameKey(lines[k], m)

\* The entries that decide: of one prefix in two spellings the first.
Mappings(lines) ==
  {m \in Listed(lines) :
     \A n \in Listed(lines) : n.prefix = m.prefix => Place(lines, m) <= Place(lines, n)}

Covering(lines, path) == {m \in Mappings(lines) : IsPrefix(m.prefix, path)}

\* Mutant of LayerOf: the outermost mapping wins.
LayerOfParent(lines, path) ==
  IF Covering(lines, path) = {} THEN "none"
  ELSE (CHOOSE m \in Covering(lines, path) :
          \A n \in Covering(lines, path) : Len(m.prefix) <= Len(n.prefix)).layer

\* `layer_of`: the longest prefix, so that a nested mapping overrides its parent.
LayerOf(lines, path) ==
  IF Covering(lines, path) = {} THEN "none"
  ELSE (CHOOSE m \in Covering(lines, path) :
          \A n \in Covering(lines, path) : Len(n.prefix) <= Len(m.prefix)).layer

\* `rank`: higher is more inward.
Rank(layers, layer) == CHOOSE i \in 1..Len(layers) : layers[i] = layer

Red(lines, layers, edge) ==
  LET from == LayerOf(lines, edge.from)
      to == LayerOf(lines, edge.to)
  IN  "none" \in {from, to} \/ Rank(layers, to) < Rank(layers, from)

FenceExit(lines, layers) ==
  IF \/ layers = <<>> \/ Listed(lines) = {}
     \/ \E m \in Listed(lines) : m.layer \notin ToSet(layers)
  THEN 2
  ELSE IF \E e \in Rows(lines, "edge") : Red(lines, layers, e) THEN 1 ELSE 0

-----------------------------------------------------------------------------
\* What is mapped by the entry with no entry for the path below it.
Owner(lines, path) ==
  {m \in Mappings(lines) :
     /\ IsPrefix(m.prefix, path)
     /\ ~\E n \in Mappings(lines) :
          n # m /\ IsPrefix(m.prefix, n.prefix) /\ IsPrefix(n.prefix, path)}

\* What a file depends on, at any distance.
DependsOn(lines, path) ==
  LET edges == Rows(lines, "edge")
      round[k \in 0..Cardinality(edges)] ==
        IF k = 0 THEN {path}
        ELSE round[k - 1] \cup {e.to : e \in {x \in edges : x.from \in round[k - 1]}}
  IN  round[Cardinality(edges)]

\* From no file can one get, over any chain of dependencies, to a layer further out.
PointsInward(lines, layers) ==
  \A e \in Rows(lines, "edge") : \A to \in DependsOn(lines, e.from) :
    \A m \in Owner(lines, e.from), n \in Owner(lines, to) :
      \E i, j \in 1..Len(layers) : i <= j /\ layers[i] = m.layer /\ layers[j] = n.layer

-----------------------------------------------------------------------------
(***************************************************************************)
(* skills/coupling-budget/scripts/coupling-budget.py: the cross-module     *)
(* edges one change adds are within a budget and each has its reason.      *)
(***************************************************************************)
\* A module as written: NFC removes one difference, and only that.
ModuleNames == Modules \X {"plain", "composed", "cased"}
Key(name) == <<name[1], name[2] = "cased">>

\* The items of a change spec: a module, an edge of the current set, a reason of
\* some visible size for an edge, or anything malformed.
CouplingLine ==
  [of : {"module"}, name : ModuleNames] \cup [of : {"edge"}, from : ModuleNames, to : ModuleNames]
    \cup [of : {"reason"}, from : ModuleNames, to : ModuleNames, size : Nat] \cup [of : {"malformed"}]

Items(lines, kind) == {i \in 1..Len(lines) : lines[i].of = kind}
Declared(lines) == {Key(lines[i].name) : i \in Items(lines, "module")}
Edge(item) == <<Key(item.from), Key(item.to)>>

\* `edge_set`: an edge inside a module does not count.
Cross(edges) == {e \in edges : e[1] # e[2]}
Current(lines) == Cross({Edge(lines[i]) : i \in Items(lines, "edge")})

\* `modules_of`, `edge_of`, `justifications_of` and `edge_set` refuse the spec; the
\* baseline is a part of it.
SpecError(lines, baseline) ==
  \/ Items(lines, "malformed") # {} \/ Items(lines, "module") = {}
  \/ \E i, j \in Items(lines, "module") : i # j /\ lines[i].name[1] = lines[j].name[1]
  \/ \E i \in Items(lines, "edge") \cup Items(lines, "reason") :
       ~({Key(lines[i].from), Key(lines[i].to)} \subseteq Declared(lines))
  \/ \E e \in baseline : ~({e[1], e[2]} \subseteq Declared(lines))
  \/ \E i, j \in Items(lines, "reason") : i # j /\ Edge(lines[i]) = Edge(lines[j])
  \/ Current(lines) = {}

\* Mutant of Added: removed edges are credit.
AddedNet(lines, baseline) ==
  IF Cardinality(Cross(baseline) \ Current(lines)) >= Cardinality(Current(lines) \ Cross(baseline))
  THEN {} ELSE Current(lines) \ Cross(baseline)

Added(lines, baseline) == Current(lines) \ Cross(baseline)

Justified(lines, minReason) ==
  {Edge(lines[i]) : i \in {j \in Items(lines, "reason") : lines[j].size >= minReason}}

CouplingExit(lines, baseline, budget, minReason) ==
  IF SpecError(lines, baseline) THEN 2
  ELSE IF \/ Cardinality(Added(lines, baseline)) > budget
          \/ ~(Added(lines, baseline) \subseteq Justified(lines, minReason))
       THEN 1 ELSE 0

-----------------------------------------------------------------------------
(***************************************************************************)
(* skills/arch-lens/scripts/check-graph.py: an extracted module graph is   *)
(* whole: unique ids, parents that lead to a root, edges between declared  *)
(* modules, and paths inside the repository.                               *)
(***************************************************************************)
\* A module with its id ("" for a missing one), its parent and where its path
\* leads: "root" for the repository itself, "none" for an empty or missing path;
\* an edge; or anything that is no JSON object.
GraphLine ==
  [of : {"module"}, id : Ids \cup {""}, parent : Ids \cup {"null"},
   path : {"inside", "outside", "root", "absent", "none"}]
    \cup [of : {"edge"}, from : Ids, to : Ids] \cup [of : {"malformed"}]

ModuleRows(lines) == {i \in 1..Len(lines) : lines[i].of = "module"}
IdSet(lines) == {lines[i].id : i \in ModuleRows(lines)}

\* The parent of an id: of several modules with it the last one counts.
Parent(lines, id) ==
  lines[CHOOSE i \in ModuleRows(lines) :
          lines[i].id = id /\ \A j \in ModuleRows(lines) : j > i => lines[j].id # id].parent

\* Mutant of Chain: a module that is its own ancestor is not noticed.
ChainUnwatched(lines, st) ==
  IF st.at = "null" \/ st.bad THEN st
  ELSE IF st.at \notin IdSet(lines) THEN [st EXCEPT !.bad = TRUE]
  ELSE [st EXCEPT !.seen = @ \cup {st.at}, !.at = Parent(lines, st.at)]

\* One step up the chain of parents.
Chain(lines, st) ==
  IF st.at = "null" \/ st.bad THEN st
  ELSE IF st.at \notin IdSet(lines) \/ st.at \in st.seen THEN [st EXCEPT !.bad = TRUE]
  ELSE [st EXCEPT !.seen = @ \cup {st.at}, !.at = Parent(lines, st.at)]

\* Every chain is followed until it ends or repeats, which takes no more steps than
\* there are ids and one.
Chased(lines, id) ==
  LET last == Cardinality(Ids) + 2
      chase[k \in 0..last] ==
        IF k = 0 THEN [at |-> Parent(lines, id), seen |-> {}, bad |-> FALSE]
        ELSE Chain(lines, chase[k - 1])
  IN  chase[last]

G3(lines) == \A id \in IdSet(lines) : ~Chased(lines, id).bad

G2(lines) ==
  /\ \A i, j \in ModuleRows(lines) : i # j => lines[i].id # lines[j].id
  /\ "" \notin IdSet(lines)

G4(lines) ==
  \A i \in 1..Len(lines) :
    lines[i].of = "edge" => {lines[i].from, lines[i].to} \subseteq IdSet(lines) /\ lines[i].from # lines[i].to

PathsAre(lines, ok) == \A i \in ModuleRows(lines) : lines[i].path \in ok

\* G1 ends the run, the other checks are all made.  Without a path a module stands
\* at the root.
GraphExit(lines, withRoot) ==
  IF ModuleRows(lines) = {} \/ \E i \in 1..Len(lines) : lines[i].of = "malformed" THEN 1
  ELSE IF /\ G2(lines) /\ G3(lines) /\ G4(lines)
          /\ PathsAre(lines, {"inside", "outside", "root", "absent"})
          /\ withRoot => PathsAre(lines, {"inside"})
       THEN 0 ELSE 1

-----------------------------------------------------------------------------
\* The modules form a forest: one can give each a depth, below its parent's.
IsForest(lines) ==
  \E depth \in [IdSet(lines) -> 0..Cardinality(Ids)] :
    \A i \in ModuleRows(lines) :
      LET m == lines[i]
      IN  m.parent # "null" => m.parent \in IdSet(lines) /\ depth[m.id] > depth[m.parent]

-----------------------------------------------------------------------------
(***************************************************************************)
(* skills/arch-lens/scripts/check-destination.py: where a rendered lens    *)
(* may be written: a look outside the repository, an instrument inside it, *)
(* and over no earlier lens unless that is authorized.                     *)
(***************************************************************************)
\* An entry of the destination: what it is and, for a link, where it leads.
DestinationLine ==
  [name : Lens \cup Others, is : {"file", "directory", "special"}, leads : {"here"}]
    \cup [name : Lens \cup Others, is : {"symlink"}, leads : {"repository", "elsewhere"}]

Reserved(lines) == {lines[i] : i \in {j \in 1..Len(lines) : lines[j].name \in Lens}}

\* Mutant of Blocked: a link is looked through.
BlockedUnlessLink(entry) == entry.is \in {"directory", "special"}

\* `occupants`: a reserved name that is no regular file obstructs.
Blocked(entry) == entry.is # "file"

\* The resolved destination: the repository's root, strictly inside it or outside.
Places == {"root", "inside", "outside"}
Lane(mode, place) == IF mode = "look" THEN place = "outside" ELSE place = "inside"

\* What stands at the destination: nothing, a file, a directory, or one that
\* cannot be listed.
DestinationExit(lines, w) ==
  LET held == {e \in Reserved(lines) : ~Blocked(e)}
      clear == CASE w.dest = "absent" -> TRUE
                 [] w.dest = "file" -> FALSE
                 [] OTHER -> /\ \A e \in Reserved(lines) : ~Blocked(e)
                             /\ held = {} \/ w.overwrite
  IN  IF w.mode \notin {"look", "instrument"} \/ ~w.rootIsDir \/ w.dest = "locked" THEN 2
      ELSE IF Lane(w.mode, w.place) /\ clear THEN 0 ELSE 1

-----------------------------------------------------------------------------
(* The renderer that runs after the gate: it writes every reserved name.    *)

\* Where its writes end up: through a link they go where the link leads.
Written(lines, w) ==
  {IF w.place = "outside" THEN "elsewhere" ELSE "repository"}
    \cup {e.leads : e \in {x \in Reserved(lines) : w.dest = "directory" /\ x.is = "symlink"}}

\* It can write them all, it changes the repository only as an instrument, and it
\* replaces a file only if that is authorized.
Renders(lines, w) ==
  /\ w.dest # "file"
  /\ w.dest = "directory" => \A e \in Reserved(lines) : e.is # "directory" /\ e.is # "special"
  /\ w.mode = "look" => "repository" \notin Written(lines, w)
  /\ w.mode = "instrument" => Written(lines, w) = {"repository"} /\ w.place # "root"
  /\ w.dest = "directory" /\ Reserved(lines) # {} => w.overwrite

=============================================================================
