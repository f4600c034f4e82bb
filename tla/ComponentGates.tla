------------------------------- MODULE ComponentGates -------------------------------
(* Two gates over the components of a system: their size and cohesion, and
   the order of their dependencies. *)
EXTENDS FiniteSets, Sequences, Integers

CONSTANTS Components, Refs

(***************************************************************************)
(* skills/component-cohesion/scripts/cohesion-read.py: no component is too *)
(* large to read, and few commits touch many components.                   *)
(***************************************************************************)
\* A name as written; `key` folds case, composition and slashes.
Name(S) == S \X {"plain", "respelt"}
Key(name) == name[1]

CohesionLine ==
  [of : {"commits"}, total : Nat] \cup [of : {"component"}, name : Name(Components), size : Nat]
    \cup [of : {"commit"}, ref : Name(Refs), members : SUBSET Name(Components)]
    \cup [of : {"comment", "malformed"}]

CohesionRows(lines, kind) == {i \in 1..Len(lines) : lines[i].of = kind}

\* Mutant of Members: a component counts once per spelling.
MembersRaw(commit) == commit.members

Members(commit) == {Key(m) : m \in commit.members}

Sizes(lines) == {Key(lines[i].name) : i \in CohesionRows(lines, "component")}

InputError(lines) ==
  LET sizes == CohesionRows(lines, "component")
      commits == CohesionRows(lines, "commit")
      claims == CohesionRows(lines, "commits")
  IN  \/ CohesionRows(lines, "malformed") # {} \/ sizes = {} \/ commits = {}
      \/ \E i, j \in sizes : i # j /\ Key(lines[i].name) = Key(lines[j].name)
      \/ \E i, j \in commits : i # j /\ Key(lines[i].ref) = Key(lines[j].ref)
      \/ \E i \in commits : lines[i].members = {}
      \/ \E i \in commits : ~({Key(m) : m \in lines[i].members} \subseteq Sizes(lines))
      \/ {lines[i].total : i \in claims} # {Cardinality(commits)} \/ Cardinality(claims) # 1

\* Budgets: context lines, fan, and a percentage of the commits.
CohesionExit(lines, b) ==
  LET commits == CohesionRows(lines, "commit")
      spread == {i \in commits : Cardinality(Members(lines[i])) > b.fan}
  IN  IF InputError(lines) THEN 2
      ELSE IF \/ \E i \in CohesionRows(lines, "component") : lines[i].size > b.context
              \/ 100 * Cardinality(spread) > b.percent * Cardinality(commits)
           THEN 1 ELSE 0

-----------------------------------------------------------------------------
\* The map and the history respect their budgets, as a person counts: components
\* by what they are and commits by their refs.
WithinBudgets(lines, b) ==
  LET commits == {lines[i].ref[1] : i \in CohesionRows(lines, "commit")}
      touched(r) == {c \in Components : \E i \in CohesionRows(lines, "commit") :
                       lines[i].ref[1] = r /\ \E m \in lines[i].members : m[1] = c}
      wide == {r \in commits : Cardinality(touched(r)) > b.fan}
  IN  /\ \A i \in CohesionRows(lines, "component") : lines[i].size <= b.context
      /\ 100 * Cardinality(wide) <= b.percent * Cardinality(commits)
      /\ \A i \in CohesionRows(lines, "commits") : lines[i].total = Cardinality(commits)

-----------------------------------------------------------------------------
(***************************************************************************)
(* skills/stability-order/scripts/stability-check.py: no component depends *)
(* on a less stable one, and none is far from the main sequence.           *)
(* Rationals are pairs <<numerator, denominator>>, compared exactly.       *)
(***************************************************************************)
StabilityLine ==
  [of : {"component"}, name : Components, abstract : Int, total : Int]
    \cup [of : {"edge"}, from : Components, to : Components] \cup [of : {"malformed"}]

StabilityRows(lines, kind) == {lines[i] : i \in {j \in 1..Len(lines) : lines[j].of = kind}}
Names(lines) == {c.name : c \in StabilityRows(lines, "component")}
Edges(lines) == {<<e.from, e.to>> : e \in StabilityRows(lines, "edge")}

\* The record of a name: the last one, as in a JSON object.
Record(lines, name) ==
  lines[CHOOSE i \in 1..Len(lines) :
          /\ lines[i].of = "component" /\ lines[i].name = name
          /\ \A j \in (i + 1)..Len(lines) : lines[j].of = "component" => lines[j].name # name]

Errors(lines) ==
  \/ StabilityRows(lines, "malformed") # {} \/ Names(lines) = {} \/ Edges(lines) = {}
  \/ \E n \in Names(lines) : LET c == Record(lines, n)
                             IN  c.total < 1 \/ c.abstract < 0 \/ c.abstract > c.total
  \/ \E e \in Edges(lines) : e[1] = e[2] \/ ~({e[1], e[2]} \subseteq Names(lines))

Ce(lines, n) == Cardinality({e \in Edges(lines) : e[1] = n})
Ca(lines, n) == Cardinality({e \in Edges(lines) : e[2] = n})

Less(q, r) == q[1] * r[2] < r[1] * q[2]
Instability(lines, n) == <<Ce(lines, n), Ce(lines, n) + Ca(lines, n)>>
Isolated(lines, n) == Ce(lines, n) + Ca(lines, n) = 0

Abs(k) == IF k < 0 THEN -k ELSE k
Distance(lines, n) ==
  LET c == Record(lines, n)
      i == Instability(lines, n)
  IN  <<Abs(c.abstract * i[2] + i[1] * c.total - c.total * i[2]), c.total * i[2]>>

\* Mutant of Breaches: only what the two depend on is compared.
BreachesByFanOut(lines, e) == Ce(lines, e[1]) < Ce(lines, e[2])

\* X depends on something less stable than itself.
Breaches(lines, e) == Less(Instability(lines, e[1]), Instability(lines, e[2]))

StabilityExit(lines, maxDistance) ==
  IF Errors(lines) THEN 2
  ELSE IF \/ \E e \in Edges(lines) : Breaches(lines, e)
          \/ \E n \in Names(lines) : ~Isolated(lines, n) /\ Less(maxDistance, Distance(lines, n))
       THEN 1 ELSE 0

-----------------------------------------------------------------------------
\* What a component depends on, at any distance.
DependsOn(lines, n) ==
  LET round[k \in 0..Cardinality(Components)] ==
        IF k = 0 THEN {e[2] : e \in {x \in Edges(lines) : x[1] = n}}
        ELSE round[k - 1] \cup {e[2] : e \in {x \in Edges(lines) : x[1] \in round[k - 1]}}
  IN  round[Cardinality(Components)]

\* Nothing rests, at any distance, on something less stable, and the components
\* of a cycle are equally stable.
RestsOnStable(lines) ==
  \A n \in Names(lines) : \A m \in DependsOn(lines, n) :
    /\ ~Less(Instability(lines, n), Instability(lines, m))
    /\ n \in DependsOn(lines, m) => ~Less(Instability(lines, m), Instability(lines, n))

=============================================================================
