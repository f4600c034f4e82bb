------------------------------- MODULE ScoreGates -------------------------------
(* Two gates that work out a number: a score per function and the time a
   fleet takes. *)
EXTENDS Integers, Sequences

CONSTANTS Unit, MaxFleet

(***************************************************************************)
(* skills/crap-gate/scripts/crap-score.py: no function's complexity,       *)
(* weighed by what its tests leave uncovered, is over a threshold.         *)
(***************************************************************************)
\* A function with its complexity and its coverage in percent, both as parsed and
\* in any range; a blank or comment line; or a line that is neither.
CrapLine ==
  [is : {"skipped", "malformed"}] \cup [is : {"row"}, comp : Int, cov : Int]

\* Mutant of Over: what is covered counts instead of what is not.
OverByCovered(row, threshold) ==
  row.comp * row.comp * row.cov * row.cov * row.cov > (threshold - row.comp) * 1000000

\* `crap`: comp ** 2 * (1 - cov / 100) ** 3 + comp > threshold, in whole numbers.
Over(row, threshold) ==
  LET left == 100 - row.cov
  IN  row.comp * row.comp * left * left * left > (threshold - row.comp) * 1000000

Rows(lines) == {i \in 1..Len(lines) : lines[i].is = "row"}
Sound(row) == row.comp >= 1 /\ row.cov \in 0..100

CrapExit(lines, threshold) ==
  IF \/ \E i \in 1..Len(lines) : lines[i].is = "malformed"
     \/ \E i \in Rows(lines) : ~Sound(lines[i])
     \/ Rows(lines) = {}
  THEN 2
  ELSE IF \E i \in Rows(lines) : Over(lines[i], threshold) THEN 1 ELSE 0

-----------------------------------------------------------------------------
\* What one knows of the score without its formula: tests do not make a function
\* less complex, and without tests its complexity counts squared on top.
PassesByHand(lines, threshold) ==
  \A i \in 1..Len(lines) : lines[i].is = "row" =>
    /\ lines[i].comp <= threshold
    /\ lines[i].cov = 0 => lines[i].comp * (lines[i].comp + 1) <= threshold

\* So a function over the threshold by that is a breach in any company.
FailsByHand(lines, threshold) ==
  \E i \in 1..Len(lines) :
    /\ lines[i].is = "row"
    /\ \/ lines[i].comp > threshold
       \/ lines[i].cov = 0 /\ lines[i].comp * (lines[i].comp + 1) > threshold

-----------------------------------------------------------------------------
(***************************************************************************)
(* skills/mythical-agent-month/scripts/fleet-cost.py: does the last agent  *)
(* of a fleet save more time than its handoffs cost?  The plan's numbers   *)
(* are in units of 1/Unit, and elapsed times are compared exactly.         *)
(***************************************************************************)
Keys == {"serial_minutes", "partitionable", "handoff_minutes", "fleet"}

\* A line that gives a key its number; fleet counts agents, written with or without
\* a decimal point, the others are in units.
FleetLine ==
  [is : {"skipped", "malformed"}]
    \cup [is : {"field"}, key : Keys \cup {"unknown"}, value : Nat, point : BOOLEAN]

Fields(lines) == {i \in 1..Len(lines) : lines[i].is = "field"}

InRange(field) ==
  CASE field.key = "fleet" -> ~field.point /\ field.value \in 1..MaxFleet
    [] field.key = "serial_minutes" -> field.value > 0
    [] field.key = "partitionable" -> field.value <= Unit
    [] field.key = "handoff_minutes" -> TRUE
    [] field.key = "unknown" -> FALSE

\* `parse`: each key once and in range.
Refused(lines) ==
  \/ \E i \in 1..Len(lines) : lines[i].is = "malformed"
  \/ \E i \in Fields(lines) : ~InRange(lines[i])
  \/ \E i, j \in Fields(lines) : i # j /\ lines[i].key = lines[j].key
  \/ {lines[i].key : i \in Fields(lines)} # Keys

Value(lines, key) ==
  lines[CHOOSE i \in Fields(lines) : lines[i].key = key].value

Plan(lines) == [key \in Keys |-> Value(lines, key)]

\* `elapsed`: S * ((1 - p) + p / n) + h * (n * (n - 1)) / 2, as <<numerator,
\* denominator>>.
Elapsed(plan, n) ==
  LET s == plan.serial_minutes
      p == plan.partitionable
  IN  <<2 * s * (n * (Unit - p) + p) + plan.handoff_minutes * Unit * n * n * (n - 1),
        2 * n * Unit * Unit>>

Less(q, r) == q[1] * r[2] < r[1] * q[2]

\* `crossover`: the first size whose successor does not improve; 0 if there is none.
Crossover(plan) ==
  LET stops == {n \in 1..(MaxFleet - 1) : ~Less(Elapsed(plan, n + 1), Elapsed(plan, n))}
  IN  IF stops = {} THEN 0 ELSE CHOOSE n \in stops : \A m \in stops : n <= m

\* Mutant of Pays: the fleet is compared with one agent, and not with one fewer.
PaysAgainstOne(plan) == plan.fleet = 1 \/ Less(Elapsed(plan, plan.fleet), Elapsed(plan, 1))

Pays(plan) == plan.fleet = 1 \/ Less(Elapsed(plan, plan.fleet), Elapsed(plan, plan.fleet - 1))

FleetExit(lines) == IF Refused(lines) THEN 2 ELSE IF Pays(Plan(lines)) THEN 0 ELSE 1

-----------------------------------------------------------------------------
\* A fleet pays if no smaller one is as fast, and the crossover that is printed
\* beside the verdict is the largest fleet that pays and the fastest of all.
IsWorthIt(plan) ==
  \A n \in 1..(plan.fleet - 1) : Less(Elapsed(plan, plan.fleet), Elapsed(plan, n))

CrossoverIsBest(plan) ==
  LET best == Crossover(plan)
  IN  IF best = 0 THEN \A n \in 1..(MaxFleet - 1) : Less(Elapsed(plan, n + 1), Elapsed(plan, n))
      ELSE /\ \A n \in 1..MaxFleet : ~Less(Elapsed(plan, n), Elapsed(plan, best))
           /\ IsWorthIt(plan) <=> plan.fleet <= best

=============================================================================
