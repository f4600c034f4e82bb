-------------------------------- MODULE Ratchet --------------------------------
(***************************************************************************)
(* skills/boyscout-ratchet/scripts/ratchet.py: compare a record of touched *)
(* files with the committed baseline.  One run after the other; the metric *)
(* tools write any record, and the team rewrites the baseline as SKILL.md  *)
(* says: on green, with the rows that were judged.                         *)
(***************************************************************************)
EXTENDS Naturals, FiniteSets, Sequences, SequencesExt

CONSTANTS Files,      \* what some file system takes to be one file
          Records,    \* the contents the two TSV files go through
          Ceiling, Budget

VARIABLES baseline,   \* the committed TSV, comments and blank lines left out
          pc,         \* idle, baseline, current, verdict, done
          base, cur,  \* what parse_records returned
          fails,      \* regressions, new_over or bust
          exit

vars == <<baseline, pc, base, cur, fails, exit>>

Unset == 99

\* How a row spells its path: as the repository does; so that `key_of` reduces
\* it to that ("./a", "a//b", "a\b"); so that only a file system would (case,
\* NFD, a trailing dot); so that it joins nothing (absolute, drive, "../",
\* invisible).  A damaged row is not four fields of plain finite numbers.
Forms == {"plain", "reducible", "folded", "unjoinable", "damaged"}
Metrics == [crap : Nat, complexity : Nat, coverage : Nat]
Row == [file : Files, form : Forms, metrics : Metrics]

ASSUME RecordsAssumption == Records \subseteq Seq(Row)
ASSUME LimitsAssumption == Ceiling \in Nat /\ Budget \in 0..100

Nothing == [k \in {} |-> {}]

Init ==
  /\ baseline \in Records
  /\ pc = "idle" /\ base = Nothing /\ cur = Nothing /\ fails = FALSE /\ exit = Unset

-----------------------------------------------------------------------------
(* Keys and records. *)

KeyOf(row) == <<row.file, IF row.form = "reducible" THEN "plain" ELSE row.form>>

\* The shadow of a key under the spellings a file system erases.
FoldKey(key) == key[1]

\* Join or refuse: any row that cannot be a key, a second row for one, or no row.
Parses(lines) ==
  /\ lines # <<>>
  /\ \A i \in 1..Len(lines) : lines[i].form \notin {"unjoinable", "damaged"}
  /\ \A i, j \in 1..Len(lines) : KeyOf(lines[i]) = KeyOf(lines[j]) => i = j

ParseRecords(lines) ==
  [k \in {KeyOf(lines[i]) : i \in 1..Len(lines)} |->
     lines[CHOOSE i \in 1..Len(lines) : KeyOf(lines[i]) = k].metrics]

\* Mutant of KeyVariants: each record is looked at alone.
KeyVariantsWithin(b, c) ==
  \/ \E j, k \in DOMAIN b : j # k /\ FoldKey(j) = FoldKey(k)
  \/ \E j, k \in DOMAIN c : j # k /\ FoldKey(j) = FoldKey(k)

\* Two keys of one file, wherever they appear.
KeyVariants(b, c) ==
  \E j, k \in DOMAIN b \cup DOMAIN c : j # k /\ FoldKey(j) = FoldKey(k)

(* The comparison. *)

\* Mutant of Worse: coverage that falls is not a regression.
WorseButCoverage(new, old) == new.crap > old.crap \/ new.complexity > old.complexity

Worse(new, old) ==
  \/ new.crap > old.crap
  \/ new.complexity > old.complexity
  \/ new.coverage < old.coverage

Regressions(b, c) == {k \in DOMAIN c \cap DOMAIN b : Worse(c[k], b[k])}

NewOver(b, c) == {k \in DOMAIN c \ DOMAIN b : c[k].crap > Ceiling}

Merged(b, c) == [k \in DOMAIN b \cup DOMAIN c |-> IF k \in DOMAIN c THEN c[k] ELSE b[k]]

Bust(merged) ==
  100 * Cardinality({k \in DOMAIN merged : merged[k].crap > Ceiling})
    > Budget * Cardinality(DOMAIN merged)

Fails(b, c) == Regressions(b, c) # {} \/ NewOver(b, c) # {} \/ Bust(Merged(b, c))

(* The gate. *)

Invoke ==
  /\ pc \in {"idle", "done"}
  /\ pc' = "baseline" /\ base' = Nothing /\ cur' = Nothing /\ fails' = FALSE /\ exit' = Unset
  /\ UNCHANGED baseline

End(code) == pc' = "done" /\ exit' = code

ReadBaseline ==
  /\ pc = "baseline"
  /\ IF Parses(baseline)
     THEN pc' = "current" /\ base' = ParseRecords(baseline) /\ UNCHANGED exit
     ELSE End(2) /\ UNCHANGED base
  /\ UNCHANGED <<baseline, cur, fails>>

\* The record of the touched files is read, as the metric tools have it at this
\* moment, and everything is judged in memory.
ReadCurrent(touched) ==
  /\ pc = "current"
  /\ IF Parses(touched) /\ ~KeyVariants(base, ParseRecords(touched))
     THEN /\ pc' = "verdict" /\ cur' = ParseRecords(touched)
          /\ fails' = Fails(base, cur') /\ UNCHANGED exit
     ELSE End(2) /\ UNCHANGED <<cur, fails>>
  /\ UNCHANGED <<baseline, base>>

\* All lines are printed and flushed under one guard.
Deliver ==
  /\ pc = "verdict"
  /\ End(IF fails THEN 1 ELSE 0)
  /\ UNCHANGED <<baseline, base, cur, fails>>

\* Mutant of Fault: stdout is not silenced before the report.
FaultUnsilenced ==
  /\ pc \notin {"idle", "done"}
  /\ End(120)
  /\ UNCHANGED <<baseline, base, cur, fails>>

\* Usage, an unreadable or undecodable file, a closed or dead stdout, any
\* exception.
Fault ==
  /\ pc \notin {"idle", "done"}
  /\ End(2)
  /\ UNCHANGED <<baseline, base, cur, fails>>

(* The team. *)

\* "Rewrite the baseline downward only, on green, as part of the same commit":
\* with the rows of the run that passed.
Adopt(lines) ==
  /\ pc = "done" /\ exit = 0
  /\ Parses(lines) /\ ParseRecords(lines) = Merged(base, cur)
  /\ baseline' = lines
  /\ UNCHANGED <<pc, base, cur, fails, exit>>

Next ==
  \/ Invoke \/ ReadBaseline \/ Deliver \/ Fault
  \/ \E touched \in Records : ReadCurrent(touched)
  \/ \E lines \in Records : Adopt(lines)

Spec == Init /\ [][Next]_vars

-----------------------------------------------------------------------------
Parsed(rows) ==
  /\ rows = [k \in DOMAIN rows |-> rows[k]]
  /\ DOMAIN rows \subseteq Files \X Forms
  /\ \A k \in DOMAIN rows : rows[k] \in Metrics

TypeOK ==
  /\ baseline \in Records
  /\ pc \in {"idle", "baseline", "current", "verdict", "done"}
  /\ Parsed(base) /\ Parsed(cur)
  /\ fails \in BOOLEAN /\ exit \in {0, 1, 2, Unset}

\* The files a record lists, and those it has over the ceiling.
FilesOf(rows) == {FoldKey(k) : k \in DOMAIN rows}
OverFiles(rows) == {FoldKey(k) : k \in {j \in DOMAIN rows : rows[j].crap > Ceiling}}

\* What a TSV says of the files it lists.
Listed(lines) == {lines[i].file : i \in 1..Len(lines)}
Recorded(lines) ==
  [f \in Listed(lines) |-> lines[CHOOSE i \in 1..Len(lines) : lines[i].file = f].metrics]

Store == INSTANCE MetricRatchet WITH recorded <- Recorded(baseline)

\* A verdict is about files, whatever their spellings: green means that no
\* touched file is worse than any baseline row of that file, that a file without
\* one is at or under the ceiling and that the share of files over it is allowed;
\* red means one of these fails.  No row escapes to the lenient branch by the way
\* its path is written, and none is counted twice.
VerdictIsAboutFiles ==
  pc = "done" /\ exit \in {0, 1} =>
    (exit = 0 <=>
      /\ \A k \in DOMAIN cur, j \in DOMAIN base :
           FoldKey(k) = FoldKey(j) => ~Store!Worse(cur[k], base[j])
      /\ OverFiles(cur) \subseteq FilesOf(base)
      /\ 100 * Cardinality(OverFiles(cur) \cup (OverFiles(base) \ FilesOf(cur)))
           <= Budget * Cardinality(FilesOf(base) \cup FilesOf(cur)))

\* Over all runs and adoptions the baseline is a ratchet.
BaselineIsARatchet == Store!Spec

\* "Touched files may not get worse and new files must clear the ceiling, so the
\* over-ceiling set can only shrink."
OverCeilingShrinks ==
  [][\A f \in Listed(baseline') :
       Recorded(baseline')[f].crap > Ceiling =>
         f \in Listed(baseline) /\ Recorded(baseline)[f].crap > Ceiling]_baseline

=============================================================================
