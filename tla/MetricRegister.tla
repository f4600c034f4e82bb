----------------------------- MODULE MetricRegister -----------------------------
(***************************************************************************)
(* skills/measurement-humility/scripts/metric-register.py: every enforced  *)
(* metric names what it might corrupt and the day it is looked at again.   *)
(***************************************************************************)
EXTENDS Naturals, FiniteSets, Sequences

CONSTANTS Words,      \* folded texts that say something
          MinLetters  \* MIN_LETTERS

\* A text field by what folding and peeling leave of it: nothing at all, marks
\* only, an evasion (`n/a (see JIRA-12)`, `- none yet -`), or a word that says
\* something, bare or dressed in case, dashes and punctuation.
Text == [is : {"empty", "marks", "evasion"}] \cup [is : {"word"}, word : Words, dressed : BOOLEAN]

\* `metric_key`: the join key, empty for a name of squeezed characters only.  A
\* metric with an evasion for a name is a name like another.
MetricKey(text) == IF text.is = "word" THEN <<text.word>> ELSE <<>>

\* `letters`: how many letters the corruption clause has.  A review that is no
\* ISO date is day NoDate.
NoDate == 0
Row == [metric : {t \in Text : t.is # "evasion"}, threshold : Text, corrupts : Text, letters : Nat, review : Nat]

\* A line read_rows passes over, a line with other than four fields, or a row.
Line == [kind : {"comment", "short"}] \cup [kind : {"row"}, row : Row]

\* `corruption_fault`: the row guards nothing.
Unguarded(row) ==
  \/ MetricKey(row.metric) = <<>>
  \/ row.threshold.is # "word"
  \/ row.corrupts.is # "word"
  \/ MetricKey(row.corrupts) \in {MetricKey(row.metric), MetricKey(row.threshold)}
  \/ row.letters < MinLetters

\* The rows, and those with the key of an earlier one.
Rows(lines) == {i \in 1..Len(lines) : lines[i].kind = "row"}
Seen(lines, i) ==
  LET key(j) == MetricKey(lines[j].row.metric)
  IN  key(i) # <<>> /\ \E j \in Rows(lines) : j < i /\ key(j) = key(i)

\* Mutants of Due: the day itself still passes; the day after passes again.
DueTheDayAfter(row, today) == row.review < today
DueThatDay(row, today) == row.review = today

Due(row, today) == row.review <= today

\* `judge`: the first breach found wins.
Verdict(lines, i, today) ==
  IF Seen(lines, i) THEN "DUPLICATE"
  ELSE IF Unguarded(lines[i].row) THEN "UNGUARDED"
  ELSE IF Due(lines[i].row, today) THEN "DUE" ELSE "REVIEWED"

Breaches(lines, today) == {i \in Rows(lines) : Verdict(lines, i, today) # "REVIEWED"}

\* A row without a date ends the whole run.
Undated(lines) == \E i \in Rows(lines) : lines[i].row.review = NoDate

\* Mutant of Exit: the number of breaches is the status.
ExitCounting(lines, today) ==
  IF Undated(lines) THEN 2 ELSE Cardinality(Breaches(lines, today))

\* `today` is NoDate when --today names no day.
Exit(lines, today) ==
  IF \/ today = NoDate \/ Rows(lines) = {} \/ Undated(lines)
     \/ \E i \in 1..Len(lines) : lines[i].kind = "short"
  THEN 2
  ELSE IF Breaches(lines, today) # {} THEN 1 ELSE 0

-----------------------------------------------------------------------------
\* What a register promises on a day: each metric has one row, which says what it
\* might corrupt in words of its own and is looked at on a later day.
Reviewed(lines, today) ==
  LET rows == {i \in 1..Len(lines) : lines[i].kind = "row"}
      row(i) == lines[i].row
  IN  /\ rows # {}
      /\ \A i \in rows :
           /\ {row(i).metric.is, row(i).threshold.is, row(i).corrupts.is} = {"word"}
           /\ row(i).corrupts.word \notin {row(i).metric.word, row(i).threshold.word}
           /\ row(i).letters >= MinLetters
           /\ \A j \in rows \ {i} : row(j).metric.is = "word" => row(j).metric.word # row(i).metric.word
           /\ row(i).review > today

=============================================================================
