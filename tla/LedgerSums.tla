------------------------------- MODULE LedgerSums -------------------------------
(* Three gates over ledgers that add up minutes or tokens. *)
EXTENDS Integers, Sequences

CONSTANTS Tasks, Bodies

(***************************************************************************)
(* skills/strategic-ledger/scripts/strategic-share.py: enough of the time  *)
(* went into strategic work, and each claim of that has a metric that      *)
(* moved.                                                                  *)
(***************************************************************************)
\* A row with its minutes and its evidence: nothing, something that is not
\* metric=before->after, a metric that did not move, or one that did.
ShareLine ==
  [is : {"skipped", "malformed"}]
    \cup [is : {"row"}, tag : {"tactical", "strategic"}, minutes : Int,
          evidence : {"none", "garbled", "flat", "moved"}]

ShareRows(lines) == {i \in 1..Len(lines) : lines[i].is = "row"}

\* The minutes of some of the rows.
Minutes(lines, rows) ==
  LET sum[k \in 0..Len(lines)] ==
        IF k = 0 THEN 0 ELSE sum[k - 1] + IF k \in rows THEN lines[k].minutes ELSE 0
  IN  sum[Len(lines)]

\* Mutant of Evidenced: a metric that is merely named is evidence.
EvidencedByName(row) == row.tag = "strategic" /\ row.evidence \in {"flat", "moved"}

Evidenced(row) == row.tag = "strategic" /\ row.evidence = "moved"

\* Options that are no band end the run before the ledger is read; a malformed
\* ledger has a code of its own.  Time above the ceiling is reported and passes.
ShareExit(lines, band) ==
  LET rows == ShareRows(lines)
      evidenced == {i \in rows : Evidenced(lines[i])}
  IN  IF band.floor > band.ceiling \/ ~({band.floor, band.ceiling} \subseteq 0..100) THEN 3
      ELSE IF \/ \E i \in 1..Len(lines) : lines[i].is = "malformed"
              \/ \E i \in rows : lines[i].minutes <= 0
              \/ rows = {}
           THEN 2
      ELSE IF \/ \E i \in rows \ evidenced : lines[i].tag = "strategic"
              \/ Minutes(lines, evidenced) * 100 < band.floor * Minutes(lines, rows)
           THEN 1 ELSE 0

-----------------------------------------------------------------------------
\* In every hour enough minutes moved a metric, and nothing claims to have that
\* did not.
IsInvested(lines, band) ==
  LET moved(row) == IF row.tag = "strategic" /\ row.evidence = "moved" THEN row.minutes ELSE 0
      margin[k \in 0..Len(lines)] ==
        IF k = 0 THEN 0
        ELSE IF lines[k].is # "row" THEN margin[k - 1]
        ELSE margin[k - 1] + 100 * moved(lines[k]) - band.floor * lines[k].minutes
  IN  /\ \A i \in 1..Len(lines) :
           lines[i].is = "row" => lines[i].tag = "tactical" \/ moved(lines[i]) # 0
      /\ margin[Len(lines)] >= 0

-----------------------------------------------------------------------------
(***************************************************************************)
(* skills/margin-ledger/scripts/margin-ledger.py: the margin of a story is *)
(* human minutes over gated minutes, and none may be under the floor.      *)
(* Minutes and floor are exact here; overflow and rounding of doubles are  *)
(* left out.                                                               *)
(***************************************************************************)
\* A row of positive minutes, or what `parse_rows` refuses.
MarginRow == [gated : Nat \ {0}, human : Nat \ {0}]
Bad == [gated |-> 0, human |-> 0]

File == [readable : BOOLEAN, rows : Seq(MarginRow \cup {Bad})]

\* The floor is n / d.
Floors == [n : Nat, d : Nat \ {0}]
Below(human, gated, floor) == human * floor.d < floor.n * gated

Total(rows, field) ==
  LET sum[k \in 0..Len(rows)] == IF k = 0 THEN 0 ELSE sum[k - 1] + rows[k][field]
  IN  sum[Len(rows)]

\* Mutant of Breach: the stories are not looked at one by one.
BreachOfAggregate(rows, floor) == Below(Total(rows, "human"), Total(rows, "gated"), floor)

Breach(rows, floor) ==
  \/ \E i \in 1..Len(rows) : Below(rows[i].human, rows[i].gated, floor)
  \/ Below(Total(rows, "human"), Total(rows, "gated"), floor)

MarginExit(file, floor) ==
  CASE floor.n = 0 \/ ~file.readable -> 3
    [] floor.n > 0 /\ file.readable ->
         IF file.rows = <<>> \/ \E i \in DOMAIN file.rows : file.rows[i] = Bad THEN 2
         ELSE IF Breach(file.rows, floor) THEN 1 ELSE 0

-----------------------------------------------------------------------------
(***************************************************************************)
(* skills/interface-budget/scripts/load-ledger.py: what an agent loaded,   *)
(* in order: interface before implementation, no body twice at the same    *)
(* depth, and implementation within a share of the tokens of each task.    *)
(***************************************************************************)
Tier == [interface |-> 1, test |-> 2, impl |-> 3]
Kinds == DOMAIN Tier

\* A task id in either case; a path by the file it is of and its spelling, which
\* `norm_key` folds (slashes, `.` and `..`, case, composition).
Path == Bodies \X {"plain", "respelt"}

\* Mutant of NormKey: one key per spelling.
NormKeyRaw(path) == path

NormKey(path) == path[1]
TaskKey(task) == task[1]

LoadRow == [task : Tasks \X {"lower", "upper"}, path : Path, kind : Kinds, tokens : Nat, justified : BOOLEAN]

\* A line: blank or a comment, a row, or one `parse` dies of.
LoadLine == [is : {"blank", "bad"}] \cup [is : {"row"}, row : LoadRow]

Audit0 == [spec |-> FALSE, seen |-> <<>>, impl |-> 0, total |-> 0, findings |-> {}]

\* `seen` rises and never falls.
Kept(seen, key, tier) ==
  IF key \in DOMAIN seen /\ tier <= seen[key] THEN seen
  ELSE [k \in DOMAIN seen \cup {key} |-> IF k = key THEN tier ELSE seen[k]]

\* One load of a task.
Load(st, row) ==
  LET key == NormKey(row.path)
      tier == Tier[row.kind]
      impl == row.kind = "impl"
  IN  [spec |-> st.spec \/ ~impl,
       seen |-> Kept(st.seen, key, tier),
       impl |-> st.impl + IF impl THEN row.tokens ELSE 0,
       total |-> st.total + row.tokens,
       findings |-> st.findings
         \cup (IF impl /\ ~st.spec THEN {"IMPL-FIRST"} ELSE {})
         \cup (IF impl /\ ~row.justified THEN {"UNJUSTIFIED"} ELSE {})
         \cup (IF key \in DOMAIN st.seen /\ tier <= st.seen[key] THEN {"RE-READ"} ELSE {})]

LoadRows(lines) == {i \in 1..Len(lines) : lines[i].is = "row"}
Of(lines, task) == {i \in LoadRows(lines) : TaskKey(lines[i].row.task) = task}

\* A task's loads in ledger order, over the ceiling c.n / c.d.
AuditTask(lines, task, c) ==
  LET st[k \in 0..Len(lines)] ==
        IF k = 0 THEN Audit0
        ELSE IF k \in Of(lines, task) THEN Load(st[k - 1], lines[k].row)
        ELSE st[k - 1]
      last == st[Len(lines)]
  IN  last.findings \cup (IF last.impl * c.d > c.n * last.total THEN {"OVER-BUDGET"} ELSE {})

Findings(lines, c) == UNION {AuditTask(lines, t, c) : t \in Tasks}

\* The lines of all ledgers, one after the other; `usable` is false for one that
\* cannot be read or decoded, and for a ceiling outside 0..1.
LoadExit(usable, lines, c) ==
  IF ~usable \/ LoadRows(lines) = {} \/ \E i \in 1..Len(lines) : lines[i].is = "bad" THEN 2
  ELSE IF Findings(lines, c) # {} THEN 1 ELSE 0

-----------------------------------------------------------------------------
\* The tokens of some of the loads.
Tokens(lines, loads) ==
  LET sum[k \in 0..Len(lines)] ==
        IF k = 0 THEN 0 ELSE sum[k - 1] + IF k \in loads THEN lines[k].row.tokens ELSE 0
  IN  sum[Len(lines)]

\* What the ledger of a disciplined agent looks like, whichever order its tasks
\* were worked in and however it spells a path.
Disciplined(lines, c) ==
  LET of(t) == {i \in 1..Len(lines) : lines[i].is = "row" /\ lines[i].row.task[1] = t}
      impl(t) == {i \in of(t) : lines[i].row.kind = "impl"}
  IN  \A t \in Tasks :
        /\ \A i \in impl(t) : lines[i].row.justified /\ \E j \in of(t) \ impl(t) : j < i
        /\ \A i, j \in of(t) :
             i < j /\ lines[i].row.path[1] = lines[j].row.path[1]
               => Tier[lines[i].row.kind] < Tier[lines[j].row.kind]
        /\ Tokens(lines, impl(t)) * c.d <= c.n * Tokens(lines, of(t))

=============================================================================
