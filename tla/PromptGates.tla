------------------------------- MODULE PromptGates -------------------------------
(* Three gates over a prompt: how many directives it holds, where they stand
   and where each of them goes. *)
EXTENDS Naturals, FiniteSets, Sequences

(***************************************************************************)
(* skills/instruction-density-cap/scripts/density-cap.py: a prompt holds   *)
(* no more directives than a cap.  Lines stand as they classify once       *)
(* quotes, invisible characters and emphasis are taken off them.           *)
(***************************************************************************)
\* A fence line with its character, its width and whether nothing follows it
\* (prose about fences opens one too); modal: it carries a directive word.
FenceChars == {"tick", "tilde"}
DensityLine ==
  [is : {"blank", "list", "prose", "modal"}] \cup [is : {"table"}, delimiter : BOOLEAN]
    \cup [is : {"fence"}, char : FenceChars, width : Nat, bare : BOOLEAN, modal : BOOLEAN]

\* Mutant of Closers: a bare fence closes itself.
ClosersFromHere(lines, i) ==
  {j \in i..Len(lines) :
     /\ lines[j].is = "fence" /\ lines[j].bare
     /\ lines[j].char = lines[i].char /\ lines[j].width >= lines[i].width}

\* The lines that could close the fence opened at i.
Closers(lines, i) ==
  {j \in (i + 1)..Len(lines) :
     /\ lines[j].is = "fence" /\ lines[j].bare
     /\ lines[j].char = lines[i].char /\ lines[j].width >= lines[i].width}

\* `fenced_indices`: from an opener to its first closer; an opener without one is
\* no fence at all.  until: the last line known to be inside one.
Fenced(lines) ==
  LET step(st, i) ==
        IF i <= st.until \/ lines[i].is # "fence" \/ Closers(lines, i) = {} THEN st
        ELSE LET close == CHOOSE j \in Closers(lines, i) : \A k \in Closers(lines, i) : j <= k
             IN  [until |-> close, inside |-> st.inside \cup i..close]
      st[i \in 0..Len(lines)] == IF i = 0 THEN [until |-> 0, inside |-> {}] ELSE step(st[i - 1], i)
  IN  st[Len(lines)].inside

\* `count_units`: one unit per line.  The one delimiter row after a table's header
\* is none, another row of dashes is.
Units(lines) ==
  LET fenced == Fenced(lines)
      step(st, i) ==
        LET line == lines[i]
        IN  IF i \in fenced \/ line.is = "blank" THEN [units |-> st.units, table |-> "none"]
            ELSE IF line.is = "table"
            THEN IF st.table = "header" /\ line.delimiter THEN [units |-> st.units, table |-> "body"]
                 ELSE [units |-> st.units \cup {i},
                       table |-> IF st.table = "none" THEN "header" ELSE "body"]
            ELSE [units |-> IF \/ line.is \in {"list", "modal"}
                               \/ line.is = "fence" /\ line.modal
                            THEN st.units \cup {i} ELSE st.units,
                  table |-> "none"]
      st[i \in 0..Len(lines)] == IF i = 0 THEN [units |-> {}, table |-> "none"] ELSE step(st[i - 1], i)
  IN  st[Len(lines)].units

\* readable: UTF-8 without a NUL; the cap of --cap or of a profile.
DensityExit(readable, lines, cap) ==
  IF cap = 0 \/ ~readable THEN 2
  ELSE IF Cardinality(Units(lines)) > cap THEN 1 ELSE 0

-----------------------------------------------------------------------------
\* To a renderer, the fence opened at i can end at j.
Ends(lines, i, j) ==
  /\ lines[j].is = "fence" /\ lines[j].bare
  /\ lines[j].char = lines[i].char /\ lines[j].width >= lines[i].width

\* What it shows as code, line by line: a fence is open or it is not.  An opener that
\* nothing will close is not one.
ShownAsCode(lines) ==
  LET open[j \in 0..Len(lines)] ==   \* the opener of the fence open after line j
        IF j = 0 THEN 0
        ELSE IF open[j - 1] # 0
        THEN IF Ends(lines, open[j - 1], j) THEN 0 ELSE open[j - 1]
        ELSE IF lines[j].is = "fence" /\ \E k \in (j + 1)..Len(lines) : Ends(lines, j, k) THEN j
        ELSE 0
  IN  {j \in 1..Len(lines) : open[j] # 0 \/ open[j - 1] # 0}

\* Two fence lines that parity takes for the two ends of one fence.
Pair(lines, j, k) ==
  LET fence(m) == lines[m].is = "fence"
  IN  /\ fence(j) /\ fence(k) /\ j < k
      /\ \A m \in (j + 1)..(k - 1) : ~fence(m)
      /\ Cardinality({m \in 1..(j - 1) : fence(m)}) % 2 = 0

\* They are so to a renderer, pair by pair: none is wider than its end, of the other
\* character or closed by a line that says more.
FencesMatch(lines) == \A j, k \in 1..Len(lines) : Pair(lines, j, k) => Ends(lines, j, k)

\* The directives a reader of the rendered prompt meets: the delimiter of a table
\* is the second of its rows.
Directives(lines) ==
  LET shown == 1..Len(lines) \ ShownAsCode(lines)
      row(i) == i \in shown /\ lines[i].is = "table"
  IN  {i \in shown :
         \/ lines[i].is \in {"list", "modal"} \/ (lines[i].is = "fence" /\ lines[i].modal)
         \/ row(i) /\ ~(lines[i].delimiter /\ row(i - 1) /\ ~row(i - 2))}

-----------------------------------------------------------------------------
(***************************************************************************)
(* skills/priority-zone/scripts/zone-lint.py: a standing prompt is short,  *)
(* and its hard directives stand at its head.                              *)
(***************************************************************************)
\* A fence line, or another with an uppercase directive or without one.  chars: its
\* length; blank: it is white space.
ZoneLine ==
  [is : {"fence"}, char : FenceChars, width : Nat, bare : BOOLEAN, chars : Nat]
    \cup [is : {"shouts", "prose", "blank"}, chars : Nat]

\* The lines that begin with three backticks; tildes are prose.
Marks(lines) == {i \in 1..Len(lines) : lines[i].is = "fence" /\ lines[i].char = "tick"}

\* Mutant of Unclosed: the tail of the prompt stays inside a fence that nothing
\* closes.
UnclosedHonoured(lines) == {}

\* Of an odd number of marks the last one opens nothing.
Unclosed(lines) ==
  IF Cardinality(Marks(lines)) % 2 = 0 THEN {}
  ELSE {i \in Marks(lines) : \A j \in Marks(lines) : j <= i}

\* Z4: directives past the head, outside the fences, which every mark toggles.
Strays(lines, head) ==
  LET step(st, i) ==
        IF i \in Marks(lines)
        THEN [fenced |-> st.fenced # (i \notin Unclosed(lines)), strays |-> st.strays]
        ELSE IF ~st.fenced /\ i > head /\ lines[i].is = "shouts"
        THEN [fenced |-> FALSE, strays |-> st.strays \cup {i}]
        ELSE st
      st[i \in 0..Len(lines)] == IF i = 0 THEN [fenced |-> FALSE, strays |-> {}] ELSE step(st[i - 1], i)
  IN  st[Len(lines)].strays

Chars(lines) ==
  LET sum[i \in 0..Len(lines)] == IF i = 0 THEN 0 ELSE sum[i - 1] + lines[i].chars
  IN  sum[Len(lines)]

\* Budgets: lines, tokens of four characters, and the lines of the head.  Z1 is a
\* verdict as well; text that is not UTF-8 is none.
ZoneExit(source, lines, b) ==
  CASE source = "undecodable" -> 2
    [] source = "absent" -> 1
    [] OTHER ->
         IF \/ \A i \in 1..Len(lines) : lines[i].is = "blank"
            \/ Len(lines) > b.lines \/ (Chars(lines) + 3) \div 4 > b.tokens
            \/ Strays(lines, b.head) # {}
         THEN 1 ELSE 0

-----------------------------------------------------------------------------
\* A reader of the rendered prompt meets every directive that is not shown as code.
ZonePlaced(lines, b) ==
  /\ \E i \in 1..Len(lines) : lines[i].is # "blank"
  /\ Len(lines) <= b.lines /\ Chars(lines) <= 4 * b.tokens
  /\ \A i \in (b.head + 1)..Len(lines) : lines[i].is = "shouts" => i \in ShownAsCode(lines)

\* The gate and a renderer see the same fences.
ZoneRead(lines) ==
  FencesMatch(lines) /\ \A i \in 1..Len(lines) : lines[i].is = "fence" => lines[i].char = "tick"

-----------------------------------------------------------------------------
(***************************************************************************)
(* skills/steering-audit/scripts/inventory.py: every rule of a prompt has  *)
(* a destination in an audit, which names the rules by their numbers.      *)
(***************************************************************************)
\* A line of the prompt: a fence of either kind, a list item, other text.
PromptLine == [is : {"item", "text"}] \cup [is : {"fence"}, char : FenceChars, width : Nat, bare : BOOLEAN]

\* A line of the audit: the rule numbers in it, as whole words, and whether it has
\* a destination word.
AuditLine == [numbers : SUBSET Nat, destined : BOOLEAN]

\* `extract`: list items outside the fences, any of which toggles; Rn is the n-th.
Extract(lines) ==
  LET step(st, i) ==
        IF lines[i].is = "fence" THEN [fenced |-> ~st.fenced, rules |-> st.rules]
        ELSE IF lines[i].is = "item" /\ ~st.fenced
             THEN [fenced |-> FALSE, rules |-> Append(st.rules, i)]
        ELSE st
      st[i \in 0..Len(lines)] == IF i = 0 THEN [fenced |-> FALSE, rules |-> <<>>] ELSE step(st[i - 1], i)
  IN  st[Len(lines)].rules

\* Mutant of Destined: the number and the word may stand on two lines.
DestinedAnywhere(audit, n) ==
  (\E i \in 1..Len(audit) : n \in audit[i].numbers) /\ \E i \in 1..Len(audit) : audit[i].destined

Destined(audit, n) == \E i \in 1..Len(audit) : n \in audit[i].numbers /\ audit[i].destined

AuditExit(lines, call) ==
  CASE call.mode = "extract" /\ call.found -> 0
    [] call.mode = "check" /\ call.found ->
         IF \A n \in 1..Len(Extract(lines)) : Destined(call.audit, n) THEN 0 ELSE 1
    [] OTHER -> 2

-----------------------------------------------------------------------------
\* What a renderer has open after line i, a fence that nothing closes included.
OpenAt(lines, i) ==
  LET open[j \in 0..Len(lines)] ==
        IF j = 0 THEN 0
        ELSE IF open[j - 1] # 0
        THEN IF Ends(lines, open[j - 1], j) THEN 0 ELSE open[j - 1]
        ELSE IF lines[j].is = "fence" THEN j ELSE 0
  IN  open[i]

\* The items a reader counts, from the top: the n-th one that is not shown as code.
Counted(lines, i) == lines[i].is = "item" /\ OpenAt(lines, i) = 0

\* Every rule can be followed to a line of the audit that places it.
AuditPlaced(lines, call) ==
  \A i \in 1..Len(lines) : Counted(lines, i) =>
    LET n == Cardinality({j \in 1..i : Counted(lines, j)})
    IN  \E k \in 1..Len(call.audit) : call.audit[k].destined /\ n \in call.audit[k].numbers

=============================================================================
