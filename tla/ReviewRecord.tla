------------------------------ MODULE ReviewRecord ------------------------------
(***************************************************************************)
(* skills/egoless-fleet/scripts/review-record.py: a review is a list of    *)
(* things found or falsified, never a bare approval.                       *)
(***************************************************************************)
EXTENDS Integers, FiniteSets, Sequences

CONSTANTS Ids

\* An id as it renders; its `variant` differs only in what NFKC and case folding
\* remove, its `invisible` one holds a character that renders as nothing.
Names == Ids \X {"plain", "variant", "invisible"}

\* Mutant of NormKey: an id counts again in another spelling.
NormKeyRaw(name) == name

NormKey(name) == name[1]
Invisible(name) == name[2] = "invisible"

\* Blank lines and comments; FOUND or FALSIFIED entries; anything else.
Line ==
  [kind : {"blank", "prose"}] \cup [kind : {"FOUND", "FALSIFIED"}, id : Names]

\* The file: why `read_record` or `check_control` refuses it, and its lines.
Refusals == {"unreadable", "special", "large", "grown", "undecodable", "control"}
File == [refusal : Refusals \cup {"none"}, lines : Seq(Line)]

\* The words of a command line: a --min with its number, a --min without one, a
\* path, an option of no use.
Word == [is : {"help", "path", "unknown", "unpaired"}] \cup [is : {"min"}, n : Int]

Args0 == [paths |-> 0, min |-> 1, error |-> FALSE, help |-> FALSE]

ParseArg(st, word) ==
  IF st.error \/ st.help THEN st
  ELSE CASE word.is = "help" -> [st EXCEPT !.help = TRUE]
         [] word.is = "path" /\ st.paths = 0 -> [st EXCEPT !.paths = 1]
         [] word.is = "min" /\ word.n >= 1 -> [st EXCEPT !.min = word.n]
         [] OTHER -> [st EXCEPT !.error = TRUE]

ParseArgs(argv) ==
  LET st[k \in 0..Len(argv)] == IF k = 0 THEN Args0 ELSE ParseArg(st[k - 1], argv[k])
      last == st[Len(argv)]
  IN  [last EXCEPT !.error = ~last.help /\ (@ \/ last.paths = 0)]

Scan0 == [entries |-> 0, seen |-> {}, problem |-> FALSE, fatal |-> FALSE]

\* `scan`: it stops at the first invisible character.
ScanLine(st, line) ==
  IF st.fatal \/ line.kind = "blank" THEN st
  ELSE IF line.kind = "prose" THEN [st EXCEPT !.problem = TRUE]
  ELSE IF Invisible(line.id) THEN [st EXCEPT !.fatal = TRUE]
  ELSE IF NormKey(line.id) \in st.seen THEN [st EXCEPT !.problem = TRUE]
  ELSE [st EXCEPT !.entries = @ + 1, !.seen = @ \cup {NormKey(line.id)}]

Scan(lines) ==
  LET st[k \in 0..Len(lines)] == IF k = 0 THEN Scan0 ELSE ScanLine(st[k - 1], lines[k])
  IN  st[Len(lines)]

Exit(argv, file) ==
  LET args == ParseArgs(argv)
      scan == Scan(file.lines)
  IN  CASE args.help -> 0
        [] ~args.help /\ (args.error \/ file.refusal # "none") -> 2
        [] OTHER -> IF scan.fatal THEN 2
                    ELSE IF scan.problem \/ scan.entries < args.min THEN 1 ELSE 0

-----------------------------------------------------------------------------
\* A list of found and falsified things: what it counts are things a reader can
\* tell apart, it counts all of them, and nothing else is written between them.
IsReview(lines, least) ==
  LET entries == {i \in 1..Len(lines) : lines[i].kind \in {"FOUND", "FALSIFIED"}}
  IN  /\ \A i \in 1..Len(lines) : lines[i].kind # "prose"
      /\ \A i \in entries : ~Invisible(lines[i].id)
      /\ Cardinality({lines[i].id[1] : i \in entries}) = Cardinality(entries)
      /\ Cardinality(entries) >= least

=============================================================================
