----------------------------- MODULE ExcusalLedger -----------------------------
(***************************************************************************)
(* skills/mutant-excusal-ledger/scripts/check-excusals.py: every surviving *)
(* mutant has one complete excusal in a Markdown ledger, and the ledger    *)
(* reads one way only.                                                     *)
(***************************************************************************)
EXTENDS Naturals, Sequences

CONSTANTS Mutants,
          Required,   \* the fields an entry states, "argument" among them
          Least       \* the size of an argument of substance

\* An id as it stands in a file: bare, or with case, Markdown or invisible
\* characters around it, so that a reader sees the same mutant.
Raw == Mutants \X {"bare", "decorated"}
None == <<>>

(***************************************************************************)
(* place  opener   content at column 0 (a field name there means nothing)  *)
(*        indented                                                         *)
(*        heading  an indented or commented `# ...`                        *)
(*        skipped  blank, or a comment that is no heading                  *)
(* head   the id its first word is for a reader, if it is one              *)
(* name   the field it states; "other" for another `word:`, "prose"        *)
(* size   how much text it adds                                            *)
(***************************************************************************)
Said == Required \cup {"other", "prose"}
Line ==
  [place : {"opener"}, head : Raw, name : Said, size : Nat]
    \cup [place : {"indented", "heading", "skipped"}, head : Raw \cup {None}, name : Said, size : Nat]

CanonicalId(raw) == raw[1]

Openers(lines) == {i \in 1..Len(lines) : lines[i].place = "opener"}
EntryIds(lines) == {CanonicalId(lines[i].head) : i \in Openers(lines)}

\* Mutant of SecondOpener: ids are compared byte for byte.
SecondOpenerRaw(lines) ==
  \E i, j \in Openers(lines) : i # j /\ lines[i].head = lines[j].head

SecondOpener(lines) ==
  \E i, j \in Openers(lines) :
    i # j /\ CanonicalId(lines[i].head) = CanonicalId(lines[j].head)

\* A heading that names an opened mutant, or one an earlier heading named.
SecondHeading(lines) ==
  \E i \in 1..Len(lines) :
    /\ lines[i].place = "heading" /\ lines[i].head # None
    /\ \/ CanonicalId(lines[i].head) \in EntryIds(lines)
       \/ \E j \in 1..(i - 1) :
            /\ lines[j].place = "heading" /\ lines[j].head # None
            /\ CanonicalId(lines[j].head) = CanonicalId(lines[i].head)

(* The reading, line by line. *)
\* f with y at x as well.
With(f, x, y) == [z \in DOMAIN f \cup {x} |-> IF z = x THEN y ELSE f[z]]

Start == [entries |-> <<>>, current |-> None, last |-> "none", malformed |-> FALSE]

Read(ids, st, line) ==
  IF st.malformed \/ line.place \in {"skipped", "heading"} THEN st
  ELSE IF line.place = "opener"
  THEN [st EXCEPT !.entries = With(@, line.head, <<>>), !.current = line.head, !.last = "none"]
  ELSE IF line.name \notin Required /\ line.head # None /\ CanonicalId(line.head) \in ids
  THEN [st EXCEPT !.malformed = TRUE]
  ELSE IF st.current = None THEN st
  ELSE LET entry == st.entries[st.current]
       IN  CASE line.name \in DOMAIN entry -> [st EXCEPT !.malformed = TRUE]
             [] line.name \in Required \ DOMAIN entry ->
                  [st EXCEPT !.entries[st.current] = With(entry, line.name, line.size),
                             !.last = line.name]
             [] line.name = "prose" /\ st.last # "none" ->
                  [st EXCEPT !.entries[st.current][st.last] = @ + line.size]
             [] OTHER -> st

ReadLedger(lines) ==
  IF SecondOpener(lines) \/ SecondHeading(lines)
  THEN [Start EXCEPT !.malformed = TRUE]
  ELSE LET st[k \in 0..Len(lines)] ==
             IF k = 0 THEN Start ELSE Read(EntryIds(lines), st[k - 1], lines[k])
       IN  st[Len(lines)]

Complete(entry) ==
  /\ \A f \in Required : f \in DOMAIN entry /\ entry[f] > 0
  /\ entry["argument"] >= Least

\* The exit code for a list of surviving ids, as they stand in their file.
Exit(survivors, lines) ==
  LET ledger == ReadLedger(lines)
  IN  IF ledger.malformed THEN 2
      ELSE IF \A m \in survivors : m \in DOMAIN ledger.entries /\ Complete(ledger.entries[m])
           THEN 0 ELSE 1

-----------------------------------------------------------------------------
(* What a reader makes of the same ledger, without a parser's state. *)

States(line) == line.place = "indented" /\ line.name \in Required

\* The lines that seem to begin a ruling on a mutant.
Heads(lines, m) ==
  {i \in 1..Len(lines) :
     /\ lines[i].place # "skipped" /\ lines[i].head # None /\ ~States(lines[i])
     /\ CanonicalId(lines[i].head) = m}

\* The lines below i up to the first for which Stop holds.
Below(lines, i, Stop(_)) ==
  {j \in (i + 1)..Len(lines) : \A k \in (i + 1)..j : ~Stop(lines[k])}

Block(lines, i) == Below(lines, i, LAMBDA line : line.place = "opener")
Statements(lines, i, f) == {j \in Block(lines, i) : States(lines[j]) /\ lines[j].name = f}

\* The lines of the statement at j: it, and the prose that continues it.
Spoken(lines, j) ==
  {j} \cup {k \in Below(lines, j, LAMBDA line : line.place = "opener" \/ States(line)) :
              lines[k].place = "indented" /\ lines[k].name = "prose"}

\* How much it says.
Says(lines, j) ==
  LET sum[k \in 0..Len(lines)] ==
        IF k = 0 THEN 0 ELSE sum[k - 1] + IF k \in Spoken(lines, j) THEN lines[k].size ELSE 0
  IN  sum[Len(lines)]

\* One ruling under the mutant's exact id, each field stated once, with substance.
Excused(lines, raw) ==
  \E i \in Openers(lines) :
    /\ Heads(lines, CanonicalId(raw)) = {i} /\ lines[i].head = raw
    /\ \A f \in Required :
         \E j \in Block(lines, i) :
           /\ Statements(lines, i, f) = {j}
           /\ Says(lines, j) >= 1
           /\ f = "argument" => Says(lines, j) >= Least

\* Two places of which a parser and a reader might choose different ones: an entry
\* and another line that begins with its id, two headings of one id, or a field of
\* an entry stated twice.
Contested(lines) ==
  \/ \E m \in Mutants : \E i, j \in Heads(lines, m) :
       /\ i # j
       /\ lines[i].place = "opener" \/ {lines[i].place, lines[j].place} = {"heading"}
  \/ \E i \in Openers(lines), f \in Required, j, k \in 1..Len(lines) :
       j # k /\ {j, k} \subseteq Statements(lines, i, f)

\* An id that opens no entry heads an indented line, and a reader sees its block
\* begin there, inside of another mutant's.
Orphaned(lines) ==
  \E m \in Mutants : \E i \in Heads(lines, m) :
    lines[i].place = "indented" /\ \A j \in Heads(lines, m) : lines[j].place # "opener"

\* What the header of the program calls a ledger that does not read one way.
Ambiguous(lines) == Contested(lines) \/ Orphaned(lines)

=============================================================================
