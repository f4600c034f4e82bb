-------------------------------- MODULE LeakScan --------------------------------
(***************************************************************************)
(* skills/leak-scan/scripts/leak-scan.py: one fact stated in two files is  *)
(* a leak unless a waiver says why.  The lines of an input are the entries *)
(* of the directory tree, the statements of its files and the rows of the  *)
(* waiver ledger.                                                          *)
(***************************************************************************)
EXTENDS Naturals, FiniteSets, Sequences

CONSTANTS Dirs, Files,   \* identities: (device, inode)
          Texts

\* A literal as it stands: a string of some inner length in one of two normal
\* forms, a number, a quoted number, or text inside a comment.
Token ==
  [is : {"string"}, text : Texts, form : {"NFC", "NFD"}, size : Nat]
    \cup [is : {"number", "quoted"}, value : Nat] \cup [is : {"comment"}]

Line ==
  [of : {"entry"}, dir : Dirs, name : STRING, to : Dirs \cup Files \cup {"dangling"},
   scanned : BOOLEAN,   \* for a file: its extension is one of those asked for
   skipped : BOOLEAN]   \* for a directory: one of SKIPPED_DIRS
  \cup [of : {"fact"}, file : Files, token : Token]
  \cup [of : {"waiver"}, is : {"comment", "malformed"}]
  \cup [of : {"waiver"}, is : {"row"}, token : {t \in Token : t.is # "comment"}]

The(lines, kind) == {lines[i] : i \in {j \in 1..Len(lines) : lines[j].of = kind}}

\* Mutant of ScalarKey: a quoted number stays a text.
ScalarKeyAsWritten(token) ==
  CASE token.is = "string" -> <<"s", token.text>>
    [] token.is = "number" -> <<"n", token.value>>
    [] token.is = "quoted" -> <<"q", token.value>>

\* `scalar_key`, through which the lexer and the ledger both go.
ScalarKey(token) ==
  IF token.is = "string" THEN <<"s", token.text>> ELSE <<"n", token.value>>

\* `literals` keeps it: MIN_STRING_CHARS, MIN_NUMBER_CHARS, TRIVIAL_NUMBERS.
Counts(token) ==
  CASE token.is = "comment" -> FALSE
    [] token.is = "string" -> token.size >= 3
    [] token.is \in {"number", "quoted"} -> token.value >= 10

\* Where the walk goes from a directory, and the files it lists there.
Kept(lines, dir) ==
  {e.to : e \in {x \in The(lines, "entry") : x.dir = dir /\ x.to \in Dirs /\ ~x.skipped}}
Listed(lines, dir) ==
  {e.to : e \in {x \in The(lines, "entry") : x.dir = dir /\ x.to \notin Dirs /\ x.scanned}}

\* One round of the walk: a directory already walked is not entered again, by its
\* identity, so a link loop ends.
Walk(lines, tops) ==
  LET round[n \in 0..Cardinality(Dirs)] ==
        IF n = 0 THEN tops
        ELSE round[n - 1] \cup UNION {Kept(lines, d) : d \in round[n - 1]}
  IN  round[Cardinality(Dirs)]

\* `require_inside`: a directory or file outside every authorized root ends the run, as
\* does a link to nothing.  site.home says which root a thing is really in; a file that
\* is a PATH argument is a root of its own.
Collected(lines, site) ==
  LET dirs == Walk(lines, site.tops)
      files == UNION {Listed(lines, d) : d \in dirs}
      inside(x) == site.home[x] \in site.roots \/ x \in site.named
  IN  [refused |-> "dangling" \in files
                     \/ \E x \in (dirs \ site.tops) \cup (files \ {"dangling"}) : ~inside(x),
       files |-> (files \ {"dangling"}) \cup site.named]

KeysIn(lines, file) ==
  {ScalarKey(f.token) : f \in {x \in The(lines, "fact") : x.file = file /\ Counts(x.token)}}

Sites(lines, files, key) == {f \in files : key \in KeysIn(lines, f)}

WaiverRows(lines) == {i \in 1..Len(lines) : lines[i].of = "waiver" /\ lines[i].is = "row"}

\* `load_waivers`: one fact gets one row.
BadLedger(lines) ==
  \/ \E w \in The(lines, "waiver") : w.is = "malformed"
  \/ \E i, j \in WaiverRows(lines) : i # j /\ ScalarKey(lines[i].token) = ScalarKey(lines[j].token)

Exit(lines, site, noStale) ==
  LET got == Collected(lines, site)
      keys == UNION {KeysIn(lines, f) : f \in got.files}
      leaks == {k \in keys : Cardinality(Sites(lines, got.files, k)) >= 2}
      waived == {ScalarKey(lines[i].token) : i \in WaiverRows(lines)}
  IN  IF got.refused \/ Cardinality(got.files) < 2 \/ BadLedger(lines) THEN 2
      ELSE IF ~(leaks \subseteq waived) THEN 1
      ELSE IF ~noStale /\ ~(waived \subseteq leaks) THEN 3 ELSE 0

-----------------------------------------------------------------------------
\* Two literals a reader of the code takes for one fact.
SameFact(s, t) ==
  \/ s.is = "string" /\ t.is = "string" /\ s.text = t.text
  \/ {s.is, t.is} \subseteq {"number", "quoted"} /\ s.value = t.value

\* Some chain of entries, none of them skipped, leads from a named path to the file:
\* whatever holds the named directories and all that its own entries lead to holds
\* the file's.
Reached(lines, site, file) ==
  \/ file \in site.named
  \/ \E e \in The(lines, "entry") :
       /\ e.to = file /\ e.scanned
       /\ \A S \in SUBSET Dirs :
            site.tops \subseteq S /\ (\A d \in S : Kept(lines, d) \subseteq S) => e.dir \in S

\* A leak: one fact in two files that were reached.
Leaked(lines, site, token) ==
  \E f, g \in The(lines, "fact") :
    /\ f.file # g.file /\ Reached(lines, site, f.file) /\ Reached(lines, site, g.file)
    /\ Counts(f.token) /\ Counts(g.token)
    /\ SameFact(f.token, token) /\ SameFact(g.token, token)

\* What the verdicts 0, 1 and 3 say.
Owned(lines, site) ==
  \A f \in The(lines, "fact") :
    Counts(f.token) /\ Leaked(lines, site, f.token)
      => \E w \in The(lines, "waiver") : w.is = "row" /\ SameFact(w.token, f.token)
Stale(lines, site) ==
  \E w \in The(lines, "waiver") : w.is = "row" /\ ~Leaked(lines, site, w.token)

=============================================================================
