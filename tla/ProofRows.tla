------------------------------ MODULE ProofRows ------------------------------
(***************************************************************************)
(* The row grammar of a fenced proof block, as scripts/verify-proofs.py    *)
(* reads it.  A row is what the lexers of that script make of one physical *)
(* line; the characters themselves are left out.  A block is a sequence of *)
(* rows and a document is the sequence of the blocks of the islands named  *)
(* on the command line.                                                    *)
(***************************************************************************)
EXTENDS Naturals, Sequences, FiniteSets

CONSTANTS Codes,      \* exit codes a row can document
          NoCode,     \* Python's None: the row documents no code
          Documents   \* the documents a run may be pointed at

(***************************************************************************)
(* kind      blank        nothing but white space                          *)
(*           comment      `# ...`                                          *)
(*           output       `| ...`, the explicit output marker              *)
(*           empty        a prompt with nothing after it                   *)
(*           report       `echo $?` or `rc=$?; echo "EXIT=$rc"`, whole     *)
(*           export       `export NAME=value`                              *)
(*           assign       one-word bindings only                           *)
(*           mixed        starts as an assignment but is not only bindings *)
(*           step         leading token on the allowlist                   *)
(*           foreign      any other command                                *)
(* prompt    the row is written after `$ `                                 *)
(* cont      an active backslash ends the row                              *)
(* code      the exit code the row's own comment states                    *)
(* arrow     a report states it by a bare `->`, which only a report may    *)
(* template  a `<placeholder>` stands in the code                          *)
(* unsafe    an export or binding that may not be replayed, or a command   *)
(*           that can persist shell state                                  *)
(* whole     the row can be replayed verbatim (no `<<`, balanced quotes)   *)
(* forbidden a network, privilege or device primitive is in the code       *)
(* plain     its name stands there in plain text, neither spelled through  *)
(*           quotes or another case nor inside `$(...)`: it is seen inside *)
(*           a quoted word as well                                         *)
(***************************************************************************)
Kinds == {"blank", "comment", "output", "empty", "report", "export", "assign",
          "mixed", "step", "foreign"}

Command == {"mixed", "step", "foreign"}

Row == [kind : Kinds, prompt : BOOLEAN, cont : BOOLEAN, code : Codes \cup {NoCode},
        arrow : BOOLEAN, template : BOOLEAN, unsafe : BOOLEAN, whole : BOOLEAN,
        forbidden : BOOLEAN, plain : BOOLEAN]

\* A backslash in a comment is data, so a row that states a code does not
\* continue; continued exports and bindings are outside the model.
WellFormed(r) ==
  /\ r.cont => r.code = NoCode /\ r.kind \in Command
  /\ r.template => r.kind \in Command
  /\ r.prompt => r.kind \notin {"blank", "output"}
  /\ r.kind = "empty" => r.prompt
  /\ r.kind \in {"blank", "empty"} => r.code = NoCode
  /\ r.arrow => r.kind = "report" /\ r.code # NoCode
  /\ r.plain => r.forbidden

ASSUME NoCodeAssumption == NoCode \notin Codes

ASSUME DocumentsAssumption ==
  /\ Documents \subseteq Seq(Seq(Row))
  /\ \A d \in Documents : \A b \in 1..Len(d) : \A i \in 1..Len(d[b]) : WellFormed(d[b][i])

-----------------------------------------------------------------------------
\* Could this line be a command, even one the tool would not run?
CommandShaped(r) == r.kind \in {"empty", "report", "assign"} \cup Command /\ ~r.template

\* Mutant of Active: what a row documents does not make it a command.
ActiveByShape(r) ==
  /\ r.kind \notin {"blank", "empty"}
  /\ r.prompt \/ r.kind \in {"step", "assign", "mixed", "export"} \/ CommandShaped(r)

\* Does the walk read a command out of the row at all?  An unmarked row that
\* states a code does, whatever its leading token.
Active(r) ==
  /\ r.kind \notin {"blank", "empty"}
  /\ \/ r.prompt
     \/ r.kind \in {"step", "assign", "mixed", "export"}
     \/ r.code # NoCode
     \/ CommandShaped(r)

\* The last physical row of the command that starts at row i: every row but the
\* last ends in an active backslash.
JoinEnd(b, i) == CHOOSE e \in i..Len(b) :
                   /\ e = Len(b) \/ ~b[e].cont
                   /\ \A k \in i..(e - 1) : b[k].cont

\* Rows i..e as one command: the leading token is row i's, the comment is the
\* last row's (the bare arrow of a swallowed report claims nothing), and any row can
\* bring in a placeholder, a shell-state change or a primitive, or break it.
Some(b, i, e, mark) == \E k \in i..e : b[k][mark]
Every(b, i, e, mark) == \A k \in i..e : b[k][mark]

Join(b, i, e) ==
  [kind |-> b[i].kind, prompt |-> b[i].prompt, cont |-> FALSE,
   code |-> IF e = i \/ ~b[e].arrow THEN b[e].code ELSE NoCode, arrow |-> FALSE,
   template |-> Some(b, i, e, "template"), unsafe |-> Some(b, i, e, "unsafe"),
   whole |-> Every(b, i, e, "whole"), forbidden |-> Some(b, i, e, "forbidden"),
   plain |-> Some(b, i, e, "plain")]

Joined(b, i) == Join(b, i, JoinEnd(b, i))

\* Mutant of Passes: any row off the allowlist is taken for output.
PassesForeign(r) == r.kind \in {"blank", "comment", "output", "foreign"} /\ ~r.prompt

\* Rows the search for a report walks over: white space, marked output, and an
\* unprompted comment or usage template off the allowlist.
Passes(r) ==
  /\ ~r.prompt
  /\ \/ r.kind \in {"blank", "comment", "output"}
     \/ r.kind = "foreign" /\ r.template

\* The first row below row e that ends the search; 0 when there is none.
StopRow(b, e) ==
  IF \A k \in (e + 1)..Len(b) : Passes(b[k])
  THEN 0
  ELSE CHOOSE j \in (e + 1)..Len(b) :
         ~Passes(b[j]) /\ \A k \in (e + 1)..(j - 1) : Passes(b[k])

\* Only a report annotates the command above it; anything else leaves it
\* without a code.
ReportedCode(b, e) ==
  LET j == StopRow(b, e)
  IN  IF j # 0 /\ b[j].kind = "report" THEN b[j].code ELSE NoCode

ExpectedCode(b, i) ==
  LET own == Joined(b, i).code
  IN  IF own # NoCode THEN own ELSE ReportedCode(b, JoinEnd(b, i))

-----------------------------------------------------------------------------
\* How a person reads the block, said without the walk.  A row that continues a
\* command above it is no command of its own.
Swallowed(b, j) ==
  \E s \in 1..(j - 1) : Active(b[s]) /\ \A k \in s..(j - 1) : b[k].cont

\* What the commands below may rest on: every command row, joined rows taken once,
\* except usage templates and commands that are candidates themselves.
ScenarioRow(b, j) ==
  /\ ~Swallowed(b, j) /\ Active(b[j])
  /\ Joined(b, j).kind \in {"export", "assign"} \cup Command
  /\ ~Joined(b, j).template
  /\ ~(Joined(b, j).kind = "step" /\ ExpectedCode(b, j) # NoCode)

=============================================================================
