------------------------------ MODULE CommandGates ------------------------------
(* Two gates over commands that people write down: the commands of a change's
   gates and those that measure a rule. *)
EXTENDS Naturals, FiniteSets, Sequences

(***************************************************************************)
(* skills/gate-toolchain/scripts/toolchain-check.py: every declared gate   *)
(* runs the mapped tool, scoped to the change, from the lockfile.  The     *)
(* command is a sequence of words, as `tokenize` leaves them.              *)
(***************************************************************************)
CONSTANTS Gates,      \* gate |-> language |-> its mapped tools
          Alias,      \* tool as written |-> its canonical name
          Flags,      \* heads of flags: `--in-diff`
          DenyScope, LocalPin

FlagValues == {"none", "on", "off", "other"}   \* of `--flag`, `--flag=...`

\* A flag, the name of a tool, a fetch-and-run launcher, the two words of
\* `npm exec`, or a word of no meaning.
Word ==
  [is : {"flag"}, flag : Flags, value : FlagValues]
    \cup [is : {"tool"}, tool : DOMAIN Alias]
    \cup [is : {"runner", "npm", "exec", "plain"}]

Scope == [is : {"flag"}, flag : Flags, value : FlagValues] \cup [is : {"plain"}]

Row == [lang : STRING, gate : STRING, tool : DOMAIN Alias, scope : Scope, cmd : Seq(Word)]

Word1(cmd) == {cmd[i] : i \in 1..Len(cmd)}
FlagsOf(cmd, flag) == {w \in Word1(cmd) : w.is = "flag" /\ w.flag = flag}

\* The tool's own name, or the canonical one: a run of whole segments.
ToolNamed(tool, cmd) ==
  \E w \in Word1(cmd) : w.is = "tool" /\ w.tool \in {tool, Alias[tool]}

Mapped(row) ==
  /\ row.gate \in DOMAIN Gates
  /\ row.lang \in DOMAIN Gates[row.gate]
  /\ Alias[row.tool] \in Gates[row.gate][row.lang]
  /\ ToolNamed(row.tool, row.cmd)

\* Mutant of ScopeStatus: the last occurrence decides.
ScopeStatusLast(scope, cmd) ==
  LET at == {i \in 1..Len(cmd) : cmd[i].is = "flag" /\ cmd[i].flag = scope.flag}
      last == cmd[CHOOSE i \in at : \A j \in at : j <= i]
  IN  IF at = {} THEN "absent"
      ELSE IF last.value = "off" THEN "disabled"
      ELSE IF last = scope \/ scope.value = "none" THEN "present" ELSE "absent"

\* Every word that shares the declared head is looked at; off wins.
ScopeStatus(scope, cmd) ==
  LET shared == FlagsOf(cmd, scope.flag)
  IN  IF \E w \in shared : w.value = "off" THEN "disabled"
      ELSE IF \E w \in shared : w = scope \/ scope.value = "none" THEN "present"
      ELSE "absent"

Scoped(row) ==
  /\ row.scope.is = "flag" /\ row.scope.flag \notin DenyScope
  /\ row.scope.value # "off"
  /\ ScopeStatus(row.scope, row.cmd) = "present"

DeniedInCommand(row) ==
  \E w \in Word1(row.cmd) : w.is = "flag" /\ w.flag \in DenyScope

RemoteRunner(cmd) ==
  /\ \A w \in Word1(cmd) : w.is = "flag" => w.flag \notin LocalPin
  /\ \/ \E w \in Word1(cmd) : w.is = "runner"
     \/ \E i \in 1..(Len(cmd) - 1) : cmd[i].is = "npm" /\ cmd[i + 1].is = "exec"

Breach(row) ==
  ~Mapped(row) \/ ~Scoped(row) \/ DeniedInCommand(row) \/ RemoteRunner(row.cmd)

\* A manifest is its rows; `readable` is false for one with a damaged line.
ToolchainExit(readable, rows) ==
  IF ~readable \/ rows = <<>> THEN 2
  ELSE IF \E i \in 1..Len(rows) : Breach(rows[i]) THEN 1 ELSE 0

-----------------------------------------------------------------------------
\* Whichever of a flag's occurrences a tool obeys, the first or the last, it runs
\* on the change and not on the repository.
RunsScoped(row) ==
  LET words == {i \in 1..Len(row.cmd) :
                  row.cmd[i].is = "flag" /\ row.cmd[i].flag = row.scope.flag}
  IN  /\ row.scope.is = "flag" /\ words # {}
      /\ \A i \in words : row.cmd[i].value # "off"
      /\ \A i \in 1..Len(row.cmd) : row.cmd[i].is = "flag" => row.cmd[i].flag \notin DenyScope

-----------------------------------------------------------------------------
(***************************************************************************)
(* skills/values-not-disciplines/scripts/rule-inventory.py: every rule     *)
(* names the tool that measures it, or says that nothing does.             *)
(***************************************************************************)
CONSTANTS Targets   \* words and paths of a command line

\* The words of a measure as the gate classes them, by their text alone: a
\* wrapper's name, what a wrapper takes (an option, a number, an assignment), -m, a
\* word of prose, a command that always succeeds or always fails, an interpreter,
\* any other word, a path.
Token ==
  [is : {"wrapper", "argument", "-m", "prose", "noop", "fail"}]
    \cup [is : {"option"}, takes : BOOLEAN]   \* takes: the next word is its value
    \cup [is : {"-mod"}, name : Targets]      \* -m and its module in one word
    \cup [is : {"interpreter"}, python : BOOLEAN, listed : BOOLEAN]   \* `python3.12` is not listed
    \cup [is : {"word", "path"}, name : Targets]

Dashed == {"option", "-m", "-mod"}

Line ==
  [is : {"skipped", "malformed"}] \cup [is : {"row"}, says : {"nothing", "advisory"}]
    \cup [is : {"row"}, says : {"command"}, words : Seq(Token)]

\* What the host has: where a path leads ("outside" the root, "absent", a "text"
\* file or one that can "run"), the words that are commands, the modules.
Disks == [leads : [Targets -> {"outside", "absent", "text", "run"}],
           commands : SUBSET Targets, modules : SUBSET Targets, interpreters : BOOLEAN]

Resolves(token, w) == w.leads[token.name] \in {"text", "run"}

\* `unwrap` peels wrappers and what they take off the front, at most eight.
Unwrap(words) ==
  LET peel(st, token) ==
        IF st.stop THEN st
        ELSE IF token.is = "wrapper" /\ st.peeled < 8
        THEN [at |-> st.at + 1, peeled |-> st.peeled + 1, stop |-> FALSE]
        ELSE IF st.peeled > 0 /\ token.is \in Dashed \cup {"argument"}
        THEN [at |-> st.at + 1, peeled |-> st.peeled, stop |-> FALSE]
        ELSE [at |-> st.at, peeled |-> st.peeled, stop |-> TRUE]
      st[k \in 0..Len(words)] ==
        IF k = 0 THEN [at |-> 1, peeled |-> 0, stop |-> FALSE] ELSE peel(st[k - 1], words[k])
  IN  SubSeq(words, st[Len(words)].at, Len(words))

\* The operands, which do not begin with a dash, and the paths among them.
Operands(words) == {i \in 2..Len(words) : words[i].is \notin Dashed}
PathWords(words) == {i \in Operands(words) : words[i].is = "path"}

\* The module of a python's first -m, if there is one.
Module(words) ==
  LET at == {i \in 2..Len(words) : words[i].is = "-mod" \/ (words[i].is = "-m" /\ i < Len(words))}
      first == CHOOSE i \in at : \A j \in at : i <= j
  IN  IF words[1].is = "interpreter" /\ words[1].python /\ at # {}
      THEN IF words[first].is = "-m" THEN <<words[first + 1]>>
           ELSE <<[is |-> "word", name |-> words[first].name]>>
      ELSE <<>>

ModuleIs(token, w) == token.is \in {"word", "path"} /\ token.name \in w.modules

\* `has_command_shape`
HasCommandShape(words, w) ==
  \/ words[1].is = "path"
  \/ \E i \in 2..Len(words) : words[i].is \in Dashed
  \/ \E i \in PathWords(words) : Resolves(words[i], w)
  \/ Cardinality(Operands(words)) <= 1

\* The command that is left names a program that is there and can give two answers.
Runs(words, w) ==
  LET first == words[1]
  IN  CASE first.is = "path" -> w.leads[first.name] = "run"
        [] first.is = "word" -> first.name \in w.commands
        [] first.is = "interpreter" -> w.interpreters
        [] OTHER -> FALSE

\* Mutant of Measured: the measure's first word is judged and not what it wraps.
MeasuredUnpeeled(measure, w) ==
  LET words == measure
  IN  /\ words # <<>> /\ measure[1].is # "prose"
      /\ Runs(words, w) \/ words[1].is = "wrapper"
      /\ \A i \in PathWords(words) : Resolves(words[i], w)
      /\ HasCommandShape(words, w)

\* `judge`: MEASURED
Measured(measure, w) ==
  LET words == Unwrap(measure)
      module == Module(words)
  IN  /\ words # <<>> /\ measure[1].is # "prose"
      /\ Runs(words, w)
      /\ module # <<>> => ModuleIs(module[1], w)
      /\ \A i \in PathWords(words) : Resolves(words[i], w)
      /\ words[1].is = "interpreter" /\ words[1].listed => PathWords(words) # {} \/ module # <<>>
      /\ HasCommandShape(words, w)

Rows(lines) == {i \in 1..Len(lines) : lines[i].is = "row"}

Passes(row, w) ==
  CASE row.says = "nothing" -> FALSE
    [] row.says = "advisory" -> TRUE
    [] row.says = "command" -> Measured(row.words, w)

RulesExit(lines, w) ==
  LET rows == Rows(lines)
  IN  IF rows = {} \/ \E i \in 1..Len(lines) : lines[i].is = "malformed" THEN 2
      ELSE IF \A i \in rows : Passes(lines[i], w) THEN 0 ELSE 1

-----------------------------------------------------------------------------
\* The program that a shell would end up running for the measure: the first word
\* that is neither a wrapper nor what one takes, an option's value included.
Runner(measure) ==
  LET taken(i) == \/ measure[i].is \in Dashed \cup {"wrapper", "argument"}
                  \/ i > 1 /\ measure[i - 1].is = "option" /\ measure[i - 1].takes
      at == {i \in 1..Len(measure) : ~taken(i) /\ \A j \in 1..(i - 1) : taken(j)}
  IN  {SubSeq(measure, i, Len(measure)) : i \in at}

\* A rule that is not advisory is measured: its runner exists, could go red and
\* green, and every file its command names is there.
IsMeasured(lines, w) ==
  \A i \in 1..Len(lines) : lines[i].is = "row" /\ lines[i].says # "advisory" =>
    /\ lines[i].says = "command"
    /\ \E run \in Runner(lines[i].words) :
         LET there(j) == run[j].is = "path" /\ w.leads[run[j].name] \in {"text", "run"}
         IN  /\ run[1].is \in {"path", "word", "interpreter"}
             /\ run[1].is = "path" => w.leads[run[1].name] = "run"
             /\ run[1].is = "word" => run[1].name \in w.commands
             /\ \A j \in 2..Len(run) : run[j].is = "path" => there(j)
             /\ run[1].is = "interpreter" =>
                  \E j \in 2..Len(run) :
                    \/ there(j)
                    \/ run[j - 1].is = "-m" /\ run[j].is = "word" /\ run[j].name \in w.modules
                    \/ run[j].is = "-mod" /\ run[j].name \in w.modules

\* The commands that the gate reads as its comments say it does: no option takes the
\* next word for its value, which would be judged as the command (`env -u git true`),
\* and no interpreter is outside of the list of those that alone measure nothing.
OptionsStandAlone(words) == \A i \in 1..Len(words) : words[i].is = "option" => ~words[i].takes
AllListed(words) == \A i \in 1..Len(words) : words[i].is = "interpreter" => words[i].listed

CommandsRead(lines) ==
  \A i \in 1..Len(lines) : lines[i].is = "row" /\ lines[i].says = "command" =>
    OptionsStandAlone(lines[i].words) /\ AllListed(lines[i].words)

=============================================================================
