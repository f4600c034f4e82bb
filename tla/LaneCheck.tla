-------------------------------- MODULE LaneCheck --------------------------------
(***************************************************************************)
(* scripts/lane-check.py: a shipped script reaches no network tool, no     *)
(* shell evaluation and no unscoped deletion, through wrappers, programs   *)
(* given as text and text fed to a shell over descriptors and pipes.       *)
(* Statements stand as tokenized; a word is named for what it is here:     *)
(* "curl" any network tool, "sh" any shell, "A=1" an assignment, "fd0" and *)
(* "fd3" the paths of descriptors, "loose" and "kept" operands that        *)
(* `unscoped` refuses and allows, ";" the end of a `find` action.          *)
(***************************************************************************)
EXTENDS Naturals, Sequences, SequencesExt, FiniteSets

CONSTANTS Body,   \* a word that is a program's text |-> the commands in it
          Chars   \* and its length, which no command in it exceeds

Fds == {0, 3}

\* A here document or string, or a copy of a descriptor (9: of anything else) that
\* closes the copied one or not.
Redir ==
  [is : {"here"}, fd : Fds, text : DOMAIN Body]
    \cup [is : {"dup"}, fd : Fds, from : Fds \cup {9}, move : BOOLEAN]

\* A simple command of a shell script with the operator before it; or, in Python, a
\* call that launches argv (`shell`: as text), an import and a recursive delete.
CommandLine ==
  [of : {"command"}, join : {";", "&&", "||", "|"}, argv : Seq(STRING), redirs : Seq(Redir)]
LauncherLine ==
  [of : {"call"}, argv : Seq(STRING), shell : BOOLEAN]
    \cup [of : {"import"}, net : BOOLEAN] \cup [of : {"rmtree"}, path : {"loose", "kept"}]

IsOption(w) == w \in {"-a", "-c", "-k", "-o", "-r", "-s", "-u", "-v", "-O", "-S"}
Text(w) == IF w \in DOMAIN Body THEN Body[w] ELSE << <<w>> >>
From(argv, i) == SubSeq(argv, i, Len(argv))

\* How long the words of a command are.
Written(argv) ==
  LET upTo[n \in Nat] ==
        IF n = 0 THEN 0
        ELSE upTo[n - 1] + (IF argv[n] \in DOMAIN Body THEN Chars[argv[n]] ELSE 1)
  IN  upTo[Len(argv)]

FromEach(cmds, Op(_)) == FlattenSeq([k \in 1..Len(cmds) |-> Op(cmds[k])])
StripAssignments(argv) ==
  LET rest == {i \in 1..Len(argv) : argv[i] # "A=1"}
  IN  IF rest = {} THEN <<>> ELSE From(argv, CHOOSE i \in rest : \A j \in rest : i <= j)

\* `after_options`: the first word that is neither an option nor its value.
AfterOptions(argv, takes) ==
  LET at[i \in Nat] ==
        IF i > Len(argv) THEN i
        ELSE IF argv[i] = "--" THEN i + 1
        ELSE IF ~IsOption(argv[i]) THEN i
        ELSE at[i + IF argv[i] \in takes THEN 2 ELSE 1]
  IN  at[2]

\* `env_command`; -S puts the words of its value in its place.
EnvCommand[tokens \in Seq(STRING)] ==
  IF tokens = <<>> THEN <<>>
  ELSE IF tokens[1] = "-S"
  THEN IF Len(tokens) = 1 THEN <<>> ELSE EnvCommand[Text(tokens[2])[1] \o From(tokens, 3)]
  ELSE IF IsOption(tokens[1])
  THEN EnvCommand[From(tokens, IF tokens[1] \in {"-u", "-a"} THEN 3 ELSE 2)]
  ELSE StripAssignments(IF tokens[1] = "--" THEN Tail(tokens) ELSE tokens)

\* How far a word still acts as one of the shell's own: "no", "builtins" below
\* `command`, "shell".
Contexts == {"no", "builtins", "shell"}

IsWrapper(argv, ctx) ==
  \/ argv[1] \in {"nohup", "timeout", "env", "command", "time", "xargs"}
  \/ argv[1] \in {"exec", "builtin"} /\ ctx # "no"

\* Mutant of Wrapped: a timeout's duration is taken for the command.
WrappedKeepingDuration(argv) ==
  IF argv[1] = "env" THEN EnvCommand[Tail(argv)]
  ELSE From(argv, AfterOptions(argv, {"-k", "-a"}))

\* `wrapped_argv`, for the wrappers that differ.
Wrapped(argv) ==
  CASE argv[1] = "nohup" -> From(argv, AfterOptions(argv, {}))
    [] argv[1] = "timeout" -> From(argv, AfterOptions(argv, {"-k", "-s"}) + 1)
    [] argv[1] = "env" -> EnvCommand[Tail(argv)]
    [] argv[1] = "command" ->
         LET i == AfterOptions(argv, {})
         IN  IF \E j \in 2..Len(argv) : j < i /\ argv[j] = "-v" THEN <<>> ELSE From(argv, i)
    [] argv[1] = "builtin" ->
         LET rest == From(argv, IF Len(argv) > 1 /\ argv[2] = "--" THEN 3 ELSE 2)
         IN  IF rest # <<>> /\ rest[1] \in {"builtin", "command", "eval", "exec", "trap", "source"}
             THEN rest ELSE <<>>
    [] argv[1] = "time" -> From(argv, AfterOptions(argv, {"-o"}))
    [] argv[1] = "exec" -> From(argv, AfterOptions(argv, {"-a"}))
    [] argv[1] = "xargs" -> From(argv, AfterOptions(argv, {"-a", "-s", "-S"}))

\* `wrapper_nested_context`
NestedContext(argv, ctx) ==
  IF argv[1] = "command" THEN "builtins"
  ELSE IF argv[1] = "builtin" \/ (argv[1] = "time" /\ ctx = "shell") THEN ctx ELSE "no"

\* `find_exec_commands`: the words of each -exec up to its ";", until one has none.
FindExecs(argv) ==
  LET at[i \in Nat] ==
        IF i > Len(argv) THEN <<>>
        ELSE IF argv[i] # "-exec" THEN at[i + 1]
        ELSE LET ends == {j \in (i + 1)..Len(argv) : argv[j] = ";"}
                 j == CHOOSE k \in ends : \A m \in ends : k <= m
             IN  IF ends = {} THEN <<>>
                 ELSE (IF j = i + 1 THEN <<>> ELSE <<SubSeq(argv, i + 1, j - 1)>>) \o at[j + 1]
  IN  at[2]

\* Where the options of a shell end, at -c or before the first word that is none.
ShellEnd(argv, takes) ==
  LET at[i \in Nat] ==
        IF i > Len(argv) \/ ~IsOption(argv[i]) \/ argv[i] = "-c" THEN i
        ELSE at[i + IF argv[i] \in takes THEN 2 ELSE 1]
  IN  at[2]

HasProgram(argv, i) == i <= Len(argv) /\ argv[i] = "-c"
ProgramAfter(argv, i) == IF i = Len(argv) THEN <<>> ELSE Text(argv[i + 1])

\* `leaf_command_contexts`: the commands that run in the end, with their contexts.
\* For a shell the value of -O is skipped before -c and that of -o is not.
Leaves(command, context) ==
  LET leaves[q \in Seq(STRING) \X Contexts] ==
        LET argv == q[1]
            ctx == q[2]
        IN  IF argv = <<>> THEN <<>>
            ELSE IF argv[1] = "A=1" /\ ctx # "no" THEN leaves[<<Tail(argv), ctx>>]
            ELSE IF argv[1] = "find" THEN FromEach(FindExecs(argv), LAMBDA c : leaves[<<c, "no">>])
            ELSE IF IsWrapper(argv, ctx) THEN leaves[<<Wrapped(argv), NestedContext(argv, ctx)>>]
            ELSE IF argv[1] = "sh" /\ HasProgram(argv, ShellEnd(argv, {"-O"}))
            THEN FromEach(ProgramAfter(argv, ShellEnd(argv, {"-O"})), LAMBDA c : leaves[<<c, "shell">>])
            ELSE <<[argv |-> argv, ctx |-> ctx]>>
  IN  leaves[<<command, context>>]

\* `rm_targets_argv`: options may follow operands, up to "--".
Deletes(argv) ==
  LET ends == {i \in 2..Len(argv) : argv[i] = "--"}
  IN  /\ argv[1] = "rm"
      /\ \E i \in 2..Len(argv) : argv[i] = "-r" /\ \A j \in ends : i < j
      /\ \E i \in 2..Len(argv) : argv[i] = "loose"

\* `trap_handler`: an action and at least one signal.
Handler(argv) ==
  LET i == IF Len(argv) > 1 /\ argv[2] = "--" THEN 3 ELSE 2
  IN  IF Len(argv) <= i \/ argv[i] = "-" \/ (i = 2 /\ IsOption(argv[2])) THEN <<>>
      ELSE Text(argv[i])

\* `command_hazards`
Hazardous(command, context) ==
  LET hazardous[q \in Seq(STRING) \X Contexts] ==
        \E leaf \in ToSet(Leaves(q[1], q[2])) :
          \/ leaf.argv[1] = "curl" \/ Deletes(leaf.argv)
          \/ leaf.ctx # "no" /\ leaf.argv[1] = "eval"
          \/ /\ leaf.ctx # "no" /\ leaf.argv[1] = "trap"
             /\ \E c \in ToSet(Handler(leaf.argv)) : hazardous[<<c, "shell">>]
  IN  hazardous[<<command, context>>]

(* ------------------------- which text a shell executes ------------------------- *)

PathFd(w) == CASE w = "fd0" -> {0} [] w = "fd3" -> {3} [] OTHER -> {}

\* `xargs_alternate_input`: without another file for it, xargs itself reads stdin.
XargsReadsStdin(argv) ==
  ~\E i \in 2..(AfterOptions(argv, {"-a", "-s", "-S"}) - 2) :
     /\ argv[i] = "-a" /\ i < Len(argv) /\ argv[i + 1] # "fd0"
     /\ \A j \in 2..(i - 1) : argv[j] # "-a"

\* `unwrapped_invocation`
Unwrapped(argv) ==
  LET go[a \in Seq(STRING), ctx \in Contexts] ==
        IF a = <<>> \/ ~IsWrapper(a, ctx) \/ (a[1] = "xargs" /\ XargsReadsStdin(a))
        THEN [argv |-> a, ctx |-> ctx]
        ELSE go[Wrapped(a), NestedContext(a, ctx)]
  IN  go[StripAssignments(argv), "shell"]

\* `shell_invocation_program_fds`, without start-up files. A word is an option, and no
\* option's value, when the words before it lead up to it.
ShellFds(argv) ==
  LET takes == {"-O", "-o"}
      i == ShellEnd(argv, takes)
      j == IF i <= Len(argv) /\ argv[i] = "--" THEN i + 1 ELSE i
      s == \/ \E k \in 2..(i - 1) : argv[k] = "-s" /\ ShellEnd(SubSeq(argv, 1, k - 1), takes) = k
           \/ i <= Len(argv) /\ argv[i] = "-"
  IN  IF argv[1] # "sh" \/ HasProgram(argv, i) THEN {}
      ELSE IF s \/ j > Len(argv) THEN {0} ELSE PathFd(argv[j])

\* `source` reads its file in the shell it stands in.
SourceFds(argv, ctx) ==
  LET i == IF Len(argv) > 1 /\ argv[2] = "--" THEN 3 ELSE 2
  IN  IF argv[1] = "source" /\ ctx # "no" /\ i <= Len(argv) THEN PathFd(argv[i]) ELSE {}

ProgramFdsOf(argv, ctx) == SourceFds(argv, ctx) \cup ShellFds(argv)

\* An xargs among the wrappers takes what there is on stdin for itself.
TakesItsInput(argv) == \E c \in {Unwrapped(argv)} : c.argv # <<>> /\ c.argv[1] = "xargs"

\* `shell_program_fds`: the descriptors a command reads as programs.
ProgramFds(argv) ==
  LET runs == {Unwrapped(argv)} \cup ToSet(Leaves(argv, "shell"))
  IN  IF TakesItsInput(argv) THEN {}
      ELSE UNION {ProgramFdsOf(c.argv, c.ctx) : c \in {r \in runs : r.argv # <<>>}}

\* cat of its stdin or tee, with no option that changes what is copied.
Copies(argv) ==
  LET ends == {i \in 2..Len(argv) : argv[i] = "--"}
      options == {argv[i] : i \in {j \in 2..Len(argv) : IsOption(argv[j]) /\ \A k \in ends : j < k}}
      operands == {argv[i] : i \in {j \in 2..Len(argv) : ~IsOption(argv[j]) /\ argv[j] # "--"}}
  IN  \/ argv[1] = "tee" /\ options \subseteq {"-a"}
      \/ /\ argv[1] = "cat" /\ options \subseteq {"-u"}
         /\ operands = {} \/ operands \cap {"-", "fd0"} # {}

\* `passes_stdin_unchanged`
PassesStdin(argv) ==
  /\ ~TakesItsInput(argv)
  /\ \E leaves \in {Leaves(argv, "shell")} : Len(leaves) = 1 /\ Copies(leaves[1].argv)

\* A descriptor is read from nothing known, a text (the k-th redirection of the
\* segment `at`) or what the command was given on a descriptor.
Unknown == [is |-> "unknown"]
Given(fd) == [is |-> "given", fd |-> fd]
TextAt(i, k) == [is |-> "text", at |-> i, k |-> k]

\* Redirections take effect from left to right.
Redirected(table, at, redirs) ==
  LET step[k \in Nat] ==
        IF k = 0 THEN table
        ELSE LET t == step[k - 1]
                 r == redirs[k]
                 from == IF r.from \in Fds THEN t[r.from] ELSE Unknown
             IN  IF r.is = "here" THEN [t EXCEPT ![r.fd] = TextAt(at, k)]
                 ELSE IF r.move /\ r.from \in Fds
                 THEN [[t EXCEPT ![r.fd] = from] EXCEPT ![r.from] = Unknown]
                 ELSE [t EXCEPT ![r.fd] = from]
  IN  step[Len(redirs)]

\* The two uses of it: `fd_sources` of `here_inputs`, `command_with_fd_origins`.
Sources(at, redirs) == Redirected([fd \in Fds |-> Unknown], at, redirs)
Origins(redirs) == Redirected([fd \in Fds |-> Given(fd)], 0, redirs)

\* `definitely_entered_segment`: whatever the commands before it answer.
DefinitelyEntered(segments, i) ==
  \/ i = 1 \/ segments[i].join = ";"
  \/ segments[i].join = "&&" /\ segments[i - 1].argv = <<"true">>
  \/ segments[i].join = "||" /\ segments[i - 1].argv = <<"false">>

\* Mutant of Drains: a copy that may be skipped has taken the input.
DrainsWhenSkipped(segments, i) ==
  /\ PassesStdin(segments[i].argv)
  /\ i < Len(segments) /\ segments[i + 1].join = ";"

\* A cat or tee that certainly runs to its end leaves nothing of its input.
Drains(segments, i) ==
  /\ PassesStdin(segments[i].argv)
  /\ i < Len(segments) /\ segments[i + 1].join = ";"
  /\ DefinitelyEntered(segments, i)

\* `compound_program_fds`: what the commands of a group read as programs of what the
\* group was given.
GroupFds(segments) ==
  {fd \in Fds :
     \E i \in 1..Len(segments) :
       /\ \E p \in ProgramFds(segments[i].argv) : Origins(segments[i].redirs)[p] = Given(fd)
       /\ \A j \in 1..(i - 1) :
            Origins(segments[j].redirs)[0] = Given(fd) => ~Drains(segments, j)}

\* The text on stdin of segment i goes through the pipe to a shell.
PipedToShell(segments, i) ==
  \E j \in (i + 1)..Len(segments) :
    /\ \A m \in (i + 1)..j : segments[m].join = "|"
    /\ \A m \in i..(j - 1) : PassesStdin(segments[m].argv)
    /\ 0 \in ProgramFds(segments[j].argv)

\* `here_inputs`: the texts that are programs. In a group all commands stand between
\* braces, and the group itself is redirected too.
Executable(segments, group) ==
  LET read(i) == {Sources(i, segments[i].redirs)[fd] : fd \in ProgramFds(segments[i].argv)}
                   \cup (IF PipedToShell(segments, i) THEN {Sources(i, segments[i].redirs)[0]} ELSE {})
      inner == {s \in (1..Len(segments)) \X (1..2) :
                  s[2] <= Len(segments[s[1]].redirs) /\ TextAt(s[1], s[2]) \in read(s[1])}
      outer == {k \in 1..Len(group.redirs) :
                  \E fd \in GroupFds(segments) : Sources(0, group.redirs)[fd] = TextAt(0, k)}
  IN  {segments[s[1]].redirs[s[2]].text : s \in inner}
        \cup (IF group.is THEN {group.redirs[k].text : k \in outer} ELSE {})

HazardousText(w) == \E c \in ToSet(Text(w)) : Hazardous(c, "shell")

\* `check_shell` and `check_python`, of a statement or of a file's calls.
Breaches(ls, group) ==
  \/ /\ \A i \in 1..Len(ls) : ls[i].of = "command"
     /\ \E w \in Executable(ls, group) : HazardousText(w)
  \/ \E i \in 1..Len(ls) :
       CASE ls[i].of = "command" -> Hazardous(ls[i].argv, "shell")
         [] ls[i].of = "call" -> ls[i].shell \/ Hazardous(ls[i].argv, "no")
         [] ls[i].of = "import" -> ls[i].net
         [] ls[i].of = "rmtree" -> ls[i].path = "loose"

\* `main`: `isDir` says that the arguments name one directory, `shipped` counts the
\* scripts below it, `readable` says whether each can be read and `contract` whether
\* each has its exit codes in its header.
Exit(ls, w) ==
  IF ~w.isDir \/ (w.shipped > 0 /\ ~w.readable) THEN 2
  ELSE IF w.shipped = 0 THEN 3
  ELSE IF ~w.contract \/ Breaches(ls, w.group) THEN 1 ELSE 0

-----------------------------------------------------------------------------
(* What a shell does with such a statement, whatever its commands answer. *)

\* The descriptors a command comes to read as programs.
Reads[argv \in Seq(STRING), ctx \in Contexts] ==
  IF argv = <<>> \/ (argv[1] = "xargs" /\ XargsReadsStdin(argv)) THEN {}
  ELSE IF argv[1] = "A=1" /\ ctx # "no" THEN Reads[Tail(argv), ctx]
  ELSE IF argv[1] = "find" THEN UNION {Reads[c, "no"] : c \in ToSet(FindExecs(argv))}
  ELSE IF IsWrapper(argv, ctx) THEN Reads[Wrapped(argv), NestedContext(argv, ctx)]
  ELSE IF argv[1] = "sh" /\ HasProgram(argv, ShellEnd(argv, {"-O", "-o"}))
  THEN UNION {Reads[c, "shell"] : c \in ToSet(ProgramAfter(argv, ShellEnd(argv, {"-O", "-o"})))}
  ELSE ProgramFdsOf(argv, ctx)

Answers(segments) ==
  {st \in [1..Len(segments) -> BOOLEAN] :
     \A i \in 1..Len(segments) : /\ segments[i].argv = <<"true">> => st[i]
                                 /\ segments[i].argv = <<"false">> => ~st[i]}

\* Descriptors are shared by those who inherit them, and what one command reads to
\* its end is gone for the commands after its pipeline.
ExecutedWhen(segments, group, st) ==
  LET redirs(i) == IF i = 0 THEN group.redirs ELSE segments[i].redirs
      outer == IF group.is THEN Sources(0, group.redirs) ELSE [fd \in Fds |-> Unknown]
      run[i \in Nat] ==
        IF i = 0
        THEN [entered |-> FALSE, status |-> TRUE, gone |-> {}, taken |-> {}, pipe |-> {}, done |-> {}]
        ELSE LET prev == run[i - 1]
                 argv == segments[i].argv
                 piped == i > 1 /\ segments[i].join = "|"
                 entered == IF i = 1 THEN TRUE
                            ELSE CASE segments[i].join = ";" -> TRUE
                                   [] segments[i].join = "|" -> prev.entered
                                   [] segments[i].join = "&&" -> prev.status
                                   [] segments[i].join = "||" -> ~prev.status
                 fds == Redirected(IF piped THEN [outer EXCEPT ![0] = Given(0)] ELSE outer, i,
                                   segments[i].redirs)
                 gone == IF piped THEN prev.gone ELSE prev.gone \cup prev.taken
                 on(fd) == IF fds[fd].is = "text" /\ fds[fd] \notin gone
                           THEN {redirs(fds[fd].at)[fds[fd].k].text}
                           ELSE IF fds[fd] = Given(0) THEN prev.pipe ELSE {}
                 passes == entered /\ PassesStdin(argv)
             IN  [entered |-> entered,
                  status |-> IF entered THEN st[i] ELSE prev.status,
                  gone |-> gone,
                  taken |-> (IF piped THEN prev.taken ELSE {}) \cup (IF passes THEN {fds[0]} ELSE {}),
                  pipe |-> IF passes THEN on(0) ELSE {},
                  done |-> prev.done
                             \cup (IF entered THEN UNION {on(fd) : fd \in Reads[argv, "shell"]} ELSE {})]
  IN  run[Len(segments)].done

Executed(segments, group) ==
  UNION {ExecutedWhen(segments, group, st) : st \in Answers(segments)}

\* A shell starts with no option for the value of its -o (`sh -o -c x` is refused), in
\* the command or in a text within it. The code has two readings of that one: in
\* `leaf_command_contexts` the value is an option of its own.
Starts[argv \in Seq(STRING)] ==
  \A k \in 1..Len(argv) :
    /\ argv[k] = "-o" /\ k < Len(argv) => ~IsOption(argv[k + 1])
    /\ argv[k] \in DOMAIN Body => \A c \in ToSet(Body[argv[k]]) : Starts[c]

\* What the reading of descriptors does not follow: a second condition in a row, an
\* input that leaves a pipe for another descriptor or enters it from one, in a group.
Followed(segments, group) ==
  \A i \in 1..Len(segments) :
    LET r == segments[i].redirs
    IN  /\ i > 2 /\ group.is => ~({segments[i - 1].join, segments[i].join} \subseteq {"&&", "||"})
        /\ i > 1 /\ segments[i].join = "|" => \A k \in 1..Len(r) : r[k].is = "here" \/ r[k].from # 0
        /\ group.is /\ i < Len(segments) /\ segments[i + 1].join = "|" =>
             \A k \in 1..Len(r) : r[k].fd # 0 \/ r[k].is = "here"
        /\ Starts[segments[i].argv]

\* No text that a shell may execute holds a hazard unless the check reads it as a
\* program, and of one command alone it reads exactly the texts that are executed.
ReadsWhatRuns(segments, group) ==
  Followed(segments, group) =>
    LET read == Executable(segments, group)
        run == Executed(segments, group)
    IN  /\ \A w \in run : HazardousText(w) => w \in read
        /\ Len(segments) = 1 => read = run

\* Other ways to run the same program. (In a statement with redirections the word
\* that ends a `find` action ends the command, and an `xargs` that a shell is to run
\* is not seen to take the input.)
Respelled(argv, statement) ==
  IF \/ argv = <<>> \/ argv[1] \notin {"curl", "rm", "cat", "sh", "find", "nohup", "timeout", "env"}
     \/ statement /\ TakesItsInput(argv)
  THEN {}
  ELSE {<<"nohup">> \o argv, <<"timeout", "-k", "5", "9">> \o argv,
        <<"env", "-u", "x", "A=1">> \o argv}
         \cup {<<"sh", "-c", w>> : w \in {v \in DOMAIN Body : Body[v] = <<argv>>}}
         \cup (IF statement \/ \E k \in 1..Len(argv) : argv[k] = ";" THEN {} ELSE {<<"find", "-exec">> \o argv \o <<";">>})

=============================================================================
