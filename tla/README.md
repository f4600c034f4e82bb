# Verification of uncle-bob-skills

The repository is a pack of "skills": one directory per skill, each an island of
prose (`SKILL.md`), often with a script that turns the skill's rule into a gate
with an exit code. `scripts/` holds the tools that certify the pack: they extract
the documented proofs of an island, run them, and say with their own exit codes
whether the island can be believed. This directory holds TLA+ modules of those
tools, the TLC runs that check them and the TLAPS proofs about them. Paths below
are relative to the repository, as `src/<path>`.

## 1. Inventory

### Certifiers (`src/scripts/`)

| component | state it keeps | operations | who it meets |
|---|---|---|---|
| `verify-proofs.py`, grammar and walk | a block's rows, index, replayed setup, gap causes (`commands`) | one branch per kind of row; a generator that yields commands | its consumer, through `yield`; `closed-stream-check.py` imports it |
| `verify-proofs.py`, `main` | eight counters, `--strict` | refuse, skip, template, pending, run, compare, rank | Bash (killed after 120 s), the island's files |
| `closed-stream-check.py` | seven counters | select, refuse, exclude, probe each stream, rank | the grammar above, Bash under a closed pipe |
| `verify-release.py` | captured commit, temporary file | fsck, read digest, hash manifest, compare; `--write`: mkstemp, write, fsync, rename | git, other runs of itself, people who commit and reset |
| `link-check.py` | none across files | resolve every local link below a root | file system |
| `lane-check.py` | descriptors, groups and pipes of one shell statement | unwrap commands to what runs in the end, find the texts a shell reads as a program, refuse network, evaluation and unscoped deletes | the scripts of an island |
| `validate-island.py` | none | independent field checks of one file | none |
| the `__main__` epilogue of all of them | the exit code, buffered output | report a fault, flush and mute both streams, exit | the two pipes, the interpreter's shutdown |

What makes the certifiers right: a *green* is never false (what counts was run,
in its whole scenario, undisturbed, and nothing was disproved or refused), what
is dangerous is never run, what a row promises never disappears without a line
in the report, the two certifiers agree on what a proof is, the digest file is
never seen half written, a verdict is about one commit, and the exit code that
arrives is the one that was decided.

What is hard about them: a command's meaning depends on rows before it (setup,
gaps) and after it (reports, continued rows); the counters are adjusted after
the fact; several verdicts hold at once and are ranked; Bash may be killed and
leave children; HEAD and the worktree move under a running verifier; a process
dies between a temporary file and its rename; a reader leaves a pipe at any
moment, also while the failure is being reported.

### Gates of the skills (`src/skills/*/scripts/`)

| group | what it does | hard behaviour | right when |
|---|---|---|---|
| `gherkin-gate` | joins a feature file with a ledger of red and green runs | both files change between runs and between the two reads; stale, duplicated and foreign records | consent only over scenarios that were red first and are green last, on this very text |
| `boyscout-ratchet` | joins the metrics of touched files with a committed baseline | paths spelled by different tools, a baseline that is adopted again and again | a verdict is about files, the baseline only improves |
| ledger gates: `check-excusals`, `pilot-gate`, `review-record`, `margin-ledger`, `load-ledger`, `strategic-share`, `metric-register`, `surface-check`, `secret-manifest`, `rule-inventory`, `toolchain-check`, `plan-decay` | read a file people write, line by line, with a current entry | a line attaches to the wrong entry; an entry is said twice; a cited file is gone, empty or the same as another; a repeated flag; time passing over a file nobody edits | the verdict is that of a reader of the whole text, about the files that are there, and an ambiguous text has none |
| prompt gates: `density-cap`, `zone-lint`, `inventory` | count and place the directives of a prompt | fences, lists and tables that open and do not close | what they count is what the prompt renders |
| graph gates: `coupling-budget`, `cohesion-read`, `stability-check`, `fence-check`, `check-graph`, `check-destination` | judge a dependency graph edge by edge; keep looks out of the repository | cycles, nested maps, a baseline adopted after each pass, links | the claim about single edges means what it says of whole paths; a look changes nothing |
| metric gates: `tornado-scan`, `cost-trend`, `crap-score`, `fleet-cost` | compare a measure with a budget | a history in the other order, zero denominators, a search that stops early | the same facts get the same verdict, and an improvement never fails |
| source scanners: `leak-scan`, `test-name-lint`, `assertless-scan`, `error-paths`, `interface-comment-lint` | read a syntax tree or a directory tree | one fact in two spellings, names that stand between a value and its use, bindings in branches, aliases, inherited members | what was not reported is really absent |
| probes: `readonly-probe` and shell probes | run another tool and compare before and after | changes undone between the two looks | a change that is there at the end is reported |
| evidence gates (shell): `prove-gate`, `qa-bind-check`, `mulch-check`, `check-handoff`, `diff-scope` | bind evidence to content | evidence older than what it is about | evidence binds to the current content or is refused |

`PROJECT.json` lists every component with its status, and the hazards with the
line each bites at.

## 2. What is modelled

| module | models | code |
|---|---|---|
| `ProofRows` | what a row is, joining of continued rows, the report search | `verify-proofs.py` `split_comment` … `reported_code`, `command_shaped` |
| `ProofExtract` | the generator `commands`, one action per branch | `verify-proofs.py:2890-3023` |
| `ProofVerify` | `main`: classify, refuse, run, compare, rank | `verify-proofs.py:3026-3149` |
| `ClosedStream` | the second certifier, probing each proof on two dead streams | `closed-stream-check.py:418-554` |
| `Certifiers` | both over one document | `closed-stream-check.py` importing the grammar |
| `ExitSeal` | the epilogue of 43 tools, a profile each, and CPython's shutdown | every `__main__` block |
| `ReleaseDigest` | verifier and `--write`, overlapping, with commits, resets, faults, kills | `verify-release.py` |
| `DigestRegister` | what `RELEASE-DIGEST.txt` promises; `ReleaseDigest` implements it | abstract |
| `GherkinGate` | the gate, run after run, against people who edit the feature and append records | `gherkin-gate.py` |
| `Ratchet` | the gate and the team that adopts green runs | `ratchet.py` |
| `MetricRatchet` | what the baseline promises; `Ratchet` implements it | abstract |
| `LedgerGates` | the author of a ledger, manifest or prompt, who edits it line by line and runs its gate | the gates below |
| `ExcusalLedger`, `PilotGate`, `ReviewRecord`, `PlanDecay`, `MetricRegister`, `SurfaceCheck`, `SecretManifest` | one gate each | the script each names at its head |
| `CommandGates` | `rule-inventory` and `toolchain-check` | gates that read commands |
| `LedgerSums` | `margin-ledger`, `load-ledger`, `strategic-share` | gates that add up rows |
| `PromptGates` | `density-cap`, `zone-lint`, `inventory` | three readings of a prompt |
| `CodeGates` | the extract or source that changes line by line, and its gate | the gates below |
| `LeakScan` | facts in two files, waivers, the walk over links | `leak-scan.py` |
| `ModuleGates`, `ComponentGates` | `coupling-budget`, `fence-check`, `check-graph` and `check-destination`; `cohesion-read` and `stability-check` | gates over graphs |
| `ScoreGates` | `crap-score` and `fleet-cost` | gates over measures |
| `BeforeAfter` | `tornado-scan`, `cost-trend`, `error-paths` and `readonly-probe` | gates that compare two readings |
| `TestScans` | `test-name-lint` and `assertless-scan` | gates over syntax trees |
| `LaneCheck` | wrappers, leaves, hazards; which here texts a shell executes; the same question asked of a shell | `lane-check.py:832-1905` |
| `InterfaceLint` | every binding of a name, aliases, members, inheritance; what a caller of the imported module can reach | `interface-comment-lint.py` |
| `MCRows`, `MC*` | small documents, lines, drafts and worlds for TLC | |
| `ProofVerify_proofs`, `Certifiers_proofs`, `ExitSeal_proofs`, `ReleaseDigest_proofs`, `GherkinGate_proofs`, `Ratchet_proofs`, `LedgerGates_proofs`, `CodeGates_proofs` | the theorems | |

`Certifiers` extends `ClosedStream` and instantiates `ProofVerify` over the same
`doc`. `LedgerGates` and `CodeGates` instantiate the modules of their gates.

### How the models correspond to the code

**Rows.** The program's lexers (`split_comment`, `line_continues`, `shell_words`,
`assignment_sequence`, `unsafe_setup_state`, `replayable`) look at one physical line
each, or at several joined; what they decide is the record `Row`: its kind,
whether it follows a prompt, continues, states a code (a report: by a bare arrow),
holds a placeholder, may not be replayed, is whole, or holds a primitive. `WellFormed`
says which combinations a line can have. What follows across lines (joining, report
search, gap propagation, replay) is modelled in full. `forbidden_primitive` searches
the composed script, in which a replayed step stands as the quoted operand of an
`eval`: one word, where only a primitive in plain text is found. So a row says also
whether its primitive is `plain`, and `FoundInSetup` whether the search meets it there;
in the command itself and in a replayed binding every spelling is found. A block is a sequence of rows and
a document a sequence of blocks: several islands on one command line are one
document, since the block is the unit of context.

**The generator.** `out` is the item between `yield` and the consumer; the walk
is disabled while one is waiting, as a Python generator is. `setup` and `gap` in
an item are copies taken at the yield. The setup is named by places
`<<block, row>>` instead of text.

**Running.** `Launch` counts the proof and starts Bash, `Finish(actual)` takes
whatever code Bash ended with or the time limit. `orphan` records that a killed
Bash may have left children. `log` remembers every consumed item; the program
prints these lines.

**Epilogues.** The 43 copies differ in what they guard and downgrade, so each is
a profile (a record) of one machine. A stream is live, dead or absent; a dead one
fails a flush only when bytes are pending. CPython may keep what a failed write
left in the buffer or drop it, depending on where the write failed: both outcomes
are allowed. The `dup2` of a dead descriptor onto `/dev/null` is taken to work.

**Release.** A commit is its manifest (content without the digest), the digest it
publishes, and whether the object store can be read in full. SHA-256 is taken as
free of collisions, so a digest is the content it stands for. Commits may publish
what the worktree holds, keep the old digest, or publish a malformed one; nobody
edits the worktree's digest by hand.

**Gherkin gate.** A text of the feature file is its digest, the scenario names in
order, the stories its headers declare and whether a foreign dialect or a prefix
to normalise is refused (`odd`). A ledger line is a record or `Malformed`;
comments and blank lines change nothing and are left out. Names and stories are
what `key` makes of them. The records that count are named by their line numbers:
`Mine` are the story's, `Runs` those of a scenario that are not `Faulty`, and
`RedToGreen` asks for the first and the last of them. `ReadFeature` and `ReadLedger`
are two steps, since the team may act in between. The refusal list is kept as one
Boolean, `refuses`: no later step looks at which refusals there are. `consents`
remembers every consent, over all runs.

**Ratchet.** A row of a TSV is the file it means, the form its path is written in, and
three numbers. "The file" is what the most forgiving file system would open, so
two keys of one file have one `FoldKey`. `key_of` reduces one form to the
repository's own, `refuse_key_variants` finds another, the rest are refused on
sight. The touched record is not a variable: `ReadCurrent` reads any content,
since the tools may have written any by then. `Adopt` is the team's rewriting of
the baseline as `SKILL.md` prescribes it, with the rows of the run that passed;
the program does not do it. Numbers are naturals and the share is an exact
ratio: the code parses and compares doubles without rounding in between.

**Gates.** A gate is a function from what it reads to an exit code: its parse and
its judgement are operators of its module, ending in one `Exit` that keeps the
order of refusals, breaches and passes of the script's `main`. `LedgerGates` and
`CodeGates` hold the same five variables: `gate` (which one), `lines` (the file or
extract), `world` (what else the gate reads: options, a tree, a baseline, the
day), `exit` (what it answered last) and `edits`. Between runs a line is added or
dropped (`AddLine`, `DropLine`), a day goes by (`Tick`), a coupling baseline is
adopted after a pass (`Adopt`), a history is exported in the other order (`Turn`), an
value in an assertion gets a name (`Hoist`), a fleet grows (`Hire`), a function is simplified
or covered (`Improve`), a command is wrapped (`Respell`), the branches of a gate
change places (`Regate`). A line is the record of what the script's regular
expressions or its syntax tree tell apart; a line no gate accepts is there as
"malformed". The properties compare the exit code with a second definition that is
written from the claim, not from the code: a reader of the whole text, all paths
of the graph, a shell that runs the statement, an interpreter that imports the
module.

**Shell statements.** A statement of `LaneCheck` is a sequence of tokenized commands
with their redirections, in a group or not. `Executable` follows `here_inputs`;
`Executed` lets every command answer as it likes, shares descriptors as a shell
does, and takes what one command read to its end from the commands after it. `Body`
gives a word that is a program's text the commands in it, and `Chars` its length: the
walks that unwrap commands end because each step goes to less text (`Written`).

**Python modules.** A module of `InterfaceLint` is the sequence of statements that
bind a name, each in the module's body or a class's; `maybe` puts a statement in a
branch. `Exit` follows the lint; `ExplainedWhateverRuns` executes every choice of
branches, creates the objects, and asks what attributes a caller finds.

### Details worth knowing when reading the models

* The walk tests a joined command's leading token, comment of the last row, and
  any-row properties; of a report swallowed by a continuation an `exit N` counts as
  the command's, a bare arrow claims nothing.
* Annotated steps are not replayed in front of later proofs; unannotated ones
  are, again for each proof.
* `closed-stream-check` sets gapped proofs and self-probes aside before it looks
  for primitives, so a gapped script with a primitive is "unsequenced" there and
  "REFUSED" in `verify-proofs`; `RefusalsAgree` is therefore an inclusion.
* A lost report downgrades exits 0 and 1 to 2, in most tools; 3 and 4 stay.

## 3. The runs

| run | asks | result |
|---|---|---|
| `verify_blocks` | is every count of `verify-proofs` earned, is nothing refused ever run, is a proof's scenario whole, is each command's stated code reported, does a run end | holds, `Terminates` under `FairSpec` |
| `verify_primitives` | is no primitive in a script Bash is given, however it is spelled, as the docstring says | violated |
| `certifiers` | do the two certifiers count, compose and refuse the same proofs; does a clean sweep of `closed-stream-check` mean every proof was probed twice and held | holds |
| `seal_guarded` | do the exit code and the report of the guarded tools survive dead and absent streams | holds |
| `seal_certifiers` | does the exit code of the five that do not guard the report | violated |
| `digest_runs` | two `--write` runs and a verifier overlap, with commits, resets and kills: is the file a register, is a verdict about one commit | holds |
| `gherkin_bar` | what is a consent worth when feature and ledger move between runs and between the two reads; can evidence be laundered into another text or story | holds |
| `gherkin_repair` | does running again on the current text repair a refusal over a stale digest, as `SKILL.md` says | violated |
| `ratchet_joins` | are verdicts about files, however paths are spelled; does the baseline turn one way over green runs and adoptions | holds |
| `ledger_gates` | over every short edit of a draft: is the verdict on a text that reads one way that of a reader of the whole, is it about the files on disk, has an ambiguous text none, does time only take away | holds |
| `code_gates` | over every short change of an extract: what is a pass worth, do gates over edges say something of paths, is a baseline paid for, do the same facts get the same verdict | holds |
| `branch_order` | does the order of the branches that bind a name never decide, as `SKILL.md` says | violated |

**Bounds.** `MCRows` builds one-block documents of up to `MaxRows` rows of the ten
most common kinds, shorter ones (`MaxOdd`) from the full list of odd rows
(continued, unsafe, forbidden, broken, template), and two-block documents of up to
`MaxPair` rows each. An interaction of the walk needs at most: a row that spoils the
context, a proof that inherits it, a row between them, and a report below. That
is four rows. The block boundary resets everything, so two blocks show that it
does. Two codes suffice to tell a match from a mismatch. `certifiers` uses three rows:
the walk is the same one, and its own properties need a spoiler, a proof and one row
between.
Two commits and resets let HEAD move between any two steps of a run and back as
often as it likes; two writers give any overlap, since the file is only touched by
one rename. `ExitSeal` needs no bound. `GherkinGate` has four texts (one scenario,
two, none, and one with every oddity), ten kinds of line over two stories that
share a scenario, and a ledger of at most `MaxLines` = 4. Four lines hold red and
green for two scenarios, or one story's full evidence and two lines that spoil it.
The `gherkin_repair` counterexample needs three. `Ratchet` has records of up to
three rows over three files: one file in five measurements (the ceiling's own
value, one better, one worse on each axis) and in every spelling, the others at
and over the ceiling. The allowance of 40 % tells one file in three from one in two.

The two gate runs (about 800,000 and 925,000 states) start from drafts that pass or
nearly pass and make up to `MaxEdits` changes, anywhere in the file, with every line
of the gate's list. A list holds each class of line the script tells apart, the
values on both sides of each threshold, and each name in two spellings where
spellings are folded. One to five edits are enough because the drafts are one entry
long or complete: an entry said twice, a line that attaches to the wrong entry, an
opening without its closing, or a path of two edges with a shortcut need two or
three lines beyond them; an empty prompt needs five (a fence, a list, two
directives, a closing). A statement of `pipes` has up to four commands on two
descriptors, which hold a text, a copy of it and what takes it away; a module of
`interface` has three bodies of classes, one of them inside another, so that a name
is inherited over two steps or found through an alias. Lines on which a gate and its
own documents disagree are among them (an option that takes the next word, an
indented id, `sh -o`, the result of a call, a base bound twice): what is excepted of
them is excepted in the property. `LedgerGates` gives a register
`LastDay` = 5 days: before, on and after the day of review.

**Deadlock.** The runs of the certifiers, of `verify-release` and of the epilogues say
`CHECK_DEADLOCK FALSE`, because each of these programs ends and the behaviours stop
there; so do `LedgerGates` and `CodeGates`, whose authors stop after `MaxEdits`
changes. `GherkinGate` and `Ratchet` model gates that are run again and again, so
TLC checks them for deadlock.

**Fairness.** Only `Terminates` needs it. `FairSpec` is weak fairness of the one
loop (`Resume \/ Consumer \/ Conclude`): a sequential program whose only wait,
for Bash, is bounded by `timeout=120`. No fairness is assumed of `GiveUp`.

**Mutants.** Each property has at least one mutant in the module of the definition it
changes, next to the original: an index not advanced, a gap not recorded, a count
not taken back, verdicts ranked in another order, HEAD read a second time, the
digest opened for writing, a stream not muted, a duplicate entry that overwrites,
a name compared as written, a threshold off by one, a copy that may be skipped
taken for one that ran, the last binding of a name taken for all of them.

**Checked against the program.** `LaneCheck` and `InterfaceLint` restate code whose
cases are easy to get wrong, so both were compared with the scripts themselves on
several thousand random statements and modules, and the second half of
`InterfaceLint` with Python's own import of the same modules.

## 4. Findings

1. `verify-proofs.py:2760`. A step that later proofs replay is quoted into
   `( builtin eval '...' )` before the script is searched (3088 to 3089), and the search
   reads the quoted text as one word. `printf x | cur\l e` is refused when it is the
   proof, and is run as the setup of a later one; `closed-stream-check.py:509` composes
   and searches alike. The docstring of `forbidden_primitive` (513) says "The network,
   privilege-escalation or device-destructive primitive this script would reach, however
   it is spelled — or None." `RefusedNeverRun` says what does hold: no refused step is
   ever run, and no primitive but one in such a step. Run `verify_primitives`.
2. `interface-comment-lint.py:277`. A class inherits from a base that two branches bind
   to different classes: the definition of the branch written first is judged, and that
   of the second is taken for covered. In the other order the verdict is another.
   `SKILL.md:55` says "every `def` the name can hold is judged, and branch order never
   decides the verdict, in a class body exactly as at module scope". Run `branch_order`.
3. `verify-proofs.py:3164` and its copies in `closed-stream-check`, `link-check` and
   `lane-check`. The report of an internal fault stands outside any `try`. When stderr
   is dead the report raises in the handler, the sealing loop is skipped, and the
   process ends with 1 or 120, which the comment above it excludes. `load-ledger.py:342`
   prints a traceback there and ends with 120. The other skills' tools guard the
   report. Run `seal_certifiers`.
4. `gherkin-gate.py:291`. A record of the story with an older digest refuses every
   later run, also when every scenario was run red and green again on the current
   text. The ledger is appended to, so after an edit the story passes only once
   lines are removed from it. `SKILL.md:48` lists running again on the current
   bytes as a repair of a stale digest. Run `gherkin_repair`.

### Other divergences

Met while modelling and confirmed by running the script (and Bash or Python beside
it). The definitions follow the code; no run of its own shows them, and where one
would break a property the property excepts it by name, as noted.

* `verify-proofs.py:580`. The report search walks over an unprompted usage template
  (`cp <a> <b>`) whose token is off the allowlist and gives the report below it to the
  command above; the docstring says at line 51 "Every nonempty unmarked non-comment row
  terminates report search".
* `verify-proofs.py:2979`. A bare binding that states a code (`D=$(mktemp -d)  # exit 0`)
  becomes setup and its code is reported nowhere; the comment at 2924 says "A bare line
  that states an exit code is a candidate". `StatedCodeReported` leaves bindings out.
* `check-excusals.py:184`. An id that heads an indented line and opens no entry anywhere
  is read as text of the entry before it, and the ledger gets a verdict. The header says
  (25 to 27) "Exit 2 ... on a ledger that does not read one way: ... an id heading an
  indented line instead of opening its entry at column 0", and `SKILL.md:43` that the gate
  then "exits 2 without ruling at all". The code refuses only if that id opens an entry
  elsewhere. `Orphaned` in `ReadsOneWay` and in `TwoReadingsNoVerdict`.
* `rule-inventory.py:134` takes the value of an option for a command (`env -u git true`
  counts as measured); the docstring at 125 says "so the command that actually runs is
  the one judged". `OptionsStandAlone` in `ReadsOneWay`.
* `rule-inventory.py:57` lists the interpreters that "alone" measure nothing (comment at
  56). `python3.12` is not in the list, and alone it counts. `AllListed` in `ReadsOneWay`.
* `zone-lint.py:64` pairs lines that begin with three backticks two by two, where line 12
  says "fenced code blocks skipped"; a line of content that begins like a fence (or tildes,
  or a fence of four) turns the inside out from there on. `inventory.py:28` does so with
  backticks and tildes, where line 7 says "outside code fences". `density-cap` reads fences
  as a renderer does. `FencesMatch` and `ZoneRead` in `ReadsOneWay`.
* `lane-check.py:1158` does not skip the value of a shell's `-o` where line 1515 does, so
  `bash -o pipefail -c '...'` is not read and `sh -o -c x`, which no shell starts, is in
  one place and not in the other. `Starts`, in `Followed` and in `SameFactsSameVerdict`.
* `lane-check.py`, outside `Followed` of `LaneCheck`: `{ false && true && cat ; sh ; } <<< t` is taken as
  drained although `cat` does not run (the comment at 1713 wants certainty);
  `{ cat 0<&3 | sh ; } 3<<< t`, `cat <<< t | sh 3<&0 /dev/fd/3`,
  `cat <<< t | { true ; sh ; }` and `{ cat ; } <<< t | sh` feed a shell and are not
  followed; `find ... -exec sh \; <<< t` is cut at the `\;`.
* `interface-comment-lint.py`, outside `Followed` of `InterfaceLint`. Finding 2 has two
  relatives: a class bound in two branches of which the second inherits
  the name the first defines is judged by the first, and an override in a branch that
  may not run hides the inherited definition. `SameFactsSameVerdict` therefore speaks
  of branches in modules where no class inherits (`Inherits`). With `class D(_B, _C)` over a
  common base, bases are walked depth first, where Python takes `_C`'s attribute
  before the common base's. A class's body nested in another is read as if it saw the
  outer class's names, which Python does not let it see.
* `assertless-scan.py`: `assert gw.charge.call_args == compute()` is a finding and
  `exp = compute()` with `assert gw.charge.call_args == exp` is none, against "HOISTING
  A NAME CHANGES NOTHING, in either direction" at line 38; so with a name for a name
  (`k = n; assert gw.charge.call_args == k` for a constant `n`). `SameFactsSameVerdict`
  excepts `Hoist` of those two, by name. After `ok = False` and
  `ok = True` a handler's `assert ok` rescues it, since the first binding is judged, where
  lines 42 to 46 say that a body which cannot fail does not.
* `inventory.py` numbers rules by their place in the prompt: a rule put in front of
  the others lets the destinations of an old audit account for the wrong ones.

## 5. What is proved

### `ProofVerify_proofs`

It proves, for every document, code set and constant that meets
the named assumptions of `ProofRows`, `ProofExtract` and `ProofVerify`:

* `TypeCorrect`: `Spec => []TypeOK`.
* `Safe`: no refused step is in a script Bash is given, and no primitive either, but
  one in a replayed step that the quoted text does not name plainly (`RefusedNeverRun`;
  that such a one is run is finding 1).
* `RefusalIsFinal`: after a refusal, no later proof of its block counts
  (`NothingCountsAfterRefusal`).
* `Green`: exit 0 is earned (`GreenIsEarned`).

The argument. None of the four is inductive. `IInv` adds what the code relies on
without saying so:

* `SafeWalk`: the setup collected so far, and the one inside a waiting item, holds
  only accepted steps of the current block; an item that may be run is itself
  accepted. (`RefusedNeverRun` needs it, since the check of a step happens rows
  before the script that replays it is run.)
* `RunInv`: while Bash is running, the waiting item is a proof whose composed
  script was searched and nothing found in it.
* `CountInv`: what the counters say about the log. A zero `mismatched` and `refused`
  means no such entry, a positive `ran` outside a run means a verified or
  mismatched entry, and a timeout that left an orphan was counted as a mismatch.
  (`GreenIsEarned` is about the log; the exit code is computed from counters that
  go up before a run and may come down after it.)
* `OrderInv`: every logged place lies before the walk, and a refusal in the current
  block is in `gap`. (`NothingCountsAfterRefusal` relates two entries made at
  different times; `gap` is what connects them.)

`Invariance` proves `Spec => []IInv` with one step per action. TLC checked `IInv`
over the documents of `verify_blocks` before it was proved.

* `LogTold`: the report is what the generator yields of the blocks walked so far,
  each item once, in order, with the setup and gaps its place asks for.
* `NoFalseGreen`: a proof that counted ran in its whole scenario (`WholeScenario`).
* `OneReportOneCommand`: no reported code is the expectation of two commands
  (`CodeNotShared`).
* `NothingVanishes`: each command line that states a code was run, refused, skipped by
  name or counted as a template, whatever rows surround it (`StatedCodeReported`).

These four speak of the log, which was written long before, so they need what the
generator computes without its history. `ProofExtract` says it:
`YieldedAt`, `ReplayedBefore` and `GapBefore` say of a block and a place whether the
walk yields there, with which steps and which gaps, and `WalkInv` says the
generator's variables agree with them at every moment. The walk skips the rows a
command continues over and the report that follows it; `OneReplay` shows that two
places which both yield never claim the same rows.

### `ReleaseDigest_proofs`

For any number of writers and verifiers, and any sequence of commits and resets
(`MaxCommits` is any number), from the assumptions of `ReleaseDigest`:

* `TypeCorrect`, `OneCommit` (`VerdictIsAboutOneCommit`), `Undamaged`
  (`NoVerdictFromDamage`), `Wrote` (`WroteWhatItCaptured`).
* `Refinement`: `ReleaseDigest` implements `DigestRegister` (`DigestIsARegister`).

The runs hardly touch each other, so the inductive invariant is one statement per
run: `RunOK` ties a run's `pc` to what it knows of the commit it captured, `Verdict`
its exit code to that commit, and `Stands` says that a writer which replaced the
file still finds its own digest as long as no other writer is past its check.
Each step is some run's `Step(r)`; `StepRun` shows the run's own part, `StepStands`
what the others lose by it, and `Appended` that commits are only added, so what
was captured stays what it was.

### `GherkinGate_proofs`

For every set of texts and lines and any length of ledger:

* `TypeCorrect`, `ConsentMeetsBar` (`ConsentIsTheBar`), `NoVerdictFromErrors`
  (`ErrorsAreNoVerdict`).
* `NoLaundering` (`OneTextOneStory`). It relates consents of different runs, with
  edits and records between them, and is not inductive. `BackedInv` supplies the
  link: every consent left a record of its story and its digest among the lines
  any later run reads, and that run would refuse on it had the text changed.
  `DeclaredInv` is the other direction: a text declares one story, and equal
  digests are equal texts.

`NotRefusedIsBar` is the core: when `Refuses` is false, the bar holds. It goes from
the program's filtering of records to the first and the last run, to a statement
over all lines of the story.

### `Ratchet_proofs`

For every set of files and records, ceiling and allowance:

* `TypeCorrect`; `FilesNotSpellings` (`VerdictIsAboutFiles`);
* `Refinement`: `Ratchet` implements `MetricRatchet` (`BaselineIsARatchet`);
* `PocketShrinks` (`OverCeilingShrinks`: the set of files over the ceiling never grows, as
  `SKILL.md` argues). It follows from the refinement, so it is proved and has no run.

The code compares by keys, the properties speak of files. `KeyVariants` being false
makes `FoldKey` injective on both records together, so a comparison by keys is one
by files, and counts of keys are counts of files (`FoldCounts`, by a bijection).
The invariant adds that a green run still knows the baseline: it is either what
the run parsed or what was adopted after it, also after several adoptions.

### `Certifiers_proofs`

For every document, and every answer of a proof whose stream is dead:

* `ClosedTypeCorrect`; `CleanSweep` (`CleanMeansEveryProbeHeld`).
* `EachRunsItsOwn`: in the composition each certifier runs its own specification, so
  what is proved of one alone holds of it there.
* `SameProofs` (`ProbesWhatVerifyCounts`) and `SameRefusals` (`RefusalsAgree`).

Neither certifier reads a variable of the other. Agreement comes from both logs being
functions of the same document: `LogInv` of `ProofVerify_proofs` says which class
each place has there, `SweepInv` which class it has here (`Sorted`), and
`BothAgree` compares the two functions place by place. `BothTimeoutAssumption` (the
result of a killed proof is no exit code) is what `verify-proofs` needs as well. What
`ProofVerify_proofs` shows of the generator is cited through a second instance, `WP`,
over the walk of `closed-stream-check`; `SameWalk` shows that the two generators are one.

### `ExitSeal_proofs`

For every set of tools, each a profile, and every fate of their two streams:

* `SealTypeCorrect`; `Sealed` (the inductive invariant `SealInv`).
* `CodeSurvives` (`ExitCodeIsTheTools`) and `LanesKept` (`ResultsStayInLane`) for tools
  that guard their report; `VerdictDelivered` (`VerdictWasDelivered`) for tools that
  downgrade a verdict whose report was lost. `Guards` and `Downgrades` are these two
  conditions on a profile.
* `PackSeals` and `PackDelivers` discharge the hypotheses for the profiles of the
  pack: all guarded tools satisfy `Guards`, and all tools `Downgrades`.
  `UnguardedTools` do not satisfy `Guards`, which is finding 3.

### `CodeGates_proofs`

For every set of lines, drafts and worlds of the kind a gate reads (`LinesAssumption`,
`WorldsAssumption`), finite sets of names (`IdentitiesAssumption`), natural numbers of
edits and units (`EditsAssumption`, `NumbersAssumption`), for the gates of `TypedGates`,
which are all but `interface-comment-lint`. `TextsAssumption` says that no text in a
command is blank and that none is shorter than a command in it, and `WordsAssumption`
that the words a command is run through are strings.

* `AnswersWhatItReads`: `exit` is always the answer to the present lines and world
  (`GateInv`), through every kind of edit. The theorems below follow from it and a
  fact about each gate. `TypeCorrect` is `Spec => []TypeOK`.
* `BaselinePaid` (`BaselineIsPaidFor`), about any number of adoptions.
* `OneWay` (`FlowsOneWay`). `fence-check` and `stability-check` see single edges. The
  property speaks of the least set closed under the edges; `EveryRound` carries the
  order from round to round. `check-graph` follows parents and stops at a module it
  has seen: `ChainEnds` is a pigeonhole over the finite set of modules.
* `NothingChanged` (`LooksChangeNothing`): what is written stays a tree, after any
  number of commands, so an empty comparison means equal trees.
* `LeaksOwned` (`LeaksHaveOwners`). The scan walks directories until nothing is new;
  `WalkIsLeast` shows that this is the least set that contains the tops and is
  closed. The attempt found an error in the model: `Reached` of `LeakScan` asked of a
  directory only that some reached directory links to it, by a recursion that two
  unreached directories linking to each other satisfied. It is the least closed
  set now.
* `OnlyOneWay` (`VerdictsAreMonotone`). Improving a function cannot raise its score
  (`ScoresGrow`: products of naturals grow). Hiring cannot make a fleet pay:
  the time saved from fleet m to n, multiplied out, is an inequality between products
  (`FasterFleet`), so the gain of the last agent falls and its overhead rises, and
  after the crossover every larger fleet loses.
* `CountsRight` (`CountIsRight`, one conjunct of `PassIsEarned`): rows and commits
  correspond one to one (`AsManyAsNames`), the smallest fleet that pays is the one a
  search of every size finds, a test is judged by its outermost definition.
* `RetoldTheSame`: the steps `Turn` and `Hoist` of `SameFactsSameVerdict`, and `Respell`
  where no redirection is read (a script's commands one after the other, and the
  launchers of a Python script).
  A history in the other order has the rows of the first one reversed (`RowsTurned`),
  and is refused for the same lines (`RefusedTurned`). A name that nobody mentioned can be given to a value because the search for what
  a name stands for goes through no name twice. For `Respell` both sides are walks that
  call themselves on parts of a command and on the texts in it. `Recursion` shows that
  such a walk has an answer if every call goes to something smaller by a measure in
  `Nat` (`ByMeasure`); the measure is `Written`, and `PartsSmaller` and `HandlerSmaller`
  show that the calls go to less. So one step of the walk may be unfolded
  (`LeavesFound`, `HazardsFound`), and `LeavesKept` says that what runs in the end behind
  `nohup`, `timeout -k`, `env -u`, `find -exec` or `sh -c` is what ran before.

Arguments over the length of a path or a walk use a recursive function over `Nat`,
unrolled one round at a time; an invariant of all rounds follows from the least
round that breaks it (`LeastNatural`).

### `LedgerGates_proofs`

For every set of lines, drafts and worlds of the kind a gate reads (`LinesAssumption`,
`WorldsAssumption`), any number of edits (`EditsAssumption`) and any thresholds that are
natural numbers (`BoundsAssumption`), for all fifteen gates. `FieldsAssumption` says that
an excusal has an argument and that no field is called what the gate calls other lines,
`PlacesAssumption` that a value which cannot be resolved is no place.

* `AnswersWhatItReads`: `exit` is always the answer to the present lines and world
  (`GateInv`). `TypeCorrect` is `Spec => []TypeOK`; `OnlyDecays` is `TimeOnlyDecays`, with
  any number of days between two edits.
* `OnDisk` (`VerdictIsTheDisks`): the pilot gate, `plan-decay` and `check-surface` pass
  what is so on the disk, and nothing else.
* `NoTwoReadings` (`TwoReadingsNoVerdict`).
* `ReadAsWritten` (`VerdictIsTheReaders`), of files that read one way (`ReadsOneWay`).
  Section 4 quotes what the gates do with the others.

Given `GateInv`, each of them is about one text: a gate reads it from the top with a
state, and the property speaks of the whole text without one. For each gate there is
an invariant of the reading, which says what the state knows of the first k lines;
`EveryRound` carries it from line to line, and at the last line the two sides
meet. (A recursive function in a definition is unrolled once, by `Reading` or a lemma
named for its rounds, so that only one line is ever looked at.) The invariants:

* `check-excusals`: `Kept` says which entry is open and what is wrong so far, `Ruling`
  that there is an entry for each opener, with each of its statements as far as it was
  said (`SoFar`). That a field has one statement (`OneStatement`) is what makes prose go
  on with the right one.
* The pilot gate: `ReadSoFar` is about the lines and `JudgedSoFar` about the stages.
* `plan-decay`: where the walk along a path is, and whether it has left what the path
  means (`OnTrack`, `Astray`).
* `review-record`: what is counted is what has a key of its own, by `ValuesCount` (as
  many values as arguments means different values).
* `margin-ledger`, `strategic-share`, `load-ledger`: sums. A ratio of totals is under
  the floor while no story is (`NoneBelow`); minutes are weighed against a floor row
  by row or in total; a load's body has the depth at which it was last taken up
  (`KeptDepths`), which is the deepest only as long as nothing is to be reported.
* `density-cap`, `zone-lint`, `inventory`: the line up to which a fence reaches, the
  number of fences passed, and whether one is open, against pairs of fences, or the
  renderer's. `Greatest` and `LeastNatural` find the next fence and the one before.
* `rule-inventory`: how many words are peeled off a measure (`Peels`).

### What stays with TLC

* `Terminates` of `ProofVerify`: it needs fairness and `ENABLED`.
* `ReadingIsRight`, the other conjunct of `PassIsEarned`: a shell that runs a statement
  and an interpreter that imports a module against the check's reading of them. Two
  recursions over the words of a command or the bodies of a module are to agree on all
  inputs, which takes an induction over both at once.
* Of `SameFactsSameVerdict`, the step `Regate` (`interface-comment-lint`), and `Respell` in
  a statement with redirections. `RetoldTheSame` needs no exception for `sh -o`: where no
  redirection is read, only one of its two readings counts.
* The properties of the four runs that expect a violation. They are false. So would be
  `VerdictIsTheReaders` without its exceptions for commands and fences,
  `TwoReadingsNoVerdict` without the one for ids, and `SameFactsSameVerdict` without any of
  its three: TLC finds each of these cases among the lines of the runs.

## 6. What is not modelled

* How the lexers scan characters, in `verify-proofs` and in `lane-check`: which text is a
  binding, a primitive, a quoted word, a literal of a Python expression. Continued
  exports and bindings, and annotated template rows written with an indent, are left
  out of `WellFormed`. An interpreter that `rule-inventory` is given as a path is left
  out of its words. `lane-check`'s reading of start-up files of interactive shells and
  of compound commands other than a group is left out as well.
* What replayed steps do to the file system. Only which steps run, in which order.
* `self_probe` in `closed-stream-check` is a set of places; its reading of shell is
  not modelled. Nor is the normalisation of a signal's return code.
* The tag signature report of `verify-release`, which is text after the verdict.
* Temporary files a killed `--write` leaves are there in `temp`; that somebody
  commits one is not.
* `link-check` and `validate-island`, but for their epilogues: each link and each field is
  judged by itself, from its spelling and one look at the disk. Nothing relates two
  steps of theirs.
* In the gates: how characters fold (a name has a form), the wording of comments and
  reasons (a size, or a set of words), rounding of doubles (ratios are exact), and
  what the regular expressions of a line accept (its class).
* The shell evidence gates and probes, which compare once and keep nothing; the
  self-tests, read as documentation; the skills that are prose.

## 7. Plan

Done: the certifiers, the release digest, the epilogues, the gates over ledgers,
prompts, graphs, measures and sources, `lane-check` and `interface-comment-lint`.

Proved: every invariant and action property of the certifiers, the epilogues, the
release digest, `gherkin-gate`, `ratchet` and the gates over ledgers, and every one of
`CodeGates` but for parts of `PassIsEarned` and `SameFactsSameVerdict`.

Left, in this order:

1. `ReadingIsRight` for statements of one command, by the measure of `RetoldTheSame`.
2. The lexers of `verify-proofs` as functions over small alphabets against reference
   definitions.
