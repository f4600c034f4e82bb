----------------------------- MODULE ProofExtract -----------------------------
(***************************************************************************)
(* `commands`, the generator both certifiers walk a block with.  One       *)
(* action per branch of its loop.  What it yields is handed over in `out`; *)
(* the loop resumes when the consumer has taken it (out = NoItem), as a    *)
(* Python generator does.  A command is named by its place <<block, row>>. *)
(***************************************************************************)
EXTENDS ProofRows

CONSTANTS Refuse,   \* the sentinel in the expected slot: refuse, never run
          NoItem    \* nothing is waiting for the consumer

VARIABLES doc,      \* the document being read
          blk,      \* the block under the walk
          row,      \* the row under the walk
          setup,    \* places of the steps to replay before the next command
          gap,      \* why the setup is not the whole story
          out       \* the item yielded and not yet consumed

walkVars == <<doc, blk, row, setup, gap, out>>

Causes == {"refused", "unreplayable"}

ASSUME SentinelAssumption == Refuse \notin Codes /\ Refuse # NoCode

Place == (Nat \ {0}) \X (Nat \ {0})
Expected == Codes \cup {NoCode, Refuse}
Item == [at : Place, expected : Expected, setup : Seq(Place), gap : SUBSET Causes]

ASSUME NoItemAssumption == NoItem \notin Item

CommandAt(p) == Joined(doc[p[1]], p[2])

\* `proof_script` writes a replayed step as the quoted operand of an eval, one word
\* in which only a name in plain text is found, and a binding as it stands.
FoundInSetup(p) ==
  IF CommandAt(p).kind = "step" THEN CommandAt(p).plain ELSE CommandAt(p).forbidden

WalkInit ==
  /\ doc \in Documents
  /\ blk = 1 /\ row = 1
  /\ setup = <<>> /\ gap = {}
  /\ out = NoItem

-----------------------------------------------------------------------------
Here == <<blk, row>>
This == Joined(doc[blk], row)
After == JoinEnd(doc[blk], row) + 1

Walking == out = NoItem /\ blk <= Len(doc) /\ row <= Len(doc[blk])

\* The walk is at an active row that is neither a comment nor a report.
AtCommand ==
  /\ Walking
  /\ Active(doc[blk][row])
  /\ doc[blk][row].kind \notin {"comment", "report"}

Yield(expected) ==
  out' = [at |-> Here, expected |-> expected, setup |-> setup, gap |-> gap]

Replay == setup' = Append(setup, Here)
Gap(cause) == gap' = gap \cup {cause}

\* A row without a command, or a comment whose claim is about nothing.
PassOver ==
  /\ Walking
  /\ ~Active(doc[blk][row]) \/ doc[blk][row].kind = "comment"
  /\ IF CommandShaped(doc[blk][row]) THEN Gap("unreplayable") ELSE UNCHANGED gap
  /\ row' = row + 1
  /\ UNCHANGED <<doc, blk, setup, out>>

\* Mutant of SkipReport: the loop index is not advanced.
SkipReportInPlace ==
  /\ Walking
  /\ doc[blk][row].kind = "report"
  /\ UNCHANGED walkVars

\* A report only restates the code of the command above it.
SkipReport ==
  /\ Walking
  /\ doc[blk][row].kind = "report"
  /\ row' = row + 1
  /\ UNCHANGED <<doc, blk, setup, gap, out>>

TakeExport ==
  /\ AtCommand /\ This.kind = "export"
  /\ IF This.unsafe
     THEN Yield(Refuse) /\ Gap("refused") /\ UNCHANGED setup
     ELSE Yield(NoCode) /\ Replay /\ UNCHANGED gap
  /\ row' = After
  /\ UNCHANGED <<doc, blk>>

TakeAssignment ==
  /\ AtCommand /\ This.kind = "assign"
  /\ IF This.unsafe
     THEN Yield(Refuse) /\ Gap("refused") /\ UNCHANGED setup
     ELSE Replay /\ UNCHANGED <<gap, out>>
  /\ row' = After
  /\ UNCHANGED <<doc, blk>>

\* Mutant of RefuseState: the refusal is reported and leaves no gap.
RefuseStateUngapped ==
  /\ AtCommand /\ This.kind \notin {"export", "assign"} /\ This.unsafe
  /\ Yield(Refuse)
  /\ row' = After
  /\ UNCHANGED <<doc, blk, setup, gap>>

\* A function definition, a startup hook, a printf that writes a variable.
RefuseState ==
  /\ AtCommand /\ This.kind \notin {"export", "assign"} /\ This.unsafe
  /\ Yield(Refuse) /\ Gap("refused")
  /\ row' = After
  /\ UNCHANGED <<doc, blk, setup>>

\* An allowlisted command that documents no code builds the fixture of the
\* commands below it.
BuildsFixture ==
  /\ This.kind = "step" /\ ~This.template
  /\ ExpectedCode(doc[blk], row) = NoCode

YieldFixture ==
  /\ AtCommand /\ ~This.unsafe /\ BuildsFixture
  /\ Yield(NoCode)
  /\ IF This.whole THEN Replay /\ UNCHANGED gap ELSE Gap("unreplayable") /\ UNCHANGED setup
  /\ row' = After
  /\ UNCHANGED <<doc, blk>>

\* Mutant of YieldCandidate: a step off the allowlist is dropped in silence.
YieldCandidateUngapped ==
  /\ AtCommand /\ This.kind \notin {"export", "assign"}
  /\ ~This.unsafe /\ ~BuildsFixture
  /\ Yield(ExpectedCode(doc[blk], row))
  /\ row' = After
  /\ UNCHANGED <<doc, blk, setup, gap>>

YieldCandidate ==
  /\ AtCommand /\ This.kind \notin {"export", "assign"}
  /\ ~This.unsafe /\ ~BuildsFixture
  /\ Yield(ExpectedCode(doc[blk], row))
  /\ IF This.kind # "step" /\ CommandShaped(This) THEN Gap("unreplayable") ELSE UNCHANGED gap
  /\ row' = After
  /\ UNCHANGED <<doc, blk, setup>>

\* The block is the unit of context: nothing is carried into the next one.
NextBlock ==
  /\ out = NoItem /\ blk <= Len(doc) /\ row > Len(doc[blk])
  /\ blk' = blk + 1 /\ row' = 1
  /\ setup' = <<>> /\ gap' = {}
  /\ UNCHANGED <<doc, out>>

Walk == \/ PassOver \/ SkipReport \/ TakeExport \/ TakeAssignment
        \/ RefuseState \/ YieldFixture \/ YieldCandidate \/ NextBlock

WalkDone == out = NoItem /\ blk > Len(doc)

WalkTypeOK ==
  /\ doc \in Seq(Seq(Row))
  /\ blk \in 1..(Len(doc) + 1) /\ row \in Nat \ {0}
  /\ setup \in Seq(Place)
  /\ gap \subseteq Causes
  /\ out \in Item \cup {NoItem}

-----------------------------------------------------------------------------
(* The generator as a function of the block and the place.                 *)

\* The walk reads a command at row j: no row above has swallowed it.
Stands(b, j) == ~Swallowed(b, j) /\ Active(b[j]) /\ b[j].kind \notin {"comment", "report"}

\* The command at row j builds the fixture of the commands below it.
Fixture(b, j) ==
  Joined(b, j).kind = "step" /\ ~Joined(b, j).template /\ ExpectedCode(b, j) = NoCode

Yields(b, j) == Stands(b, j) /\ (Joined(b, j).kind = "assign" => Joined(b, j).unsafe)

\* What stands in the item's expected slot.
SlotCode(b, j) ==
  IF Joined(b, j).unsafe THEN Refuse
  ELSE IF Joined(b, j).kind = "export" THEN NoCode ELSE ExpectedCode(b, j)

\* The command is replayed before those below it.
Replayed(b, j) ==
  /\ Stands(b, j) /\ ~Joined(b, j).unsafe
  /\ Joined(b, j).kind \in {"export", "assign"} \/ (Fixture(b, j) /\ Joined(b, j).whole)

\* The row leaves a gap, for that cause, in the scenario of the commands below it.
Breaks(b, j, cause) ==
  \/ cause = "refused" /\ Stands(b, j) /\ Joined(b, j).unsafe
  \/ /\ cause = "unreplayable" /\ ~Swallowed(b, j)
     /\ ~Active(b[j]) \/ b[j].kind = "comment"
     /\ CommandShaped(b[j])
  \/ /\ cause = "unreplayable" /\ Stands(b, j)
     /\ ~Joined(b, j).unsafe /\ Joined(b, j).kind \notin {"export", "assign"}
     /\ IF Fixture(b, j) THEN ~Joined(b, j).whole
        ELSE Joined(b, j).kind # "step" /\ CommandShaped(Joined(b, j))

ReplayedBefore(p) == {p[1]} \X {j \in 1..(p[2] - 1) : Replayed(doc[p[1]], j)}
GapBefore(p) == {c \in Causes : \E j \in 1..(p[2] - 1) : Breaks(doc[p[1]], j, c)}

Increasing(s) == \A k, l \in 1..Len(s) : k < l => s[k][2] < s[l][2]
Replays(s, p) == {s[k] : k \in 1..Len(s)} = ReplayedBefore(p) /\ Increasing(s)

\* An item, or what was logged of one, is what the block says at its place.
YieldedAt(p) == p[1] \in 1..Len(doc) /\ p[2] \in 1..Len(doc[p[1]]) /\ Yields(doc[p[1]], p[2])

Told(x) ==
  YieldedAt(x.at) /\ x.expected = SlotCode(doc[x.at[1]], x.at[2]) /\ Replays(x.setup, x.at)

Passed(p) == p[1] < blk \/ (p[1] = blk /\ p[2] < row)

\* What the walk holds is what the block says of the rows above.
WalkInv ==
  /\ doc \in Documents
  /\ blk <= Len(doc) => /\ row <= Len(doc[blk]) + 1
                        /\ row <= Len(doc[blk]) => ~Swallowed(doc[blk], row)
  /\ blk = Len(doc) + 1 => row = 1
  /\ Replays(setup, Here) /\ gap = GapBefore(Here)
  /\ out # NoItem => Told(out) /\ out.gap = GapBefore(out.at) /\ Passed(out.at)

=============================================================================
