------------------------------ MODULE ProofVerify ------------------------------
(***************************************************************************)
(* scripts/verify-proofs.py: re-run every documented proof and say what    *)
(* the run is worth.  `main` drains the generator of ProofExtract, runs    *)
(* the scripts under Bash one at a time and ranks the outcome into an exit *)
(* code.  `log` and `orphan` are not in the program: the first remembers   *)
(* what became of each item, the second that a timed-out Bash may have     *)
(* left children behind that still act on the island.                      *)
(***************************************************************************)
EXTENDS ProofExtract

CONSTANTS Timeout   \* subprocess.TimeoutExpired, as `actual` records it

VARIABLES strict,   \* --strict was given
          n,        \* the counters of the summary line
          running,  \* Bash is executing the script of `out`
          orphan,   \* a timed-out script may still be running
          log,      \* what became of every item consumed
          exit      \* the exit code, Unset until the end

vars == <<walkVars, strict, n, running, orphan, log, exit>>
mainVars == <<strict, n, running, orphan, log, exit>>

Unset == 99
Counters == {"total", "ran", "mismatched", "pending", "refused", "template",
             "skipped", "unsequenced"}
Classes == {"refused", "skipped", "passed", "template", "pending", "forbidden",
            "verified", "mismatch", "unsequenced"}
Executed == {"verified", "mismatch", "unsequenced"}
Outcomes == Codes \cup {Timeout}
Entry == [at : Place, class : Classes, expected : Expected, setup : Seq(Place),
          gap : SUBSET Causes, alone : BOOLEAN]

ASSUME TimeoutAssumption == Timeout \notin Codes \cup {NoCode, Refuse}

Init ==
  /\ WalkInit
  /\ strict \in BOOLEAN
  /\ n = [c \in Counters |-> 0]
  /\ running = FALSE /\ orphan = FALSE
  /\ log = {} /\ exit = Unset

-----------------------------------------------------------------------------
Live == exit = Unset
Got == Live /\ out # NoItem /\ ~running

IsRunnable(p) == CommandAt(p).kind = "step"
Steps(item) == {item.setup[k] : k \in 1..Len(item.setup)} \cup {item.at}

\* Mutant of ForbiddenScript: only the annotated command is searched.
ForbiddenCommand(item) == CommandAt(item.at).forbidden

\* One primitive found anywhere in the composed script refuses the whole script.
ForbiddenScript(item) ==
  CommandAt(item.at).forbidden \/ \E k \in 1..Len(item.setup) : FoundInSetup(item.setup[k])

Bump(cs) == n' = [c \in Counters |-> IF c \in cs THEN n[c] + 1 ELSE n[c]]

Consume(class) ==
  /\ log' = log \cup {[at |-> out.at, class |-> class, expected |-> out.expected,
                       setup |-> out.setup, gap |-> out.gap, alone |-> ~orphan]}
  /\ out' = NoItem
  /\ UNCHANGED <<doc, blk, row, setup, gap, strict, orphan, exit>>

CountRefused ==
  /\ Got /\ out.expected = Refuse
  /\ Bump({"refused"}) /\ Consume("refused") /\ UNCHANGED running

\* Off the allowlist: reported when it documents a code, passed over otherwise.
CountSkipped ==
  /\ Got /\ out.expected # Refuse /\ ~IsRunnable(out.at)
  /\ IF out.expected = NoCode
     THEN Consume("passed") /\ UNCHANGED n
     ELSE Consume("skipped") /\ Bump({"skipped"})
  /\ UNCHANGED running

IsCandidate == Got /\ out.expected # Refuse /\ IsRunnable(out.at)

CountTemplate ==
  /\ IsCandidate /\ CommandAt(out.at).template
  /\ Bump({"total", "template"}) /\ Consume("template") /\ UNCHANGED running

CountPending ==
  /\ IsCandidate /\ ~CommandAt(out.at).template /\ out.expected = NoCode
  /\ Bump({"total", "pending"}) /\ Consume("pending") /\ UNCHANGED running

IsProof == IsCandidate /\ ~CommandAt(out.at).template /\ out.expected # NoCode

RefuseForbidden ==
  /\ IsProof /\ ForbiddenScript(out)
  /\ Bump({"total", "refused"}) /\ Consume("forbidden") /\ UNCHANGED running

\* Mutant of Launch: the proof is not counted as it starts.
LaunchUncounted ==
  /\ IsProof /\ ~ForbiddenScript(out)
  /\ Bump({"total"})
  /\ running' = TRUE
  /\ UNCHANGED <<walkVars, strict, orphan, log, exit>>

Launch ==
  /\ IsProof /\ ~ForbiddenScript(out)
  /\ Bump({"total", "ran"})
  /\ running' = TRUE
  /\ UNCHANGED <<walkVars, strict, orphan, log, exit>>

\* Mutant of Finish: an unsequenced match keeps its count.
FinishKeepingCount(actual) ==
  /\ Live /\ running
  /\ running' = FALSE
  /\ log' = log \cup {[at |-> out.at,
                       class |-> IF actual # out.expected THEN "mismatch"
                                 ELSE IF out.gap # {} THEN "unsequenced" ELSE "verified",
                       expected |-> out.expected, setup |-> out.setup,
                       gap |-> out.gap, alone |-> ~orphan]}
  /\ n' = IF actual # out.expected
          THEN [n EXCEPT !["mismatched"] = @ + 1]
          ELSE IF out.gap # {} THEN [n EXCEPT !["unsequenced"] = @ + 1] ELSE n
  /\ orphan' = (orphan \/ actual = Timeout)
  /\ out' = NoItem
  /\ UNCHANGED <<doc, blk, row, setup, gap, strict, exit>>

\* Bash is done, or was killed at the limit: compare, and take back the count
\* of a match whose scenario may never have been built.
Finish(actual) ==
  /\ Live /\ running
  /\ running' = FALSE
  /\ log' = log \cup {[at |-> out.at,
                       class |-> IF actual # out.expected THEN "mismatch"
                                 ELSE IF out.gap # {} THEN "unsequenced" ELSE "verified",
                       expected |-> out.expected, setup |-> out.setup,
                       gap |-> out.gap, alone |-> ~orphan]}
  /\ n' = IF actual # out.expected
          THEN [n EXCEPT !["mismatched"] = @ + 1]
          ELSE IF out.gap # {}
               THEN [n EXCEPT !["ran"] = @ - 1, !["unsequenced"] = @ + 1]
               ELSE n
  /\ orphan' = (orphan \/ actual = Timeout)
  /\ out' = NoItem
  /\ UNCHANGED <<doc, blk, row, setup, gap, strict, exit>>

Resume == Live /\ Walk /\ UNCHANGED mainVars

\* A usage error, or an island that cannot be read when its turn comes.
GiveUp ==
  /\ Live /\ out = NoItem /\ row = 1 /\ blk <= Len(doc)
  /\ exit' = 2
  /\ UNCHANGED <<walkVars, strict, n, running, orphan, log>>

\* Mutant of Verdict: a refusal is no finding.
VerdictIgnoringRefusals ==
  IF n["mismatched"] > 0 THEN 1
  ELSE IF strict /\ n["pending"] > 0 THEN 4
  ELSE IF n["ran"] = 0 THEN 3
  ELSE 0

Verdict ==
  IF n["mismatched"] > 0 \/ n["refused"] > 0 THEN 1
  ELSE IF strict /\ n["pending"] > 0 THEN 4
  ELSE IF n["ran"] = 0 THEN 3
  ELSE 0

Conclude ==
  /\ Live /\ WalkDone
  /\ exit' = Verdict
  /\ UNCHANGED <<walkVars, strict, n, running, orphan, log>>

Consumer == \/ CountRefused \/ CountSkipped \/ CountTemplate \/ CountPending
            \/ RefuseForbidden \/ Launch
            \/ \E actual \in Outcomes : Finish(actual)

Next == Resume \/ Consumer \/ GiveUp \/ Conclude

Spec == Init /\ [][Next]_vars

\* The program is one loop that never blocks: a pass of `for` always goes on,
\* and Bash is killed at its time limit.
FairSpec == Spec /\ WF_vars(Resume \/ Consumer \/ Conclude)

-----------------------------------------------------------------------------
TypeOK ==
  /\ WalkTypeOK
  /\ strict \in BOOLEAN /\ running \in BOOLEAN /\ orphan \in BOOLEAN
  /\ n \in [Counters -> Nat]
  /\ log \subseteq Entry
  /\ exit \in {0, 1, 2, 3, 4, Unset}

\* What a reader of the block expects to have happened before the command at p:
\* the scenario rows above it.
Scenario(p) == {p[1]} \X {j \in 1..(p[2] - 1) : ScenarioRow(doc[p[1]], j)}

\* No false green: a proof that counts ran after the whole scenario of its own
\* block, in the order it is written, and after nothing else
\* (commands, "GAPPED ... NOT counted as a verified proof").
WholeScenario ==
  \A e \in log : e.class = "verified" =>
    /\ {e.setup[k] : k \in 1..Len(e.setup)} = Scenario(e.at)
    /\ \A k, l \in 1..Len(e.setup) : k < l => e.setup[k][2] < e.setup[l][2]

\* A step that was refused is in no script that Bash is given, neither as the
\* command nor as somebody's replayed setup, and the only primitive such a script
\* can hold is in a replayed step whose quoted text does not name it plainly.
RefusedNeverRun ==
  \A e \in log : e.class \in Executed =>
    \A p \in Steps(e) :
      /\ ~CommandAt(p).unsafe
      /\ CommandAt(p).forbidden =>
           p # e.at /\ CommandAt(p).kind = "step" /\ ~CommandAt(p).plain

\* What the docstring of forbidden_primitive claims, "The network,
\* privilege-escalation or device-destructive primitive this script would reach,
\* however it is spelled": no script that Bash is given reaches one at all.
PrimitivesNeverRun ==
  \A e \in log : e.class \in Executed => \A p \in Steps(e) : ~CommandAt(p).forbidden

\* Once a block had a step refused, no later proof of that block counts.
NothingCountsAfterRefusal ==
  \A e, f \in log :
    e.class = "verified" /\ f.class = "refused" /\ f.at[1] = e.at[1] => e.at[2] < f.at[2]

\* A report line annotates one command: two commands never take their code from
\* the same report.
ReportRow(p) ==
  IF CommandAt(p).code # NoCode THEN 0 ELSE StopRow(doc[p[1]], JoinEnd(doc[p[1]], p[2]))

CodeNotShared ==
  \A e, f \in log :
    /\ e.at # f.at /\ e.at[1] = f.at[1]
    /\ {e.expected, f.expected} \subseteq Codes
    => ReportRow(e.at) = 0 \/ ReportRow(e.at) # ReportRow(f.at)

\* Exit 0 is only for a run that verified something, disproved and refused
\* nothing, left no candidate unread under --strict, and never ran a proof
\* beside the leftovers of a timed-out one.
GreenIsEarned ==
  exit = 0 =>
    /\ \E e \in log : e.class = "verified"
    /\ \A e \in log : e.class \notin {"mismatch", "refused", "forbidden"} /\ e.alone
    /\ strict => \A e \in log : e.class # "pending"

\* A command line that states an exit code never disappears, whatever its leading
\* token, the rows above it and the rows that continue it: when the sweep has ended
\* the command it belongs to was run, refused, skipped by name or counted as a
\* template.  (Bindings are left out: one that states a code is taken for setup.)
StatedCodeReported ==
  exit \in {0, 1, 3, 4} =>
    \A b \in 1..Len(doc) : \A j \in 1..Len(doc[b]) :
      doc[b][j].kind \in Command /\ doc[b][j].code # NoCode
      => \E e \in log : /\ e.at[1] = b /\ j \in e.at[2]..JoinEnd(doc[b], e.at[2])
                        /\ e.class \notin {"passed", "pending"}

\* The sweep ends with an exit code.
Terminates == <>(exit # Unset)

=============================================================================
