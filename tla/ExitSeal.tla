------------------------------- MODULE ExitSeal -------------------------------
(***************************************************************************)
(* The `__main__` epilogue every Python tool of the pack ends with, and    *)
(* the interpreter's shutdown it has to survive.  Every tool promises that *)
(* its exit code is a verdict its own main reached, or the non-verdict     *)
(* code 2; CPython answers an uncaught exception with 1 and a failed flush *)
(* at shutdown with 120, and a reader may leave either pipe at any time.   *)
(* Each copy of the epilogue is a profile: what it guards and what it      *)
(* downgrades.                                                             *)
(***************************************************************************)
EXTENDS Naturals

CONSTANTS Tools   \* the profiles a run looks at

Streams == {"out", "err"}
Verdicts == {0, 1, 2, 3, 4}
NonVerdict == 2
Unset == 99
Uncaught == 1     \* CPython: an exception left `__main__`
Shutdown == 120   \* CPython: a standard stream could not be flushed

(***************************************************************************)
(* guarded    the report of an internal fault is written in a try          *)
(* downgraded codes that become 2 when that stream cannot be flushed       *)
(* required   codes that need that stream to exist at all                  *)
(* needs      streams without which main gives no verdict                  *)
(* diag       how main writes a diagnostic, and                            *)
(* report     how the epilogue writes its report: a Writing                *)
(* settles    a dead stream met in main is answered with 2 outright, or    *)
(*            with a report that cannot raise                              *)
(* interrupt  the code of a KeyboardInterrupt                              *)
(* reports    an interrupt is reported like a fault                        *)
(***************************************************************************)
\* plain  print(file=sys.stderr): without a stderr it writes to stdout
\* loud   without a stderr it raises
\* quiet  without a stderr, and on a dead one, the text is dropped
\* trace  without a stderr it is dropped, on a dead one it raises
Writing == {"plain", "loud", "quiet", "trace"}

Profile == [guarded : BOOLEAN, downgraded : [Streams -> SUBSET Verdicts],
            required : [Streams -> SUBSET Verdicts], needs : SUBSET Streams,
            diag : Writing, report : Writing, settles : BOOLEAN,
            interrupt : Nat, reports : BOOLEAN]

ASSUME ToolsAssumption == Tools \subseteq Profile

Each(codes) == [s \in Streams |-> codes]
Of(out, err) == [s \in Streams |-> IF s = "out" THEN out ELSE err]

\* The certifiers.
VerifyProofs == [guarded |-> FALSE, downgraded |-> Each({0, 1}), required |-> Each({}),
                 needs |-> {}, diag |-> "plain", report |-> "plain", settles |-> FALSE,
                 interrupt |-> 2, reports |-> FALSE]
ClosedStreamCheck == VerifyProofs
LinkCheck == VerifyProofs
LaneCheck == [VerifyProofs EXCEPT !.reports = TRUE]
VerifyRelease == [VerifyProofs EXCEPT
                    !.guarded = TRUE, !.downgraded = Each(Verdicts),
                    !.required = Of({0, 1, 3}, {2, 3}), !.diag = "loud", !.report = "loud"]

\* The guarded epilogue, an interrupt answered with 2 at once.
ValidateIsland == [VerifyProofs EXCEPT !.guarded = TRUE]
CheckExcusals == ValidateIsland
CheckDestination == ValidateIsland
CheckGraph == ValidateIsland
FenceCheck == ValidateIsland
StabilityCheck == ValidateIsland
ZoneLint == ValidateIsland
Inventory == ValidateIsland
ReadonlyProbe == ValidateIsland
SelfTestReadonlyProbe == ValidateIsland
SelfTestValidateIsland == ValidateIsland

\* With a code of its own for an interrupt.
MarginLedger == [ValidateIsland EXCEPT !.interrupt = 3]
StrategicShare == MarginLedger

\* The guarded epilogue, an interrupt reported like any exception.
Reporting == [ValidateIsland EXCEPT !.reports = TRUE]
CostTrend == Reporting
CouplingBudget == Reporting
DensityCap == Reporting
RuleInventory == Reporting
MetricRegister == Reporting
ReviewRecord == Reporting
ErrorPaths == Reporting
SecretManifest == [Reporting EXCEPT !.required = Each({0, 1})]

\* And main gives no verdict without a stdout to print it on.
Heard == [Reporting EXCEPT !.needs = {"out"}]
PilotGate == Heard
GherkinGate == Heard
LeakScan == Heard
AssertlessScan == Heard
FleetCost == [Heard EXCEPT !.needs = Streams]
PlanDecay == [Heard EXCEPT !.downgraded = Each({0, 1, 3})]
Ratchet == [Heard EXCEPT !.diag = "quiet"]
TestNameLint == [Heard EXCEPT !.diag = "quiet"]
InterfaceCommentLint == [Heard EXCEPT !.diag = "quiet", !.downgraded = Of({0, 1}, {})]
SurfaceCheck == [Heard EXCEPT !.diag = "quiet", !.settles = TRUE]
CrapScore == [Heard EXCEPT !.settles = TRUE]
ToolchainCheck == [Heard EXCEPT !.settles = TRUE, !.interrupt = 130, !.reports = FALSE]
CohesionRead == [Heard EXCEPT !.diag = "quiet", !.report = "quiet",
                              !.downgraded = Of({0, 1}, {})]
TornadoScan == [CohesionRead EXCEPT !.downgraded = Of(Verdicts, {})]
LoadLedger == [Heard EXCEPT !.guarded = FALSE, !.diag = "quiet", !.report = "trace",
                            !.settles = TRUE, !.interrupt = 130, !.reports = FALSE]

\* The self-tests that share the release verifier's seal.
SelfTestLinkCheck == [ValidateIsland EXCEPT !.downgraded = Each(Verdicts),
                                            !.required = Of({0, 1}, {2})]
SelfTestVerifyRelease == [SelfTestLinkCheck EXCEPT !.report = "loud"]

VARIABLES tool,
          pc,       \* main, report, out and err (the seal), exit, done
          stream,   \* live, dead (the reader is gone) or absent (closed at start)
          pending,  \* bytes are in the stream's buffer
          lost,     \* bytes of the stream were thrown away
          diverted, \* a diagnostic went to stdout for want of a stderr
          meant,    \* what main returned, Unset if it did not return
          code,     \* _code
          status    \* what the parent process sees

vars == <<tool, pc, stream, pending, lost, diverted, meant, code, status>>

Init ==
  /\ tool \in Tools
  /\ pc = "main"
  /\ stream \in [Streams -> {"live", "dead", "absent"}]
  /\ pending = [s \in Streams |-> FALSE]
  /\ lost = [s \in Streams |-> FALSE]
  /\ diverted = FALSE
  /\ meant = Unset /\ code = Unset /\ status = Unset

-----------------------------------------------------------------------------
\* The parent stops reading one of the pipes, whenever it likes.
ReaderLeaves(s) ==
  /\ pc # "done" /\ stream[s] = "live"
  /\ stream' = [stream EXCEPT ![s] = "dead"]
  /\ UNCHANGED <<tool, pc, pending, lost, diverted, meant, code, status>>

\* stdout is block buffered: the bytes stay in the buffer, or the buffer had to
\* be emptied, and then a dead pipe raises.  Without a stdout print does nothing.
Buffer(raises) ==
  /\ raises => stream["out"] = "dead"
  /\ \E kept \in BOOLEAN :
       /\ stream["out"] # "live" => kept = (stream["out"] = "dead")
       /\ pending' = [pending EXCEPT !["out"] = kept]

\* stderr is line buffered: a write to a dead pipe raises at once and leaves its
\* bytes in the buffer.
Complain(raises) ==
  IF stream["err"] = "absent"
  THEN Buffer(raises) /\ diverted' = (diverted \/ stream["out"] # "absent")
  ELSE /\ raises <=> stream["err"] = "dead"
       /\ pending' = [pending EXCEPT !["err"] = @ \/ raises]
       /\ UNCHANGED diverted

\* A write in the given manner; `raises` says whether it raised.
Write(manner, raises) ==
  CASE stream["err"] = "absent" /\ manner = "loud" ->
         raises /\ UNCHANGED <<pending, diverted>>
    [] stream["err"] = "absent" /\ manner \in {"quiet", "trace"} ->
         ~raises /\ UNCHANGED <<pending, diverted>>
    [] manner = "quiet" /\ stream["err"] # "absent" ->
         /\ ~raises /\ UNCHANGED diverted
         /\ \/ UNCHANGED pending
            \/ pending' = [pending EXCEPT !["err"] = @ \/ stream["err"] = "dead"]
    [] OTHER -> Complain(raises)

Raise == pc' = "report" /\ UNCHANGED code

\* What a dead stream does to main.
Broken ==
  IF tool.settles THEN pc' = "out" /\ code' = NonVerdict ELSE Raise

\* main prints a line of its report.
PrintOut ==
  /\ pc = "main"
  /\ \E raises \in BOOLEAN :
       Buffer(raises) /\ IF raises THEN Broken ELSE UNCHANGED <<pc, code>>
  /\ UNCHANGED <<tool, stream, lost, diverted, meant, status>>

\* main prints a diagnostic.
PrintErr ==
  /\ pc = "main"
  /\ \E raises \in BOOLEAN :
       Write(tool.diag, raises) /\ IF raises THEN Broken ELSE UNCHANGED <<pc, code>>
  /\ UNCHANGED <<tool, stream, lost, meant, status>>

\* Any other exception main does not handle.
Fault ==
  /\ pc = "main" /\ Raise
  /\ UNCHANGED <<tool, stream, pending, lost, diverted, meant, status>>

\* Mutant of Interrupt: the shell's 128 + SIGINT.
InterruptAsShell ==
  /\ pc = "main"
  /\ pc' = "out" /\ code' = 130
  /\ UNCHANGED <<tool, stream, pending, lost, diverted, meant, status>>

Interrupt ==
  /\ pc = "main"
  /\ IF tool.reports THEN Raise ELSE pc' = "out" /\ code' = tool.interrupt
  /\ UNCHANGED <<tool, stream, pending, lost, diverted, meant, status>>

\* Mutant of Return: a verdict although its stdout was never there.
ReturnUnheard(c) ==
  /\ pc = "main"
  /\ meant' = c /\ code' = c /\ pc' = "out"
  /\ UNCHANGED <<tool, stream, pending, lost, diverted, status>>

\* main returns.  One that looks for its streams first has no verdict without
\* them.
Return(c) ==
  /\ pc = "main"
  /\ (\E s \in tool.needs : stream[s] = "absent") => c = NonVerdict
  /\ meant' = c /\ code' = c /\ pc' = "out"
  /\ UNCHANGED <<tool, stream, pending, lost, diverted, status>>

Settle(escapes) ==
  IF escapes THEN code' = Uncaught /\ pc' = "exit" ELSE code' = NonVerdict /\ pc' = "out"

\* Mutant of Report: the diagnostic is written outside its try.
ReportUnguarded ==
  /\ pc = "report"
  /\ \E raises \in BOOLEAN : Write(tool.report, raises) /\ Settle(raises)
  /\ UNCHANGED <<tool, stream, lost, meant, status>>

\* Mutant of Report: the diagnostic is printed without looking for a stderr.
ReportAnywhere ==
  /\ pc = "report"
  /\ \E raises \in BOOLEAN : Complain(raises) /\ Settle(raises /\ ~tool.guarded)
  /\ UNCHANGED <<tool, stream, lost, meant, status>>

\* `except BaseException`: report the fault and seal to 2.  A report that raises
\* in turn leaves `__main__` when nothing guards it.
Report ==
  /\ pc = "report"
  /\ \E raises \in BOOLEAN :
       Write(tool.report, raises) /\ Settle(raises /\ ~tool.guarded)
  /\ UNCHANGED <<tool, stream, lost, meant, status>>

\* Mutant of SealStream: a failed flush leaves the code alone.
SealKeepingCode(s) ==
  LET broken == stream[s] = "dead" /\ pending[s]
  IN  /\ pc = s
      /\ pending' = [pending EXCEPT ![s] = FALSE]
      /\ lost' = [lost EXCEPT ![s] = @ \/ broken]
      /\ pc' = IF s = "out" THEN "err" ELSE "exit"
      /\ UNCHANGED <<tool, stream, diverted, meant, code, status>>

\* Mutant of SealStream: the descriptor is not pointed at /dev/null, so the
\* buffer still holds its bytes at shutdown.
SealWithoutMuting(s) ==
  LET broken == stream[s] = "dead" /\ pending[s]
  IN  /\ pc = s
      /\ code' = IF broken /\ code \in tool.downgraded[s] THEN NonVerdict ELSE code
      /\ pending' = [pending EXCEPT ![s] = broken]
      /\ lost' = [lost EXCEPT ![s] = @ \/ broken]
      /\ pc' = IF s = "out" THEN "err" ELSE "exit"
      /\ UNCHANGED <<tool, stream, diverted, meant, status>>

\* One turn of the sealing loop.  A flush that fails costs a verdict its code,
\* and the descriptor is pointed at /dev/null so that shutdown can flush.
SealStream(s) ==
  LET broken == stream[s] = "dead" /\ pending[s]
      missing == stream[s] = "absent" /\ code \in tool.required[s]
  IN  /\ pc = s
      /\ code' = IF missing \/ (broken /\ code \in tool.downgraded[s]) THEN NonVerdict ELSE code
      /\ pending' = [pending EXCEPT ![s] = FALSE]
      /\ lost' = [lost EXCEPT ![s] = @ \/ broken]
      /\ pc' = IF s = "out" THEN "err" ELSE "exit"
      /\ UNCHANGED <<tool, stream, diverted, meant, status>>

\* Py_FinalizeEx flushes the standard streams once more.
Exit ==
  LET stuck(s) == stream[s] = "dead" /\ pending[s]
  IN  /\ pc = "exit"
      /\ status' = IF \E s \in Streams : stuck(s) THEN Shutdown ELSE code
      /\ lost' = [s \in Streams |-> lost[s] \/ stuck(s)]
      /\ pending' = [s \in Streams |-> FALSE]
      /\ pc' = "done"
      /\ UNCHANGED <<tool, stream, diverted, meant, code>>

Program == \/ PrintOut \/ PrintErr \/ Fault \/ Interrupt
           \/ \E c \in Verdicts : Return(c)
           \/ Report \/ (\E s \in Streams : SealStream(s)) \/ Exit

Next == Program \/ \E s \in Streams : ReaderLeaves(s)

Spec == Init /\ [][Next]_vars

-----------------------------------------------------------------------------
TypeOK ==
  /\ tool \in Tools
  /\ pc \in {"main", "report", "out", "err", "exit", "done"}
  /\ stream \in [Streams -> {"live", "dead", "absent"}]
  /\ pending \in [Streams -> BOOLEAN] /\ lost \in [Streams -> BOOLEAN]
  /\ diverted \in BOOLEAN
  /\ meant \in Verdicts \cup {Unset}
  /\ code \in Verdicts \cup {Unset, tool.interrupt}
  /\ status \in Verdicts \cup {Unset, tool.interrupt, Shutdown}

\* The exit code survives the interpreter: it is what main returned, the
\* non-verdict code, or the code the tool gives an interrupt; never 120, and
\* never a 1 that no main meant.
ExitCodeIsTheTools ==
  pc = "done" => status \in {meant, NonVerdict, tool.interrupt} \ {Unset}

\* A clean verdict or a breach is only ever answered with its report delivered,
\* and with every diagnostic delivered by the tools that do not let them go.
VerdictWasDelivered ==
  pc = "done" /\ status \in {0, 1} =>
    ~lost["out"] /\ (tool.diag # "quiet" => ~lost["err"])

\* A tool that looks for its stderr never writes a diagnostic among its results,
\* and one that looks for its stdout never answers a verdict that nobody could
\* have read.
ResultsStayInLane ==
  /\ tool.diag # "plain" /\ tool.report # "plain" => ~diverted
  /\ "out" \in tool.needs \/ {0, 1} \subseteq tool.required["out"] =>
       (pc = "done" /\ status \in {0, 1} => stream["out"] # "absent")

-----------------------------------------------------------------------------
\* The tools of the pack, by whether the report of a fault is guarded itself.
GuardedTools ==
  {VerifyRelease, ValidateIsland, CheckExcusals, CheckDestination, CheckGraph, FenceCheck,
   StabilityCheck, ZoneLint, Inventory, ReadonlyProbe, SelfTestReadonlyProbe,
   SelfTestValidateIsland, MarginLedger, StrategicShare, CostTrend, CouplingBudget,
   DensityCap, RuleInventory, MetricRegister, ReviewRecord, ErrorPaths, SecretManifest,
   PilotGate, GherkinGate, LeakScan, AssertlessScan, FleetCost, PlanDecay, Ratchet,
   TestNameLint, InterfaceCommentLint, SurfaceCheck, CrapScore, ToolchainCheck,
   CohesionRead, TornadoScan, SelfTestLinkCheck, SelfTestVerifyRelease}
UnguardedTools == {VerifyProofs, ClosedStreamCheck, LinkCheck, LaneCheck, LoadLedger}

=============================================================================
