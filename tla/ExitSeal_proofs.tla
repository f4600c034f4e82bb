---------------------------- MODULE ExitSeal_proofs ----------------------------
(***************************************************************************)
(* The exit seal for every profile an epilogue can have.  What a theorem   *)
(* asks of the profiles is said as a predicate of one profile, and the     *)
(* last section shows which tools of the pack satisfy it.                  *)
(***************************************************************************)
EXTENDS ExitSeal, TLAPS

USE ToolsAssumption

\* The report of a fault is written in a try, and an interrupt has a code that
\* is neither a verdict's nor none.
Guards(t) == t.guarded /\ t.interrupt \notin {0, 1, Unset}

\* Results that did not get out cost a clean verdict or a breach its code, and so
\* do diagnostics, unless the tool lets those go.
Downgrades(t) ==
  {0, 1} \subseteq t.downgraded["out"] /\ (t.diag # "quiet" => {0, 1} \subseteq t.downgraded["err"])

Heeds(t) == "out" \in t.needs \/ {0, 1} \subseteq t.required["out"]

-----------------------------------------------------------------------------
(* The inductive invariant. *)

\* Until main is left there is no code; what is left in a buffer and what was
\* thrown away follow the seal from stream to stream.
FlowInv ==
  /\ pc \in {"main", "report"} => meant = Unset /\ code = Unset
  /\ pc # "done" => status = Unset
  /\ pc \in {"main", "report", "out"} => ~lost["out"]
  /\ pc \in {"main", "report", "out", "err"} => ~lost["err"]
  /\ pc = "err" => ~pending["out"]
  /\ Guards(tool) /\ pc \in {"exit", "done"} => \A s \in Streams : ~pending[s]

\* From main's end to the parent the code is the tool's own.
CodeInv ==
  Guards(tool) =>
    /\ pc \in {"out", "err", "exit"} => code \in {meant, NonVerdict, tool.interrupt} \ {Unset}
    /\ pc = "done" => status \in {meant, NonVerdict, tool.interrupt} \ {Unset}

\* Past a stream that could not be flushed there is no verdict left.
LostInv ==
  Downgrades(tool) =>
    /\ pc \in {"err", "exit"} /\ code \in {0, 1} => ~lost["out"]
    /\ pc = "exit" /\ code \in {0, 1} /\ tool.diag # "quiet" => ~lost["err"]
    /\ pc = "done" /\ status \in {0, 1} =>
         ~lost["out"] /\ (tool.diag # "quiet" => ~lost["err"])

\* A diagnostic written in another lane, and a verdict nobody could have read.
LaneInv ==
  /\ tool.diag # "plain" /\ tool.report # "plain" => ~diverted
  /\ Guards(tool) /\ stream["out"] = "absent" =>
       /\ "out" \in tool.needs => (pc \in {"out", "err", "exit"} => code \notin {0, 1})
       /\ {0, 1} \subseteq tool.required["out"] => (pc \in {"err", "exit"} => code \notin {0, 1})
       /\ Heeds(tool) => (pc = "done" => status \notin {0, 1})

SealInv == TypeOK /\ FlowInv /\ CodeInv /\ LostInv /\ LaneInv

\* What a profile's fields are.
LEMMA ToolFields ==
  ASSUME TypeOK
  PROVE  /\ tool \in Profile /\ tool.guarded \in BOOLEAN
         /\ tool.downgraded \in [Streams -> SUBSET Verdicts]
         /\ tool.required \in [Streams -> SUBSET Verdicts]
         /\ tool.needs \subseteq Streams
         /\ tool.diag \in Writing /\ tool.report \in Writing
         /\ tool.interrupt \in Nat /\ tool.settles \in BOOLEAN /\ tool.reports \in BOOLEAN
<1>1. tool \in Profile
  BY DEF TypeOK
<1> QED
  BY <1>1 DEF Profile

\* A write touches the buffers and whether a diagnostic changed lanes, which it
\* does only when it is a plain one.
LEMMA WriteMoves ==
  ASSUME TypeOK, NEW manner \in Writing, NEW raises \in BOOLEAN, Write(manner, raises)
  PROVE  /\ pending' \in [Streams -> BOOLEAN] /\ diverted' \in BOOLEAN
         /\ manner # "plain" => diverted' = diverted
<1>1. "out" \in Streams /\ "err" \in Streams /\ pending \in [Streams -> BOOLEAN]
      /\ stream \in [Streams -> {"live", "dead", "absent"}] /\ diverted \in BOOLEAN
  BY DEF TypeOK, Streams
<1>2. ASSUME Buffer(raises)
      PROVE  pending' \in [Streams -> BOOLEAN]
  BY <1>1, <1>2 DEF Buffer
<1>3. ASSUME Complain(raises)
      PROVE  pending' \in [Streams -> BOOLEAN] /\ diverted' \in BOOLEAN
             /\ (stream["err"] # "absent" => diverted' = diverted)
  BY <1>1, <1>2, <1>3 DEF Complain
<1>4. CASE stream["err"] = "absent" /\ manner \in {"loud", "quiet", "trace"}
  BY <1>1, <1>4 DEF Write
<1>5. CASE manner = "quiet" /\ stream["err"] # "absent"
  <2>1. /\ diverted' = diverted
        /\ \/ pending' = pending
           \/ pending' = [pending EXCEPT !["err"] = @ \/ stream["err"] = "dead"]
    BY <1>5 DEF Write
  <2> QED
    BY <1>1, <2>1
<1>6. CASE ~(stream["err"] = "absent" /\ manner \in {"loud", "quiet", "trace"})
           /\ ~(manner = "quiet" /\ stream["err"] # "absent")
  <2>1. Complain(raises)
    BY <1>6 DEF Write
  <2>2. manner # "plain" => stream["err"] # "absent"
    BY <1>6 DEF Writing
  <2> QED
    BY <1>3, <2>1, <2>2
<1> QED
  BY <1>4, <1>5, <1>6

\* Before main runs nothing has been printed, lost or decided.
LEMMA SealStarts ==
  ASSUME Init
  PROVE  SealInv
<1> USE DEF Init, Streams
<1>1. TypeOK
  BY DEF TypeOK
<1>2. FlowInv /\ CodeInv /\ LostInv /\ LaneInv
  BY DEF FlowInv, CodeInv, LostInv, LaneInv
<1> QED
  BY <1>1, <1>2 DEF SealInv

\* A reader who leaves changes nothing that was decided or promised.
LEMMA LeavingKeeps ==
  ASSUME SealInv, NEW s \in Streams, ReaderLeaves(s)
  PROVE  SealInv'
<1>1. /\ stream' = [stream EXCEPT ![s] = "dead"] /\ stream[s] = "live"
      /\ UNCHANGED <<tool, pc, pending, lost, diverted, meant, code, status>>
  BY DEF ReaderLeaves
<1>2. TypeOK'
  BY <1>1 DEF SealInv, TypeOK
<1>3. stream'["out"] = "absent" => stream["out"] = "absent"
  BY <1>1 DEF SealInv, TypeOK, Streams
<1>4. FlowInv' /\ CodeInv' /\ LostInv'
  BY <1>1 DEF SealInv, FlowInv, CodeInv, LostInv
<1>5. LaneInv'
  BY <1>1, <1>3 DEF SealInv, LaneInv
<1> QED
  BY <1>2, <1>4, <1>5 DEF SealInv

\* A step of main before its end: it prints, it faults or it is interrupted.
LEMMA MainKeeps ==
  ASSUME SealInv, PrintOut \/ PrintErr \/ Fault \/ Interrupt
  PROVE  SealInv'
<1> USE DEF SealInv
<1>1. pc = "main" /\ UNCHANGED <<tool, stream, lost, meant, status>>
      /\ meant = Unset /\ code = Unset /\ status = Unset /\ ~lost["out"] /\ ~lost["err"]
  BY DEF PrintOut, PrintErr, Fault, Interrupt, FlowInv
<1>2. \/ pc' = pc /\ code' = code
      \/ pc' = "report" /\ code' = code
      \/ pc' = "out" /\ code' \in {NonVerdict, tool.interrupt}
  BY DEF PrintOut, PrintErr, Fault, Interrupt, Broken, Raise
<1>3. /\ pending' \in [Streams -> BOOLEAN] /\ diverted' \in BOOLEAN
      /\ tool.diag # "plain" => diverted' = diverted
  <2>1. CASE PrintOut
    BY <2>1 DEF PrintOut, Buffer, TypeOK
  <2>2. CASE PrintErr
    BY <2>2, ToolFields, WriteMoves DEF PrintErr
  <2>3. CASE Fault \/ Interrupt
    BY <2>3 DEF Fault, Interrupt, TypeOK
  <2> QED
    BY <2>1, <2>2, <2>3
<1>4. TypeOK'
  BY <1>1, <1>2, <1>3 DEF TypeOK, NonVerdict, Verdicts
<1>5. FlowInv'
  BY <1>1, <1>2 DEF FlowInv
<1>6. CodeInv'
  BY <1>1, <1>2 DEF CodeInv, Guards, NonVerdict, Unset
<1>7. LostInv'
  BY <1>1, <1>2 DEF LostInv
<1>8. LaneInv'
  BY <1>1, <1>2, <1>3 DEF LaneInv, Guards, NonVerdict, Unset
<1> QED
  BY <1>4, <1>5, <1>6, <1>7, <1>8

\* main returns.
LEMMA ReturnKeeps ==
  ASSUME SealInv, NEW c \in Verdicts, Return(c)
  PROVE  SealInv'
<1> USE DEF SealInv
<1>1. /\ pc = "main" /\ pc' = "out" /\ meant' = c /\ code' = c
      /\ (\E s \in tool.needs : stream[s] = "absent") => c = NonVerdict
      /\ UNCHANGED <<tool, stream, pending, lost, diverted, status>>
      /\ status = Unset /\ ~lost["out"] /\ ~lost["err"]
  BY DEF Return, FlowInv
<1>2. c # Unset
  BY DEF Verdicts, Unset
<1>3. TypeOK'
  BY <1>1 DEF TypeOK
<1>4. FlowInv' /\ CodeInv' /\ LostInv'
  BY <1>1, <1>2 DEF FlowInv, CodeInv, LostInv
<1>5. LaneInv'
  BY <1>1 DEF LaneInv, NonVerdict
<1> QED
  BY <1>3, <1>4, <1>5

\* The fault is reported, whether or not that write raises in turn.
LEMMA ReportKeeps ==
  ASSUME SealInv, Report
  PROVE  SealInv'
<1> USE DEF SealInv
<1>1. PICK raises \in BOOLEAN : Write(tool.report, raises) /\ Settle(raises /\ ~tool.guarded)
  BY DEF Report
<1>2. pc = "report" /\ UNCHANGED <<tool, stream, lost, meant, status>>
      /\ meant = Unset /\ status = Unset /\ ~lost["out"] /\ ~lost["err"]
  BY DEF Report, FlowInv
<1>3. \/ code' = Uncaught /\ pc' = "exit" /\ ~tool.guarded
      \/ code' = NonVerdict /\ pc' = "out"
  BY <1>1 DEF Settle
<1>4. /\ pending' \in [Streams -> BOOLEAN] /\ diverted' \in BOOLEAN
      /\ tool.report # "plain" => diverted' = diverted
  BY <1>1, ToolFields, WriteMoves
<1>5. TypeOK'
  BY <1>2, <1>3, <1>4 DEF TypeOK, NonVerdict, Uncaught, Verdicts
<1>6. FlowInv'
  BY <1>2, <1>3 DEF FlowInv, Guards
<1>7. CodeInv' /\ LostInv'
  BY <1>2, <1>3 DEF CodeInv, LostInv, Guards, NonVerdict, Unset
<1>8. LaneInv'
  BY <1>2, <1>3, <1>4 DEF LaneInv, Guards, NonVerdict
<1> QED
  BY <1>5, <1>6, <1>7, <1>8

\* One turn of the sealing loop.
LEMMA SealKeeps ==
  ASSUME SealInv, NEW s \in Streams, SealStream(s)
  PROVE  SealInv'
<1> USE DEF SealInv
<1> DEFINE broken == stream[s] = "dead" /\ pending[s]
           missing == stream[s] = "absent" /\ code \in tool.required[s]
<1>1. /\ pc = s /\ s \in {"out", "err"}
      /\ code' = IF missing \/ (broken /\ code \in tool.downgraded[s]) THEN NonVerdict ELSE code
      /\ pending' = [pending EXCEPT ![s] = FALSE]
      /\ lost' = [lost EXCEPT ![s] = @ \/ broken]
      /\ pc' = IF s = "out" THEN "err" ELSE "exit"
      /\ UNCHANGED <<tool, stream, diverted, meant, status>>
  BY DEF SealStream, Streams
<1>2. pending \in [Streams -> BOOLEAN] /\ lost \in [Streams -> BOOLEAN] /\ broken \in BOOLEAN
      /\ Streams = {"out", "err"} /\ status = Unset
  BY <1>1 DEF TypeOK, Streams, FlowInv
<1>3. code' = code \/ code' = NonVerdict
  BY <1>1
<1>4. TypeOK'
  BY <1>1, <1>2, <1>3 DEF TypeOK, NonVerdict, Verdicts
<1>5. /\ pending'[s] = FALSE /\ lost'[s] = (lost[s] \/ broken)
      /\ \A r \in Streams : r # s => pending'[r] = pending[r] /\ lost'[r] = lost[r]
  BY <1>1, <1>2
<1>6. code' \in {0, 1} => code' = code /\ code \in {0, 1} /\ ~missing
                          /\ ({0, 1} \subseteq tool.downgraded[s] => ~broken)
  BY <1>1 DEF NonVerdict
<1> HIDE DEF broken
<1>7. FlowInv'
  BY <1>1, <1>2, <1>5 DEF FlowInv
<1>8. CodeInv'
  BY <1>1, <1>3 DEF CodeInv, NonVerdict, Unset
<1>9. LostInv'
  <2>1. CASE s = "out"
    BY <1>1, <1>2, <1>5, <1>6, <2>1 DEF LostInv, FlowInv, Downgrades
  <2>2. CASE s = "err"
    BY <1>1, <1>2, <1>5, <1>6, <2>2 DEF LostInv, FlowInv, Downgrades
  <2> QED
    BY <1>1, <2>1, <2>2
<1>10. LaneInv'
  BY <1>1, <1>6 DEF LaneInv
<1> QED
  BY <1>4, <1>7, <1>8, <1>9, <1>10

\* The interpreter's own flush finds nothing of a guarded tool's in a dead stream.
LEMMA ExitKeeps ==
  ASSUME SealInv, Exit
  PROVE  SealInv'
<1> USE DEF SealInv
<1> DEFINE stuck(s) == stream[s] = "dead" /\ pending[s]
           anyStuck == \E s \in Streams : stuck(s)
<1>1. /\ pc = "exit" /\ pc' = "done"
      /\ status' = IF anyStuck THEN Shutdown ELSE code
      /\ lost' = [s \in Streams |-> lost[s] \/ stuck(s)]
      /\ pending' = [s \in Streams |-> FALSE]
      /\ UNCHANGED <<tool, stream, diverted, meant, code>>
  BY DEF Exit
<1>2. lost \in [Streams -> BOOLEAN] /\ pending \in [Streams -> BOOLEAN]
  BY DEF TypeOK
<1>3. lost' \in [Streams -> BOOLEAN] /\ pending' \in [Streams -> BOOLEAN]
      /\ \A s \in Streams : pending'[s] = FALSE /\ (~anyStuck => lost'[s] = lost[s])
  BY <1>1, <1>2
<1>4. status' = code \/ status' = Shutdown
  BY <1>1
<1>5. TypeOK'
  BY <1>1, <1>3, <1>4 DEF TypeOK
<1>6. Guards(tool) => ~anyStuck
  BY <1>1 DEF FlowInv
<1>7. status' \in {0, 1} => ~anyStuck /\ status' = code
  BY <1>1 DEF Shutdown
<1> HIDE DEF anyStuck
<1>8. FlowInv'
  BY <1>1, <1>3 DEF FlowInv
<1>9. CodeInv'
  BY <1>1, <1>6 DEF CodeInv
<1>10. LostInv'
  <2>1. "out" \in Streams /\ "err" \in Streams
    BY DEF Streams
  <2> QED
    BY <1>1, <1>3, <1>7, <2>1 DEF LostInv
<1>11. LaneInv'
  BY <1>1, <1>7 DEF LaneInv, Heeds
<1> QED
  BY <1>5, <1>8, <1>9, <1>10, <1>11

\* Every step keeps the invariant, wherever in main the readers leave.
LEMMA SealNext ==
  ASSUME SealInv, [Next]_vars
  PROVE  SealInv'
<1>1. CASE UNCHANGED vars
  <2>1. UNCHANGED <<tool, pc, stream, pending, lost, diverted, meant, code, status>>
    BY <1>1 DEF vars
  <2> QED
    BY <2>1 DEF SealInv, TypeOK, FlowInv, CodeInv, LostInv, LaneInv
<1>2. CASE Next
  BY <1>2, LeavingKeeps, MainKeeps, ReturnKeeps, ReportKeeps, SealKeeps, ExitKeeps
     DEF Next, Program
<1> QED
  BY <1>1, <1>2

-----------------------------------------------------------------------------
(* The theorems, for every set of profiles. *)

\* Every reachable state satisfies the inductive invariant.
THEOREM Sealed == Spec => []SealInv
<1>1. Init => SealInv
  BY SealStarts
<1>2. SealInv /\ [Next]_vars => SealInv'
  BY SealNext
<1> QED
  BY <1>1, <1>2, PTL DEF Spec

\* A tool's exit code is one of its own or, at worst, the interpreter's 120.
THEOREM SealTypeCorrect == Spec => []TypeOK
<1>1. SealInv => TypeOK
  BY DEF SealInv
<1> QED
  BY <1>1, Sealed, PTL

\* A tool that guards its report exits with what its main returned, 2, or the code
\* it gives an interrupt, whatever its readers do.
THEOREM CodeSurvives ==
  ASSUME \A t \in Tools : Guards(t)
  PROVE  Spec => []ExitCodeIsTheTools
<1>1. SealInv => ExitCodeIsTheTools
  BY DEF SealInv, TypeOK, CodeInv, ExitCodeIsTheTools
<1> QED
  BY <1>1, Sealed, PTL

\* A tool that downgrades its verdicts gives none whose report was lost.
THEOREM VerdictDelivered ==
  ASSUME \A t \in Tools : Downgrades(t)
  PROVE  Spec => []VerdictWasDelivered
<1>1. SealInv => VerdictWasDelivered
  BY DEF SealInv, TypeOK, LostInv, VerdictWasDelivered
<1> QED
  BY <1>1, Sealed, PTL

\* A guarded tool keeps its diagnostics out of its results when it looks for its
\* stderr, and gives no verdict without a stdout when it looks for that.
THEOREM LanesKept ==
  ASSUME \A t \in Tools : Guards(t)
  PROVE  Spec => []ResultsStayInLane
<1>1. SealInv => ResultsStayInLane
  BY DEF SealInv, TypeOK, LaneInv, Heeds, ResultsStayInLane
<1> QED
  BY <1>1, Sealed, PTL

-----------------------------------------------------------------------------
(* The tools of the pack. *)

\* What the epilogues that the others vary satisfy.
Base(t) ==
  /\ t \in Profile
  /\ t.interrupt \notin {0, 1, Unset}
  /\ {0, 1} \subseteq t.downgraded["out"] /\ {0, 1} \subseteq t.downgraded["err"]

\* The certifiers' own epilogue.
LEMMA CertifierProfile == Base(VerifyProofs) /\ ~VerifyProofs.guarded
  BY DEF Base, VerifyProofs, Profile, Each, Streams, Verdicts, Writing, Unset

\* The epilogues that differ from it in the guard, the interrupt, how a diagnostic
\* is written and which streams a verdict needs.
LEMMA CommonProfiles ==
  /\ Base(ValidateIsland) /\ ValidateIsland.guarded
  /\ Base(MarginLedger) /\ MarginLedger.guarded
  /\ Base(Reporting) /\ Reporting.guarded
  /\ Base(Heard) /\ Heard.guarded
  /\ Base(LaneCheck)
<1>1. Base(ValidateIsland) /\ ValidateIsland.guarded
  BY CertifierProfile DEF Base, ValidateIsland, Profile
<1>2. Base(MarginLedger) /\ MarginLedger.guarded
  BY <1>1 DEF Base, MarginLedger, Profile, Unset
<1>3. Base(Reporting) /\ Reporting.guarded
  BY <1>1 DEF Base, Reporting, Profile
<1>4. Base(Heard) /\ Heard.guarded
  BY <1>3 DEF Base, Heard, Profile, Streams
<1>5. Base(LaneCheck)
  BY CertifierProfile DEF Base, LaneCheck, Profile
<1> QED
  BY <1>1, <1>2, <1>3, <1>4, <1>5

Sealing(t) == Guards(t) /\ Downgrades(t)

\* The epilogues with a difference of their own.
LEMMA OwnProfiles ==
  /\ Sealing(VerifyRelease) /\ Sealing(SecretManifest) /\ Sealing(FleetCost)
  /\ Sealing(PlanDecay) /\ Sealing(Ratchet) /\ Sealing(TestNameLint)
  /\ Sealing(InterfaceCommentLint) /\ Sealing(SurfaceCheck) /\ Sealing(CrapScore)
  /\ Sealing(ToolchainCheck) /\ Sealing(CohesionRead) /\ Sealing(TornadoScan)
  /\ Sealing(SelfTestLinkCheck) /\ Sealing(SelfTestVerifyRelease)
<1> USE CertifierProfile, CommonProfiles
        DEF Base, Sealing, Guards, Downgrades, Profile, Each, Of, Streams, Unset
<1>1. Sealing(VerifyRelease)
  BY DEF VerifyRelease, Verdicts
<1>2. Sealing(SecretManifest) /\ Sealing(FleetCost)
  BY DEF SecretManifest, FleetCost
<1>3. Sealing(PlanDecay) /\ Sealing(Ratchet) /\ Sealing(TestNameLint)
  BY DEF PlanDecay, Ratchet, TestNameLint
<1>4. Sealing(InterfaceCommentLint)
  BY DEF InterfaceCommentLint
<1>5. Sealing(SurfaceCheck) /\ Sealing(CrapScore) /\ Sealing(ToolchainCheck)
  BY DEF SurfaceCheck, CrapScore, ToolchainCheck
<1>6. Sealing(CohesionRead)
  BY DEF CohesionRead
<1>7. Sealing(TornadoScan)
  BY DEF TornadoScan, CohesionRead, Verdicts
<1>8. Sealing(SelfTestLinkCheck) /\ Sealing(SelfTestVerifyRelease)
  BY DEF SelfTestLinkCheck, SelfTestVerifyRelease, Verdicts
<1> QED
  BY <1>1, <1>2, <1>3, <1>4, <1>5, <1>6, <1>7, <1>8

\* So the thirty-eight tools that guard their report seal their codes and their
\* results, and the five that do not still give no verdict whose report was lost.
LEMMA PackProfiles ==
  /\ \A t \in GuardedTools : Guards(t) /\ Downgrades(t)
  /\ \A t \in UnguardedTools : Downgrades(t)
<1>1. Sealing(ValidateIsland) /\ Sealing(MarginLedger) /\ Sealing(Reporting) /\ Sealing(Heard)
  BY CommonProfiles DEF Base, Sealing, Guards, Downgrades
<1>2. \A t \in GuardedTools : Sealing(t)
  BY <1>1, OwnProfiles
     DEF GuardedTools, CheckExcusals, CheckDestination, CheckGraph, FenceCheck, StabilityCheck,
         ZoneLint, Inventory, ReadonlyProbe, SelfTestReadonlyProbe, SelfTestValidateIsland,
         StrategicShare, CostTrend, CouplingBudget, DensityCap, RuleInventory, MetricRegister,
         ReviewRecord, ErrorPaths, PilotGate, GherkinGate, LeakScan, AssertlessScan
<1>3. Downgrades(VerifyProofs) /\ Downgrades(LaneCheck)
  BY CertifierProfile, CommonProfiles DEF Base, Downgrades
<1>4. Downgrades(LoadLedger)
  BY CommonProfiles DEF Base, Downgrades, LoadLedger
<1> QED
  BY <1>2, <1>3, <1>4 DEF Sealing, UnguardedTools, ClosedStreamCheck, LinkCheck

\* Of every tool of the pack: a verdict whose report was lost reaches no parent.
THEOREM PackDelivers ==
  ASSUME Tools \subseteq GuardedTools \cup UnguardedTools
  PROVE  Spec => []VerdictWasDelivered
<1>1. \A t \in Tools : Downgrades(t)
  BY PackProfiles
<1> QED
  BY <1>1, VerdictDelivered

\* Of the tools that guard their report: the code is theirs and the results stay
\* in their lane.
THEOREM PackSeals ==
  ASSUME Tools \subseteq GuardedTools
  PROVE  Spec => []ExitCodeIsTheTools /\ []ResultsStayInLane
<1>1. \A t \in Tools : Guards(t)
  BY PackProfiles
<1> QED
  BY <1>1, CodeSurvives, LanesKept, PTL

=============================================================================
