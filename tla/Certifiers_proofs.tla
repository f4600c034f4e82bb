--------------------------- MODULE Certifiers_proofs ---------------------------
(***************************************************************************)
(* closed-stream-check on every document and against every answer of a     *)
(* gate with a dead stream, and its agreement with verify-proofs: what     *)
(* each of them makes of an item is a function of the block and the place, *)
(* and the two functions fit together.                                     *)
(***************************************************************************)
EXTENDS Certifiers, FiniteSetTheorems, SequenceTheorems, TLAPS

USE NoCodeAssumption, SentinelAssumption

-----------------------------------------------------------------------------
(* What is proved of verify-proofs.py, over its own walk and over the walk of
   closed-stream-check.py, which imports its generator. *)

VP == INSTANCE ProofVerify_proofs
        WITH blk <- vblk, row <- vrow, setup <- vsetup, gap <- vgap, out <- vout,
             n <- vn, log <- vlog, exit <- vexit

WP == INSTANCE ProofVerify_proofs WITH n <- vn, log <- vlog, exit <- vexit

\* What verify-proofs asks of its constants holds here.
LEMMA VerifyAssumptions ==
  /\ Timeout \notin Codes \cup {NoCode, Refuse}
  /\ Documents \subseteq Seq(Seq(VP!Row)) /\ Documents \subseteq Seq(Seq(WP!Row))
  /\ \A d \in Documents : \A b \in 1..Len(d) : \A i \in 1..Len(d[b]) :
       VP!WellFormed(d[b][i]) /\ WP!WellFormed(d[b][i])
  /\ NoItem \notin VP!Item /\ NoItem \notin WP!Item
<1>1. Timeout \notin Codes \cup {NoCode, Refuse}
  BY BothTimeoutAssumption, TimeoutAssumption
<1>2. VP!Row = Row /\ WP!Row = Row
  BY DEF VP!Row, WP!Row, Row, VP!Kinds, WP!Kinds, Kinds
<1>3. \A r : VP!WellFormed(r) = WellFormed(r) /\ WP!WellFormed(r) = WellFormed(r)
  BY DEF VP!WellFormed, WP!WellFormed, WellFormed, VP!Command, WP!Command, Command
<1>4. VP!Item = Item /\ WP!Item = Item
  BY DEF VP!Item, WP!Item, Item, VP!Place, WP!Place, Place,
         VP!Expected, WP!Expected, Expected, VP!Causes, WP!Causes, Causes
<1> QED
  BY <1>1, <1>2, <1>3, <1>4, DocumentsAssumption, NoItemAssumption

\* The two read a block alike.
LEMMA SameRows ==
  /\ \A b, i : /\ VP!Joined(b, i) = Joined(b, i) /\ VP!ExpectedCode(b, i) = ExpectedCode(b, i)
               /\ WP!Joined(b, i) = Joined(b, i) /\ WP!ExpectedCode(b, i) = ExpectedCode(b, i)
               /\ WP!JoinEnd(b, i) = JoinEnd(b, i)
  /\ \A r : /\ VP!Active(r) = Active(r) /\ VP!CommandShaped(r) = CommandShaped(r)
            /\ WP!Active(r) = Active(r) /\ WP!CommandShaped(r) = CommandShaped(r)
  /\ \A b, j : VP!Swallowed(b, j) = Swallowed(b, j) /\ WP!Swallowed(b, j) = Swallowed(b, j)
<1>1. \A b, i : VP!JoinEnd(b, i) = JoinEnd(b, i) /\ WP!JoinEnd(b, i) = JoinEnd(b, i)
  BY DEF VP!JoinEnd, WP!JoinEnd, JoinEnd
<1>2. \A b, i : VP!Joined(b, i) = Joined(b, i)
  BY <1>1 DEF VP!Joined, Joined, VP!Join, Join, VP!Some, Some, VP!Every, Every
<1>3. \A b, i : WP!Joined(b, i) = Joined(b, i)
  BY <1>1 DEF WP!Joined, Joined, WP!Join, Join, WP!Some, Some, WP!Every, Every
<1>4. \A r : VP!CommandShaped(r) = CommandShaped(r) /\ WP!CommandShaped(r) = CommandShaped(r)
  BY DEF VP!CommandShaped, WP!CommandShaped, CommandShaped, VP!Command, WP!Command, Command
<1>5. \A r : VP!Active(r) = Active(r) /\ WP!Active(r) = Active(r)
  BY <1>4 DEF VP!Active, WP!Active, Active
<1>6. \A b, e : VP!StopRow(b, e) = StopRow(b, e) /\ WP!StopRow(b, e) = StopRow(b, e)
  BY DEF VP!StopRow, WP!StopRow, StopRow, VP!Passes, WP!Passes, Passes
<1>7. \A b, i : VP!ExpectedCode(b, i) = ExpectedCode(b, i)
  BY <1>1, <1>2, <1>6 DEF VP!ExpectedCode, ExpectedCode, VP!ReportedCode, ReportedCode
<1>8. \A b, i : WP!ExpectedCode(b, i) = ExpectedCode(b, i)
  BY <1>1, <1>3, <1>6 DEF WP!ExpectedCode, ExpectedCode, WP!ReportedCode, ReportedCode
<1>9. \A b, j : VP!Swallowed(b, j) = Swallowed(b, j) /\ WP!Swallowed(b, j) = Swallowed(b, j)
  BY <1>5 DEF VP!Swallowed, WP!Swallowed, Swallowed
<1> QED
  BY <1>1, <1>2, <1>3, <1>4, <1>5, <1>7, <1>8, <1>9

\* So what a row asks for is the same for both.
LEMMA SameYields ==
  /\ \A b, j : /\ VP!Yields(b, j) = Yields(b, j) /\ VP!Replayed(b, j) = Replayed(b, j)
               /\ VP!SlotCode(b, j) = SlotCode(b, j)
               /\ WP!Yields(b, j) = Yields(b, j) /\ WP!Replayed(b, j) = Replayed(b, j)
               /\ WP!SlotCode(b, j) = SlotCode(b, j)
  /\ \A b, j, c : VP!Breaks(b, j, c) = Breaks(b, j, c) /\ WP!Breaks(b, j, c) = Breaks(b, j, c)
<1>1. \A b, j : VP!Stands(b, j) = Stands(b, j) /\ WP!Stands(b, j) = Stands(b, j)
  BY SameRows DEF VP!Stands, WP!Stands, Stands
<1>2. \A b, j : VP!Fixture(b, j) = Fixture(b, j) /\ WP!Fixture(b, j) = Fixture(b, j)
  BY SameRows DEF VP!Fixture, WP!Fixture, Fixture
<1>3. \A b, j : /\ VP!Yields(b, j) = Yields(b, j) /\ VP!Replayed(b, j) = Replayed(b, j)
                /\ VP!SlotCode(b, j) = SlotCode(b, j)
  BY <1>1, <1>2, SameRows DEF VP!Yields, Yields, VP!Replayed, Replayed, VP!SlotCode, SlotCode
<1>4. \A b, j : /\ WP!Yields(b, j) = Yields(b, j) /\ WP!Replayed(b, j) = Replayed(b, j)
                /\ WP!SlotCode(b, j) = SlotCode(b, j)
  BY <1>1, <1>2, SameRows DEF WP!Yields, Yields, WP!Replayed, Replayed, WP!SlotCode, SlotCode
<1>5. \A b, j, c : VP!Breaks(b, j, c) = Breaks(b, j, c)
  BY <1>1, <1>2, SameRows DEF VP!Breaks, Breaks
<1>6. \A b, j, c : WP!Breaks(b, j, c) = Breaks(b, j, c)
  BY <1>1, <1>2, SameRows DEF WP!Breaks, Breaks
<1> QED
  BY <1>3, <1>4, <1>5, <1>6

\* And so is what the document says of a place.
LEMMA SamePlaces ==
  /\ \A p : /\ VP!YieldedAt(p) = YieldedAt(p) /\ VP!CommandAt(p) = CommandAt(p)
            /\ VP!GapBefore(p) = GapBefore(p)
  /\ \A x : VP!Told(x) = Told(x) /\ VP!ForbiddenScript(x) = ForbiddenScript(x)
<1>1. \A p : VP!YieldedAt(p) = YieldedAt(p) /\ VP!CommandAt(p) = CommandAt(p)
  BY SameYields, SameRows DEF VP!YieldedAt, YieldedAt, VP!CommandAt, CommandAt
<1>2. \A p : VP!GapBefore(p) = GapBefore(p) /\ VP!ReplayedBefore(p) = ReplayedBefore(p)
  BY SameYields
     DEF VP!GapBefore, GapBefore, VP!ReplayedBefore, ReplayedBefore, VP!Causes, Causes
<1>3. \A x : VP!Told(x) = Told(x)
  BY <1>1, <1>2, SameYields
     DEF VP!Told, Told, VP!Replays, Replays, VP!Increasing, Increasing
<1>4. \A x : VP!ForbiddenScript(x) = ForbiddenScript(x)
  BY <1>1 DEF VP!ForbiddenScript, ForbiddenScript, VP!FoundInSetup, FoundInSetup
<1> QED
  BY <1>1, <1>2, <1>3, <1>4

\* The generator that closed-stream-check imports is the one verify-proofs runs.
LEMMA SameWalk ==
  /\ WP!Place = Place
  /\ \A s, p : WP!Replays(s, p) = Replays(s, p)
  /\ \A p : WP!YieldedAt(p) = YieldedAt(p) /\ WP!Passed(p) = Passed(p) /\ WP!Passed(p)' = Passed(p)'
  /\ WP!WalkInit = WalkInit /\ WP!Walk = Walk
  /\ WP!WalkTypeOK = WalkTypeOK /\ WP!WalkTypeOK' = WalkTypeOK'
  /\ WP!WalkInv = WalkInv /\ WP!WalkInv' = WalkInv'
<1>1. WP!Place = Place /\ WP!Causes = Causes
  BY DEF WP!Place, Place, WP!Causes, Causes
<1>2. WP!Item = Item
  BY <1>1 DEF WP!Item, Item, WP!Expected, Expected
<1>3. WP!Row = Row
  BY DEF WP!Row, Row, WP!Kinds, Kinds
<1>4. WP!WalkTypeOK = WalkTypeOK /\ WP!WalkTypeOK' = WalkTypeOK'
  BY <1>1, <1>2, <1>3 DEF WP!WalkTypeOK, WalkTypeOK
<1>5. /\ \A p : /\ WP!GapBefore(p) = GapBefore(p) /\ WP!GapBefore(p)' = GapBefore(p)'
                /\ WP!ReplayedBefore(p) = ReplayedBefore(p)
                /\ WP!ReplayedBefore(p)' = ReplayedBefore(p)'
                /\ WP!YieldedAt(p) = YieldedAt(p) /\ WP!YieldedAt(p)' = YieldedAt(p)'
                /\ WP!Passed(p) = Passed(p) /\ WP!Passed(p)' = Passed(p)'
  BY <1>1, SameYields DEF WP!GapBefore, GapBefore, WP!ReplayedBefore, ReplayedBefore,
                          WP!YieldedAt, YieldedAt, WP!Passed, Passed
<1>6. \A s, p : WP!Replays(s, p) = Replays(s, p) /\ WP!Replays(s, p)' = Replays(s, p)'
  BY <1>5 DEF WP!Replays, Replays, WP!Increasing, Increasing
<1>7. \A x : WP!Told(x) = Told(x) /\ WP!Told(x)' = Told(x)'
  BY <1>5, <1>6, SameYields DEF WP!Told, Told
<1>8. WP!WalkInv = WalkInv
  BY <1>5, <1>6, <1>7, SameRows DEF WP!WalkInv, WalkInv, WP!Here, Here
<1>9. WP!WalkInv' = WalkInv'
  BY <1>5, <1>6, <1>7, SameRows DEF WP!WalkInv, WalkInv, WP!Here, Here
<1>10. WP!This = This /\ WP!After = After /\ WP!Here = Here /\ WP!Walking = Walking
  BY SameRows DEF WP!This, This, WP!After, After, WP!Here, Here, WP!Walking, Walking
<1>11. WP!AtCommand = AtCommand /\ WP!BuildsFixture = BuildsFixture
  BY <1>10, SameRows DEF WP!AtCommand, AtCommand, WP!BuildsFixture, BuildsFixture
<1>12. /\ \A x : WP!Yield(x) = Yield(x) /\ WP!Gap(x) = Gap(x)
       /\ WP!Replay = Replay
  BY <1>10 DEF WP!Yield, Yield, WP!Gap, Gap, WP!Replay, Replay
<1>13. /\ WP!PassOver = PassOver /\ WP!SkipReport = SkipReport /\ WP!NextBlock = NextBlock
       /\ WP!RefuseState = RefuseState /\ WP!TakeExport = TakeExport
       /\ WP!TakeAssignment = TakeAssignment
  BY <1>10, <1>11, <1>12, SameRows
     DEF WP!PassOver, PassOver, WP!SkipReport, SkipReport, WP!NextBlock, NextBlock,
         WP!RefuseState, RefuseState, WP!TakeExport, TakeExport, WP!TakeAssignment, TakeAssignment
<1>14. WP!YieldFixture = YieldFixture /\ WP!YieldCandidate = YieldCandidate
  BY <1>10, <1>11, <1>12, SameRows
     DEF WP!YieldFixture, YieldFixture, WP!YieldCandidate, YieldCandidate
<1>15. WP!Walk = Walk
  BY <1>13, <1>14 DEF WP!Walk, Walk
<1>16. WP!WalkInit = WalkInit
  BY DEF WP!WalkInit, WalkInit
<1> QED
  BY <1>1, <1>4, <1>5, <1>6, <1>8, <1>9, <1>15, <1>16

\* The walk starts as its block says.
LEMMA WalkInitInv ==
  ASSUME WalkInit
  PROVE  WalkInv
  BY SameWalk, WP!WalkInitInv, VerifyAssumptions, SentinelAssumption, NoCodeAssumption

\* Each step of the walk keeps to what the block says, and passes no place that
\* yields without yielding it.
LEMMA WalkKeeps ==
  ASSUME WalkTypeOK, WalkInv, Walk
  PROVE  /\ WalkTypeOK' /\ WalkInv' /\ doc' = doc /\ out = NoItem
         /\ \A p \in Place : YieldedAt(p) /\ Passed(p)' => Passed(p) \/ (out' # NoItem /\ out'.at = p)
<1>1. WP!WalkTypeOK /\ WP!WalkInv /\ WP!Walk
  BY SameWalk
<1>2. WP!WalkInv' /\ WP!WalkTypeOK' /\ doc' = doc /\ out = NoItem
  BY <1>1, WP!WalkKeeps, WP!WalkType, WP!WalkMoves, VerifyAssumptions
<1>3. ASSUME NEW p \in WP!Place, WP!YieldedAt(p), WP!Passed(p)'
      PROVE  WP!Passed(p) \/ (out' # NoItem /\ out'.at = p)
  BY <1>1, <1>3, WP!WalkYields, VerifyAssumptions
<1> QED
  BY <1>2, <1>3, SameWalk

\* Whoever takes the waiting item leaves the walk as it is.
LEMMA TakingKeeps ==
  ASSUME WalkInv, UNCHANGED <<doc, blk, row, setup, gap>>, out' \in {out, NoItem}
  PROVE  WalkInv'
  BY SameWalk, WP!TakingKeeps, VerifyAssumptions

\* A place is replayed up to in one way.
LEMMA OneReplay ==
  ASSUME NEW s \in Seq(Place), NEW t \in Seq(Place), NEW p, Replays(s, p), Replays(t, p)
  PROVE  s = t
  BY SameWalk, WP!OneReplay, VerifyAssumptions

-----------------------------------------------------------------------------
(* closed-stream-check alone. *)

\* A proof closed-stream-check probes when its script holds no primitive.
ToProbe(x) == Candidate(x) /\ GapBefore(x.at) = {} /\ x.at \notin SelfProbes

\* An item was classified by what the block says of its place.
Sorted(e) ==
  /\ e.class = "refused" <=> e.expected = Refuse
  /\ e.class = "probed" <=> ToProbe(e) /\ ~ForbiddenScript(e)
  /\ e.class = "forbidden" <=> ToProbe(e) /\ ForbiddenScript(e)

Answered(p, s) == \E a \in answers : a.at = p /\ a.stream = s

\* A probe is on for a proof that is to be probed, one stream after the other.
ProbeInv ==
  /\ stream # 0 => out # NoItem /\ ToProbe(out) /\ ~ForbiddenScript(out)
  /\ stream = 2 => Answered(out.at, 1)
  /\ \A e \in log : e.class = "probed" => \A s \in {1, 2} : Answered(e.at, s)

\* The log tells of the places behind the walk, of every one that yields.
SweepInv ==
  /\ \A e \in log : Told(e) /\ Sorted(e)
  /\ \A p \in Place : YieldedAt(p) /\ Passed(p) =>
       (out # NoItem /\ out.at = p) \/ \E e \in log : e.at = p

\* A counter that is still at zero counted nothing.
CountersInv ==
  /\ n["leaks"] = 0 => \A a \in answers : a.rc = a.expected \/ a.rc = Seal
  /\ n["refused"] = 0 => \A e \in log : e.class \notin {"refused", "forbidden"}
  /\ n["refusalGapped"] = 0 => \A e \in log : e.class # "refusalGapped"
  /\ n["probed"] # 0 => answers # {}

ClosedInv == TypeOK /\ WalkInv /\ ProbeInv /\ SweepInv /\ CountersInv /\ CleanMeansEveryProbeHeld

\* The counters by name.
LEMMA Tallies ==
  /\ "probed" \in Counters /\ "leaks" \in Counters /\ "refused" \in Counters
  /\ "refusalGapped" \in Counters /\ "unsequenced" \in Counters
  /\ "ownProbes" \in Counters /\ "sealed" \in Counters
  BY DEF Counters

\* While the document stands, what it says of a place stands.
LEMMA BlockStands ==
  ASSUME doc' = doc
  PROVE  /\ \A p : /\ GapBefore(p)' = GapBefore(p) /\ YieldedAt(p)' = YieldedAt(p)
                   /\ CommandAt(p)' = CommandAt(p)
         /\ \A x : /\ Told(x)' = Told(x) /\ Sorted(x)' = Sorted(x)
                   /\ ToProbe(x)' = ToProbe(x) /\ ForbiddenScript(x)' = ForbiddenScript(x)
<1>1. \A p : /\ ReplayedBefore(p)' = ReplayedBefore(p) /\ GapBefore(p)' = GapBefore(p)
             /\ YieldedAt(p)' = YieldedAt(p) /\ CommandAt(p)' = CommandAt(p)
  BY DEF ReplayedBefore, GapBefore, YieldedAt, CommandAt
<1>2. \A s, p : Replays(s, p)' = Replays(s, p)
  BY <1>1 DEF Replays
<1>3. \A x : Told(x)' = Told(x)
  BY <1>1, <1>2 DEF Told
<1>4. \A x : ToProbe(x)' = ToProbe(x) /\ ForbiddenScript(x)' = ForbiddenScript(x)
  BY <1>1 DEF ToProbe, Candidate, ForbiddenScript, FoundInSetup
<1>5. \A x : Sorted(x)' = Sorted(x)
  BY <1>4 DEF Sorted
<1> QED
  BY <1>1, <1>3, <1>4, <1>5

\* What every branch does that is done with an item: it logs the item under the
\* class its place asks for and hands the walk the next turn.
Leaves(e) ==
  /\ exit = Unset /\ out # NoItem
  /\ e \in Entry /\ e.at = out.at /\ e.expected = out.expected /\ e.setup = out.setup
  /\ Sorted(e)
  /\ log' = log \cup {e} /\ out' = NoItem /\ stream' = 0
  /\ UNCHANGED <<doc, blk, row, setup, gap, exit>>

\* Leaving an item keeps the walk and the log in order.
LEMMA LeavingSweeps ==
  ASSUME TypeOK, WalkInv, SweepInv, NEW e, Leaves(e)
  PROVE  WalkTypeOK' /\ log' \subseteq Entry /\ WalkInv' /\ SweepInv'
<1>1. WalkInv'
  BY TakingKeeps DEF Leaves
<1>2. WalkTypeOK' /\ log' \subseteq Entry
  BY DEF Leaves, TypeOK, WalkTypeOK
<1>3. Told(e)
  BY DEF Leaves, WalkInv, Told
<1>4. \A f \in log' : (Told(f) /\ Sorted(f))'
  BY <1>3, BlockStands DEF SweepInv, Leaves
<1>5. \A p : Passed(p)' <=> Passed(p)
  BY DEF Passed, Leaves
<1>6. \A p \in Place : (YieldedAt(p) /\ Passed(p))' => \E f \in log' : f.at = p
  BY <1>5, BlockStands DEF SweepInv, Leaves
<1> QED
  BY <1>1, <1>2, <1>4, <1>6 DEF SweepInv

\* The branches that do not probe.
LEMMA UnprobedKeeps ==
  ASSUME ClosedInv,
         CountRefused \/ PassBy \/ ExcludeGapped \/ LeaveOwnProbe \/ RefuseForbidden
  PROVE  ClosedInv'
<1> USE DEF ClosedInv
<1>1. exit = Unset /\ out # NoItem /\ stream = 0 /\ out \in Item
  BY DEF CountRefused, PassBy, ExcludeGapped, LeaveOwnProbe, RefuseForbidden, IsProbe, Got,
         Live, TypeOK, WalkTypeOK
<1>2. n \in [Counters -> Nat]
  BY DEF TypeOK
<1>3. out.gap = GapBefore(out.at)
  BY <1>1 DEF WalkInv
<1> DEFINE Of(class) == [at |-> out.at, class |-> class, expected |-> out.expected,
                         setup |-> out.setup]
<1>4. \A class \in Classes : /\ Of(class) \in Entry
                             /\ Of(class).at = out.at /\ Of(class).expected = out.expected
                             /\ Of(class).setup = out.setup /\ Of(class).class = class
  BY <1>1 DEF Entry, Item
<1>5. \A class \in Classes : /\ Candidate(Of(class)) = Candidate(out)
                             /\ ForbiddenScript(Of(class)) = ForbiddenScript(out)
                             /\ ToProbe(Of(class)) = ToProbe(out)
  BY <1>4 DEF Candidate, ForbiddenScript, FoundInSetup, ToProbe
<1>6. \A class : Consume(class) =>
        log' = log \cup {Of(class)} /\ out' = NoItem
        /\ UNCHANGED <<doc, blk, row, setup, gap, stream, answers, exit>>
  BY DEF Consume
<1> HIDE DEF Of
<1>7. out.expected # Refuse => Refuse # out.expected /\ (Candidate(out) => out.expected \in Codes)
  BY DEF Candidate
<1>8. PICK class \in Classes, c \in Counters :
        /\ Consume(class) /\ (Bump(c) \/ n' = n) /\ Sorted(Of(class)) /\ class # "probed"
        /\ class \in {"refused", "forbidden"} => Bump(c) /\ c = "refused"
        /\ class = "refusalGapped" => Bump(c) /\ c = "refusalGapped"
        /\ c \notin {"probed", "leaks"}
  <2>1. CASE CountRefused
    <3>1. Consume("refused") /\ Bump("refused") /\ out.expected = Refuse
      BY <2>1 DEF CountRefused
    <3>2. Sorted(Of("refused"))
      BY <3>1, <1>4, <1>5 DEF Sorted, ToProbe, Candidate, Classes
    <3> QED
      BY <3>1, <3>2, Tallies DEF Classes
  <2>2. CASE PassBy
    <3>1. Consume("passed") /\ n' = n /\ out.expected # Refuse /\ ~Candidate(out)
      BY <2>2 DEF PassBy
    <3>2. Sorted(Of("passed"))
      BY <3>1, <1>4, <1>5 DEF Sorted, ToProbe, Classes
    <3> QED
      BY <3>1, <3>2, Tallies DEF Classes
  <2>3. CASE ExcludeGapped
    <3>1. /\ Candidate(out) /\ out.gap # {} /\ out.expected # Refuse
          /\ \/ Consume("refusalGapped") /\ Bump("refusalGapped")
             \/ Consume("unsequenced") /\ Bump("unsequenced")
      BY <2>3 DEF ExcludeGapped, Candidate
    <3>2. ~ToProbe(out)
      BY <1>3, <3>1 DEF ToProbe
    <3>3. Sorted(Of("refusalGapped")) /\ Sorted(Of("unsequenced"))
      BY <3>1, <3>2, <1>4, <1>5 DEF Sorted, Classes
    <3> QED
      BY <3>1, <3>3, Tallies DEF Classes
  <2>4. CASE LeaveOwnProbe
    <3>1. Consume("ownProbe") /\ Bump("ownProbes") /\ ~ToProbe(out) /\ out.expected # Refuse
      BY <2>4 DEF LeaveOwnProbe, ToProbe, Candidate
    <3>2. Sorted(Of("ownProbe"))
      BY <3>1, <1>4, <1>5 DEF Sorted, Classes
    <3> QED
      BY <3>1, <3>2, Tallies DEF Classes
  <2>5. CASE RefuseForbidden
    <3>1. /\ Consume("forbidden") /\ Bump("refused") /\ ForbiddenScript(out)
          /\ Candidate(out) /\ out.gap = {} /\ out.at \notin SelfProbes
          /\ out.expected # Refuse
      BY <2>5 DEF RefuseForbidden, IsProbe, Candidate
    <3>2. ToProbe(out)
      BY <3>1, <1>3 DEF ToProbe
    <3>3. Sorted(Of("forbidden"))
      BY <3>1, <3>2, <1>4, <1>5 DEF Sorted, Classes
    <3> QED
      BY <3>1, <3>3, Tallies DEF Classes
  <2> QED
    BY <2>1, <2>2, <2>3, <2>4, <2>5
<1>9. Leaves(Of(class)) /\ answers' = answers /\ exit' = Unset
  BY <1>1, <1>4, <1>6, <1>8 DEF Leaves
<1>10. WalkTypeOK' /\ log' \subseteq Entry /\ WalkInv' /\ SweepInv'
  BY <1>9, LeavingSweeps
<1>11. n' \in [Counters -> Nat] /\ \A d \in Counters : n'[d] = 0 => n[d] = 0 /\ (Bump(c) => d # c)
  BY <1>2, <1>8 DEF Bump
<1>12. n'["probed"] = n["probed"] /\ n'["leaks"] = n["leaks"]
  BY <1>2, <1>8, Tallies DEF Bump
<1>13. TypeOK'
  BY <1>9, <1>10, <1>11 DEF TypeOK, Leaves
<1>14. ProbeInv'
  BY <1>4, <1>8, <1>9 DEF ProbeInv, Leaves, Answered
<1>15. CountersInv'
  BY <1>4, <1>8, <1>9, <1>11, <1>12, Tallies DEF CountersInv, Leaves
<1>16. CleanMeansEveryProbeHeld'
  BY <1>9 DEF CleanMeansEveryProbeHeld, Unset
<1> QED
  BY <1>10, <1>13, <1>14, <1>15, <1>16

\* A proof goes to its first probe.
LEMMA StartKeeps ==
  ASSUME ClosedInv, StartProbes
  PROVE  ClosedInv'
<1> USE DEF ClosedInv
<1>1. /\ exit = Unset /\ out # NoItem /\ Candidate(out) /\ out.gap = {}
      /\ out.at \notin SelfProbes /\ ~ForbiddenScript(out) /\ stream' = 1
      /\ UNCHANGED <<doc, blk, row, setup, gap, out, n, log, answers, exit>>
  BY DEF StartProbes, IsProbe, Got, Live, walkVars
<1>2. ToProbe(out)
  BY <1>1 DEF WalkInv, ToProbe
<1>3. WalkInv'
  BY <1>1, TakingKeeps
<1>4. TypeOK'
  BY <1>1 DEF TypeOK, WalkTypeOK
<1>5. ProbeInv'
  BY <1>1, <1>2, BlockStands DEF ProbeInv, Answered
<1>6. SweepInv'
  <2>1. \A p : Passed(p)' <=> Passed(p)
    BY <1>1 DEF Passed
  <2> QED
    BY <1>1, <2>1, BlockStands DEF SweepInv
<1>7. CountersInv' /\ CleanMeansEveryProbeHeld'
  BY <1>1 DEF CountersInv, CleanMeansEveryProbeHeld
<1> QED
  BY <1>3, <1>4, <1>5, <1>6, <1>7

\* A probe is answered, whatever the gate answers.
LEMMA ProbeKeeps ==
  ASSUME ClosedInv, NEW rc \in Outcomes, Probe(rc)
  PROVE  ClosedInv'
<1> USE DEF ClosedInv
<1> DEFINE a == [at |-> out.at, stream |-> stream, rc |-> rc, expected |-> out.expected]
           e == [at |-> out.at, class |-> "probed", expected |-> out.expected,
                 setup |-> out.setup]
<1>1. /\ exit = Unset /\ stream # 0 /\ answers' = answers \cup {a}
      /\ UNCHANGED <<doc, blk, row, setup, gap, exit>>
      /\ \/ stream = 1 /\ stream' = 2 /\ UNCHANGED <<log, out>>
         \/ stream # 1 /\ stream' = 0 /\ log' = log \cup {e} /\ out' = NoItem
  BY DEF Probe, Live
<1>2. /\ out \in Item /\ out # NoItem /\ ToProbe(out) /\ ~ForbiddenScript(out)
      /\ stream \in {1, 2} /\ out.expected \in Codes
  BY <1>1 DEF ProbeInv, TypeOK, WalkTypeOK, ToProbe, Candidate
<1>3. a \in Answer /\ a.at = out.at /\ a.stream = stream /\ a.rc = rc /\ a.expected = out.expected
  BY <1>2 DEF Answer, Item
<1>4. /\ e \in Entry /\ e.at = out.at /\ e.expected = out.expected /\ e.setup = out.setup
      /\ e.class = "probed"
  BY <1>2 DEF Entry, Classes, Item
<1>5. Sorted(e)
  <2>1. ToProbe(e) /\ ~ForbiddenScript(e) /\ e.expected # Refuse
    BY <1>2, <1>4 DEF ToProbe, Candidate, ForbiddenScript, FoundInSetup
  <2> QED
    BY <1>4, <2>1 DEF Sorted
<1>6. /\ n' \in [Counters -> Nat] /\ n'["probed"] = n["probed"] + 1
      /\ n'["refused"] = n["refused"] /\ n'["refusalGapped"] = n["refusalGapped"]
      /\ n'["leaks"] = IF Leaked(rc, out.expected) THEN n["leaks"] + 1 ELSE n["leaks"]
  BY Tallies DEF Probe, TypeOK
<1> HIDE DEF a, e
<1>7. /\ CountersInv' /\ answers' \subseteq Answer
  <2>1. answers' \subseteq Answer
    BY <1>1, <1>3 DEF TypeOK
  <2>2. n'["leaks"] = 0 => n["leaks"] = 0 /\ ~Leaked(rc, out.expected)
    BY <1>6, Tallies DEF TypeOK
  <2>3. n'["leaks"] = 0 => \A x \in answers' : x.rc = x.expected \/ x.rc = Seal
    BY <1>1, <1>3, <2>2 DEF CountersInv, Leaked
  <2>4. \A x \in log' : x \in log \/ x.class = "probed"
    BY <1>1, <1>4
  <2> QED
    BY <1>1, <1>6, <2>1, <2>3, <2>4 DEF CountersInv
<1>8. CleanMeansEveryProbeHeld'
  BY <1>1 DEF CleanMeansEveryProbeHeld, Unset
<1>9. \A p, s : Answered(p, s) => Answered(p, s)'
  BY <1>1 DEF Answered
<1>10. \A p, s : p = out.at /\ s = stream => Answered(p, s)'
  BY <1>1, <1>3 DEF Answered
<1>11. CASE stream = 1
  <2>1. stream' = 2 /\ UNCHANGED <<doc, blk, row, setup, gap, out, log, exit>>
    BY <1>1, <1>11
  <2>2. WalkInv'
    BY <2>1, TakingKeeps
  <2>3. TypeOK'
    BY <1>6, <1>7, <2>1 DEF TypeOK, WalkTypeOK
  <2>4. ProbeInv'
    <3>1. \A p : p = out.at => Answered(p, 1)'
      BY <1>10, <1>11
    <3>2. out' # NoItem /\ ToProbe(out)' /\ ~ForbiddenScript(out)'
      BY <1>2, <2>1, BlockStands
    <3>3. \A x \in log' : x.class = "probed" => \A s \in {1, 2} : Answered(x.at, s)'
      BY <1>9, <2>1 DEF ProbeInv
    <3> QED
      BY <2>1, <3>1, <3>2, <3>3 DEF ProbeInv
  <2>5. SweepInv'
    <3>1. \A p : Passed(p)' <=> Passed(p)
      BY <2>1 DEF Passed
    <3> QED
      BY <2>1, <3>1, BlockStands DEF SweepInv
  <2> QED
    BY <1>7, <1>8, <2>2, <2>3, <2>4, <2>5
<1>12. CASE stream = 2
  <2>1. Leaves(e)
    BY <1>1, <1>2, <1>4, <1>5, <1>12 DEF Leaves
  <2>2. WalkTypeOK' /\ log' \subseteq Entry /\ WalkInv' /\ SweepInv'
    BY <2>1, LeavingSweeps
  <2>3. TypeOK'
    BY <1>6, <1>7, <2>1, <2>2 DEF TypeOK, Leaves
  <2>4. ProbeInv'
    <3>1. \A p : p = out.at => Answered(p, 1)' /\ Answered(p, 2)'
      BY <1>9, <1>10, <1>12 DEF ProbeInv
    <3>2. \A x \in log' : x.class = "probed" => \A s \in {1, 2} : Answered(x.at, s)'
      BY <1>4, <1>9, <2>1, <3>1 DEF ProbeInv, Leaves
    <3> QED
      BY <2>1, <3>2 DEF ProbeInv, Leaves
  <2> QED
    BY <1>7, <1>8, <2>2, <2>3, <2>4
<1> QED
  BY <1>2, <1>11, <1>12

\* A step of the walk leaves no place behind.
LEMMA SweepResumes ==
  ASSUME ClosedInv, Resume
  PROVE  ClosedInv'
<1> USE DEF ClosedInv
<1>1. /\ Walk /\ WalkTypeOK /\ exit = Unset
      /\ n' = n /\ stream' = stream /\ log' = log /\ answers' = answers /\ exit' = exit
  BY DEF Resume, Live, mainVars, TypeOK
<1>2. doc' = doc /\ out = NoItem
  BY <1>1, WalkKeeps
<1>3. WalkTypeOK' /\ WalkInv'
  BY <1>1, WalkKeeps
<1>4. TypeOK'
  BY <1>1, <1>3 DEF TypeOK
<1>5. ProbeInv'
  BY <1>1, <1>2 DEF ProbeInv, Answered
<1>6. SweepInv'
  <2>1. ASSUME NEW p \in Place, YieldedAt(p)', Passed(p)'
        PROVE  (out' # NoItem /\ out'.at = p) \/ \E e \in log : e.at = p
    <3>1. YieldedAt(p)
      BY <1>2, <2>1, BlockStands
    <3>2. Passed(p) \/ (out' # NoItem /\ out'.at = p)
      BY <1>1, <2>1, <3>1, WalkKeeps
    <3> QED
      BY <1>2, <3>1, <3>2 DEF SweepInv
  <2> QED
    BY <1>1, <1>2, <2>1, BlockStands DEF SweepInv
<1>7. CountersInv' /\ CleanMeansEveryProbeHeld'
  BY <1>1 DEF CountersInv, CleanMeansEveryProbeHeld
<1> QED
  BY <1>3, <1>4, <1>5, <1>6, <1>7

\* So do the two ends: exit 0 is what the counters say.
LEMMA SweepEnds ==
  ASSUME ClosedInv, GiveUp \/ Conclude \/ UNCHANGED vars
  PROVE  ClosedInv'
<1> USE DEF ClosedInv
<1>1. UNCHANGED <<doc, blk, row, setup, gap, out, n, stream, log, answers>>
  BY DEF GiveUp, Conclude, vars, walkVars
<1>2. exit' = exit \/ exit' = 2 \/ exit' = Verdict
  BY DEF GiveUp, Conclude, vars
<1>3. WalkInv'
  BY <1>1, TakingKeeps
<1>4. TypeOK'
  <2>1. Verdict \in {0, 1, 2, 3}
    BY DEF Verdict
  <2> QED
    BY <1>1, <1>2, <2>1 DEF TypeOK, WalkTypeOK
<1>5. ProbeInv' /\ SweepInv' /\ CountersInv'
  <2>1. \A p : Passed(p)' <=> Passed(p)
    BY <1>1 DEF Passed
  <2> QED
    BY <1>1, <2>1, BlockStands DEF ProbeInv, SweepInv, CountersInv, Answered
<1>6. CleanMeansEveryProbeHeld'
  <2>1. CASE exit' = exit
    BY <1>1, <2>1 DEF CleanMeansEveryProbeHeld
  <2>2. CASE exit' = 2
    BY <2>2 DEF CleanMeansEveryProbeHeld
  <2>3. CASE exit' = Verdict
    <3>1. SUFFICES ASSUME Verdict = 0
                   PROVE  CleanMeansEveryProbeHeld'
      BY <2>3 DEF CleanMeansEveryProbeHeld
    <3>2. /\ n["leaks"] \in Nat /\ n["refused"] \in Nat /\ n["refusalGapped"] \in Nat
          /\ n["probed"] \in Nat
      BY Tallies DEF TypeOK
    <3>3. n["leaks"] = 0 /\ n["refused"] = 0 /\ n["refusalGapped"] = 0 /\ n["probed"] # 0
      BY <3>1, <3>2 DEF Verdict
    <3>4. /\ answers # {} /\ \A a \in answers : a.rc = a.expected \/ a.rc = Seal
          /\ \A e \in log : e.class \notin {"refused", "forbidden", "refusalGapped"}
      BY <3>3 DEF CountersInv
    <3>5. ASSUME NEW e \in log, e.class = "probed"
          PROVE  {a.stream : a \in {x \in answers : x.at = e.at}} = {1, 2}
      <4>1. \A a \in answers : a.stream \in {1, 2}
        BY DEF TypeOK, Answer
      <4>2. \A s \in {1, 2} : \E a \in answers : a.at = e.at /\ a.stream = s
        BY <3>5 DEF ProbeInv, Answered
      <4> QED
        BY <4>1, <4>2
    <3> QED
      BY <1>1, <3>4, <3>5 DEF CleanMeansEveryProbeHeld
  <2> QED
    BY <1>2, <2>1, <2>2, <2>3
<1> QED
  BY <1>3, <1>4, <1>5, <1>6

\* Before the first row nothing was probed, counted or logged.
LEMMA SweepStarts ==
  ASSUME Init
  PROVE  ClosedInv
<1>1. /\ WalkInit /\ n = [c \in Counters |-> 0] /\ stream = 0 /\ log = {} /\ answers = {}
      /\ exit = Unset /\ out = NoItem
  BY DEF Init, WalkInit
<1>2. doc \in Seq(Seq(Row)) /\ Len(doc) \in Nat
  BY <1>1, DocumentsAssumption DEF WalkInit
<1>3. WalkTypeOK
  BY <1>2, <1>1 DEF WalkInit, WalkTypeOK
<1>4. WalkInv
  BY <1>1, WalkInitInv
<1>5. TypeOK
  BY <1>1, <1>3 DEF TypeOK
<1>6. \A p \in Place : ~Passed(p)
  BY <1>1 DEF WalkInit, Passed, Place
<1>7. ProbeInv /\ SweepInv /\ CleanMeansEveryProbeHeld
  BY <1>1, <1>6 DEF ProbeInv, SweepInv, CleanMeansEveryProbeHeld, Unset
<1>8. CountersInv
  BY <1>1, Tallies DEF CountersInv
<1> QED
  BY <1>4, <1>5, <1>7, <1>8 DEF ClosedInv

\* Every step keeps the invariant, whatever the gates answer.
LEMMA SweepKeeps ==
  ASSUME ClosedInv, [Next]_vars
  PROVE  ClosedInv'
  BY UnprobedKeeps, StartKeeps, ProbeKeeps, SweepResumes, SweepEnds DEF Next, Consumer

\* For every document and all the answers of its gates, the invariant of the sweep.
THEOREM Swept == Spec => []ClosedInv
<1>1. Init => ClosedInv
  BY SweepStarts
<1>2. ClosedInv /\ [Next]_vars => ClosedInv'
  BY SweepKeeps
<1> QED
  BY <1>1, <1>2, PTL DEF Spec

\* The walk, the counters, the log and the answers of closed-stream-check stay well
\* typed.
THEOREM ClosedTypeCorrect == Spec => []TypeOK
<1>1. ClosedInv => TypeOK
  BY DEF ClosedInv
<1> QED
  BY <1>1, Swept, PTL

\* For every document and every behaviour of the gates: exit 0 means that something
\* was probed, that what was probed was probed on both streams and answered its own
\* code or the seal, and that nothing was refused or withheld below a refusal.
THEOREM CleanSweep == Spec => []CleanMeansEveryProbeHeld
<1>1. ClosedInv => CleanMeansEveryProbeHeld
  BY DEF ClosedInv
<1> QED
  BY <1>1, Swept, PTL

-----------------------------------------------------------------------------
(* Both certifiers. *)

\* What the logs of the two say of one place.
LEMMA OnePlace ==
  ASSUME ClosedInv, VP!IInv, VP!LogInv, NEW e \in log, NEW f \in vlog, e.at = f.at
  PROVE  /\ e.setup = f.setup /\ e.expected = f.expected
         /\ e.class = "refused" <=> f.class = "refused"
         /\ e.class = "forbidden" => f.class = "forbidden"
         /\ e.class = "probed" <=>
              f.class \in VP!Executed /\ f.gap = {} /\ e.at \notin SelfProbes
<1>1. /\ e.at \in Place /\ e.setup \in Seq(Place) /\ e.expected \in Expected
      /\ f.setup \in Seq(Place)
  BY DEF ClosedInv, TypeOK, Entry, VP!IInv, VP!TypeOK, VP!Entry, VP!Place, Place
<1>2. Told(e) /\ Sorted(e) /\ Told(f) /\ f.gap = GapBefore(f.at) /\ VP!Judged(f)
  BY SamePlaces DEF ClosedInv, SweepInv, VP!LogInv
<1>3. e.expected = f.expected
  BY <1>2 DEF Told
<1>4. e.setup = f.setup
  BY <1>1, <1>2, OneReplay DEF Told
<1>5. ForbiddenScript(f) = ForbiddenScript(e)
  BY <1>4 DEF ForbiddenScript, FoundInSetup
<1>6. VP!IsProofOf(f) <=> Candidate(e)
  BY <1>1, <1>3, SamePlaces DEF VP!IsProofOf, Candidate, Expected
<1>7. ToProbe(e) <=> VP!IsProofOf(f) /\ f.gap = {} /\ e.at \notin SelfProbes
  BY <1>2, <1>6 DEF ToProbe
<1>8. VP!ForbiddenScript(f) = ForbiddenScript(e)
  BY <1>5, SamePlaces
<1> QED
  BY <1>2, <1>3, <1>4, <1>7, <1>8 DEF Sorted, VP!Judged

\* Behind both walks every place that yields is in both logs.
LEMMA BothComplete ==
  ASSUME ClosedInv, VP!IInv, VP!LogInv, WalkDone, VP!WalkDone
  PROVE  /\ \A e \in log : \E f \in vlog : f.at = e.at
         /\ \A f \in vlog : \E e \in log : e.at = f.at
<1>1. blk \in Nat /\ vblk \in Nat /\ Len(doc) \in Nat /\ blk > Len(doc) /\ vblk > Len(doc)
      /\ out = NoItem /\ vout = NoItem
  BY DEF ClosedInv, TypeOK, WalkTypeOK, WalkDone, VP!WalkDone, VP!IInv, VP!TypeOK, VP!WalkTypeOK
<1>2. \A p \in Place : YieldedAt(p) => Passed(p) /\ VP!Passed(p)
  BY <1>1 DEF YieldedAt, Passed, VP!Passed, Place
<1>3. \A p \in Place : YieldedAt(p) =>
        (\E e \in log : e.at = p) /\ (\E f \in vlog : f.at = p)
  BY <1>1, <1>2, SamePlaces DEF ClosedInv, SweepInv, VP!LogInv, VP!Place, Place
<1>4. \A e \in log : e.at \in Place /\ YieldedAt(e.at)
  BY DEF ClosedInv, TypeOK, Entry, SweepInv, Told
<1>5. \A f \in vlog : f.at \in Place /\ YieldedAt(f.at)
  BY SamePlaces
     DEF VP!IInv, VP!TypeOK, VP!Entry, VP!Place, Place, VP!LogInv, VP!Told
<1> QED
  BY <1>3, <1>4, <1>5

\* Hence the two agree on what to refuse and on what to probe.
LEMMA BothAgree ==
  ASSUME ClosedInv, VP!IInv, VP!LogInv, WalkDone, VP!WalkDone
  PROVE  /\ Places(log, {"refused"}) = Places(vlog, {"refused"})
         /\ Places(log, {"forbidden"}) \subseteq Places(vlog, {"forbidden"})
         /\ Places(log, {"probed"}) =
              Places({f \in vlog : f.gap = {}}, VP!Executed) \ SelfProbes
         /\ \A e \in log, f \in vlog :
              e.class = "probed" /\ e.at = f.at => e.setup = f.setup /\ e.expected = f.expected
  BY OnePlace, BothComplete DEF Places

\* The certifier inside the composition is the one the theorems are about.
LEMMA SameVerify ==
  /\ V!Init => VP!Init
  /\ V!Next => VP!Next
  /\ V!vars = VP!vars /\ V!WalkDone = VP!WalkDone /\ V!Executed = VP!Executed
<1>1. V!vars = VP!vars /\ V!WalkDone = VP!WalkDone /\ V!Executed = VP!Executed
  BY DEF V!vars, VP!vars, V!walkVars, VP!walkVars, V!WalkDone, VP!WalkDone,
         V!Executed, VP!Executed
<1>2. V!Init => VP!Init
  BY DEF V!Init, VP!Init, V!WalkInit, VP!WalkInit, V!Counters, VP!Counters, V!Unset, VP!Unset
<1>3. /\ \A b, i : V!Joined(b, i) = VP!Joined(b, i) /\ V!JoinEnd(b, i) = VP!JoinEnd(b, i)
      /\ \A b, i : V!ExpectedCode(b, i) = VP!ExpectedCode(b, i)
      /\ \A r : V!Active(r) = VP!Active(r) /\ V!CommandShaped(r) = VP!CommandShaped(r)
  <2>1. \A b, i : V!JoinEnd(b, i) = VP!JoinEnd(b, i)
    BY DEF V!JoinEnd, VP!JoinEnd
  <2>2. \A b, i : V!Joined(b, i) = VP!Joined(b, i)
    BY <2>1 DEF V!Joined, VP!Joined, V!Join, VP!Join, V!Some, VP!Some, V!Every, VP!Every
  <2>3. \A r : V!CommandShaped(r) = VP!CommandShaped(r)
    BY DEF V!CommandShaped, VP!CommandShaped, V!Command, VP!Command
  <2>4. \A r : V!Active(r) = VP!Active(r)
    BY <2>3 DEF V!Active, VP!Active
  <2>5. \A b, e : V!StopRow(b, e) = VP!StopRow(b, e)
    BY DEF V!StopRow, VP!StopRow, V!Passes, VP!Passes
  <2>6. \A b, i : V!ExpectedCode(b, i) = VP!ExpectedCode(b, i)
    BY <2>1, <2>2, <2>5 DEF V!ExpectedCode, VP!ExpectedCode, V!ReportedCode, VP!ReportedCode
  <2> QED
    BY <2>1, <2>2, <2>3, <2>4, <2>6
<1>4. V!Walk => VP!Walk
  <2>1. /\ V!This = VP!This /\ V!After = VP!After /\ V!Here = VP!Here
        /\ V!AtCommand = VP!AtCommand /\ V!Walking = VP!Walking
        /\ V!BuildsFixture = VP!BuildsFixture
    BY <1>3 DEF V!This, VP!This, V!After, VP!After, V!Here, VP!Here, V!AtCommand,
                VP!AtCommand, V!Walking, VP!Walking, V!BuildsFixture, VP!BuildsFixture
  <2>2. /\ \A x : V!Yield(x) = VP!Yield(x) /\ V!Gap(x) = VP!Gap(x)
        /\ V!Replay = VP!Replay
    BY <2>1 DEF V!Yield, VP!Yield, V!Gap, VP!Gap, V!Replay, VP!Replay
  <2>3. V!PassOver => VP!PassOver
    BY <1>3, <2>1, <2>2 DEF V!PassOver, VP!PassOver
  <2>4. V!SkipReport => VP!SkipReport
    BY <2>1 DEF V!SkipReport, VP!SkipReport
  <2>5. V!TakeExport => VP!TakeExport
    BY <2>1, <2>2 DEF V!TakeExport, VP!TakeExport
  <2>6. V!TakeAssignment => VP!TakeAssignment
    BY <2>1, <2>2 DEF V!TakeAssignment, VP!TakeAssignment
  <2>7. V!RefuseState => VP!RefuseState
    BY <2>1, <2>2 DEF V!RefuseState, VP!RefuseState
  <2>8. V!YieldFixture => VP!YieldFixture
    BY <2>1, <2>2 DEF V!YieldFixture, VP!YieldFixture
  <2>9. V!YieldCandidate => VP!YieldCandidate
    BY <1>3, <2>1, <2>2 DEF V!YieldCandidate, VP!YieldCandidate
  <2>10. V!NextBlock => VP!NextBlock
    BY DEF V!NextBlock, VP!NextBlock
  <2> QED
    BY <2>3, <2>4, <2>5, <2>6, <2>7, <2>8, <2>9, <2>10 DEF V!Walk, VP!Walk
<1>5. V!Consumer => VP!Consumer
  <2>1. \A p : V!CommandAt(p) = VP!CommandAt(p)
    BY <1>3 DEF V!CommandAt, VP!CommandAt
  <2>2. /\ \A x : V!ForbiddenScript(x) = VP!ForbiddenScript(x)
        /\ \A p : V!IsRunnable(p) = VP!IsRunnable(p)
    BY <2>1 DEF V!ForbiddenScript, VP!ForbiddenScript, V!FoundInSetup, VP!FoundInSetup,
                V!IsRunnable, VP!IsRunnable
  <2>3. /\ V!Live = VP!Live /\ V!Got = VP!Got /\ V!IsCandidate = VP!IsCandidate
        /\ V!IsProof = VP!IsProof
    BY <2>1, <2>2 DEF V!Live, VP!Live, V!Got, VP!Got, V!IsCandidate, VP!IsCandidate,
          V!IsProof, VP!IsProof, V!Unset, VP!Unset
  <2>4. \A x : V!Bump(x) = VP!Bump(x) /\ V!Consume(x) = VP!Consume(x)
    BY DEF V!Bump, VP!Bump, V!Consume, VP!Consume, V!Counters, VP!Counters
  <2>5. V!CountRefused => VP!CountRefused
    BY <2>3, <2>4 DEF V!CountRefused, VP!CountRefused
  <2>6. V!CountSkipped => VP!CountSkipped
    BY <2>2, <2>3, <2>4 DEF V!CountSkipped, VP!CountSkipped
  <2>7. V!CountTemplate => VP!CountTemplate
    BY <2>1, <2>3, <2>4 DEF V!CountTemplate, VP!CountTemplate
  <2>8. V!CountPending => VP!CountPending
    BY <2>1, <2>3, <2>4 DEF V!CountPending, VP!CountPending
  <2>9. V!RefuseForbidden => VP!RefuseForbidden
    BY <2>2, <2>3, <2>4 DEF V!RefuseForbidden, VP!RefuseForbidden
  <2>10. V!Launch => VP!Launch
    BY <2>2, <2>3, <2>4 DEF V!Launch, VP!Launch, V!walkVars, VP!walkVars
  <2>11. ASSUME NEW actual \in V!Outcomes, V!Finish(actual)
         PROVE  VP!Finish(actual) /\ actual \in VP!Outcomes
    BY <2>3, <2>11 DEF V!Finish, VP!Finish, V!Outcomes, VP!Outcomes
  <2> QED
    BY <2>5, <2>6, <2>7, <2>8, <2>9, <2>10, <2>11 DEF V!Consumer, VP!Consumer
<1>6. V!Resume \/ V!GiveUp \/ V!Conclude => VP!Resume \/ VP!GiveUp \/ VP!Conclude
  BY <1>1, <1>4 DEF V!Resume, VP!Resume, V!GiveUp, VP!GiveUp, V!Conclude, VP!Conclude,
         V!Live, VP!Live, V!Unset, VP!Unset, V!mainVars, VP!mainVars, V!walkVars, VP!walkVars,
         V!Verdict, VP!Verdict
<1>7. V!Next => VP!Next
  BY <1>5, <1>6 DEF V!Next, VP!Next
<1> QED
  BY <1>1, <1>2, <1>7

\* The document is nobody's to change.
LEMMA DocKept ==
  /\ Next => doc' = doc
  /\ VP!Next => doc' = doc
<1>1. ASSUME Next
      PROVE  doc' = doc
  BY <1>1 DEF Next, Resume, Walk, PassOver, SkipReport, TakeExport, TakeAssignment, RefuseState,
     YieldFixture, YieldCandidate, NextBlock, Consumer, CountRefused, PassBy, ExcludeGapped,
     LeaveOwnProbe, RefuseForbidden, StartProbes, Probe, Consume, GiveUp, Conclude, walkVars
<1>2. ASSUME VP!Next
      PROVE  doc' = doc
  BY <1>2 DEF VP!Next, VP!Resume, VP!Walk, VP!PassOver, VP!SkipReport, VP!TakeExport,
     VP!TakeAssignment, VP!RefuseState, VP!YieldFixture, VP!YieldCandidate, VP!NextBlock,
     VP!Consumer, VP!CountRefused, VP!CountSkipped, VP!CountTemplate, VP!CountPending,
     VP!RefuseForbidden, VP!Launch, VP!Finish, VP!Consume, VP!IsProof, VP!IsCandidate,
     VP!GiveUp, VP!Conclude, VP!walkVars
<1> QED
  BY <1>1, <1>2

\* In the composition each certifier runs its own program: neither is disturbed by
\* the other, in either order of their steps.
THEOREM EachRunsItsOwn == BothSpec => VP!Spec /\ Spec
<1>1. BothInit => VP!Init /\ Init
  BY SameVerify DEF BothInit
<1>2. [BothNext]_bothVars => [VP!Next]_(VP!vars)
  <2>1. CASE RunVerify
    BY <2>1, SameVerify DEF RunVerify
  <2>2. CASE RunClosed
    BY <2>2, DocKept DEF RunClosed, verifyVars, VP!vars, VP!walkVars
  <2>3. CASE UNCHANGED bothVars
    BY <2>3 DEF bothVars, verifyVars, VP!vars, VP!walkVars
  <2> QED
    BY <2>1, <2>2, <2>3 DEF BothNext
<1>3. [BothNext]_bothVars => [Next]_vars
  <2>1. CASE RunVerify
    BY <2>1, SameVerify, DocKept DEF RunVerify, closedVars, mainVars, vars, walkVars
  <2>2. CASE RunClosed
    BY <2>2 DEF RunClosed
  <2>3. CASE UNCHANGED bothVars
    BY <2>3 DEF bothVars, closedVars, mainVars, vars, walkVars
  <2> QED
    BY <2>1, <2>2, <2>3 DEF BothNext
<1> QED
  BY <1>1, <1>2, <1>3, PTL DEF BothSpec, VP!Spec, Spec

\* What is known of each holds of both.
LEMMA BothKnown == BothSpec => [](ClosedInv /\ VP!IInv /\ VP!LogInv)
<1>1. VP!Spec => []VP!IInv
  BY VP!Invariance, NoCodeAssumption, SentinelAssumption, VerifyAssumptions
<1>2. VP!Spec => [](VP!WalkInv /\ VP!LogInv)
  BY VP!LogTold, NoCodeAssumption, SentinelAssumption, VerifyAssumptions
<1> QED
  BY <1>1, <1>2, Swept, EachRunsItsOwn, PTL

\* For every document: closed-stream-check probes exactly the proofs verify-proofs
\* runs in a whole scenario, each as the same script, less the islands' own probes.
THEOREM SameProofs == BothSpec => []ProbesWhatVerifyCounts
<1>1. ClosedInv /\ VP!IInv /\ VP!LogInv => ProbesWhatVerifyCounts
  BY BothAgree, SameVerify DEF ProbesWhatVerifyCounts, BothSwept
<1> QED
  BY <1>1, BothKnown, PTL

\* For every document: the two refuse the same shell states, and no primitive that
\* closed-stream-check refuses passes verify-proofs.
THEOREM SameRefusals == BothSpec => []RefusalsAgree
<1>1. ClosedInv /\ VP!IInv /\ VP!LogInv => RefusalsAgree
  BY BothAgree, SameVerify DEF RefusalsAgree, BothSwept
<1> QED
  BY <1>1, BothKnown, PTL

=============================================================================
