-------------------------- MODULE ProofVerify_proofs --------------------------
(***************************************************************************)
(* What verify-proofs.py guarantees of every document, every set of exit   *)
(* codes and every behaviour of Bash.  First what the helpers of the row   *)
(* grammar return and what the generator `commands` is: joining rows and   *)
(* searching for a report stay inside the block, and the item yielded at a *)
(* place, the steps to be replayed before it and the gap it carries are    *)
(* functions of the block and the place alone.                             *)
(***************************************************************************)
EXTENDS ProofVerify, FiniteSetTheorems, SequenceTheorems, TLAPS

USE NoCodeAssumption, SentinelAssumption, TimeoutAssumption

-----------------------------------------------------------------------------
(* The rows. *)

\* A nonempty set of naturals has a least member: both searches below stop at
\* the first row of their kind.
LEMMA LeastNatural ==
  ASSUME NEW T, T \subseteq Nat, T # {}
  PROVE  \E x \in T : \A y \in T : x <= y
<1> DEFINE Below == {1..x : x \in T}
<1>1. Below \subseteq FiniteSubsetsOf(Nat) /\ Below # {}
  <2>1. ASSUME NEW x \in T
        PROVE  1..x \in FiniteSubsetsOf(Nat)
    <3>1. 1..x \subseteq Nat /\ x \in Int /\ 1 \in Int
      OBVIOUS
    <3>2. IsFiniteSet(1..x)
      BY <3>1, FS_Interval
    <3> QED
      BY <3>1, <3>2 DEF FiniteSubsetsOf
  <2> QED
    BY <2>1
<1>2. IsWellFoundedOn(StrictSubsetOrdering(Nat), FiniteSubsetsOf(Nat))
  BY FS_StrictSubsetOrderingWellFounded
<1>3. PICK I \in Below : \A J \in Below : ~(<<J, I>> \in StrictSubsetOrdering(Nat))
  BY <1>1, <1>2, WFMin
<1>4. PICK x \in T : I = 1..x
  OBVIOUS
<1>5. ASSUME NEW y \in T, ~(x <= y)
      PROVE  FALSE
  <2>1. 1..y \in Below /\ 1..y \in SUBSET Nat /\ 1..x \in SUBSET Nat
    OBVIOUS
  <2>2. 1..y \subseteq 1..x /\ x \in 1..x /\ x \notin 1..y
    BY <1>5
  <2>3. <<1..y, 1..x>> \in StrictSubsetOrdering(Nat)
    BY <2>1, <2>2 DEF StrictSubsetOrdering
  <2> QED
    BY <1>3, <1>4, <2>1, <2>3
<1> QED
  BY <1>5

\* logical_row stops: the last row of a command lies in its block and every row
\* before it continues.
LEMMA JoinEndRange ==
  ASSUME NEW b \in Seq(Row), NEW i \in 1..Len(b)
  PROVE  /\ JoinEnd(b, i) \in i..Len(b)
         /\ JoinEnd(b, i) = Len(b) \/ ~b[JoinEnd(b, i)].cont
         /\ \A k \in i..(JoinEnd(b, i) - 1) : b[k].cont
<1> DEFINE T == {e \in i..Len(b) : e = Len(b) \/ ~b[e].cont}
<1>1. T \subseteq Nat /\ Len(b) \in T
  OBVIOUS
<1>2. PICK e \in T : \A y \in T : e <= y
  BY <1>1, LeastNatural
<1>3. \A k \in i..(e - 1) : b[k].cont
  BY <1>2
<1>4. \E f \in i..Len(b) : (f = Len(b) \/ ~b[f].cont) /\ \A k \in i..(f - 1) : b[k].cont
  BY <1>2, <1>3
<1> QED
  BY <1>4 DEF JoinEnd

\* reported_code looks at rows of its own block, below the command.
LEMMA StopRowRange ==
  ASSUME NEW b \in Seq(Row), NEW e \in Nat \ {0}
  PROVE  StopRow(b, e) = 0 \/ StopRow(b, e) \in (e + 1)..Len(b)
<1> DEFINE T == {j \in (e + 1)..Len(b) : ~Passes(b[j])}
<1>1. CASE T = {}
  BY <1>1 DEF StopRow
<1>2. CASE T # {}
  <2>1. T \subseteq Nat
    OBVIOUS
  <2>2. PICK j \in T : \A y \in T : j <= y
    BY <1>2, <2>1, LeastNatural
  <2>3. \A k \in (e + 1)..(j - 1) : Passes(b[k])
    BY <2>2
  <2>4. \E f \in (e + 1)..Len(b) : ~Passes(b[f]) /\ \A k \in (e + 1)..(f - 1) : Passes(b[k])
    BY <2>2, <2>3
  <2> QED
    BY <2>4 DEF StopRow
<1> QED
  BY <1>1, <1>2

\* The row a command is read from is a row, of the leading row's kind.
LEMMA JoinedType ==
  ASSUME NEW b \in Seq(Row), NEW i \in 1..Len(b)
  PROVE  Joined(b, i) \in Row /\ Joined(b, i).kind = b[i].kind
<1> DEFINE e == JoinEnd(b, i)
<1>1. e \in 1..Len(b)
  BY JoinEndRange
<1>2. b[i] \in Row /\ b[e] \in Row
  BY <1>1, ElementOfSeq
<1>3. \A m \in {"template", "unsafe", "whole", "forbidden", "plain"} :
        Some(b, i, e, m) \in BOOLEAN /\ Every(b, i, e, m) \in BOOLEAN
  BY Zenon DEF Some, Every
<1>4. (IF e = i \/ ~b[e].arrow THEN b[e].code ELSE NoCode) \in Codes \cup {NoCode}
  BY <1>2 DEF Row
<1> QED
  BY <1>1, <1>2, <1>3, <1>4 DEF Joined, Join, Row

\* What a command is expected to exit with is a documented code or none.
LEMMA ExpectedCodeType ==
  ASSUME NEW b \in Seq(Row), NEW i \in 1..Len(b)
  PROVE  ExpectedCode(b, i) \in Codes \cup {NoCode}
<1> DEFINE e == JoinEnd(b, i)
<1>1. e \in 1..Len(b)
  BY JoinEndRange
<1>2. Joined(b, i).code \in Codes \cup {NoCode}
  BY JoinedType DEF Row
<1>3. ReportedCode(b, e) \in Codes \cup {NoCode}
  <2>1. StopRow(b, e) = 0 \/ StopRow(b, e) \in 1..Len(b)
    BY <1>1, StopRowRange
  <2>2. CASE StopRow(b, e) = 0
    BY <2>2 DEF ReportedCode
  <2>3. CASE StopRow(b, e) \in 1..Len(b)
    <3>1. b[StopRow(b, e)] \in Row
      BY <2>3, ElementOfSeq
    <3> QED
      BY <3>1 DEF ReportedCode, Row
  <2> QED
    BY <2>1, <2>2, <2>3
<1> QED
  BY <1>2, <1>3 DEF ExpectedCode

-----------------------------------------------------------------------------
(* The walk. *)

\* Where the walk stands there is a row, and what is made of it is well typed.
LEMMA HereType ==
  ASSUME WalkTypeOK, Walking
  PROVE  /\ Here \in Place
         /\ This \in Row
         /\ After \in Nat /\ After > row
         /\ ExpectedCode(doc[blk], row) \in Codes \cup {NoCode}
<1>1. blk \in 1..Len(doc) /\ doc \in Seq(Seq(Row))
  BY DEF WalkTypeOK, Walking
<1>2. doc[blk] \in Seq(Row)
  BY <1>1, ElementOfSeq
<1>3. row \in 1..Len(doc[blk])
  BY <1>2 DEF WalkTypeOK, Walking
<1>4. JoinEnd(doc[blk], row) \in row..Len(doc[blk])
  BY <1>2, <1>3, JoinEndRange
<1>5. Here \in Place
  BY <1>1, <1>3 DEF Here, Place
<1>6. This \in Row
  BY <1>2, <1>3, JoinedType DEF This
<1>7. After \in Nat /\ After > row
  BY <1>3, <1>4 DEF After
<1>8. ExpectedCode(doc[blk], row) \in Codes \cup {NoCode}
  BY <1>2, <1>3, ExpectedCodeType
<1> QED
  BY <1>5, <1>6, <1>7, <1>8

\* Every item the walk yields is well typed, and so is the longer setup.
LEMMA YieldType ==
  ASSUME WalkTypeOK, Walking, NEW expected \in Expected
  PROVE  /\ [at |-> Here, expected |-> expected, setup |-> setup, gap |-> gap] \in Item
         /\ Append(setup, Here) \in Seq(Place)
  BY HereType DEF WalkTypeOK, Item

\* The walk keeps its variables well typed.
LEMMA WalkType ==
  ASSUME WalkTypeOK, Walk
  PROVE  WalkTypeOK'
<1>0. NoCode \in Expected /\ Refuse \in Expected /\ Codes \cup {NoCode} \subseteq Expected
  BY DEF Expected
<1>1. ASSUME NEW expected \in Expected, Walking, Yield(expected)
      PROVE  out' \in Item
  BY <1>1, YieldType DEF Yield
<1>2. ASSUME Walking, Replay
      PROVE  setup' \in Seq(Place)
  BY <1>0, <1>2, YieldType DEF Replay
<1>3. ASSUME NEW cause \in Causes, Gap(cause)
      PROVE  gap' \subseteq Causes
  BY <1>3 DEF Gap, WalkTypeOK
<1>4. ASSUME UNCHANGED gap
      PROVE  gap' \subseteq Causes
  BY <1>4 DEF WalkTypeOK
<1>5. "refused" \in Causes /\ "unreplayable" \in Causes
  BY DEF Causes
<1>a. CASE PassOver
  <2>1. gap' \subseteq Causes
    BY <1>3, <1>4, <1>5, <1>a, Zenon DEF PassOver
  <2> QED
    BY <2>1, <1>a DEF PassOver, WalkTypeOK
<1>b. CASE SkipReport
  BY <1>b DEF SkipReport, WalkTypeOK
<1>c. CASE TakeExport
  <2>1. Walking
    BY <1>c DEF TakeExport, AtCommand
  <2>2. gap' \subseteq Causes /\ setup' \in Seq(Place) /\ out' \in Item
    <3>1. CASE This.unsafe
      BY <1>0, <1>1, <1>3, <1>5, <2>1, <1>c, <3>1 DEF TakeExport, WalkTypeOK
    <3>2. CASE ~This.unsafe
      BY <1>0, <1>1, <1>2, <1>4, <2>1, <1>c, <3>2 DEF TakeExport
    <3> QED
      BY <3>1, <3>2
  <2> QED
    BY <2>1, <2>2, <1>c, HereType DEF TakeExport, WalkTypeOK
<1>d. CASE TakeAssignment
  <2>1. Walking
    BY <1>d DEF TakeAssignment, AtCommand
  <2>2. gap' \subseteq Causes /\ setup' \in Seq(Place) /\ out' \in Item \cup {NoItem}
    <3>1. CASE This.unsafe
      BY <1>0, <1>1, <1>3, <1>5, <2>1, <1>d, <3>1 DEF TakeAssignment, WalkTypeOK
    <3>2. CASE ~This.unsafe
      BY <1>2, <1>4, <2>1, <1>d, <3>2 DEF TakeAssignment, WalkTypeOK
    <3> QED
      BY <3>1, <3>2
  <2> QED
    BY <2>1, <2>2, <1>d, HereType DEF TakeAssignment, WalkTypeOK
<1>e. CASE RefuseState
  <2>1. Walking
    BY <1>e DEF RefuseState, AtCommand
  <2>2. gap' \subseteq Causes /\ out' \in Item
    BY <1>0, <1>1, <1>3, <1>5, <2>1, <1>e DEF RefuseState
  <2> QED
    BY <2>1, <2>2, <1>e, HereType DEF RefuseState, WalkTypeOK
<1>f. CASE YieldFixture
  <2>1. Walking
    BY <1>f DEF YieldFixture, AtCommand
  <2>2. out' \in Item
    BY <1>0, <1>1, <2>1, <1>f DEF YieldFixture
  <2>3. gap' \subseteq Causes /\ setup' \in Seq(Place)
    <3>1. CASE This.whole
      BY <1>2, <1>4, <2>1, <1>f, <3>1 DEF YieldFixture
    <3>2. CASE ~This.whole
      BY <1>3, <1>5, <1>f, <3>2 DEF YieldFixture, WalkTypeOK
    <3> QED
      BY <3>1, <3>2
  <2> QED
    BY <2>1, <2>2, <2>3, <1>f, HereType DEF YieldFixture, WalkTypeOK
<1>g. CASE YieldCandidate
  <2>1. Walking
    BY <1>g DEF YieldCandidate, AtCommand
  <2>2. out' \in Item
    BY <1>0, <1>1, <2>1, <1>g, HereType DEF YieldCandidate
  <2>3. gap' \subseteq Causes
    BY <1>3, <1>4, <1>5, <1>g, Zenon DEF YieldCandidate
  <2> QED
    BY <2>1, <2>2, <2>3, <1>g, HereType DEF YieldCandidate, WalkTypeOK
<1>h. CASE NextBlock
  BY <1>h DEF NextBlock, WalkTypeOK
<1> QED
  BY <1>a, <1>b, <1>c, <1>d, <1>e, <1>f, <1>g, <1>h DEF Walk

\* No step that may persist shell state waits to be replayed, and none is handed
\* over with an exit code to check.
SafeSetup(s) == \A k \in 1..Len(s) : ~CommandAt(s[k]).unsafe
SafeItem(item) == SafeSetup(item.setup) /\ (item.expected \in Codes => ~CommandAt(item.at).unsafe)
SafeWalk == SafeSetup(setup) /\ (out # NoItem => SafeItem(out))

\* One accepted step more leaves the setup safe.
LEMMA SafeAppend ==
  ASSUME NEW s \in Seq(Place), NEW p \in Place, SafeSetup(s), ~CommandAt(p).unsafe
  PROVE  SafeSetup(Append(s, p))
  BY DEF SafeSetup

\* What is yielded is safe when the setup is and the command may carry its code.
LEMMA YieldSafe ==
  ASSUME WalkTypeOK, SafeWalk, Walking, NEW expected \in Expected,
         expected \in Codes => ~This.unsafe, Yield(expected)
  PROVE  out' # NoItem /\ SafeItem(out')
<1>1. out' = [at |-> Here, expected |-> expected, setup |-> setup, gap |-> gap]
  BY DEF Yield
<1>2. out' \in Item
  BY <1>1, YieldType
<1>3. CommandAt(Here) = This
  BY DEF CommandAt, Here, This
<1> QED
  BY <1>1, <1>2, <1>3, NoItemAssumption DEF SafeWalk, SafeItem

\* The walk never puts a step that may persist shell state where it would be
\* replayed, nor hands it over with a code.
LEMMA WalkSafe ==
  ASSUME WalkTypeOK, SafeWalk, Walk
  PROVE  SafeWalk'
<1> DEFINE Goal == SafeSetup(setup') /\ (out' # NoItem => SafeItem(out'))
<1>0. Refuse \in Expected \ Codes /\ NoCode \in Expected \ Codes
      /\ Codes \cup {NoCode} \subseteq Expected
  BY DEF Expected
<1>1. doc' = doc
  BY DEF Walk, PassOver, SkipReport, TakeExport, TakeAssignment, RefuseState, YieldFixture,
         YieldCandidate, NextBlock, walkVars
<1>2. SUFFICES Goal
  BY <1>1 DEF SafeWalk, SafeSetup, SafeItem, CommandAt
<1>3. CommandAt(Here) = This
  BY DEF CommandAt, Here, This
<1>4. setup \in Seq(Place) /\ SafeSetup(setup) /\ (out # NoItem => SafeItem(out))
  BY DEF WalkTypeOK, SafeWalk
<1>5. ASSUME NEW expected \in Expected, expected \in Codes => ~This.unsafe,
             Walking, Yield(expected)
      PROVE  SafeItem(out')
  BY <1>5, YieldSafe
<1>6. ASSUME Walking, ~This.unsafe, Replay
      PROVE  SafeSetup(setup')
  BY <1>3, <1>4, <1>6, HereType, SafeAppend DEF Replay
<1>7. SafeSetup(<<>>)
  BY DEF SafeSetup
<1> HIDE DEF Goal
<1>a. CASE PassOver
  BY <1>4, <1>a DEF PassOver, Goal
<1>b. CASE SkipReport
  BY <1>4, <1>b DEF SkipReport, Goal
<1>c. CASE TakeExport
  <2>1. CASE This.unsafe
    BY <1>0, <1>4, <1>5, <1>c, <2>1 DEF TakeExport, AtCommand, Goal
  <2>2. CASE ~This.unsafe
    BY <1>0, <1>4, <1>5, <1>6, <1>c, <2>2 DEF TakeExport, AtCommand, Goal
  <2> QED
    BY <2>1, <2>2
<1>d. CASE TakeAssignment
  <2>1. CASE This.unsafe
    BY <1>0, <1>4, <1>5, <1>d, <2>1 DEF TakeAssignment, AtCommand, Goal
  <2>2. CASE ~This.unsafe
    BY <1>4, <1>6, <1>d, <2>2 DEF TakeAssignment, AtCommand, Goal
  <2> QED
    BY <2>1, <2>2
<1>e. CASE RefuseState
  BY <1>0, <1>4, <1>5, <1>e DEF RefuseState, AtCommand, Goal
<1>f. CASE YieldFixture
  <2>1. SafeItem(out')
    BY <1>0, <1>5, <1>f DEF YieldFixture, AtCommand
  <2>2. CASE This.whole
    BY <1>6, <1>f, <2>1, <2>2 DEF YieldFixture, AtCommand, Goal
  <2>3. CASE ~This.whole
    BY <1>4, <1>f, <2>1, <2>3 DEF YieldFixture, Goal
  <2> QED
    BY <2>2, <2>3
<1>g. CASE YieldCandidate
  <2>1. SafeItem(out')
    BY <1>0, <1>5, <1>g, HereType DEF YieldCandidate, AtCommand
  <2> QED
    BY <1>4, <1>g, <2>1 DEF YieldCandidate, Goal
<1>h. CASE NextBlock
  BY <1>4, <1>7, <1>h DEF NextBlock, Goal
<1> QED
  BY <1>a, <1>b, <1>c, <1>d, <1>e, <1>f, <1>g, <1>h DEF Walk

\* Every step of the walk either goes down the block, adding to the gap, and
\* yields at most the command it stood at, or opens the next block.
LEMMA WalkMoves ==
  ASSUME WalkTypeOK, Walk
  PROVE  /\ doc' = doc /\ out = NoItem
         /\ \/ /\ blk' = blk /\ row' > row /\ gap \subseteq gap'
               /\ out' # NoItem => /\ out'.at = <<blk, row>> /\ out'.gap = gap
                                  /\ (out'.expected = Refuse => "refused" \in gap')
            \/ blk' = blk + 1 /\ out' = NoItem
<1>0. out = NoItem /\ doc' = doc
  BY DEF Walk, PassOver, SkipReport, TakeExport, TakeAssignment, RefuseState, YieldFixture,
         YieldCandidate, NextBlock, walkVars, Walking, AtCommand
<1>1. ASSUME NEW expected, Yield(expected)
      PROVE  out'.at = <<blk, row>> /\ out'.gap = gap /\ out'.expected = expected
  BY <1>1 DEF Yield, Here
<1>2. ASSUME NEW cause, Gap(cause)
      PROVE  gap \subseteq gap' /\ cause \in gap'
  BY <1>2 DEF Gap
<1>3. row \in Nat
  BY DEF WalkTypeOK
<1>a. CASE PassOver
  <2>1. gap \subseteq gap'
    BY <1>2, <1>a, Zenon DEF PassOver
  <2> QED
    BY <1>0, <1>3, <1>a, <2>1 DEF PassOver
<1>b. CASE SkipReport
  BY <1>0, <1>3, <1>b DEF SkipReport
<1>c. CASE TakeExport
  <2>1. Walking
    BY <1>c DEF TakeExport, AtCommand
  <2>2. CASE This.unsafe
    BY <1>0, <1>1, <1>2, <1>c, <2>1, <2>2, HereType DEF TakeExport
  <2>3. CASE ~This.unsafe
    BY <1>0, <1>1, <1>c, <2>1, <2>3, HereType, SentinelAssumption DEF TakeExport
  <2> QED
    BY <2>2, <2>3
<1>d. CASE TakeAssignment
  <2>1. Walking
    BY <1>d DEF TakeAssignment, AtCommand
  <2>2. CASE This.unsafe
    BY <1>0, <1>1, <1>2, <1>d, <2>1, <2>2, HereType DEF TakeAssignment
  <2>3. CASE ~This.unsafe
    BY <1>0, <1>d, <2>1, <2>3, HereType DEF TakeAssignment
  <2> QED
    BY <2>2, <2>3
<1>e. CASE RefuseState
  <2>1. Walking
    BY <1>e DEF RefuseState, AtCommand
  <2> QED
    BY <1>0, <1>1, <1>2, <1>e, <2>1, HereType DEF RefuseState
<1>f. CASE YieldFixture
  <2>1. Walking
    BY <1>f DEF YieldFixture, AtCommand
  <2>2. gap \subseteq gap'
    BY <1>2, <1>f, Zenon DEF YieldFixture
  <2> QED
    BY <1>0, <1>1, <1>f, <2>1, <2>2, HereType, SentinelAssumption DEF YieldFixture
<1>g. CASE YieldCandidate
  <2>1. Walking
    BY <1>g DEF YieldCandidate, AtCommand
  <2>2. gap \subseteq gap'
    BY <1>2, <1>g, Zenon DEF YieldCandidate
  <2>3. ExpectedCode(doc[blk], row) # Refuse
    BY <2>1, HereType, SentinelAssumption
  <2> QED
    BY <1>0, <1>1, <1>g, <2>1, <2>2, <2>3, HereType DEF YieldCandidate
<1>h. CASE NextBlock
  BY <1>0, <1>h DEF NextBlock
<1> QED
  BY <1>a, <1>b, <1>c, <1>d, <1>e, <1>f, <1>g, <1>h DEF Walk

-----------------------------------------------------------------------------
(* The generator as a function of the block and the place.                 *)

\* A row that does not continue is a command by itself.
LEMMA JoinAlone ==
  ASSUME NEW b \in Seq(Row), NEW i \in 1..Len(b), ~b[i].cont
  PROVE  JoinEnd(b, i) = i
  BY JoinEndRange

\* From row i the walk goes to row r: it skips what the command at i swallows and
\* stands at a row nothing swallows.
Leads(b, i, r) ==
  /\ r \in (i + 1)..(Len(b) + 1)
  /\ \A j \in (i + 1)..(r - 1) : Swallowed(b, j)
  /\ r <= Len(b) => ~Swallowed(b, r)

\* Past a command the walk resumes below its last row.
LEMMA LeadsPastCommand ==
  ASSUME NEW b \in Seq(Row), NEW i \in 1..Len(b), Active(b[i])
  PROVE  Leads(b, i, JoinEnd(b, i) + 1)
<1> DEFINE e == JoinEnd(b, i)
<1>1. /\ e \in i..Len(b) /\ (e = Len(b) \/ ~b[e].cont)
      /\ \A k \in i..(e - 1) : b[k].cont
  BY JoinEndRange
<1> HIDE DEF e
<1>2. ASSUME NEW j \in (i + 1)..e
      PROVE  Swallowed(b, j)
  <2>1. i \in 1..(j - 1) /\ \A k \in i..(j - 1) : b[k].cont
    BY <1>1
  <2> QED
    BY <2>1 DEF Swallowed
<1>3. ASSUME e + 1 <= Len(b), Swallowed(b, e + 1)
      PROVE  FALSE
  <2>1. PICK s \in 1..e : \A k \in s..e : b[k].cont
    BY <1>1, <1>3 DEF Swallowed
  <2>2. e \in s..e
    BY <1>1
  <2> QED
    BY <1>1, <1>3, <2>1, <2>2
<1>4. e + 1 \in (i + 1)..(Len(b) + 1) /\ (e + 1) - 1 = e
  BY <1>1
<1> QED
  BY <1>2, <1>3, <1>4 DEF Leads, e

\* Past a row that is no command, or does not continue, it resumes at the next.
LEMMA LeadsPastRow ==
  ASSUME NEW b \in Seq(Row), NEW i \in 1..Len(b), ~Swallowed(b, i),
         ~Active(b[i]) \/ ~b[i].cont
  PROVE  Leads(b, i, i + 1)
<1>1. ASSUME Swallowed(b, i + 1)
      PROVE  FALSE
  <2>1. PICK s \in 1..i : Active(b[s]) /\ \A k \in s..i : b[k].cont
    BY <1>1 DEF Swallowed
  <2>2. i \in s..i /\ \A k \in s..(i - 1) : b[k].cont
    BY <2>1
  <2>3. CASE s = i
    BY <2>1, <2>2, <2>3
  <2>4. CASE s # i
    <3>1. s \in 1..(i - 1)
      BY <2>4
    <3> QED
      BY <2>1, <2>2, <3>1 DEF Swallowed
  <2> QED
    BY <2>3, <2>4
<1> QED
  BY <1>1 DEF Leads

\* What lies before the place the walk goes to: what lay before the one it leaves,
\* and what the row it leaves brings.
LEMMA BeforeGrows ==
  ASSUME doc \in Seq(Seq(Row)), NEW c \in 1..Len(doc), NEW i \in 1..Len(doc[c]), NEW r,
         Leads(doc[c], i, r)
  PROVE  /\ ReplayedBefore(<<c, r>>) =
              ReplayedBefore(<<c, i>>) \cup (IF Replayed(doc[c], i) THEN {<<c, i>>} ELSE {})
         /\ GapBefore(<<c, r>>) = GapBefore(<<c, i>>) \cup {d \in Causes : Breaks(doc[c], i, d)}
<1> DEFINE b == doc[c]
<1>1. r \in Nat /\ r > i /\ \A j \in 1..(r - 1) : j < i \/ j = i \/ Swallowed(b, j)
  BY DEF Leads
<1>2. \A j : Swallowed(b, j) => ~Replayed(b, j) /\ \A d : ~Breaks(b, j, d)
  BY DEF Replayed, Breaks, Stands
<1>3. {j \in 1..(r - 1) : Replayed(b, j)} =
        {j \in 1..(i - 1) : Replayed(b, j)} \cup (IF Replayed(b, i) THEN {i} ELSE {})
  BY <1>1, <1>2
<1>4. \A d : (\E j \in 1..(r - 1) : Breaks(b, j, d))
               <=> (\E j \in 1..(i - 1) : Breaks(b, j, d)) \/ Breaks(b, i, d)
  <2> SUFFICES ASSUME NEW d
               PROVE  (\E j \in 1..(r - 1) : Breaks(b, j, d))
                        <=> (\E j \in 1..(i - 1) : Breaks(b, j, d)) \/ Breaks(b, i, d)
    OBVIOUS
  <2>1. 1..(i - 1) \subseteq 1..(r - 1) /\ i \in 1..(r - 1)
    BY <1>1
  <2>2. \A j \in 1..(r - 1) : Breaks(b, j, d) => j \in 1..(i - 1) \/ j = i
    BY <1>1, <1>2
  <2> QED
    BY <2>1, <2>2
<1> HIDE DEF b
<1>5. ReplayedBefore(<<c, r>>) =
        ReplayedBefore(<<c, i>>) \cup (IF Replayed(b, i) THEN {<<c, i>>} ELSE {})
  BY <1>3 DEF ReplayedBefore, b
<1>6. GapBefore(<<c, r>>) = GapBefore(<<c, i>>) \cup {d \in Causes : Breaks(b, i, d)}
  BY <1>4 DEF GapBefore, b
<1> QED
  BY <1>5, <1>6 DEF b

\* Where the walk stands there is a well-formed row that nothing swallows.
LEMMA HereStands ==
  ASSUME WalkTypeOK, WalkInv, Walking
  PROVE  /\ doc \in Seq(Seq(Row)) /\ blk \in 1..Len(doc)
         /\ doc[blk] \in Seq(Row) /\ row \in 1..Len(doc[blk])
         /\ doc[blk][row] \in Row /\ WellFormed(doc[blk][row])
         /\ ~Swallowed(doc[blk], row)
         /\ This = Joined(doc[blk], row) /\ This \in Row /\ This.kind = doc[blk][row].kind
         /\ Here \in Place
<1>1. doc \in Seq(Seq(Row)) /\ blk \in 1..Len(doc) /\ row \in Nat \ {0} /\ row <= Len(doc[blk])
  BY DEF WalkTypeOK, Walking
<1>2. doc[blk] \in Seq(Row)
  BY <1>1, ElementOfSeq
<1>3. row \in 1..Len(doc[blk])
  BY <1>1, <1>2
<1>4. doc[blk][row] \in Row
  BY <1>2, <1>3, ElementOfSeq
<1>5. WellFormed(doc[blk][row]) /\ ~Swallowed(doc[blk], row)
  <2>1. doc \in Documents
    BY DEF WalkInv
  <2>2. WellFormed(doc[blk][row])
    BY <1>1, <1>3, <2>1, DocumentsAssumption, Zenon
  <2>3. blk <= Len(doc) /\ row <= Len(doc[blk])
    BY <1>1
  <2>4. ~Swallowed(doc[blk], row)
    BY <2>3 DEF WalkInv
  <2> QED
    BY <2>2, <2>4
<1> QED
  BY <1>1, <1>2, <1>3, <1>4, <1>5, JoinedType, HereType DEF This

\* What one row of the block makes of the state of the walk.
RowRead ==
  /\ blk' = blk /\ Leads(doc[blk], row, row')
  /\ setup' = IF Replayed(doc[blk], row) THEN Append(setup, Here) ELSE setup
  /\ gap' = gap \cup {d \in Causes : Breaks(doc[blk], row, d)}
  /\ out' = IF Yields(doc[blk], row)
            THEN [at |-> Here, expected |-> SlotCode(doc[blk], row), setup |-> setup, gap |-> gap]
            ELSE NoItem

\* A row that is passed over, and a report.
LEMMA PassOverReads ==
  ASSUME WalkTypeOK, WalkInv, PassOver \/ SkipReport
  PROVE  RowRead
<1> DEFINE b == doc[blk]
<1>1. Walking /\ blk' = blk /\ row' = row + 1 /\ setup' = setup /\ out' = out /\ out = NoItem
  BY DEF PassOver, SkipReport, Walking
<1>2. /\ b \in Seq(Row) /\ row \in 1..Len(b) /\ WellFormed(b[row]) /\ ~Swallowed(b, row)
  BY <1>1, HereStands
<1>3. ~Stands(b, row)
  BY DEF PassOver, SkipReport, Stands
<1>4. ~Replayed(b, row) /\ ~Yields(b, row)
  BY <1>3 DEF Replayed, Yields
<1>5. ~Active(b[row]) \/ ~b[row].cont
  BY <1>2 DEF PassOver, SkipReport, WellFormed, Command
<1>6. Leads(b, row, row + 1)
  BY <1>2, <1>5, LeadsPastRow
<1>7. gap' = gap \cup {d \in Causes : Breaks(b, row, d)}
  <2>1. CASE PassOver
    <3>1. \A d : Breaks(b, row, d) <=> d = "unreplayable" /\ CommandShaped(b[row])
      BY <1>2, <1>3, <2>1 DEF PassOver, Breaks
    <3>2. CASE CommandShaped(b[row])
      <4>1. gap' = gap \cup {"unreplayable"}
        BY <2>1, <3>2, Zenon DEF PassOver, Gap
      <4> QED
        BY <3>1, <3>2, <4>1 DEF Causes
    <3>3. CASE ~CommandShaped(b[row])
      <4>1. gap' = gap
        BY <2>1, <3>3, Zenon DEF PassOver
      <4> QED
        BY <3>1, <3>3, <4>1
    <3> QED
      BY <3>2, <3>3
  <2>2. CASE SkipReport
    <3>1. b[row].kind = "report" /\ ~b[row].template /\ gap' = gap
      BY <1>2, <2>2 DEF SkipReport, WellFormed, Command
    <3>2. Active(b[row])
      BY <3>1 DEF Active, CommandShaped
    <3>3. \A d : ~Breaks(b, row, d)
      BY <1>3, <3>1, <3>2 DEF Breaks
    <3> QED
      BY <3>1, <3>3
  <2> QED
    BY <2>1, <2>2
<1> QED
  BY <1>1, <1>4, <1>6, <1>7 DEF RowRead

\* What every action at a command has in common.
LEMMA AtCommandStands ==
  ASSUME WalkTypeOK, WalkInv, AtCommand
  PROVE  /\ Walking /\ out = NoItem
         /\ Stands(doc[blk], row) /\ This = Joined(doc[blk], row)
         /\ This.kind = doc[blk][row].kind
         /\ This.kind \notin {"comment", "report"} /\ This \in Row
         /\ Leads(doc[blk], row, After)
         /\ (BuildsFixture <=> Fixture(doc[blk], row))
         /\ \A d : Breaks(doc[blk], row, d) <=>
              \/ d = "refused" /\ This.unsafe
              \/ /\ d = "unreplayable" /\ ~This.unsafe /\ This.kind \notin {"export", "assign"}
                 /\ IF BuildsFixture THEN ~This.whole
                    ELSE This.kind # "step" /\ CommandShaped(This)
<1>1. Walking /\ Active(doc[blk][row]) /\ doc[blk][row].kind \notin {"comment", "report"}
  BY DEF AtCommand
<1>2. /\ doc[blk] \in Seq(Row) /\ row \in 1..Len(doc[blk]) /\ ~Swallowed(doc[blk], row)
      /\ This = Joined(doc[blk], row) /\ This.kind = doc[blk][row].kind /\ This \in Row
  BY <1>1, HereStands
<1>3. Stands(doc[blk], row)
  BY <1>1, <1>2 DEF Stands
<1>4. Leads(doc[blk], row, After)
  BY <1>1, <1>2, LeadsPastCommand DEF After
<1>5. BuildsFixture <=> Fixture(doc[blk], row)
  BY <1>2 DEF BuildsFixture, Fixture
<1>6. \A d : Breaks(doc[blk], row, d) <=>
              \/ d = "refused" /\ This.unsafe
              \/ /\ d = "unreplayable" /\ ~This.unsafe /\ This.kind \notin {"export", "assign"}
                 /\ IF BuildsFixture THEN ~This.whole
                    ELSE This.kind # "step" /\ CommandShaped(This)
  BY <1>1, <1>2, <1>3, <1>5 DEF Breaks
<1> QED
  BY <1>1, <1>2, <1>3, <1>4, <1>5, <1>6 DEF Walking

\* Each action at a command does what the command says.
LEMMA CommandReads ==
  ASSUME WalkTypeOK, WalkInv,
         TakeExport \/ TakeAssignment \/ RefuseState \/ YieldFixture \/ YieldCandidate
  PROVE  RowRead
<1> DEFINE b == doc[blk]
           Breaking(d) == \/ d = "refused" /\ This.unsafe
                          \/ /\ d = "unreplayable" /\ ~This.unsafe
                             /\ This.kind \notin {"export", "assign"}
                             /\ IF BuildsFixture THEN ~This.whole
                                ELSE This.kind # "step" /\ CommandShaped(This)
<1>0. AtCommand
  BY DEF TakeExport, TakeAssignment, RefuseState, YieldFixture, YieldCandidate
<1>1. /\ Walking /\ out = NoItem
      /\ Stands(b, row) /\ This = Joined(b, row) /\ This \in Row
      /\ Leads(b, row, After)
      /\ (BuildsFixture <=> Fixture(b, row))
      /\ \A d : Breaks(b, row, d) <=> Breaking(d)
  BY <1>0, AtCommandStands
<1>2. blk' = blk /\ row' = After
  BY DEF TakeExport, TakeAssignment, RefuseState, YieldFixture, YieldCandidate
<1>3. Yields(b, row) <=> (This.kind = "assign" => This.unsafe)
  BY <1>1 DEF Yields
<1>4. Replayed(b, row) <=>
        /\ ~This.unsafe
        /\ This.kind \in {"export", "assign"} \/ (BuildsFixture /\ This.whole)
  BY <1>1 DEF Replayed
<1>5. SlotCode(b, row) = IF This.unsafe THEN Refuse
                         ELSE IF This.kind = "export" THEN NoCode ELSE ExpectedCode(b, row)
  BY <1>1 DEF SlotCode
<1>6. BuildsFixture => This.kind = "step" /\ ExpectedCode(b, row) = NoCode
  BY DEF BuildsFixture
<1> DEFINE Expects(x) == [at |-> Here, expected |-> x, setup |-> setup, gap |-> gap]
<1>7. SUFFICES /\ setup' = IF Replayed(b, row) THEN Append(setup, Here) ELSE setup
               /\ gap' = gap \cup {d \in Causes : Breaking(d)}
               /\ out' = IF Yields(b, row) THEN Expects(SlotCode(b, row)) ELSE NoItem
  BY <1>1, <1>2 DEF RowRead
<1> HIDE DEF b, Expects
<1>8. ASSUME This.unsafe
      PROVE  {d \in Causes : Breaking(d)} = {"refused"}
  BY <1>8 DEF Causes
<1>9. ASSUME ~This.unsafe, \/ This.kind \in {"export", "assign"}
                           \/ BuildsFixture /\ This.whole
                           \/ ~BuildsFixture /\ ~(This.kind # "step" /\ CommandShaped(This))
      PROVE  {d \in Causes : Breaking(d)} = {}
  BY <1>9 DEF Causes
<1>10. ASSUME ~This.unsafe, This.kind \notin {"export", "assign"},
              \/ BuildsFixture /\ ~This.whole
              \/ ~BuildsFixture /\ This.kind # "step" /\ CommandShaped(This)
       PROVE  {d \in Causes : Breaking(d)} = {"unreplayable"}
  BY <1>10 DEF Causes
<1> HIDE DEF Breaking
<1>a. CASE TakeExport
  <2>1. CASE This.unsafe
    BY <1>1, <1>3, <1>4, <1>5, <1>8, <1>a, <2>1 DEF TakeExport, Yield, Gap, Expects
  <2>2. CASE ~This.unsafe
    BY <1>1, <1>3, <1>4, <1>5, <1>9, <1>a, <2>2 DEF TakeExport, Yield, Replay, Expects
  <2> QED
    BY <2>1, <2>2
<1>b. CASE TakeAssignment
  <2>1. CASE This.unsafe
    BY <1>1, <1>3, <1>4, <1>5, <1>8, <1>b, <2>1 DEF TakeAssignment, Yield, Gap, Expects
  <2>2. CASE ~This.unsafe
    BY <1>1, <1>3, <1>4, <1>9, <1>b, <2>2 DEF TakeAssignment, Replay
  <2> QED
    BY <2>1, <2>2
<1>c. CASE RefuseState
  BY <1>1, <1>3, <1>4, <1>5, <1>8, <1>c DEF RefuseState, Yield, Gap, Expects
<1>d. CASE YieldFixture
  <2>1. out' = Expects(SlotCode(b, row)) /\ Yields(b, row)
    BY <1>3, <1>5, <1>6, <1>d DEF YieldFixture, Yield, Expects
  <2>2. CASE This.whole
    BY <1>4, <1>6, <1>9, <1>d, <2>1, <2>2 DEF YieldFixture, Replay
  <2>3. CASE ~This.whole
    BY <1>4, <1>6, <1>10, <1>d, <2>1, <2>3 DEF YieldFixture, Gap
  <2> QED
    BY <2>2, <2>3
<1>e. CASE YieldCandidate
  <2>1. out' = Expects(SlotCode(b, row)) /\ Yields(b, row)
    BY <1>3, <1>5, <1>e DEF YieldCandidate, Yield, Expects, b
  <2>2. ~Replayed(b, row) /\ setup' = setup
    BY <1>4, <1>e DEF YieldCandidate
  <2>3. CASE This.kind # "step" /\ CommandShaped(This)
    <3>1. gap' = gap \cup {"unreplayable"}
      BY <1>e, <2>3, Zenon DEF YieldCandidate, Gap
    <3> QED
      BY <1>10, <1>e, <2>1, <2>2, <2>3, <3>1 DEF YieldCandidate
  <2>4. CASE ~(This.kind # "step" /\ CommandShaped(This))
    <3>1. gap' = gap
      BY <1>e, <2>4, Zenon DEF YieldCandidate
    <3> QED
      BY <1>9, <1>e, <2>1, <2>2, <2>4, <3>1 DEF YieldCandidate
  <2> QED
    BY <2>3, <2>4
<1> QED
  BY <1>a, <1>b, <1>c, <1>d, <1>e

\* One step of the walk is one row read, or the next block opened.
LEMMA WalkReads ==
  ASSUME WalkTypeOK, WalkInv, Walk
  PROVE  RowRead \/ NextBlock
  BY PassOverReads, CommandReads DEF Walk

\* One step more keeps an increasing replay in order.
LEMMA ReplaysAppend ==
  ASSUME NEW s \in Seq(Place), NEW c \in Nat \ {0}, NEW i \in Nat \ {0}, NEW r \in Nat \ {0},
         Replays(s, <<c, i>>),
         ReplayedBefore(<<c, r>>) = ReplayedBefore(<<c, i>>) \cup {<<c, i>>}
  PROVE  Replays(Append(s, <<c, i>>), <<c, r>>)
<1> DEFINE p == <<c, i>>
           t == Append(s, p)
<1>1. p \in Place /\ t \in Seq(Place) /\ Len(t) = Len(s) + 1 /\ t[Len(s) + 1] = p
      /\ \A k \in 1..Len(s) : t[k] = s[k]
  BY DEF Place
<1>2. \A k \in 1..Len(s) : s[k] \in ReplayedBefore(p)
  BY DEF Replays
<1>3. \A k \in 1..Len(s) : s[k] \in Place /\ s[k][2] < i
  <2> SUFFICES ASSUME NEW k \in 1..Len(s)
               PROVE  s[k] \in Place /\ s[k][2] < i
    OBVIOUS
  <2>1. s[k] \in ReplayedBefore(p)
    BY <1>2
  <2> QED
    BY <2>1 DEF ReplayedBefore, Place
<1>4. {t[k] : k \in 1..Len(t)} = {s[k] : k \in 1..Len(s)} \cup {p}
  <2>1. 1..Len(t) = 1..Len(s) \cup {Len(s) + 1}
    BY <1>1
  <2> QED
    BY <1>1, <2>1
<1>5. Increasing(t)
  <2>1. SUFFICES ASSUME NEW k \in 1..Len(t), NEW l \in 1..Len(t), k < l
                 PROVE  t[k][2] < t[l][2]
    BY DEF Increasing
  <2>2. k \in 1..Len(s)
    BY <1>1, <2>1
  <2>3. CASE l \in 1..Len(s)
    BY <1>1, <2>1, <2>2, <2>3 DEF Replays, Increasing
  <2>4. CASE l = Len(s) + 1
    BY <1>1, <1>3, <2>2, <2>4
  <2> QED
    BY <1>1, <2>3, <2>4
<1> HIDE DEF t
<1> QED
  BY <1>4, <1>5 DEF Replays, t

\* What lies before the first row of a block is nothing.
LEMMA NothingBefore ==
  ASSUME NEW c
  PROVE  Replays(<<>>, <<c, 1>>) /\ GapBefore(<<c, 1>>) = {}
<1>1. ReplayedBefore(<<c, 1>>) = {} /\ GapBefore(<<c, 1>>) = {}
  BY DEF ReplayedBefore, GapBefore
<1> QED
  BY <1>1 DEF Replays, Increasing

\* The walk starts and goes on as the block says.
LEMMA WalkInitInv ==
  ASSUME WalkInit
  PROVE  WalkTypeOK /\ WalkInv
<1>1. doc \in Documents /\ doc \in Seq(Seq(Row)) /\ Len(doc) \in Nat
  BY DocumentsAssumption DEF WalkInit
<1>2. blk = 1 /\ row = 1 /\ setup = <<>> /\ gap = {} /\ out = NoItem
  BY DEF WalkInit
<1>3. WalkTypeOK
  BY <1>1, <1>2 DEF WalkTypeOK
<1>4. Replays(setup, Here) /\ gap = GapBefore(Here)
  BY <1>2, NothingBefore DEF Here
<1>5. ~Swallowed(doc[blk], row)
  BY <1>2 DEF Swallowed
<1>6. blk <= Len(doc) => row <= Len(doc[blk]) + 1
  <2>1. ASSUME blk <= Len(doc)
        PROVE  Len(doc[blk]) \in Nat
    <3>1. blk \in 1..Len(doc)
      BY <1>1, <1>2, <2>1
    <3>2. doc[blk] \in Seq(Row)
      BY <1>1, <3>1, ElementOfSeq
    <3> QED
      BY <3>2
  <2> QED
    BY <1>2, <2>1
<1> QED
  BY <1>1, <1>2, <1>3, <1>4, <1>5, <1>6 DEF WalkInv

\* Every step keeps it.
LEMMA WalkKeeps ==
  ASSUME WalkTypeOK, WalkInv, Walk
  PROVE  WalkInv'
<1>0. doc' = doc /\ out = NoItem /\ doc \in Seq(Seq(Row)) /\ doc \in Documents
      /\ blk \in Nat \ {0} /\ row \in Nat \ {0} /\ setup \in Seq(Place)
  BY WalkMoves DEF WalkInv, WalkTypeOK
<1>1. \A p : /\ ReplayedBefore(p)' = ReplayedBefore(p) /\ GapBefore(p)' = GapBefore(p)
             /\ YieldedAt(p)' = YieldedAt(p)
  BY <1>0 DEF ReplayedBefore, GapBefore, YieldedAt
<1>2. \A s, p : Replays(s, p)' = Replays(s, p)
  BY <1>1 DEF Replays
<1>3. \A x : Told(x)' = Told(x)
  BY <1>0, <1>1, <1>2 DEF Told
<1>4. CASE NextBlock
  <2>1. /\ blk' = blk + 1 /\ row' = 1 /\ setup' = <<>> /\ gap' = {} /\ out' = NoItem
        /\ blk <= Len(doc)
    BY <1>0, <1>4 DEF NextBlock
  <2>2. Replays(setup', <<blk', row'>>) /\ gap' = GapBefore(<<blk', row'>>)
    BY <2>1, NothingBefore
  <2>3. blk' <= Len(doc) => row' <= Len(doc[blk']) + 1
    <3>1. ASSUME blk' <= Len(doc)
          PROVE  Len(doc[blk']) \in Nat
      <4>1. blk' \in 1..Len(doc)
        BY <1>0, <2>1, <3>1
      <4>2. doc[blk'] \in Seq(Row)
        BY <1>0, <4>1, ElementOfSeq
      <4> QED
        BY <4>2
    <3> QED
      BY <2>1, <3>1
  <2>4. ~Swallowed(doc[blk'], row')
    BY <2>1 DEF Swallowed
  <2> QED
    BY <1>0, <1>1, <1>2, <2>1, <2>2, <2>3, <2>4 DEF WalkInv, Here
<1>5. CASE RowRead /\ ~NextBlock
  <2>1. /\ blk \in 1..Len(doc) /\ row \in 1..Len(doc[blk]) /\ Walking
    <3>1. Walking
      BY <1>5 DEF Walk, PassOver, SkipReport, TakeExport, TakeAssignment, RefuseState,
                  YieldFixture, YieldCandidate, AtCommand
    <3> QED
      BY <3>1, HereStands
  <2>2. blk' = blk /\ Leads(doc[blk], row, row')
    BY <1>5 DEF RowRead
  <2>3. row' \in (row + 1)..(Len(doc[blk]) + 1) /\ Len(doc[blk]) \in Nat
        /\ (row' <= Len(doc[blk]) => ~Swallowed(doc[blk], row'))
    <3>1. doc[blk] \in Seq(Row)
      BY <1>0, <2>1, ElementOfSeq
    <3> QED
      BY <2>2, <3>1 DEF Leads
  <2>4. /\ ReplayedBefore(<<blk, row'>>) =
             ReplayedBefore(Here) \cup (IF Replayed(doc[blk], row) THEN {Here} ELSE {})
        /\ GapBefore(<<blk, row'>>) = GapBefore(Here) \cup {d \in Causes : Breaks(doc[blk], row, d)}
    BY <1>0, <2>1, <2>2, BeforeGrows DEF Here
  <2>5. gap' = GapBefore(<<blk, row'>>) /\ gap = GapBefore(Here)
    BY <1>5, <2>4 DEF RowRead, WalkInv
  <2>6. Replays(setup', <<blk, row'>>) /\ Replays(setup, Here)
    <3>1. Replays(setup, Here)
      BY DEF WalkInv
    <3>2. CASE Replayed(doc[blk], row)
      <4>1. setup' = Append(setup, <<blk, row>>)
        BY <1>5, <3>2 DEF RowRead, Here
      <4>2. row' \in Nat \ {0}
        BY <2>3, <1>0
      <4>3. ReplayedBefore(<<blk, row'>>) = ReplayedBefore(<<blk, row>>) \cup {<<blk, row>>}
        BY <2>4, <3>2 DEF Here
      <4> QED
        BY <1>0, <3>1, <4>1, <4>2, <4>3, ReplaysAppend DEF Here
    <3>3. CASE ~Replayed(doc[blk], row)
      BY <1>5, <2>4, <3>1, <3>3 DEF RowRead, Replays
    <3> QED
      BY <3>2, <3>3
  <2>7. ASSUME out' # NoItem
        PROVE  Told(out') /\ out'.gap = GapBefore(out'.at) /\ out'.at = Here
    <3>1. Yields(doc[blk], row)
          /\ out' = [at |-> Here, expected |-> SlotCode(doc[blk], row), setup |-> setup, gap |-> gap]
      BY <1>5, <2>7 DEF RowRead
    <3>2. YieldedAt(Here)
      BY <2>1, <3>1 DEF YieldedAt, Here
    <3> QED
      BY <2>5, <2>6, <3>1, <3>2 DEF Told, Here
  <2>8. \A p : Passed(p)' <=> p[1] < blk \/ (p[1] = blk /\ p[2] < row')
    BY <2>2 DEF Passed
  <2>10. \A p : p = Here => Passed(p)'
    BY <1>0, <2>3, <2>8 DEF Here
  <2>9. blk' # Len(doc) + 1
    BY <2>1, <2>2
  <2>11. (out # NoItem => Told(out) /\ out.gap = GapBefore(out.at) /\ Passed(out.at))'
    BY <1>1, <1>3, <2>7, <2>10
  <2>12. (Replays(setup, Here) /\ gap = GapBefore(Here))'
    BY <1>1, <1>2, <2>2, <2>5, <2>6 DEF Here
  <2> QED
    BY <1>0, <2>2, <2>3, <2>9, <2>11, <2>12 DEF WalkInv
<1> QED
  BY <1>4, <1>5, WalkReads

\* A consumer that takes the item, or leaves it, keeps it too.
LEMMA TakingKeeps ==
  ASSUME WalkInv, UNCHANGED <<doc, blk, row, setup, gap>>, out' \in {out, NoItem}
  PROVE  WalkInv'
<1>1. \A p : /\ ReplayedBefore(p)' = ReplayedBefore(p) /\ GapBefore(p)' = GapBefore(p)
             /\ YieldedAt(p)' = YieldedAt(p) /\ Passed(p)' = Passed(p)
  BY DEF ReplayedBefore, GapBefore, YieldedAt, Passed
<1>2. \A s, p : Replays(s, p)' = Replays(s, p)
  BY <1>1 DEF Replays
<1>3. \A x : Told(x)' = Told(x)
  BY <1>1, <1>2 DEF Told
<1> QED
  BY <1>1, <1>2, <1>3 DEF WalkInv, Here

\* The walk yields whatever yields: no place is left behind without its item.
LEMMA WalkYields ==
  ASSUME WalkTypeOK, WalkInv, Walk, NEW p \in Place, YieldedAt(p), Passed(p)'
  PROVE  Passed(p) \/ (out' # NoItem /\ out'.at = p)
<1>1. /\ p[1] \in 1..Len(doc) /\ p[2] \in 1..Len(doc[p[1]]) /\ p = <<p[1], p[2]>>
      /\ Yields(doc[p[1]], p[2]) /\ ~Swallowed(doc[p[1]], p[2])
  BY DEF YieldedAt, Place, Yields, Stands
<1>2. p[1] < blk' \/ (p[1] = blk' /\ p[2] < row')
  BY DEF Passed
<1>3. blk \in Nat /\ row \in Nat /\ p[1] \in Nat /\ p[2] \in Nat
  BY DEF WalkTypeOK, Place
<1>4. CASE NextBlock
  <2>1. blk' = blk + 1 /\ row' = 1 /\ blk <= Len(doc) /\ row > Len(doc[blk])
    BY <1>4 DEF NextBlock
  <2>2. p[1] < blk \/ p[1] = blk
    BY <1>1, <1>2, <1>3, <2>1
  <2>3. p[1] = blk => p[2] < row
    <3>1. doc \in Seq(Seq(Row))
      BY DEF WalkTypeOK
    <3>2. doc[p[1]] \in Seq(Row)
      BY <1>1, <3>1, ElementOfSeq
    <3> QED
      BY <1>1, <1>3, <2>1, <3>2
  <2> QED
    BY <2>2, <2>3 DEF Passed
<1>5. CASE RowRead /\ ~NextBlock
  <2>1. Walking
    BY <1>5 DEF Walk, PassOver, SkipReport, TakeExport, TakeAssignment, RefuseState,
                YieldFixture, YieldCandidate, AtCommand
  <2>2. doc[blk] \in Seq(Row) /\ row \in 1..Len(doc[blk])
    BY <2>1, HereStands
  <2>3. ASSUME Yields(doc[blk], row)
        PROVE  out' # NoItem /\ out'.at = Here
    <3>1. SlotCode(doc[blk], row) \in Expected
      BY <2>2, ExpectedCodeType DEF SlotCode, Expected
    <3>2. out' = [at |-> Here, expected |-> SlotCode(doc[blk], row), setup |-> setup, gap |-> gap]
      BY <1>5, <2>3 DEF RowRead
    <3>3. out' \in Item
      BY <2>1, <3>1, <3>2, YieldType
    <3> QED
      BY <3>2, <3>3, NoItemAssumption
  <2>4. /\ blk' = blk /\ row' \in Nat
        /\ \A j \in (row + 1)..(row' - 1) : Swallowed(doc[blk], j)
    <3>1. blk' = blk /\ Leads(doc[blk], row, row')
      BY <1>5 DEF RowRead
    <3>2. Len(doc[blk]) \in Nat /\ row \in Nat
      BY <2>2
    <3>3. row' \in (row + 1)..(Len(doc[blk]) + 1)
      BY <3>1 DEF Leads
    <3>4. \A j \in (row + 1)..(row' - 1) : Swallowed(doc[blk], j)
      BY <3>1, Zenon DEF Leads
    <3>5. row' \in Nat
      BY <3>2, <3>3
    <3> QED
      BY <3>1, <3>4, <3>5, Zenon
  <2> QED
    BY <1>1, <1>2, <1>3, <2>3, <2>4 DEF Passed, Here
<1> QED
  BY <1>4, <1>5, WalkReads

\* Two increasing lists of the same steps are one list.
LEMMA OneReplay ==
  ASSUME NEW s \in Seq(Place), NEW t \in Seq(Place), NEW p, Replays(s, p), Replays(t, p)
  PROVE  s = t
<1> DEFINE Same(k) == k \in 1..Len(s) /\ k \in 1..Len(t) /\ s[k] = t[k]
           D == {k \in Nat \ {0} : (k <= Len(s) \/ k <= Len(t)) /\ ~Same(k)}
<1>1. /\ Len(s) \in Nat /\ Len(t) \in Nat
      /\ \A k \in 1..Len(s) : s[k] \in Place /\ s[k][2] \in Nat
      /\ \A k \in 1..Len(t) : t[k] \in Place /\ t[k][2] \in Nat
  BY DEF Place
<1>2. /\ \A k \in 1..Len(s) : \E l \in 1..Len(t) : t[l] = s[k]
      /\ \A k \in 1..Len(t) : \E l \in 1..Len(s) : s[l] = t[k]
  BY DEF Replays
<1>3. /\ \A k, l \in 1..Len(s) : k < l => s[k][2] < s[l][2]
      /\ \A k, l \in 1..Len(t) : k < l => t[k][2] < t[l][2]
  BY DEF Replays, Increasing
<1>4. ASSUME D # {}
      PROVE  FALSE
  <2>1. PICK k \in D : \A y \in D : k <= y
    BY <1>4, LeastNatural
  <2>2. k \in Nat \ {0} /\ (k <= Len(s) \/ k <= Len(t)) /\ ~Same(k)
    BY <2>1
  <2>3. \A l \in 1..(k - 1) : Same(l)
    <3> SUFFICES ASSUME NEW l \in 1..(k - 1)
                 PROVE  Same(l)
      OBVIOUS
    <3>1. l \in Nat \ {0} /\ ~(k <= l) /\ (l <= Len(s) \/ l <= Len(t))
      BY <1>1, <2>2
    <3> QED
      BY <2>1, <3>1
  <2>4. CASE k <= Len(s) /\ ~(k <= Len(t))
    <3>0. k \in 1..Len(s)
      BY <1>1, <2>2, <2>4
    <3>1. PICK l \in 1..Len(t) : t[l] = s[k]
      BY <1>2, <3>0
    <3>2. l < k /\ l \in 1..(k - 1)
      BY <1>1, <2>2, <2>4
    <3>3. s[l] = t[l] /\ l \in 1..Len(s)
      BY <2>3, <3>2
    <3>4. s[l][2] < s[k][2]
      BY <1>3, <3>0, <3>2, <3>3
    <3> QED
      BY <1>1, <3>0, <3>1, <3>3, <3>4
  <2>5. CASE k <= Len(t) /\ ~(k <= Len(s))
    <3>0. k \in 1..Len(t)
      BY <1>1, <2>2, <2>5
    <3>1. PICK l \in 1..Len(s) : s[l] = t[k]
      BY <1>2, <3>0
    <3>2. l < k /\ l \in 1..(k - 1)
      BY <1>1, <2>2, <2>5
    <3>3. s[l] = t[l] /\ l \in 1..Len(t)
      BY <2>3, <3>2
    <3>4. t[l][2] < t[k][2]
      BY <1>3, <3>0, <3>2, <3>3
    <3> QED
      BY <1>1, <3>0, <3>1, <3>3, <3>4
  <2>6. CASE k <= Len(s) /\ k <= Len(t)
    <3>1. k \in 1..Len(s) /\ k \in 1..Len(t) /\ s[k] # t[k]
      BY <1>1, <2>2, <2>6
    <3>2. PICK l \in 1..Len(t) : t[l] = s[k]
      BY <1>2, <3>1
    <3>3. PICK m \in 1..Len(s) : s[m] = t[k]
      BY <1>2, <3>1
    <3>4. l > k
      <4>1. ASSUME l < k
            PROVE  FALSE
        <5>1. l \in 1..(k - 1)
          BY <1>1, <2>2, <4>1
        <5>2. s[l] = s[k] /\ l \in 1..Len(s)
          BY <2>3, <3>2, <5>1
        <5> QED
          BY <1>1, <1>3, <3>1, <4>1, <5>2
      <4> QED
        BY <1>1, <2>2, <3>1, <3>2, <4>1
    <3>5. m > k
      <4>1. ASSUME m < k
            PROVE  FALSE
        <5>1. m \in 1..(k - 1)
          BY <1>1, <2>2, <4>1
        <5>2. t[m] = t[k] /\ m \in 1..Len(t)
          BY <2>3, <3>3, <5>1
        <5> QED
          BY <1>1, <1>3, <3>1, <4>1, <5>2
      <4> QED
        BY <1>1, <2>2, <3>1, <3>3, <4>1
    <3>6. t[k][2] < s[k][2] /\ s[k][2] < t[k][2]
      BY <1>3, <3>1, <3>2, <3>3, <3>4, <3>5
    <3> QED
      BY <1>1, <3>1, <3>6
  <2> QED
    BY <2>2, <2>4, <2>5, <2>6
<1>5. \A k \in Nat \ {0} : k <= Len(s) \/ k <= Len(t) => Same(k)
  BY <1>4
<1>6. Len(s) = Len(t)
  BY <1>1, <1>5
<1>7. \A k \in 1..Len(s) : s[k] = t[k]
  BY <1>1, <1>5
<1> QED
  BY <1>6, <1>7, SeqEqual

\* Above a place without a gap, what is replayed is what a reader of the block
\* rests on.
LEMMA NoGapNoLoss ==
  ASSUME NEW b \in Seq(Row), NEW j \in 1..Len(b), WellFormed(b[j]),
         \A d \in Causes : ~Breaks(b, j, d)
  PROVE  Replayed(b, j) <=> ScenarioRow(b, j)
<1> DEFINE c == Joined(b, j)
<1>1. c \in Row /\ c.kind = b[j].kind
  BY JoinedType
<1>2. ~Breaks(b, j, "refused") /\ ~Breaks(b, j, "unreplayable")
  BY DEF Causes
<1>3. c.kind \in {"export", "assign"} => ~c.template
  <2>1. ASSUME c.kind \in {"export", "assign"}
        PROVE  ~b[j].cont /\ ~b[j].template
    BY <1>1, <2>1 DEF WellFormed, Command
  <2>2. ASSUME c.kind \in {"export", "assign"}
        PROVE  c.template = b[j].template
    <3>1. JoinEnd(b, j) = j
      BY <2>1, <2>2, JoinAlone
    <3>2. c.template <=> \E k \in j..j : b[k].template
      BY <3>1 DEF Joined, Join, Some
    <3>3. b[j] \in Row
      BY ElementOfSeq
    <3> QED
      BY <1>1, <3>2, <3>3 DEF Row
  <2> QED
    BY <2>1, <2>2
<1>4. Replayed(b, j) => ScenarioRow(b, j)
  BY <1>1, <1>3 DEF Replayed, Fixture, Stands, ScenarioRow, Command
<1>5. ScenarioRow(b, j) => Replayed(b, j)
  <2>1. SUFFICES ASSUME ScenarioRow(b, j)
                 PROVE  Replayed(b, j)
    OBVIOUS
  <2>2. Stands(b, j) /\ ~c.template
    BY <1>1, <2>1 DEF ScenarioRow, Stands, Command
  <2>3. ~c.unsafe
    BY <1>2, <2>2 DEF Breaks
  <2>4. CASE c.kind \in {"export", "assign"}
    BY <2>2, <2>3, <2>4 DEF Replayed
  <2>5. CASE c.kind = "step"
    <3>1. Fixture(b, j)
      BY <2>1, <2>2, <2>5 DEF ScenarioRow, Fixture
    <3>2. c.whole
      BY <1>2, <2>2, <2>3, <2>5, <3>1 DEF Breaks
    <3> QED
      BY <2>2, <2>3, <3>1, <3>2 DEF Replayed
  <2>6. CASE c.kind \in {"mixed", "foreign"}
    <3>1. CommandShaped(c) /\ ~Fixture(b, j)
      BY <2>2, <2>6 DEF CommandShaped, Command, Fixture
    <3> QED
      BY <1>2, <2>2, <2>3, <2>6, <3>1 DEF Breaks
  <2> QED
    BY <2>1, <2>4, <2>5, <2>6 DEF ScenarioRow, Command
<1> QED
  BY <1>4, <1>5

\* The search for a report stops at the first row it does not walk over.
LEMMA StopRowStops ==
  ASSUME NEW b \in Seq(Row), NEW e \in Nat \ {0}, StopRow(b, e) # 0
  PROVE  \A k \in (e + 1)..(StopRow(b, e) - 1) : Passes(b[k])
<1> DEFINE T == {j \in (e + 1)..Len(b) : ~Passes(b[j])}
<1>1. ~(\A k \in (e + 1)..Len(b) : Passes(b[k]))
  BY DEF StopRow
<1>2. T \subseteq Nat /\ T # {}
  BY <1>1
<1>3. PICK j \in T : \A y \in T : j <= y
  BY <1>2, LeastNatural
<1>4. \E f \in (e + 1)..Len(b) : ~Passes(b[f]) /\ \A k \in (e + 1)..(f - 1) : Passes(b[k])
  <2>1. \A k \in (e + 1)..(j - 1) : Passes(b[k])
    BY <1>3
  <2> QED
    BY <1>3, <2>1
<1> QED
  BY <1>1, <1>4 DEF StopRow

\* A command that takes no code of its own is a row the search stops at, so that a
\* report above which it stands is not also the report of a command above it.
LEMMA OwnReport ==
  ASSUME NEW b \in Seq(Row), NEW i \in 1..Len(b), NEW j \in 1..Len(b), i < j,
         Stands(b, i), Stands(b, j), WellFormed(b[j]),
         Joined(b, j).code = NoCode,
         StopRow(b, JoinEnd(b, i)) # 0
  PROVE  StopRow(b, JoinEnd(b, j)) # StopRow(b, JoinEnd(b, i))
<1> DEFINE e == JoinEnd(b, i)
           f == JoinEnd(b, j)
           r == StopRow(b, e)
<1>1. e \in i..Len(b) /\ (\A k \in i..(e - 1) : b[k].cont) /\ f \in j..Len(b)
  BY JoinEndRange
<1>2. e < j
  <2>1. ASSUME j <= e
        PROVE  FALSE
    <3>1. i \in 1..(j - 1) /\ (\A k \in i..(j - 1) : b[k].cont)
      BY <1>1, <2>1
    <3>2. Active(b[i])
      BY DEF Stands
    <3> QED
      BY <3>1, <3>2 DEF Stands, Swallowed
  <2> QED
    BY <1>1, <2>1
<1>3. ~Passes(b[j])
  <2>1. b[j] \in Row /\ Active(b[j]) /\ b[j].kind \notin {"comment", "report"}
    BY ElementOfSeq DEF Stands
  <2>2. ~b[j].cont => b[j].code = NoCode
    <3>1. ASSUME ~b[j].cont
          PROVE  JoinEnd(b, j) = j
      BY <3>1, JoinAlone
    <3> QED
      BY <3>1 DEF Joined, Join
  <2>3. b[j].code = NoCode
    BY <2>2 DEF WellFormed
  <2>4. b[j].kind # "blank" /\ b[j].kind # "output"
    BY <2>1, <2>3 DEF Active, CommandShaped, WellFormed, Command
  <2>5. ~(b[j].kind = "foreign" /\ b[j].template /\ ~b[j].prompt)
    BY <2>1, <2>3 DEF Active, CommandShaped
  <2> QED
    BY <2>1, <2>4, <2>5 DEF Passes
<1>4. r \in (e + 1)..Len(b) /\ \A k \in (e + 1)..(r - 1) : Passes(b[k])
  <2>1. e \in Nat \ {0}
    BY <1>1
  <2> QED
    BY <2>1, StopRowRange, StopRowStops
<1>5. ~(j \in (e + 1)..(r - 1))
  BY <1>3, <1>4
<1>6. r <= j
  <2>1. e \in Int /\ r \in Int /\ j \in Int
    BY <1>1, <1>4
  <2> HIDE DEF e, r
  <2> QED
    BY <1>2, <1>5, <2>1
<1>7. StopRow(b, f) = 0 \/ StopRow(b, f) \in (f + 1)..Len(b)
  BY <1>1, StopRowRange
<1> QED
  BY <1>1, <1>4, <1>6, <1>7


-----------------------------------------------------------------------------
(* The sweep. *)

\* What Bash is running documents a code and carries no primitive.
RunInv == running => /\ out # NoItem /\ out.expected \in Codes
                     /\ ~ForbiddenScript(out)

\* The counters the exit code is computed from say at least what happened.
Happened(classes) == \E e \in log : e.class \in classes

CountInv ==
  /\ Happened({"mismatch"}) => n["mismatched"] > 0
  /\ Happened({"refused", "forbidden"}) => n["refused"] > 0
  /\ Happened({"pending"}) => n["pending"] > 0
  /\ orphan \/ (\E e \in log : ~e.alone) => n["mismatched"] > 0
  /\ running => n["ran"] > 0
  /\ n["ran"] > (IF running THEN 1 ELSE 0) => Happened({"verified", "mismatch"})

\* The log is behind the walk, and a refusal in the block under the walk is in
\* its gap and in that of the item that waits.
OrderInv ==
  /\ out # NoItem => /\ out.at[1] = blk /\ out.at[2] < row
                     /\ (out.expected = Refuse => "refused" \in gap)
  /\ \A e \in log :
       /\ e.at[1] <= blk
       /\ e.at[1] = blk =>
            /\ e.at[2] < row
            /\ out # NoItem => e.at[2] < out.at[2]
            /\ e.class = "refused" =>
                 "refused" \in gap /\ (out # NoItem => "refused" \in out.gap)

\* The inductive invariant.
IInv ==
  /\ TypeOK /\ SafeWalk /\ RunInv /\ CountInv /\ OrderInv
  /\ RefusedNeverRun /\ GreenIsEarned /\ NothingCountsAfterRefusal

\* What every action that finishes with an item does beyond its counters.
Closes(class, e) ==
  /\ exit = Unset /\ out # NoItem
  /\ e.at = out.at /\ e.class = class /\ e.gap = out.gap /\ e.setup = out.setup
  /\ e \in Entry
  /\ log' = log \cup {e}
  /\ out' = NoItem
  /\ UNCHANGED <<doc, blk, row, setup, gap, strict, exit>>

\* The action `Consume` closes the item it stands for.
LEMMA ConsumeCloses ==
  ASSUME TypeOK, Got, NEW class \in Classes, Consume(class)
  PROVE  \E e : Closes(class, e) /\ e.alone = ~orphan
<1> DEFINE e == [at |-> out.at, class |-> class, expected |-> out.expected,
                 setup |-> out.setup, gap |-> out.gap, alone |-> ~orphan]
<1>1. out \in Item
  BY DEF TypeOK, WalkTypeOK, Got
<1>2. e \in Entry
  BY <1>1 DEF TypeOK, Item, Entry
<1> QED
  BY <1>2 DEF Consume, Closes, Got, Live

\* A closed item leaves the walk and the log well typed.
LEMMA CloseType ==
  ASSUME TypeOK, NEW class, NEW e, Closes(class, e)
  PROVE  WalkTypeOK' /\ log' \subseteq Entry /\ strict' \in BOOLEAN
         /\ exit' \in {0, 1, 2, 3, 4, Unset}
<1>1. WalkTypeOK'
  BY DEF TypeOK, WalkTypeOK, Closes
<1> QED
  BY <1>1 DEF TypeOK, Closes

\* It leaves the log behind the walk, provided a refusal is logged for the
\* sentinel only.
LEMMA CloseOrder ==
  ASSUME TypeOK, OrderInv, NEW class, NEW e, Closes(class, e),
         class = "refused" => out.expected = Refuse
  PROVE  OrderInv'
  BY DEF OrderInv, Closes, TypeOK, WalkTypeOK

\* A refusal closes after every proof of its block that counts, and no item
\* closes as verified with a gap.
LEMMA CloseRefusal ==
  ASSUME TypeOK, OrderInv, NothingCountsAfterRefusal, NEW class, NEW e, Closes(class, e),
         class = "verified" => out.gap = {}
  PROVE  NothingCountsAfterRefusal'
<1> SUFFICES ASSUME NEW f \in log', NEW g \in log', f.class = "verified",
                    g.class = "refused", g.at[1] = f.at[1]
             PROVE  f.at[2] < g.at[2]
  BY DEF NothingCountsAfterRefusal
<1>1. CASE f \in log /\ g \in log
  BY <1>1 DEF NothingCountsAfterRefusal
<1>2. CASE f \in log /\ g = e
  BY <1>2 DEF OrderInv, Closes
<1>3. CASE f = e /\ g \in log
  BY <1>3 DEF OrderInv, Closes
<1>4. CASE f = e /\ g = e
  BY <1>4
<1> QED
  BY <1>1, <1>2, <1>3, <1>4 DEF Closes

\* Closing an item that was run keeps primitives and shell state out of the
\* scripts in the log, provided that item was fit to run.
LEMMA CloseSafe ==
  ASSUME TypeOK, SafeWalk, RefusedNeverRun, NEW class, NEW e, Closes(class, e),
         class \in Executed => out.expected \in Codes /\ ~ForbiddenScript(out)
  PROVE  SafeWalk' /\ RefusedNeverRun'
<1>1. doc' = doc /\ \A p : CommandAt(p)' = CommandAt(p)
  BY DEF Closes, CommandAt
<1>2. SafeWalk'
  BY DEF Closes, SafeWalk, SafeSetup, SafeItem, CommandAt
<1>3. Steps(e) = Steps(out)
  BY DEF Closes, Steps
<1> DEFINE Fit(f, p) == /\ ~CommandAt(p).unsafe
                        /\ CommandAt(p).forbidden =>
                             p # f.at /\ CommandAt(p).kind = "step" /\ ~CommandAt(p).plain
<1>4. class \in Executed => \A p \in Steps(e) : Fit(e, p)
  <2> SUFFICES ASSUME class \in Executed, NEW p \in Steps(out)
               PROVE  Fit(e, p)
    BY <1>3
  <2>1. SafeItem(out) /\ out.expected \in Codes /\ ~ForbiddenScript(out) /\ e.at = out.at
    BY DEF Closes, SafeWalk
  <2>2. CASE p = out.at
    BY <2>1, <2>2 DEF SafeItem, ForbiddenScript
  <2>3. CASE p # out.at
    <3>1. PICK k \in 1..Len(out.setup) : p = out.setup[k]
      BY <2>3 DEF Steps
    <3>2. ~CommandAt(p).unsafe /\ ~FoundInSetup(p)
      BY <2>1, <3>1 DEF SafeItem, SafeSetup, ForbiddenScript
    <3> QED
      BY <2>1, <2>3, <3>2 DEF FoundInSetup
  <2> QED
    BY <2>2, <2>3
<1>5. \A f \in log : f.class \in Executed => \A p \in Steps(f) : Fit(f, p)
  BY DEF RefusedNeverRun
<1>6. \A f \in log' : f.class \in Executed => \A p \in Steps(f) : Fit(f, p)
  BY <1>4, <1>5 DEF Closes
<1>7. RefusedNeverRun'
  BY <1>1, <1>6 DEF RefusedNeverRun, CommandAt, Steps
<1> QED
  BY <1>2, <1>7

\* Counting adds one to the counters named and leaves the others alone.
LEMMA BumpCounts ==
  ASSUME TypeOK, NEW cs, Bump(cs)
  PROVE  /\ n' \in [Counters -> Nat]
         /\ \A c \in Counters : n'[c] = IF c \in cs THEN n[c] + 1 ELSE n[c]
  BY DEF TypeOK, Bump

\* The counters of the verdict are counters.
LEMMA CounterNames ==
  {"ran", "mismatched", "refused", "pending", "total", "unsequenced"} \subseteq Counters
  BY DEF Counters

\* CountInv when an item closes without running and with its class counted.
LEMMA CloseCounts ==
  ASSUME TypeOK, CountInv, ~running, NEW class, NEW e, Closes(class, e), e.alone = ~orphan,
         UNCHANGED <<running, orphan>>,
         class \notin Executed,
         n' \in [Counters -> Nat],
         \A c \in Counters : n'[c] >= n[c],
         n'["ran"] = n["ran"],
         class \in {"refused", "forbidden"} => n'["refused"] = n["refused"] + 1,
         class = "pending" => n'["pending"] = n["pending"] + 1
  PROVE  CountInv'
<1>1. log' = log \cup {e} /\ e.class = class
  BY DEF Closes
<1>2. /\ n["mismatched"] \in Nat /\ n["refused"] \in Nat /\ n["pending"] \in Nat
      /\ n["ran"] \in Nat /\ n'["mismatched"] \in Nat /\ n'["refused"] \in Nat
      /\ n'["pending"] \in Nat /\ n'["mismatched"] >= n["mismatched"]
      /\ n'["refused"] >= n["refused"] /\ n'["pending"] >= n["pending"]
  BY CounterNames DEF TypeOK
<1>3. \A cs : Happened(cs)' <=> Happened(cs) \/ class \in cs
  BY <1>1 DEF Happened
<1>4. class \notin {"mismatch", "verified"}
  BY DEF Executed
<1>5. (\E f \in log' : ~f.alone) => orphan \/ \E f \in log : ~f.alone
  BY <1>1
<1> QED
  BY <1>2, <1>3, <1>4, <1>5 DEF CountInv

\* What the five actions that close an item without running it have in common.
Counts(class) ==
  /\ Got /\ Consume(class) /\ UNCHANGED running
  /\ class \in Classes \ Executed
  /\ n' \in [Counters -> Nat]
  /\ \A c \in Counters : n'[c] >= n[c]
  /\ n'["ran"] = n["ran"]
  /\ class \in {"refused", "forbidden"} => n'["refused"] = n["refused"] + 1
  /\ class = "pending" => n'["pending"] = n["pending"] + 1
  /\ class = "refused" => out.expected = Refuse

\* Each branch of the consumer that runs nothing counts as `Counts` says.
LEMMA CountingCounts ==
  ASSUME TypeOK,
         CountRefused \/ CountSkipped \/ CountTemplate \/ CountPending \/ RefuseForbidden
  PROVE  \E class : Counts(class)
<1> USE DEF Classes, Executed
<1>0. n \in [Counters -> Nat]
  BY DEF TypeOK
<1>1. ASSUME NEW cs, Bump(cs), "ran" \notin cs
      PROVE  /\ n' \in [Counters -> Nat]
             /\ \A c \in Counters : n'[c] >= n[c]
             /\ n'["ran"] = n["ran"]
             /\ "refused" \in cs => n'["refused"] = n["refused"] + 1
             /\ "pending" \in cs => n'["pending"] = n["pending"] + 1
  BY <1>0, <1>1, BumpCounts, CounterNames
<1>2. UNCHANGED n => /\ n' \in [Counters -> Nat]
                     /\ \A c \in Counters : n'[c] >= n[c]
                     /\ n'["ran"] = n["ran"]
  BY <1>0
<1>a. CASE CountRefused
  <2>1. Counts("refused")
    BY <1>1, <1>a DEF CountRefused, Counts
  <2> QED
    BY <2>1
<1>b. CASE CountSkipped
  <2>1. CASE out.expected = NoCode
    <3>1. Counts("passed")
      BY <1>2, <1>b, <2>1 DEF CountSkipped, Counts
    <3> QED
      BY <3>1
  <2>2. CASE out.expected # NoCode
    <3>1. Counts("skipped")
      BY <1>1, <1>b, <2>2 DEF CountSkipped, Counts
    <3> QED
      BY <3>1
  <2> QED
    BY <2>1, <2>2
<1>c. CASE CountTemplate
  <2>1. Counts("template")
    BY <1>1, <1>c DEF CountTemplate, IsCandidate, Counts
  <2> QED
    BY <2>1
<1>d. CASE CountPending
  <2>1. Counts("pending")
    BY <1>1, <1>d DEF CountPending, IsCandidate, Counts
  <2> QED
    BY <2>1
<1>e. CASE RefuseForbidden
  <2>1. Counts("forbidden")
    BY <1>1, <1>e DEF RefuseForbidden, IsProof, IsCandidate, Counts
  <2> QED
    BY <2>1
<1> QED
  BY <1>a, <1>b, <1>c, <1>d, <1>e

\* Closing an item without running it keeps the invariant.
LEMMA CountingKeeps ==
  ASSUME IInv,
         CountRefused \/ CountSkipped \/ CountTemplate \/ CountPending \/ RefuseForbidden
  PROVE  IInv'
<1> USE DEF IInv
<1>1. PICK class : Counts(class)
  BY CountingCounts
<1>2. /\ Got /\ Consume(class) /\ UNCHANGED <<running, orphan>> /\ ~running
      /\ class \in Classes /\ class \notin Executed
  BY <1>1 DEF Counts, Consume, Got
<1>3. PICK e : Closes(class, e) /\ e.alone = ~orphan
  BY <1>2, ConsumeCloses
<1>4. TypeOK'
  BY <1>1, <1>2, <1>3, CloseType DEF TypeOK, Counts
<1>5. SafeWalk' /\ RefusedNeverRun'
  BY <1>2, <1>3, CloseSafe
<1>6. RunInv'
  BY <1>2 DEF RunInv
<1>7. CountInv'
  BY <1>1, <1>2, <1>3, CloseCounts DEF Counts
<1>8. OrderInv'
  BY <1>1, <1>3, CloseOrder DEF Counts
<1>9. NothingCountsAfterRefusal'
  BY <1>2, <1>3, CloseRefusal DEF Executed
<1>10. GreenIsEarned'
  BY <1>3 DEF Closes, GreenIsEarned, Unset
<1> QED
  BY <1>4, <1>5, <1>6, <1>7, <1>8, <1>9, <1>10

\* Starting a proof keeps the invariant: what is started documents a code and
\* carries no primitive.
LEMMA LaunchKeeps ==
  ASSUME IInv, Launch
  PROVE  IInv'
<1> USE DEF IInv
<1>1. /\ n' \in [Counters -> Nat] /\ n'["ran"] = n["ran"] + 1 /\ n["ran"] \in Nat
      /\ n'["mismatched"] = n["mismatched"] /\ n'["refused"] = n["refused"]
      /\ n'["pending"] = n["pending"]
  BY BumpCounts, CounterNames DEF Launch, TypeOK
<1>2. /\ Got /\ ~running /\ running' = TRUE /\ exit' = Unset
      /\ UNCHANGED <<doc, blk, row, setup, gap, out, strict, orphan, log, exit>>
  BY DEF Launch, IsProof, IsCandidate, Got, Live, walkVars
<1>3. out # NoItem /\ out.expected \in Codes /\ ~ForbiddenScript(out)
  BY DEF Launch, IsProof, IsCandidate, Got, TypeOK, WalkTypeOK, Item, Expected
<1>4. TypeOK'
  BY <1>1, <1>2 DEF TypeOK, WalkTypeOK
<1>5. SafeWalk'
  BY <1>2 DEF SafeWalk, SafeSetup, SafeItem, CommandAt
<1>6. RefusedNeverRun'
  BY <1>2 DEF RefusedNeverRun, Steps, CommandAt
<1>7. RunInv'
  BY <1>2, <1>3 DEF RunInv, ForbiddenScript, FoundInSetup, CommandAt
<1>8. CountInv'
  BY <1>1, <1>2 DEF CountInv, Happened
<1>9. OrderInv' /\ NothingCountsAfterRefusal'
  BY <1>2 DEF OrderInv, NothingCountsAfterRefusal
<1>10. GreenIsEarned'
  BY <1>2 DEF GreenIsEarned, Unset
<1> QED
  BY <1>4, <1>5, <1>6, <1>7, <1>8, <1>9, <1>10

\* So does its end: a match with a gap gives its count back, and a script killed
\* at its limit is a mismatch.
LEMMA FinishKeeps ==
  ASSUME IInv, NEW actual \in Outcomes, Finish(actual)
  PROVE  IInv'
<1> USE DEF IInv
<1> DEFINE class == IF actual # out.expected THEN "mismatch"
                    ELSE IF out.gap # {} THEN "unsequenced" ELSE "verified"
           e == [at |-> out.at, class |-> class, expected |-> out.expected,
                 setup |-> out.setup, gap |-> out.gap, alone |-> ~orphan]
<1>1. /\ running /\ running' = FALSE /\ exit = Unset
      /\ log' = log \cup {e} /\ out' = NoItem
      /\ orphan' = (orphan \/ actual = Timeout)
      /\ UNCHANGED <<doc, blk, row, setup, gap, strict, exit>>
  BY DEF Finish, Live
<1>2. out # NoItem /\ out.expected \in Codes /\ ~ForbiddenScript(out)
  BY <1>1 DEF RunInv
<1>3. out \in Item
  BY <1>2 DEF TypeOK, WalkTypeOK
<1>4. class \in Classes /\ class \in Executed /\ class \notin {"refused", "forbidden", "pending"}
  BY DEF Classes, Executed
<1>5. e \in Entry /\ e.class = class /\ e.alone = ~orphan
  BY <1>3, <1>4 DEF TypeOK, Item, Entry
<1>6. Closes(class, e)
  BY <1>1, <1>2, <1>5 DEF Closes
<1>7. /\ n \in [Counters -> Nat] /\ n["ran"] \in Nat /\ n["ran"] > 0
      /\ n["mismatched"] \in Nat /\ n["unsequenced"] \in Nat
  BY <1>1, CounterNames DEF TypeOK, CountInv
<1>8. /\ n' \in [Counters -> Nat]
      /\ n'["refused"] = n["refused"] /\ n'["pending"] = n["pending"]
      /\ class = "mismatch" => n'["mismatched"] = n["mismatched"] + 1 /\ n'["ran"] = n["ran"]
      /\ class = "unsequenced" => n'["mismatched"] = n["mismatched"] /\ n'["ran"] = n["ran"] - 1
      /\ class = "verified" => n'["mismatched"] = n["mismatched"] /\ n'["ran"] = n["ran"]
  <2>1. CASE actual # out.expected
    BY <1>7, <2>1, CounterNames DEF Finish
  <2>2. CASE actual = out.expected /\ out.gap # {}
    BY <1>7, <2>2, CounterNames DEF Finish
  <2>3. CASE actual = out.expected /\ out.gap = {}
    BY <1>7, <2>3, CounterNames DEF Finish
  <2> QED
    BY <2>1, <2>2, <2>3
<1>9. orphan' \in BOOLEAN /\ (actual = Timeout => class = "mismatch")
  BY <1>1, <1>2 DEF TypeOK
<1>10. class = "verified" => out.gap = {}
  OBVIOUS
<1> HIDE DEF class, e
<1>11. TypeOK'
  BY <1>1, <1>6, <1>8, <1>9, CloseType DEF TypeOK
<1>12. SafeWalk' /\ RefusedNeverRun'
  BY <1>2, <1>6, CloseSafe
<1>13. RunInv'
  BY <1>1 DEF RunInv
<1>14. CountInv'
  <2>1. \A cs : Happened(cs)' <=> Happened(cs) \/ class \in cs
    BY <1>1, <1>5 DEF Happened
  <2>2. (\E f \in log' : ~f.alone) <=> orphan \/ \E f \in log : ~f.alone
    BY <1>1, <1>5 DEF TypeOK
  <2>3. class \in {"mismatch", "unsequenced", "verified"}
    BY DEF class
  <2>4. CountInv
    OBVIOUS
  <2>5. n["refused"] \in Nat /\ n["pending"] \in Nat
    BY <1>7, CounterNames
  <2>6. CASE class = "mismatch"
    BY <1>1, <1>4, <1>7, <1>8, <2>1, <2>2, <2>4, <2>6 DEF CountInv
  <2>7. CASE class = "unsequenced"
    <3>1. orphan' => orphan
      BY <1>1, <1>9, <2>7
    <3>2. n'["ran"] > 0 => n["ran"] > (IF running THEN 1 ELSE 0)
      BY <1>1, <1>7, <1>8, <2>7
    <3>3. running' = FALSE /\ n'["mismatched"] = n["mismatched"]
          /\ n'["refused"] = n["refused"] /\ n'["pending"] = n["pending"]
      BY <1>1, <1>8, <2>7
    <3>4. \A cs : Happened(cs) => Happened(cs)'
      BY <2>1
    <3>5. \A cs : "unsequenced" \notin cs => (Happened(cs)' => Happened(cs))
      BY <2>1, <2>7
    <3> QED
      BY <2>2, <2>4, <3>1, <3>2, <3>3, <3>4, <3>5 DEF CountInv
  <2>8. CASE class = "verified"
    BY <1>1, <1>4, <1>7, <1>8, <1>9, <2>1, <2>2, <2>4, <2>8 DEF CountInv
  <2> QED
    BY <2>3, <2>6, <2>7, <2>8
<1>15. OrderInv'
  BY <1>4, <1>6, CloseOrder
<1>16. NothingCountsAfterRefusal'
  BY <1>6, <1>10, CloseRefusal
<1>17. GreenIsEarned'
  BY <1>1 DEF GreenIsEarned, Unset
<1> QED
  BY <1>11, <1>12, <1>13, <1>14, <1>15, <1>16, <1>17

\* A step of the walk keeps the invariant: what it yields lies beyond the log
\* and carries the gap of every refusal before it.
LEMMA ResumeKeeps ==
  ASSUME IInv, Resume
  PROVE  IInv'
<1> USE DEF IInv
<1>1. Walk /\ UNCHANGED <<strict, n, running, orphan, log, exit>> /\ exit = Unset
  BY DEF Resume, Live, mainVars
<1>2. WalkTypeOK
  BY DEF TypeOK
<1>3. /\ doc' = doc /\ out = NoItem
      /\ \/ /\ blk' = blk /\ row' > row /\ gap \subseteq gap'
            /\ out' # NoItem => /\ out'.at = <<blk, row>> /\ out'.gap = gap
                               /\ (out'.expected = Refuse => "refused" \in gap')
         \/ blk' = blk + 1 /\ out' = NoItem
  BY <1>1, <1>2, WalkMoves
<1>4. TypeOK'
  BY <1>1, <1>2, WalkType DEF TypeOK
<1>5. SafeWalk'
  BY <1>1, <1>2, WalkSafe
<1>6. RefusedNeverRun'
  BY <1>1, <1>3 DEF RefusedNeverRun, Steps, CommandAt
<1>7. ~running /\ RunInv'
  BY <1>1, <1>3 DEF RunInv
<1>8. CountInv'
  BY <1>1 DEF CountInv, Happened
<1>9. NothingCountsAfterRefusal'
  BY <1>1 DEF NothingCountsAfterRefusal
<1>10. GreenIsEarned'
  BY <1>1 DEF GreenIsEarned, Unset
<1>11. OrderInv'
  <2>1. blk \in Nat /\ row \in Nat /\ row' \in Nat /\ \A e \in log : e.at \in Place
    BY <1>2, <1>4 DEF TypeOK, WalkTypeOK, Entry
  <2>2. CASE blk' = blk + 1 /\ out' = NoItem
    BY <1>1, <2>1, <2>2 DEF OrderInv, Place
  <2>3. CASE /\ blk' = blk /\ row' > row /\ gap \subseteq gap'
             /\ out' # NoItem => /\ out'.at = <<blk, row>> /\ out'.gap = gap
                                /\ (out'.expected = Refuse => "refused" \in gap')
    BY <1>1, <2>1, <2>3 DEF OrderInv, Place
  <2> QED
    BY <1>3, <2>2, <2>3
<1> QED
  BY <1>4, <1>5, <1>6, <1>7, <1>8, <1>9, <1>10, <1>11

\* So do the two ends: exit 0 is what the counters earned.
LEMMA EndKeeps ==
  ASSUME IInv, GiveUp \/ Conclude
  PROVE  IInv'
<1> USE DEF IInv
<1>1. /\ UNCHANGED <<doc, blk, row, setup, gap, out, strict, n, running, orphan, log>>
      /\ out = NoItem
  BY DEF GiveUp, Conclude, WalkDone, walkVars
<1>2. exit' = 2 \/ exit' = Verdict
  BY DEF GiveUp, Conclude
<1>3. Verdict \in {0, 1, 3, 4}
  BY DEF Verdict
<1>4. TypeOK'
  BY <1>1, <1>2, <1>3 DEF TypeOK, WalkTypeOK
<1>5. SafeWalk'
  BY <1>1 DEF SafeWalk, SafeSetup, SafeItem, CommandAt
<1>6. RefusedNeverRun' /\ NothingCountsAfterRefusal'
  BY <1>1 DEF RefusedNeverRun, Steps, CommandAt, NothingCountsAfterRefusal
<1>7. RunInv' /\ ~running
  BY <1>1 DEF RunInv
<1>8. CountInv' /\ OrderInv'
  BY <1>1 DEF CountInv, Happened, OrderInv
<1>9. GreenIsEarned'
  <2>1. SUFFICES ASSUME exit' = 0
                 PROVE  /\ \E e \in log : e.class = "verified"
                        /\ \A e \in log : e.class \notin {"mismatch", "refused", "forbidden"} /\ e.alone
                        /\ strict => \A e \in log : e.class # "pending"
    BY <1>1 DEF GreenIsEarned
  <2>2. Verdict = 0
    BY <1>2, <2>1
  <2>3. /\ n["mismatched"] \in Nat /\ n["refused"] \in Nat /\ n["pending"] \in Nat
        /\ n["ran"] \in Nat
    BY CounterNames DEF TypeOK
  <2>4. /\ n["mismatched"] = 0 /\ n["refused"] = 0 /\ n["ran"] > 0
        /\ strict => n["pending"] = 0
    BY <2>2, <2>3 DEF Verdict
  <2>5. ~Happened({"mismatch"}) /\ ~Happened({"refused", "forbidden"})
        /\ ~(\E e \in log : ~e.alone) /\ (strict => ~Happened({"pending"}))
    BY <2>4 DEF CountInv
  <2>6. Happened({"verified", "mismatch"})
    BY <1>7, <2>4 DEF CountInv
  <2> QED
    BY <2>5, <2>6 DEF Happened
<1> QED
  BY <1>4, <1>5, <1>6, <1>7, <1>8, <1>9

\* Before the first row nothing has been counted, yielded or logged.
LEMMA InitIInv ==
  ASSUME Init
  PROVE  IInv
<1>1. doc \in Seq(Seq(Row))
  BY DocumentsAssumption DEF Init, WalkInit
<1>2. TypeOK
  <2>1. n \in [Counters -> Nat]
    BY DEF Init
  <2>2. Len(doc) \in Nat
    BY <1>1
  <2>3. WalkTypeOK
    BY <1>1, <2>2 DEF Init, WalkInit, WalkTypeOK
  <2> QED
    BY <2>1, <2>3 DEF Init, TypeOK
<1>3. SafeWalk /\ RunInv
  BY DEF Init, WalkInit, SafeWalk, SafeSetup, RunInv
<1>4. CountInv
  BY CounterNames DEF Init, CountInv, Happened
<1>5. OrderInv /\ RefusedNeverRun /\ NothingCountsAfterRefusal
  BY DEF Init, WalkInit, OrderInv, RefusedNeverRun, NothingCountsAfterRefusal
<1>6. GreenIsEarned
  BY DEF Init, GreenIsEarned, Unset
<1> QED
  BY <1>2, <1>3, <1>4, <1>5, <1>6 DEF IInv

\* Every step keeps it, whatever Bash answers and whatever the block holds.
LEMMA NextIInv ==
  ASSUME IInv, [Next]_vars
  PROVE  IInv'
<1>1. CASE Resume
  BY <1>1, ResumeKeeps
<1>2. CASE Consumer
  <2>1. CASE CountRefused \/ CountSkipped \/ CountTemplate \/ CountPending \/ RefuseForbidden
    BY <2>1, CountingKeeps
  <2>2. CASE Launch
    BY <2>2, LaunchKeeps
  <2>3. CASE \E actual \in Outcomes : Finish(actual)
    BY <2>3, FinishKeeps
  <2> QED
    BY <1>2, <2>1, <2>2, <2>3 DEF Consumer
<1>3. CASE GiveUp \/ Conclude
  BY <1>3, EndKeeps
<1>4. CASE UNCHANGED vars
  <2>1. UNCHANGED <<doc, blk, row, setup, gap, out, strict, n, running, orphan, log, exit>>
    BY <1>4 DEF vars, walkVars
  <2>2. TypeOK'
    BY <2>1 DEF IInv, TypeOK, WalkTypeOK
  <2>3. SafeWalk' /\ RefusedNeverRun'
    BY <2>1 DEF IInv, SafeWalk, SafeSetup, SafeItem, CommandAt, RefusedNeverRun, Steps
  <2>4. RunInv'
    BY <2>1 DEF IInv, RunInv, ForbiddenScript, FoundInSetup, CommandAt
  <2>5. CountInv' /\ OrderInv' /\ GreenIsEarned' /\ NothingCountsAfterRefusal'
    BY <2>1 DEF IInv, CountInv, Happened, OrderInv, GreenIsEarned, NothingCountsAfterRefusal
  <2> QED
    BY <2>2, <2>3, <2>4, <2>5 DEF IInv
<1> QED
  BY <1>1, <1>2, <1>3, <1>4 DEF Next

-----------------------------------------------------------------------------
(* The theorems. *)

\* Every reachable state satisfies the inductive invariant.
THEOREM Invariance == Spec => []IInv
<1>1. Init => IInv
  BY InitIInv
<1>2. IInv /\ [Next]_vars => IInv'
  BY NextIInv
<1> QED
  BY <1>1, <1>2, PTL DEF Spec

\* The walk and the counters of verify-proofs stay well typed.
THEOREM TypeCorrect == Spec => []TypeOK
<1>1. IInv => TypeOK
  BY DEF IInv
<1> QED
  BY <1>1, Invariance, PTL

\* For every document: no refused step is in a script Bash is given, and the only
\* network, privilege or device primitive that can be is one that a replayed step's
\* quoted text does not name plainly.
THEOREM Safe == Spec => []RefusedNeverRun
<1>1. IInv => RefusedNeverRun
  BY DEF IInv
<1> QED
  BY <1>1, Invariance, PTL

\* For every document and every behaviour of Bash: after a refusal no proof of
\* the same block counts as verified.
THEOREM RefusalIsFinal == Spec => []NothingCountsAfterRefusal
<1>1. IInv => NothingCountsAfterRefusal
  BY DEF IInv
<1> QED
  BY <1>1, Invariance, PTL

\* For every document and every behaviour of Bash: exit 0 means something was
\* verified and nothing disproved, refused, or run beside a timed-out script.
THEOREM Green == Spec => []GreenIsEarned
<1>1. IInv => GreenIsEarned
  BY DEF IInv
<1> QED
  BY <1>1, Invariance, PTL

-----------------------------------------------------------------------------
(* What was counted, and what was run before it. *)

\* A command that main runs when its script holds no primitive.
IsProofOf(x) ==
  x.expected \notin {Refuse, NoCode} /\ CommandAt(x.at).kind = "step" /\ ~CommandAt(x.at).template

\* An item was classified by what the block says of its place.
Judged(e) ==
  /\ e.class = "refused" <=> e.expected = Refuse
  /\ e.class \in Executed <=> IsProofOf(e) /\ ~ForbiddenScript(e)
  /\ e.class = "forbidden" <=> IsProofOf(e) /\ ForbiddenScript(e)
  /\ e.class = "verified" => e.gap = {}
  /\ e.class \in {"passed", "pending"} => e.expected = NoCode

\* The log tells of the places behind the walk, of every one that yields.
LogInv ==
  /\ \A e \in log : Told(e) /\ e.gap = GapBefore(e.at) /\ Judged(e)
  /\ running => out # NoItem /\ IsProofOf(out) /\ ~ForbiddenScript(out)
  /\ \A p \in Place : YieldedAt(p) /\ Passed(p) =>
       (out # NoItem /\ out.at = p) \/ \E e \in log : e.at = p
  /\ exit \in {0, 1, 3, 4} => WalkDone

\* While the document stands, what it says of a place stands.
LEMMA DocStands ==
  ASSUME doc' = doc
  PROVE  /\ \A p : /\ GapBefore(p)' = GapBefore(p) /\ YieldedAt(p)' = YieldedAt(p)
         /\ \A x : /\ Told(x)' = Told(x) /\ Judged(x)' = Judged(x)
                   /\ IsProofOf(x)' = IsProofOf(x) /\ ForbiddenScript(x)' = ForbiddenScript(x)
<1>1. \A p : /\ ReplayedBefore(p)' = ReplayedBefore(p) /\ GapBefore(p)' = GapBefore(p)
             /\ YieldedAt(p)' = YieldedAt(p) /\ CommandAt(p)' = CommandAt(p)
  BY DEF ReplayedBefore, GapBefore, YieldedAt, CommandAt
<1>2. \A s, p : Replays(s, p)' = Replays(s, p)
  BY <1>1 DEF Replays
<1>3. \A x : Told(x)' = Told(x)
  BY <1>1, <1>2 DEF Told
<1>4. \A x : IsProofOf(x)' = IsProofOf(x) /\ ForbiddenScript(x)' = ForbiddenScript(x)
  BY <1>1 DEF IsProofOf, ForbiddenScript, FoundInSetup
<1>5. \A x : Judged(x)' = Judged(x)
  BY <1>4 DEF Judged
<1> QED
  BY <1>1, <1>3, <1>4, <1>5

\* Closing an item with the class its place asks for keeps the log complete.
LEMMA CloseLog ==
  ASSUME WalkInv, LogInv, out # NoItem, NEW e, e.at = out.at, e.expected = out.expected,
         e.setup = out.setup, e.gap = out.gap, Judged(e), log' = log \cup {e}, out' = NoItem,
         ~running', exit = Unset, UNCHANGED <<doc, blk, row, setup, gap, exit>>
  PROVE  WalkInv' /\ LogInv'
<1>1. WalkInv'
  BY TakingKeeps
<1>2. Told(e) /\ e.gap = GapBefore(e.at)
  BY DEF WalkInv, Told
<1>3. \A f \in log' : (Told(f) /\ f.gap = GapBefore(f.at) /\ Judged(f))'
  BY <1>2, DocStands DEF LogInv
<1>4. \A p : Passed(p)' <=> Passed(p)
  BY DEF Passed
<1>5. \A p \in Place : (YieldedAt(p) /\ Passed(p))' => \E f \in log' : f.at = p
  BY <1>4, DocStands DEF LogInv
<1>6. exit' \notin {0, 1, 3, 4}
  BY DEF Unset
<1>7. LogInv'
  BY <1>3, <1>5, <1>6 DEF LogInv
<1> QED
  BY <1>1, <1>7

\* Every branch that finishes with an item, without running it or after, gives it
\* the class its place asks for.
LEMMA ConsumerLogs ==
  ASSUME IInv, WalkInv, LogInv, Consumer
  PROVE  WalkInv' /\ LogInv'
<1> DEFINE Of(class) == [at |-> out.at, class |-> class, expected |-> out.expected,
                         setup |-> out.setup, gap |-> out.gap, alone |-> ~orphan]
           Fields(e) == /\ e.at = out.at /\ e.expected = out.expected
                        /\ e.setup = out.setup /\ e.gap = out.gap
<1>1. ASSUME NEW class, Got, Consume(class), UNCHANGED running, Judged(Of(class))
      PROVE  WalkInv' /\ LogInv'
  <2>1. out # NoItem /\ exit = Unset /\ ~running' /\ log' = log \cup {Of(class)} /\ out' = NoItem
        /\ UNCHANGED <<doc, blk, row, setup, gap, exit>>
    BY <1>1 DEF Got, Live, Consume
  <2>2. Fields(Of(class))
    OBVIOUS
  <2> HIDE DEF Of
  <2> QED
    BY <1>1, <2>1, <2>2, CloseLog
<1>2. \A class : /\ Of(class).class = class /\ Of(class).expected = out.expected
                 /\ Of(class).gap = out.gap
                 /\ IsProofOf(Of(class)) = IsProofOf(out)
                 /\ ForbiddenScript(Of(class)) = ForbiddenScript(out)
  BY DEF IsProofOf, ForbiddenScript, FoundInSetup
<1> HIDE DEF Of
<1> USE DEF Executed
<1>a. CASE CountRefused
  <2>1. Judged(Of("refused"))
    BY <1>2, <1>a DEF CountRefused, Judged, IsProofOf
  <2> QED
    BY <1>1, <1>a, <2>1 DEF CountRefused
<1>b. CASE CountSkipped
  <2>1. ~IsProofOf(out) /\ out.expected # Refuse
    BY <1>b DEF CountSkipped, IsProofOf, IsRunnable
  <2>2. (out.expected = NoCode => Judged(Of("passed"))) /\ Judged(Of("skipped"))
    BY <1>2, <2>1 DEF Judged
  <2>3. (out.expected = NoCode /\ Consume("passed")) \/ Consume("skipped")
    BY <1>b DEF CountSkipped
  <2> QED
    BY <1>1, <1>b, <2>2, <2>3 DEF CountSkipped
<1>c. CASE CountTemplate
  <2>1. Judged(Of("template"))
    BY <1>2, <1>c DEF CountTemplate, IsCandidate, Judged, IsProofOf
  <2> QED
    BY <1>1, <1>c, <2>1 DEF CountTemplate, IsCandidate
<1>d. CASE CountPending
  <2>1. Judged(Of("pending"))
    BY <1>2, <1>d DEF CountPending, IsCandidate, Judged, IsProofOf
  <2> QED
    BY <1>1, <1>d, <2>1 DEF CountPending, IsCandidate
<1>e. CASE RefuseForbidden
  <2>1. IsProofOf(out) /\ ForbiddenScript(out)
    BY <1>e DEF RefuseForbidden, IsProof, IsCandidate, IsProofOf, IsRunnable
  <2>2. out.expected # Refuse
    BY <2>1 DEF IsProofOf
  <2>3. Judged(Of("forbidden"))
    BY <1>2, <2>1, <2>2 DEF Judged
  <2> QED
    BY <1>1, <1>e, <2>3 DEF RefuseForbidden, IsProof, IsCandidate
<1>f. CASE Launch
  <2>1. IsProofOf(out) /\ ~ForbiddenScript(out) /\ out # NoItem
    BY <1>f DEF Launch, IsProof, IsCandidate, IsProofOf, IsRunnable, Got
  <2>2. UNCHANGED <<doc, blk, row, setup, gap, out, log, exit>> /\ exit = Unset
    BY <1>f DEF Launch, walkVars, IsProof, IsCandidate, Got, Live
  <2>3. WalkInv'
    BY <2>2, TakingKeeps
  <2>4. \A p : Passed(p)' <=> Passed(p)
    BY <2>2 DEF Passed
  <2>5. LogInv'
    BY <2>1, <2>2, <2>4, DocStands DEF LogInv, Unset
  <2> QED
    BY <2>3, <2>5
<1>g. CASE \E actual \in Outcomes : Finish(actual)
  <2>1. PICK actual \in Outcomes : Finish(actual)
    BY <1>g
  <2> DEFINE class == IF actual # out.expected THEN "mismatch"
                      ELSE IF out.gap # {} THEN "unsequenced" ELSE "verified"
  <2>2. /\ running /\ exit = Unset /\ ~running' /\ log' = log \cup {Of(class)} /\ out' = NoItem
        /\ UNCHANGED <<doc, blk, row, setup, gap, exit>>
    BY <2>1 DEF Finish, Live, Of
  <2>3. out # NoItem /\ IsProofOf(out) /\ ~ForbiddenScript(out)
    BY <2>2 DEF LogInv
  <2>4. out.expected # Refuse
    BY <2>3 DEF IsProofOf
  <2>5. Judged(Of(class))
    <3>1. class \in Executed /\ class \notin {"refused", "forbidden", "passed", "pending"}
          /\ (class = "verified" => out.gap = {})
      OBVIOUS
    <3> HIDE DEF class
    <3> QED
      BY <1>2, <2>3, <2>4, <3>1 DEF Judged
  <2>6. Fields(Of(class))
    BY DEF Of
  <2> HIDE DEF class
  <2> QED
    BY <2>2, <2>3, <2>5, <2>6, CloseLog
<1> QED
  BY <1>a, <1>b, <1>c, <1>d, <1>e, <1>f, <1>g DEF Consumer

\* So does the walk, which leaves no place behind, and so do the two ends.
LEMMA NextLogs ==
  ASSUME IInv, WalkInv, LogInv, [Next]_vars
  PROVE  WalkInv' /\ LogInv'
<1>1. CASE Resume
  <2>1. Walk /\ WalkTypeOK /\ UNCHANGED <<running, log, exit>> /\ exit = Unset
    BY <1>1 DEF Resume, Live, mainVars, IInv, TypeOK
  <2>2. doc' = doc /\ out = NoItem
    BY <2>1, WalkMoves
  <2>3. WalkInv'
    BY <2>1, WalkKeeps
  <2>4. ~running
    BY <2>2 DEF LogInv
  <2>5. ASSUME NEW p \in Place, YieldedAt(p)', Passed(p)'
        PROVE  (out' # NoItem /\ out'.at = p) \/ \E e \in log : e.at = p
    <3>1. YieldedAt(p)
      BY <2>2, <2>5, DocStands
    <3>2. Passed(p) \/ (out' # NoItem /\ out'.at = p)
      BY <2>1, <2>5, <3>1, WalkYields
    <3> QED
      BY <2>2, <3>1, <3>2 DEF LogInv
  <2>6. LogInv'
    BY <2>1, <2>2, <2>4, <2>5, DocStands DEF LogInv, Unset
  <2> QED
    BY <2>3, <2>6
<1>2. CASE Consumer
  BY <1>2, ConsumerLogs
<1>3. CASE GiveUp \/ Conclude \/ UNCHANGED vars
  <2>1. UNCHANGED <<doc, blk, row, setup, gap, out, running, log>>
    BY <1>3 DEF GiveUp, Conclude, vars, walkVars
  <2>2. exit' = exit \/ exit' = 2 \/ WalkDone
    BY <1>3 DEF GiveUp, Conclude, vars
  <2>3. WalkDone' <=> WalkDone
    BY <2>1 DEF WalkDone
  <2>4. WalkInv'
    BY <2>1, TakingKeeps
  <2>5. \A p : Passed(p)' <=> Passed(p)
    BY <2>1 DEF Passed
  <2>6. LogInv'
    BY <2>1, <2>2, <2>3, <2>5, DocStands DEF LogInv
  <2> QED
    BY <2>4, <2>6
<1> QED
  BY <1>1, <1>2, <1>3 DEF Next

\* Before the first item nothing has been passed and nothing is logged.
LEMMA InitLogs ==
  ASSUME Init
  PROVE  WalkInv /\ LogInv
<1>1. WalkInit /\ ~running /\ log = {} /\ exit = Unset /\ out = NoItem
  BY DEF Init, WalkInit
<1>2. WalkInv
  BY <1>1, WalkInitInv
<1>3. \A p \in Place : ~Passed(p)
  BY <1>1 DEF WalkInit, Passed, Place
<1>4. LogInv
  BY <1>1, <1>3 DEF LogInv, Unset
<1> QED
  BY <1>2, <1>4

\* The log of verify-proofs is complete, and classified by the block alone.
THEOREM LogTold == Spec => [](WalkInv /\ LogInv)
<1>1. Init => WalkInv /\ LogInv
  BY InitLogs
<1>2. IInv /\ WalkInv /\ LogInv /\ [Next]_vars => (WalkInv /\ LogInv)'
  BY NextLogs
<1> QED
  BY <1>1, <1>2, Invariance, PTL DEF Spec

\* For every document and every behaviour of Bash: a proof that counts ran after
\* exactly the steps a reader of its block rests on, in the order written.
THEOREM NoFalseGreen == Spec => []WholeScenario
<1>1. ASSUME IInv, WalkInv, LogInv
      PROVE  WholeScenario
  <2>1. SUFFICES ASSUME NEW e \in log, e.class = "verified"
                 PROVE  /\ {e.setup[k] : k \in 1..Len(e.setup)} = Scenario(e.at)
                        /\ \A k, l \in 1..Len(e.setup) : k < l => e.setup[k][2] < e.setup[l][2]
    BY DEF WholeScenario
  <2>2. Told(e) /\ GapBefore(e.at) = {}
    BY <1>1, <2>1 DEF LogInv, Judged
  <2>3. Replays(e.setup, e.at) /\ YieldedAt(e.at)
    BY <2>2 DEF Told
  <2> DEFINE c == e.at[1]
             b == doc[c]
  <2>4. doc \in Documents /\ doc \in Seq(Seq(Row)) /\ c \in 1..Len(doc) /\ e.at[2] \in 1..Len(b)
    BY <1>1, <2>3 DEF YieldedAt, IInv, TypeOK, WalkTypeOK, WalkInv
  <2>5. b \in Seq(Row)
    BY <2>4, ElementOfSeq
  <2>6. \A j \in 1..(e.at[2] - 1) : Replayed(b, j) <=> ScenarioRow(b, j)
    <3> SUFFICES ASSUME NEW j \in 1..(e.at[2] - 1)
                 PROVE  Replayed(b, j) <=> ScenarioRow(b, j)
      OBVIOUS
    <3>1. j \in 1..Len(b)
      BY <2>4, <2>5
    <3>2. WellFormed(b[j])
      BY <2>4, <3>1, DocumentsAssumption, Zenon
    <3>3. \A d \in Causes : ~Breaks(b, j, d)
      BY <2>2 DEF GapBefore
    <3> QED
      BY <2>5, <3>1, <3>2, <3>3, NoGapNoLoss
  <2>7. ReplayedBefore(e.at) = Scenario(e.at)
    BY <2>6 DEF ReplayedBefore, Scenario
  <2> QED
    BY <2>3, <2>7 DEF Replays, Increasing
<1> QED
  BY <1>1, Invariance, LogTold, PTL

\* For every document: no two commands take their code from the same report.
THEOREM OneReportOneCommand == Spec => []CodeNotShared
<1>1. ASSUME IInv, WalkInv, LogInv
      PROVE  CodeNotShared
  <2>1. SUFFICES ASSUME NEW e \in log, NEW f \in log, e.at # f.at, e.at[1] = f.at[1],
                        ReportRow(e.at) # 0, ReportRow(e.at) = ReportRow(f.at)
                 PROVE  FALSE
    BY DEF CodeNotShared
  <2>2. YieldedAt(e.at) /\ YieldedAt(f.at) /\ e.at \in Place /\ f.at \in Place
    BY <1>1 DEF LogInv, Told, IInv, TypeOK, Entry
  <2> DEFINE c == e.at[1]
             b == doc[c]
             i == e.at[2]
             j == f.at[2]
  <2>3. doc \in Documents /\ doc \in Seq(Seq(Row)) /\ c \in 1..Len(doc)
        /\ i \in 1..Len(b) /\ j \in 1..Len(b)
    BY <1>1, <2>1, <2>2 DEF YieldedAt, IInv, TypeOK, WalkTypeOK, WalkInv
  <2>4. b \in Seq(Row)
    BY <2>3, ElementOfSeq
  <2>5. Stands(b, i) /\ Stands(b, j) /\ WellFormed(b[i]) /\ WellFormed(b[j])
    BY <2>1, <2>2, <2>3, DocumentsAssumption DEF YieldedAt, Yields
  <2>6. i # j
    BY <2>1, <2>2 DEF Place
  <2>7. /\ Joined(b, i).code = NoCode /\ Joined(b, j).code = NoCode
        /\ StopRow(b, JoinEnd(b, i)) # 0
        /\ StopRow(b, JoinEnd(b, i)) = StopRow(b, JoinEnd(b, j))
    BY <2>1 DEF ReportRow, CommandAt
  <2> HIDE DEF b, i, j
  <2>8. CASE i < j
    BY <2>3, <2>4, <2>5, <2>7, <2>8, OwnReport
  <2>9. CASE j < i
    BY <2>3, <2>4, <2>5, <2>7, <2>9, OwnReport
  <2> QED
    BY <2>3, <2>4, <2>6, <2>8, <2>9
<1> QED
  BY <1>1, Invariance, LogTold, PTL

\* A row that states a code of its own belongs to a command the walk stands at, and
\* the command has the code.
LEMMA StatedAtCommand ==
  ASSUME NEW b \in Seq(Row), \A k \in 1..Len(b) : WellFormed(b[k]),
         NEW j \in 1..Len(b), b[j].kind \in Command, b[j].code # NoCode
  PROVE  \E s \in 1..j : /\ Stands(b, s) /\ JoinEnd(b, s) = j
                         /\ b[s].kind \in Command /\ Joined(b, s).code = b[j].code
<1> DEFINE T == {s \in 1..j : Active(b[s]) /\ \A k \in s..(j - 1) : b[k].cont}
<1>1. ~b[j].cont /\ ~b[j].arrow /\ Active(b[j])
  <2>1. WellFormed(b[j]) /\ b[j] \in Row
    BY ElementOfSeq
  <2> QED
    BY <2>1 DEF WellFormed, Active, Row, Command
<1>2. T \subseteq Nat /\ j \in T
  BY <1>1
<1>3. PICK s \in T : \A y \in T : s <= y
  BY <1>2, LeastNatural
<1>4. s \in 1..j /\ s \in 1..Len(b) /\ Active(b[s]) /\ \A k \in s..(j - 1) : b[k].cont
  BY <1>3
<1>5. ASSUME Swallowed(b, s)
      PROVE  FALSE
  <2>1. PICK r \in 1..(s - 1) : Active(b[r]) /\ \A k \in r..(s - 1) : b[k].cont
    BY <1>5 DEF Swallowed
  <2>2. r \in 1..j /\ \A k \in r..(j - 1) : b[k].cont
    BY <1>4, <2>1
  <2>3. r \in T /\ ~(s <= r)
    BY <1>4, <2>1, <2>2
  <2> QED
    BY <1>3, <2>3
<1>6. b[s].kind \in Command
  <2>1. CASE s = j
    BY <2>1
  <2>2. CASE s # j
    <3>1. b[s].cont
      BY <1>4, <2>2
    <3> QED
      BY <1>4, <3>1 DEF WellFormed
  <2> QED
    BY <2>1, <2>2
<1>7. Stands(b, s)
  BY <1>4, <1>5, <1>6 DEF Stands, Command
<1>8. JoinEnd(b, s) = j
  <2> DEFINE e == JoinEnd(b, s)
  <2>1. e \in s..Len(b) /\ (e = Len(b) \/ ~b[e].cont) /\ \A k \in s..(e - 1) : b[k].cont
    BY <1>4, JoinEndRange
  <2> HIDE DEF e
  <2>2. ~(e < j)
    <3>1. ASSUME e < j
          PROVE  e \in s..(j - 1) /\ e # Len(b)
      BY <1>4, <2>1, <3>1
    <3> QED
      BY <1>4, <2>1, <3>1
  <2>3. ~(e > j)
    <3>1. ASSUME e > j
          PROVE  j \in s..(e - 1)
      BY <1>4, <2>1, <3>1
    <3> QED
      BY <1>1, <2>1, <3>1
  <2> QED
    BY <1>4, <2>1, <2>2, <2>3 DEF e
<1>9. Joined(b, s).code = b[j].code
  BY <1>1, <1>8 DEF Joined, Join
<1> QED
  BY <1>4, <1>6, <1>7, <1>8, <1>9

\* For every document and every behaviour of Bash: no command line that states an
\* exit code goes unreported.
THEOREM NothingVanishes == Spec => []StatedCodeReported
<1>1. ASSUME IInv, WalkInv, LogInv
      PROVE  StatedCodeReported
  <2>1. SUFFICES ASSUME exit \in {0, 1, 3, 4}, NEW c \in 1..Len(doc), NEW j \in 1..Len(doc[c]),
                        doc[c][j].kind \in Command, doc[c][j].code # NoCode
                 PROVE  \E e \in log : /\ e.at[1] = c /\ j \in e.at[2]..JoinEnd(doc[c], e.at[2])
                                       /\ e.class \notin {"passed", "pending"}
    BY DEF StatedCodeReported
  <2> DEFINE b == doc[c]
  <2>2. doc \in Documents /\ doc \in Seq(Seq(Row)) /\ blk \in Nat
    BY <1>1 DEF IInv, TypeOK, WalkTypeOK, WalkInv
  <2>3. b \in Seq(Row) /\ \A k \in 1..Len(b) : WellFormed(b[k])
    <3>1. b \in Seq(Row)
      BY <2>2, ElementOfSeq
    <3>2. \A k \in 1..Len(b) : WellFormed(b[k])
      BY <2>2, DocumentsAssumption, Zenon
    <3> QED
      BY <3>1, <3>2
  <2>4. PICK s \in 1..j : /\ Stands(b, s) /\ JoinEnd(b, s) = j
                          /\ b[s].kind \in Command /\ Joined(b, s).code = b[j].code
    <3>1. j \in 1..Len(b) /\ b[j].kind \in Command /\ b[j].code # NoCode
      BY <2>1
    <3> HIDE DEF b
    <3> QED
      BY <2>3, <3>1, StatedAtCommand
  <2>5. s \in 1..Len(b) /\ Joined(b, s).kind = b[s].kind
    BY <2>3, <2>4, JoinedType
  <2> DEFINE p == <<c, s>>
  <2>6. p \in Place /\ YieldedAt(p)
    BY <2>4, <2>5 DEF Place, YieldedAt, Yields, Command
  <2>7. WalkDone
    BY <1>1, <2>1 DEF LogInv
  <2>8. out = NoItem /\ Passed(p)
    BY <2>2, <2>7 DEF WalkDone, Passed
  <2>9. PICK e \in log : e.at = p
    BY <1>1, <2>6, <2>8 DEF LogInv
  <2>10. e.expected = SlotCode(b, s) /\ Judged(e)
    BY <1>1, <2>9 DEF LogInv, Told
  <2>11. e.expected # NoCode
    BY <2>1, <2>4, <2>5, <2>10 DEF SlotCode, ExpectedCode, Command
  <2>12. e.class \notin {"passed", "pending"}
    BY <2>10, <2>11 DEF Judged
  <2> QED
    BY <2>4, <2>9, <2>12
<1> QED
  BY <1>1, Invariance, LogTold, PTL

=============================================================================
