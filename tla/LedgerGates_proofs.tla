---------------------------- MODULE LedgerGates_proofs ----------------------------
(***************************************************************************)
(* For every file, every world and every history of edits: what the gates  *)
(* over ledgers, manifests and prompts answer, and what of their line by   *)
(* line readings holds of the whole file.                                  *)
(***************************************************************************)
EXTENDS LedgerGates, SequenceTheorems, FiniteSetTheorems, WellFoundedInduction, TLAPS

-----------------------------------------------------------------------------
(* Rounds, and edits of a file. *)

\* A nonempty set of naturals has a least member.
LEMMA LeastNatural ==
  ASSUME NEW T, T \subseteq Nat, T # {}
  PROVE  \E x \in T : \A y \in T : x <= y
<1> DEFINE Below == {1..x : x \in T}
<1>1. Below \subseteq FiniteSubsetsOf(Nat) /\ Below # {}
  <2>1. ASSUME NEW x \in T
        PROVE  1..x \in FiniteSubsetsOf(Nat)
    <3>1. 1..x \subseteq Nat /\ x \in Int /\ 1 \in Int
      OBVIOUS
    <3>2. IsFiniteSet(1..x)
      BY <3>1, FS_Interval
    <3> QED
      BY <3>1, <3>2 DEF FiniteSubsetsOf
  <2> QED
    BY <2>1
<1>2. IsWellFoundedOn(StrictSubsetOrdering(Nat), FiniteSubsetsOf(Nat))
  BY FS_StrictSubsetOrderingWellFounded
<1>3. PICK I \in Below : \A J \in Below : ~(<<J, I>> \in StrictSubsetOrdering(Nat))
  BY <1>1, <1>2, WFMin
<1>4. PICK x \in T : I = 1..x
  OBVIOUS
<1>5. ASSUME NEW y \in T, ~(x <= y)
      PROVE  FALSE
  <2>1. 1..y \in Below /\ 1..y \in SUBSET Nat /\ 1..x \in SUBSET Nat
    OBVIOUS
  <2>2. 1..y \subseteq 1..x /\ x \in 1..x /\ x \notin 1..y
    BY <1>5
  <2>3. <<1..y, 1..x>> \in StrictSubsetOrdering(Nat)
    BY <2>1, <2>2 DEF StrictSubsetOrdering
  <2> QED
    BY <1>3, <1>4, <2>1, <2>3
<1> QED
  BY <1>5

\* What holds before the first round and is kept by each holds after all of them.
LEMMA EveryRound ==
  ASSUME NEW N \in Nat, NEW S, 0 \in S, \A k \in 1..N : k - 1 \in S => k \in S
  PROVE  0..N \subseteq S
<1> DEFINE T == (0..N) \ S
<1>1. SUFFICES ASSUME T # {} PROVE FALSE
  OBVIOUS
<1>2. PICK k \in T : \A j \in T : k <= j
  <2>1. T \subseteq Nat
    OBVIOUS
  <2> QED
    BY <1>1, <2>1, LeastNatural, Zenon
<1>3. k \in 1..N /\ k \notin S
  BY <1>2
<1> QED
  BY <1>2, <1>3
\* An extract stays one when a line is added or dropped.
LEMMA EditedLines ==
  ASSUME NEW S, NEW s \in Seq(S)
  PROVE  /\ \A i \in 1..(Len(s) + 1), e \in S : InsertAt(s, i, e) \in Seq(S)
         /\ \A i \in 1..Len(s) : RemoveAt(s, i) \in Seq(S)
<1>1. Len(s) \in Nat /\ \A i \in 1..Len(s) : s[i] \in S
  BY ElementOfSeq
<1>2. ASSUME NEW i \in 1..(Len(s) + 1)
      PROVE  SubSeq(s, 1, i - 1) \in Seq(S) /\ SubSeq(s, i, Len(s)) \in Seq(S)
  <2>1. i \in Int /\ i - 1 \in Int /\ Len(s) \in Int /\ \A j \in 1..(i - 1) : j \in 1..Len(s)
    BY <1>1
  <2>2. \A j \in i..Len(s) : s[j] \in S
    BY <1>1
  <2> QED
    BY <1>1, <2>1, <2>2, SubSeqProperties
<1>3. ASSUME NEW i \in 1..(Len(s) + 1), NEW e \in S
      PROVE  InsertAt(s, i, e) \in Seq(S)
  <2>1. <<e>> \in Seq(S)
    OBVIOUS
  <2> QED
    BY <1>2, <2>1, ConcatProperties DEF InsertAt
<1>4. ASSUME NEW i \in 1..Len(s)
      PROVE  RemoveAt(s, i) \in Seq(S)
  <2>1. i \in 1..(Len(s) + 1) /\ i + 1 \in 1..(Len(s) + 1)
    BY <1>1
  <2> QED
    BY <1>2, <2>1, ConcatProperties DEF RemoveAt
<1> QED
  BY <1>3, <1>4

\* The answer is always about the file and the world as they are, and those are of
\* the kind the gate reads.
GateInv ==
  /\ gate \in GateNames
  /\ edits \in 0..MaxEdits[gate]
  /\ exit = RunGate(gate, lines, world)
  /\ lines \in Seq(Written(gate))
  /\ IsWorld(gate, world)

\* A step keeps what is kept if it runs the gate again.
LEMMA RunAgain ==
  ASSUME GateInv, Reruns, gate' = gate, edits' \in 0..MaxEdits[gate],
         lines' \in Seq(Written(gate)), IsWorld(gate, world')
  PROVE  GateInv'
BY DEF GateInv, Reruns

\* The first answer is about the draft.
LEMMA FirstRun ==
  ASSUME Init
  PROVE  GateInv
<1>1. MaxEdits[gate] \in Nat
  BY EditsAssumption DEF Init
<1>2. lines \in Seq(Written(gate))
  BY LinesAssumption DEF Init
<1>3. IsWorld(gate, world)
  BY WorldsAssumption DEF Init
<1> QED
  BY <1>1, <1>2, <1>3 DEF Init, GateInv

\* Every edit and every day is answered anew.
LEMMA NextRun ==
  ASSUME GateInv, [Next]_vars
  PROVE  GateInv'
<1>1. CASE AddLine
  <2>1. PICK i \in 1..(Len(lines) + 1), line \in LinesOf[gate] : lines' = InsertAt(lines, i, line)
    BY <1>1 DEF AddLine
  <2>2. line \in Written(gate) /\ lines \in Seq(Written(gate))
    BY DEF GateInv, Written
  <2>3. lines' \in Seq(Written(gate))
    BY <2>1, <2>2, EditedLines
  <2>4. edits' \in 0..MaxEdits[gate]
    BY <1>1, EditsAssumption DEF GateInv, AddLine
  <2> QED
    BY <1>1, <2>3, <2>4, RunAgain DEF AddLine, GateInv
<1>2. CASE DropLine
  <2>1. PICK i \in 1..Len(lines) : lines' = RemoveAt(lines, i)
    BY <1>2 DEF DropLine
  <2>2. lines' \in Seq(Written(gate))
    BY <2>1, EditedLines DEF GateInv
  <2>3. edits' \in 0..MaxEdits[gate]
    BY <1>2, EditsAssumption DEF GateInv, DropLine
  <2> QED
    BY <1>2, <2>2, <2>3, RunAgain DEF DropLine, GateInv
<1>3. CASE Tick
  <2>1. IsWorld(gate, world')
    BY <1>3, BoundsAssumption DEF Tick, IsWorld
  <2> QED
    BY <1>3, <2>1, RunAgain DEF Tick, GateInv
<1>4. CASE UNCHANGED vars
  BY <1>4 DEF vars, GateInv
<1> QED
  BY <1>1, <1>2, <1>3, <1>4 DEF Next

\* However the file is edited and whatever day it is, the gate's answer is about
\* what it reads.
THEOREM AnswersWhatItReads == Spec => []GateInv
  BY FirstRun, NextRun, PTL DEF Spec

-----------------------------------------------------------------------------
(* Readings of a list from its head *)

\* f is what was read of N places, step by step.
ReadBy(f, N, T, x, g) == f \in [0..N -> T] /\ f[0] = x /\ \A k \in 1..N : f[k] = g[<<f[k - 1], k>>]

\* A list can be read from its head with any step that is a function.
LEMMA Reading ==
  ASSUME NEW N \in Nat, NEW T, NEW x \in T, NEW g \in [T \X (1..N) -> T]
  PROVE  \E f : ReadBy(f, N, T, x, g)
<1> DEFINE Reads(f, n) == f \in [0..n -> T] /\ f[0] = x /\ \A k \in 1..n : f[k] = g[<<f[k - 1], k>>]
           M == {n \in 0..N : \E f : Reads(f, n)}
<1>1. 0 \in M
  <2>1. Reads([k \in 0..0 |-> x], 0)
    OBVIOUS
  <2> HIDE DEF Reads
  <2> QED
    BY <2>1
<1>2. ASSUME NEW n \in 1..N, n - 1 \in M
      PROVE  n \in M
  <2>1. PICK f : Reads(f, n - 1)
    BY <1>2
  <2> DEFINE h == [k \in 0..n |-> IF k = n THEN g[<<f[n - 1], n>>] ELSE f[k]]
  <2>2. \A k \in 0..n : h[k] = IF k = n THEN g[<<f[n - 1], n>>] ELSE f[k]
    OBVIOUS
  <2>3. f[n - 1] \in T
    BY <2>1
  <2>4. h \in [0..n -> T]
    <3>1. g[<<f[n - 1], n>>] \in T
      BY <2>3
    <3>2. \A k \in 0..n : k # n => k \in 0..(n - 1)
      OBVIOUS
    <3> QED
      BY <2>1, <3>1, <3>2
  <2> HIDE DEF h
  <2>5. h[0] = x
    BY <2>1, <2>2
  <2>6. \A k \in 1..n : h[k] = g[<<h[k - 1], k>>]
    <3>1. \A k \in 1..n : k - 1 \in 0..n /\ k - 1 # n /\ k \in 0..n /\ (k # n => k \in 1..(n - 1))
      OBVIOUS
    <3> QED
      BY <2>1, <2>2, <3>1
  <2> QED
    BY <2>4, <2>5, <2>6
<1>3. N \in M
  <2> HIDE DEF M
  <2> QED
    BY <1>1, <1>2, EveryRound
<1> QED
  BY <1>3 DEF ReadBy

-----------------------------------------------------------------------------
(* Codes *)

\* Each gate has its own codes: 3 is for two of them.
LEMMA GateCodes ==
  ASSUME NEW g \in GateNames, NEW ls, NEW w, IsWorld(g, w)
  PROVE  RunGate(g, ls, w) \in 0..(IF g \in {"margins", "share"} THEN 3 ELSE 2)
<1>1. CASE g = "excusals"
  BY <1>1 DEF RunGate, Excusals!Exit
<1>2. CASE g = "pilot"
  BY <1>2 DEF RunGate, Pilot!Exit
<1>3. CASE g = "review"
  BY <1>3 DEF RunGate, Review!Exit
<1>4. CASE g = "plan"
  BY <1>4 DEF RunGate, Plan!Exit
<1>5. CASE g = "margins"
  <2>1. w.n = 0 \/ w.n > 0
    BY <1>5 DEF IsWorld, Sums!Floors
  <2> QED
    BY <1>5, <2>1 DEF RunGate, Sums!MarginExit
<1>6. CASE g = "toolchain"
  BY <1>6 DEF RunGate, Tools!ToolchainExit
<1>7. CASE g = "register"
  BY <1>7 DEF RunGate, Register!Exit
<1>8. CASE g = "surface"
  BY <1>8 DEF RunGate, Surface!Exit
<1>9. CASE g = "loads"
  BY <1>9 DEF RunGate, Sums!LoadExit
<1>10. CASE g = "share"
  BY <1>10 DEF RunGate, Sums!ShareExit
<1>11. CASE g = "secrets"
  BY <1>11 DEF RunGate, Secrets!Exit
<1>12. CASE g = "rules"
  BY <1>12 DEF RunGate, Tools!RulesExit
<1>13. CASE g = "density"
  BY <1>13 DEF RunGate, Prompts!DensityExit
<1>14. CASE g = "zone"
  BY <1>14 DEF RunGate, Prompts!ZoneExit
<1>15. CASE g = "audit"
  BY <1>15 DEF RunGate, Prompts!AuditExit
<1> QED
  BY <1>1, <1>2, <1>3, <1>4, <1>5, <1>6, <1>7, <1>8, <1>9,
     <1>10, <1>11, <1>12, <1>13, <1>14, <1>15 DEF GateNames

\* What stands in a gate's file is a line of the kind it tells apart.
LEMMA LinesAreTyped ==
  ASSUME GateInv, NEW i \in 1..Len(lines)
  PROVE  IsLine(gate, lines[i])
<1>1. lines[i] \in Written(gate)
  BY ElementOfSeq DEF GateInv
<1> QED
  BY <1>1, LinesAssumption DEF GateInv

\* Whatever a gate reads it answers with one of its own codes, and every tree a
\* plan is checked against is one.
THEOREM TypeCorrect == Spec => []TypeOK
<1>1. ASSUME GateInv
      PROVE  TypeOK
  <2>1. exit \in 0..(IF gate \in {"margins", "share"} THEN 3 ELSE 2)
    BY <1>1, GateCodes DEF GateInv
  <2>2. ASSUME gate = "plan", NEW i \in 1..Len(lines)
        PROVE  Plan!IsTree(lines[i].tree)
    BY <1>1, <2>2, LinesAreTyped DEF IsLine
  <2> QED
    BY <1>1, <2>1, <2>2 DEF GateInv, TypeOK
<1> QED
  BY AnswersWhatItReads, <1>1, PTL

-----------------------------------------------------------------------------
(* metric-register *)

\* A day later a register that could be judged still can, and no breach is gone.
LEMMA DayByDay ==
  ASSUME NEW ls \in Seq(Register!Line), NEW day \in Nat \ {0}
  PROVE  LET now == Register!Exit(ls, day)  then == Register!Exit(ls, day + 1)
         IN  then >= now /\ (then = 2 => now = 2)
<1> DEFINE Refused == \/ Register!Rows(ls) = {} \/ Register!Undated(ls)
                      \/ \E i \in 1..Len(ls) : ls[i].kind = "short"
           Breached(d) == Register!Breaches(ls, d) # {}
<1>1. ASSUME NEW i \in Register!Breaches(ls, day)
      PROVE  i \in Register!Breaches(ls, day + 1)
  <2>1. i \in Register!Rows(ls) /\ Register!Verdict(ls, i, day) # "REVIEWED"
    BY DEF Register!Breaches
  <2>2. ls[i].row.review \in Nat
    <3>1. ls[i] \in Register!Line /\ ls[i].kind = "row"
      BY <2>1, ElementOfSeq DEF Register!Rows
    <3>2. ls[i].row \in Register!Row
      BY <3>1 DEF Register!Line
    <3> QED
      BY <3>2 DEF Register!Row
  <2>3. Register!Due(ls[i].row, day) => Register!Due(ls[i].row, day + 1)
    BY <2>2 DEF Register!Due
  <2>4. Register!Verdict(ls, i, day + 1) # "REVIEWED"
    BY <2>1, <2>3, Zenon DEF Register!Verdict
  <2> QED
    BY <2>1, <2>4 DEF Register!Breaches
<1>2. Breached(day) => Breached(day + 1)
  BY <1>1
<1>3. \A d \in Nat \ {0} :
        Register!Exit(ls, d) = IF Refused THEN 2 ELSE IF Breached(d) THEN 1 ELSE 0
  BY DEF Register!Exit, Register!NoDate
<1>4. day + 1 \in Nat \ {0}
  OBVIOUS
<1> HIDE DEF Refused, Breached
<1> QED
  BY <1>2, <1>3, <1>4

\* An edit changes the number of the lines.
LEMMA EditsAreSeen ==
  ASSUME NEW S, NEW s \in Seq(S)
  PROVE  /\ \A i \in 1..(Len(s) + 1) : \A e : InsertAt(s, i, e) # s
         /\ \A i \in 1..Len(s) : RemoveAt(s, i) # s
<1>1. Len(s) \in Nat /\ \A i \in 1..Len(s) : s[i] \in S
  BY ElementOfSeq
<1>2. ASSUME NEW i \in 1..(Len(s) + 1)
      PROVE  /\ SubSeq(s, 1, i - 1) \in Seq(S) /\ Len(SubSeq(s, 1, i - 1)) = i - 1
             /\ SubSeq(s, i, Len(s)) \in Seq(S) /\ Len(SubSeq(s, i, Len(s))) = Len(s) - i + 1
  <2>1. i \in Int /\ i - 1 \in Int /\ Len(s) \in Int /\ \A j \in 1..(i - 1) : j \in 1..Len(s)
    BY <1>1
  <2>2. \A j \in i..Len(s) : s[j] \in S
    BY <1>1
  <2> QED
    BY <1>1, <2>1, <2>2, SubSeqProperties
<1>3. ASSUME NEW i \in 1..(Len(s) + 1), NEW e
      PROVE  InsertAt(s, i, e) # s
  <2> DEFINE T == S \cup {e}
             a == SubSeq(s, 1, i - 1)
             b == SubSeq(s, i, Len(s))
  <2>1. a \in Seq(T) /\ b \in Seq(T) /\ <<e>> \in Seq(T) /\ Len(<<e>>) = 1
    BY <1>2
  <2>2. Len(a) = i - 1 /\ Len(b) = Len(s) - i + 1
    BY <1>2
  <2>3. InsertAt(s, i, e) = (a \o <<e>>) \o b
    BY DEF InsertAt
  <2> HIDE DEF a, b, T
  <2>4. a \o <<e>> \in Seq(T) /\ Len(a \o <<e>>) = i
    BY <2>1, <2>2, ConcatProperties
  <2>5. Len((a \o <<e>>) \o b) = Len(a \o <<e>>) + Len(b)
    BY <2>1, <2>4, ConcatProperties
  <2> QED
    BY <1>1, <2>2, <2>3, <2>4, <2>5
<1>4. ASSUME NEW i \in 1..Len(s)
      PROVE  RemoveAt(s, i) # s
  <2> DEFINE a == SubSeq(s, 1, i - 1)
             b == SubSeq(s, i + 1, Len(s))
  <2>1. i \in 1..(Len(s) + 1) /\ i + 1 \in 1..(Len(s) + 1)
    BY <1>1
  <2>2. a \in Seq(S) /\ b \in Seq(S) /\ Len(a) = i - 1 /\ Len(b) = Len(s) - (i + 1) + 1
    BY <1>2, <2>1
  <2>3. RemoveAt(s, i) = a \o b
    BY DEF RemoveAt
  <2> HIDE DEF a, b
  <2>4. Len(a \o b) = Len(a) + Len(b)
    BY <2>2, ConcatProperties
  <2> QED
    BY <1>1, <2>2, <2>3, <2>4
<1> QED
  BY <1>3, <1>4

\* A register nobody edits only decays: no day that goes by turns a refusal into a
\* verdict or a breach into a pass.
THEOREM OnlyDecays == Spec => TimeOnlyDecays
<1>1. ASSUME GateInv, [Next]_vars, lines' = lines
      PROVE  exit' >= exit /\ (exit' = 2 => exit = 2)
  <2>1. ~AddLine /\ ~DropLine
    BY <1>1, EditsAreSeen DEF GateInv, AddLine, DropLine
  <2>2. exit \in Int
    BY <1>1, GateCodes DEF GateInv
  <2>3. CASE Tick
    <3>1. lines \in Seq(Register!Line)
      <4>1. \A i \in 1..Len(lines) : lines[i] \in Register!Line
        BY <1>1, <2>3, LinesAreTyped DEF Tick, IsLine
      <4>2. lines = [i \in 1..Len(lines) |-> lines[i]] /\ Len(lines) \in Nat
        BY <1>1 DEF GateInv
      <4> QED
        BY <4>1, <4>2, IsASeq
    <3>2. world \in Nat \ {0} /\ exit = Register!Exit(lines, world)
      BY <1>1, <2>3, BoundsAssumption DEF GateInv, Tick, RunGate
    <3>3. exit' = Register!Exit(lines, world + 1)
      BY <2>3 DEF Tick, Reruns, RunGate
    <3> QED
      BY <3>1, <3>2, <3>3, DayByDay
  <2>4. CASE UNCHANGED vars
    BY <2>2, <2>4 DEF vars
  <2> QED
    BY <1>1, <2>1, <2>3, <2>4 DEF Next
<1>2. GateInv /\ [Next]_vars => [lines' = lines => exit' >= exit /\ (exit' = 2 => exit = 2)]_vars
  BY <1>1
<1> QED
  BY AnswersWhatItReads, <1>2, PTL DEF Spec, TimeOnlyDecays

\* A verdict of metric-register is that of a reader of the whole register.
LEMMA RegisterReads ==
  ASSUME NEW ls \in Seq(Register!Line), NEW day \in Nat, Register!Exit(ls, day) # 2
  PROVE  Register!Exit(ls, day) = 0 <=> Register!Reviewed(ls, day)
<1> DEFINE R == Register!Rows(ls)
           row(i) == ls[i].row
           key(t) == Register!MetricKey(t)
<1>1. \A i : i \in R <=> i \in 1..Len(ls) /\ ls[i].kind = "row"
  BY DEF Register!Rows
<1>2. Len(ls) \in Nat /\ \A i \in 1..Len(ls) : ls[i] \in Register!Line
  BY ElementOfSeq
<1>3. \A i \in R : row(i) \in Register!Row
  BY <1>1, <1>2 DEF Register!Line
<1>4. \A i \in R : /\ row(i).metric \in Register!Text /\ row(i).threshold \in Register!Text
                   /\ row(i).corrupts \in Register!Text /\ row(i).letters \in Nat /\ row(i).review \in Nat
                   /\ row(i).metric.is # "evasion"
  BY <1>3 DEF Register!Row
<1>5. \A t : (key(t) = <<>> <=> t.is # "word") /\ (t.is = "word" => key(t) = <<t.word>>)
  BY DEF Register!MetricKey
<1>6. MinLetters \in Nat
  BY BoundsAssumption
<1>7. R # {} /\ (Register!Exit(ls, day) = 0 <=> Register!Breaches(ls, day) = {})
  BY DEF Register!Exit
<1>8. Register!Breaches(ls, day) = {}
        <=> \A i \in R : ~Register!Seen(ls, i) /\ ~Register!Unguarded(row(i)) /\ ~Register!Due(row(i), day)
  BY DEF Register!Breaches, Register!Verdict
<1>9. \A i \in R : Register!Seen(ls, i)
                     <=> row(i).metric.is = "word" /\ \E j \in R : /\ j < i /\ row(j).metric.is = "word"
                                                                   /\ row(j).metric.word = row(i).metric.word
  <2>1. \A i \in R : Register!Seen(ls, i)
                       <=> key(row(i).metric) # <<>> /\ \E j \in R : j < i /\ key(row(j).metric) = key(row(i).metric)
    BY DEF Register!Seen
  <2> HIDE DEF key, R, row
  <2> QED
    BY <1>5, <2>1
<1>10. \A i \in R : ~Register!Unguarded(row(i))
                      <=> /\ {row(i).metric.is, row(i).threshold.is, row(i).corrupts.is} = {"word"}
                          /\ row(i).corrupts.word \notin {row(i).metric.word, row(i).threshold.word}
                          /\ row(i).letters >= MinLetters
  <2>1. ASSUME NEW i \in R
        PROVE  ~Register!Unguarded(row(i))
                 <=> /\ {row(i).metric.is, row(i).threshold.is, row(i).corrupts.is} = {"word"}
                     /\ row(i).corrupts.word \notin {row(i).metric.word, row(i).threshold.word}
                     /\ row(i).letters >= MinLetters
    <3> DEFINE m == row(i).metric
               t == row(i).threshold
               c == row(i).corrupts
               n == row(i).letters
    <3>1. Register!Unguarded(row(i))
            <=> \/ key(m) = <<>> \/ t.is # "word" \/ c.is # "word"
                \/ key(c) = key(m) \/ key(c) = key(t) \/ n < MinLetters
      BY DEF Register!Unguarded
    <3>2. n \in Nat
      BY <1>4
    <3> HIDE DEF key, m, t, c, n
    <3>3. {m.is, t.is, c.is} = {"word"} <=> m.is = "word" /\ t.is = "word" /\ c.is = "word"
      OBVIOUS
    <3>4. \A a, b : a.is = "word" /\ b.is = "word" => (key(a) = key(b) <=> a.word = b.word)
      <4>1. \A x, y : <<x>> = <<y>> <=> x = y
        OBVIOUS
      <4> QED
        BY <1>5, <4>1
    <3>5. Register!Unguarded(row(i))
            <=> ~(/\ {m.is, t.is, c.is} = {"word"} /\ c.word \notin {m.word, t.word} /\ n >= MinLetters)
      BY <1>5, <1>6, <3>1, <3>2, <3>3, <3>4
    <3> QED
      BY <3>5 DEF m, t, c, n
  <2> QED
    BY <2>1
<1>11. \A i \in R : ~Register!Due(row(i), day) <=> row(i).review > day
  BY <1>4 DEF Register!Due
<1>12. Register!Reviewed(ls, day)
         <=> \A i \in R : /\ ~Register!Unguarded(row(i))
                          /\ \A j \in R \ {i} : row(j).metric.is = "word" => row(j).metric.word # row(i).metric.word
                          /\ ~Register!Due(row(i), day)
  <2>1. Register!Reviewed(ls, day)
          <=> /\ R # {}
              /\ \A i \in R :
                   /\ {row(i).metric.is, row(i).threshold.is, row(i).corrupts.is} = {"word"}
                   /\ row(i).corrupts.word \notin {row(i).metric.word, row(i).threshold.word}
                   /\ row(i).letters >= MinLetters
                   /\ \A j \in R \ {i} : row(j).metric.is = "word" => row(j).metric.word # row(i).metric.word
                   /\ row(i).review > day
    BY DEF Register!Reviewed, Register!Rows
  <2> HIDE DEF R, row
  <2> QED
    BY <1>7, <1>10, <1>11, <2>1
<1>13. ASSUME \A i \in R : ~Register!Unguarded(row(i))
       PROVE  (\A i \in R : ~Register!Seen(ls, i))
                <=> \A i \in R : \A j \in R \ {i} : row(j).metric.is = "word" => row(j).metric.word # row(i).metric.word
  <2>0. R \subseteq Nat
    BY <1>1, <1>2
  <2>1. \A i \in R : row(i).metric.is = "word"
    <3> HIDE DEF R, row
    <3> QED
      BY <1>10, <1>13
  <2> HIDE DEF R, row
  <2>2. ASSUME NEW i \in R, Register!Seen(ls, i)
        PROVE  \E j \in R \ {i} : row(j).metric.is = "word" /\ row(j).metric.word = row(i).metric.word
    <3>1. PICK j \in R : j < i /\ row(j).metric.is = "word" /\ row(j).metric.word = row(i).metric.word
      BY <1>9, <2>2
    <3>2. j # i
      BY <2>0, <3>1
    <3> QED
      BY <3>1, <3>2
  <2>3. ASSUME NEW i \in R, NEW j \in R \ {i}, row(j).metric.word = row(i).metric.word
        PROVE  \E k \in R : Register!Seen(ls, k)
    <3>1. i < j \/ j < i
      BY <2>0
    <3>2. row(i).metric.is = "word" /\ row(j).metric.is = "word"
      BY <2>1
    <3> QED
      BY <1>9, <2>3, <3>1, <3>2
  <2> QED
    BY <2>2, <2>3
<1> HIDE DEF R, row
<1> QED
  BY <1>7, <1>8, <1>12, <1>13

-----------------------------------------------------------------------------
(* surface-check *)

\* An artifact has substance exactly if it is a file in the review roots with
\* something visible in it, and the place it is judged at is where it resolves to.
LEMMA Substantial ==
  ASSUME NEW site, Surface!IsSite(site), NEW roots, NEW v \in Values
  PROVE  /\ Surface!Substance(site, roots, v) \in {"malformed", "error", "breach", "ok"}
         /\ Surface!Substance(site, roots, v) = "ok"
              => Surface!DeclaredPath(site, roots, v) = site.resolve[v]
         /\ Surface!Substance(site, roots, v) = "ok"
              <=> /\ site.resolve[v] \in Places
                  /\ site.within[site.resolve[v]] \in roots
                  /\ site.disk[site.resolve[v]].is = "file" /\ site.disk[site.resolve[v]].visible
<1> DEFINE at == site.resolve[v]
           within == site.within[at]
           place == Surface!DeclaredPath(site, roots, v)
           thing == site.disk[at]
<1>1. at \in Places \/ at \in Surface!Refused
  BY DEF Surface!IsSite
<1>2. at \in Places => at # "malformed" /\ at \notin Surface!Refused
  BY PlacesAssumption
<1>3. place = IF at \in Surface!Refused \/ within \notin roots THEN "malformed" ELSE at
  BY DEF Surface!DeclaredPath
<1>4. Surface!Substance(site, roots, v)
        = IF place = "malformed" THEN "malformed"
          ELSE IF site.disk[place].is = "error" THEN "error"
          ELSE IF Surface!Hollow(site.disk[place]) THEN "breach" ELSE "ok"
  BY DEF Surface!Substance
<1>5. at \in Places => /\ thing.is \in {"absent", "error", "file"}
                       /\ Surface!Hollow(thing) <=> thing.is = "absent" \/ (thing.is = "file" /\ ~thing.visible)
  <2>1. SUFFICES ASSUME at \in Places PROVE thing.is \in {"absent", "error", "file"}
    BY DEF Surface!Hollow
  <2>2. thing \in Surface!Artifact
    BY <2>1 DEF Surface!IsSite
  <2> QED
    BY <2>2 DEF Surface!Artifact
<1> HIDE DEF at, within, thing, place
<1>6. thing = site.disk[at] /\ at = site.resolve[v] /\ within = site.within[at]
      /\ place = Surface!DeclaredPath(site, roots, v)
  BY DEF at, within, thing, place
<1>7. CASE at \notin Places \/ within \notin roots
  <2>1. place = "malformed"
    BY <1>1, <1>3, <1>7
  <2>2. Surface!Substance(site, roots, v) = "malformed"
    BY <1>4, <2>1
  <2> QED
    BY <1>6, <1>7, <2>2
<1>8. CASE at \in Places /\ within \in roots
  <2>1. place = at /\ place # "malformed"
    BY <1>2, <1>3, <1>8
  <2>2. Surface!Substance(site, roots, v)
          = IF thing.is = "error" THEN "error" ELSE IF Surface!Hollow(thing) THEN "breach" ELSE "ok"
    BY <1>4, <1>6, <2>1
  <2> QED
    BY <1>5, <1>6, <1>8, <2>1, <2>2
<1> QED
  BY <1>7, <1>8

\* The lines of a manifest that declare a path.
LEMMA DeclaredValues ==
  ASSUME NEW ls \in Seq(Surface!Line), NEW key \in {"spec", "qa", "code"}, NEW i \in Surface!At(ls, key)
  PROVE  i \in 1..Len(ls) /\ ls[i].key = key /\ ls[i].value \in Values
<1>1. i \in 1..Len(ls) /\ ls[i].key = key
  BY DEF Surface!At
<1>2. ls[i] \in Surface!Line
  BY <1>1, ElementOfSeq
<1>3. ls[i] \in [key : {"spec", "qa", "code"}, value : Values]
  BY <1>1, <1>2 DEF Surface!Line, Surface!Tiers
<1> QED
  BY <1>1, <1>3

\* A spec or a QA script is in order exactly if it is there, has substance and is
\* within both budgets.
LEMMA ProseInOrder ==
  ASSUME NEW ls \in Seq(Surface!Line), NEW site, Surface!IsSite(site), NEW roots, NEW cap, NEW bytes,
         ~Surface!Malformed(ls), NEW key \in {"spec", "qa"}
  PROVE  LET found == Surface!Prose(ls, key, site, roots, cap, bytes)
             thing(i) == site.disk[site.resolve[ls[i].value]]
         IN  /\ found \in {"malformed", "error", "breach", "ok"}
             /\ found = "ok"
                  <=> /\ Surface!At(ls, key) # {}
                      /\ \A i \in Surface!At(ls, key) :
                           /\ Surface!Substance(site, roots, ls[i].value) = "ok"
                           /\ ~(thing(i).lines > cap) /\ ~(thing(i).bytes > bytes)
<1>1. CASE Surface!At(ls, key) = {}
  BY <1>1 DEF Surface!Prose
<1>2. CASE Surface!At(ls, key) # {}
  <2> DEFINE i == CHOOSE j \in Surface!At(ls, key) : TRUE
             v == ls[i].value
             thing == site.disk[site.resolve[v]]
             Long == thing.lines > cap \/ thing.bytes > bytes
             found == Surface!Substance(site, roots, v)
  <2>1. i \in Surface!At(ls, key)
    BY <1>2
  <2>2. v \in Values
    BY <2>1, DeclaredValues
  <2>3. Surface!At(ls, key) = {i}
    <3>1. ASSUME NEW j \in Surface!At(ls, key)
          PROVE  j = i
      BY <2>1 DEF Surface!Malformed, Surface!At
    <3> QED
      BY <2>1, <3>1
  <2>4. found \in {"malformed", "error", "breach", "ok"}
        /\ (found = "ok" => Surface!DeclaredPath(site, roots, v) = site.resolve[v])
    BY <2>2, Substantial
  <2>5. Surface!Prose(ls, key, site, roots, cap, bytes)
          = IF found # "ok" THEN found
            ELSE IF \/ site.disk[Surface!DeclaredPath(site, roots, v)].lines > cap
                    \/ site.disk[Surface!DeclaredPath(site, roots, v)].bytes > bytes
                 THEN "breach" ELSE "ok"
    BY <1>2 DEF Surface!Prose
  <2>6. Surface!Prose(ls, key, site, roots, cap, bytes)
          = IF found # "ok" THEN found ELSE IF Long THEN "breach" ELSE "ok"
    BY <2>4, <2>5, Zenon
  <2>7. Long <=> thing.lines > cap \/ thing.bytes > bytes
    OBVIOUS
  <2>8. /\ v = ls[i].value /\ thing = site.disk[site.resolve[ls[i].value]]
        /\ found = Surface!Substance(site, roots, ls[i].value)
    OBVIOUS
  <2> HIDE DEF i, v, thing, Long, found
  <2>9. Surface!Prose(ls, key, site, roots, cap, bytes) \in {"malformed", "error", "breach", "ok"}
    BY <2>4, <2>6
  <2>10. Surface!Prose(ls, key, site, roots, cap, bytes) = "ok" <=> found = "ok" /\ ~Long
    BY <2>4, <2>6
  <2> QED
    BY <1>2, <2>3, <2>7, <2>8, <2>9, <2>10, Zenon
<1> QED
  BY <1>1, <1>2

\* A manifest that gets a verdict passes exactly if a person can review what it
\* declares.
LEMMA SurfaceHolds ==
  ASSUME NEW ls \in Seq(Surface!Line), NEW site, Surface!IsSite(site), NEW roots,
         NEW cap \in Nat, NEW bytes \in Nat
  PROVE  LET code == Surface!Exit(TRUE, <<ls>>, site, roots, cap, bytes)
         IN  /\ code # 2 => (code = 0 <=> Surface!Reviewable(ls, site, roots, cap, bytes))
             /\ code # 2 => Cardinality(Surface!At(ls, "tier")) = 1
<1> DEFINE judged == Surface!Judge(ls, site, roots, cap, bytes)
           prose(key) == Surface!Prose(ls, key, site, roots, cap, bytes)
           rest(i) == Surface!Substance(site, roots, ls[i].value)
           found == {prose(key) : key \in {"spec", "qa"}} \cup {rest(i) : i \in Surface!At(ls, "code")}
           Tier(t) == \E i \in Surface!At(ls, "tier") : ls[i].value = t
           Code == Surface!At(ls, "code") # {}
           Fits(i) == /\ site.disk[site.resolve[ls[i].value]].lines <= cap
                      /\ site.disk[site.resolve[ls[i].value]].bytes <= bytes
           Stands(i) == /\ site.resolve[ls[i].value] \in Places
                        /\ site.within[site.resolve[ls[i].value]] \in roots
                        /\ site.disk[site.resolve[ls[i].value]].is = "file"
                        /\ site.disk[site.resolve[ls[i].value]].visible
<1>1. Surface!Exit(TRUE, <<ls>>, site, roots, cap, bytes)
        = IF judged = "malformed" THEN 2 ELSE IF judged = "breach" THEN 1 ELSE 0
  <2> DEFINE all == {Surface!Judge(<<ls>>[i], site, roots, cap, bytes) : i \in 1..Len(<<ls>>)}
  <2>1. all = {judged} /\ <<ls>> # <<>>
    OBVIOUS
  <2>2. Surface!Exit(TRUE, <<ls>>, site, roots, cap, bytes)
          = IF ~TRUE \/ <<ls>> = <<>> \/ "malformed" \in all THEN 2
            ELSE IF "breach" \in all THEN 1 ELSE 0
    BY DEF Surface!Exit
  <2> HIDE DEF all, judged
  <2> QED
    BY <2>1, <2>2
<1>2. judged = IF Surface!Malformed(ls) \/ found \cap {"malformed", "error"} # {} THEN "malformed"
               ELSE IF "breach" \in found \/ (Tier("routine") /\ Code) \/ (Tier("critical") /\ ~Code)
               THEN "breach" ELSE "ok"
  BY DEF Surface!Judge
<1>3. SUFFICES ASSUME ~Surface!Malformed(ls), found \cap {"malformed", "error"} = {}
      PROVE  /\ judged = "ok" <=> Surface!Reviewable(ls, site, roots, cap, bytes)
             /\ Cardinality(Surface!At(ls, "tier")) = 1
  <2>1. judged \in {"malformed", "breach", "ok"}
    BY <1>2, Zenon
  <2>2. judged # "malformed" => ~Surface!Malformed(ls) /\ found \cap {"malformed", "error"} = {}
    BY <1>2, Zenon
  <2> HIDE DEF judged, found
  <2> QED
    BY <1>1, <2>1, <2>2
<1>4. \A i \in Surface!At(ls, "code") : rest(i) \in {"malformed", "error", "breach", "ok"}
  BY DeclaredValues, Substantial
<1>5. \A key \in {"spec", "qa"} :
        /\ prose(key) \in {"malformed", "error", "breach", "ok"}
        /\ prose(key) = "ok" <=> /\ Surface!At(ls, key) # {}
                                 /\ \A i \in Surface!At(ls, key) : Stands(i) /\ Fits(i)
  <2>1. ASSUME NEW key \in {"spec", "qa"}
        PROVE  /\ prose(key) \in {"malformed", "error", "breach", "ok"}
               /\ prose(key) = "ok" <=> /\ Surface!At(ls, key) # {}
                                        /\ \A i \in Surface!At(ls, key) : Stands(i) /\ Fits(i)
    <3> DEFINE thing(i) == site.disk[site.resolve[ls[i].value]]
    <3>1. /\ prose(key) \in {"malformed", "error", "breach", "ok"}
          /\ prose(key) = "ok"
               <=> /\ Surface!At(ls, key) # {}
                   /\ \A i \in Surface!At(ls, key) :
                        rest(i) = "ok" /\ ~(thing(i).lines > cap) /\ ~(thing(i).bytes > bytes)
      BY <1>3, ProseInOrder
    <3>2. \A i \in Surface!At(ls, key) : rest(i) = "ok" <=> Stands(i)
      BY DeclaredValues, Substantial
    <3>3. ASSUME NEW i \in Surface!At(ls, key), Stands(i)
          PROVE  ~(thing(i).lines > cap) /\ ~(thing(i).bytes > bytes) <=> Fits(i)
      <4>1. thing(i) \in Surface!Artifact /\ thing(i).is = "file"
        BY <3>3 DEF Surface!IsSite
      <4>2. thing(i).lines \in Nat /\ thing(i).bytes \in Nat
        <5> HIDE DEF thing
        <5> QED
          BY <4>1 DEF Surface!Artifact
      <4>3. Fits(i) <=> thing(i).lines <= cap /\ thing(i).bytes <= bytes
        OBVIOUS
      <4> HIDE DEF thing, Fits
      <4> QED
        BY <4>2, <4>3
    <3> HIDE DEF thing, rest, prose, Stands, Fits
    <3> QED
      BY <3>1, <3>2, <3>3
  <2> QED
    BY <2>1
<1>6. \A i \in Surface!At(ls, "code") : rest(i) = "ok" <=> Stands(i)
  BY DeclaredValues, Substantial
<1>7. "breach" \notin found
        <=> /\ \A key \in {"spec", "qa"} : /\ Surface!At(ls, key) # {}
                                           /\ \A i \in Surface!At(ls, key) : Stands(i) /\ Fits(i)
            /\ \A i \in Surface!At(ls, "code") : Stands(i)
  <2>1. \A x \in found : x \in {"malformed", "error", "breach", "ok"} /\ x \notin {"malformed", "error"}
    BY <1>3, <1>4, <1>5
  <2>2. "breach" \notin found <=> \A x \in found : x = "ok"
    BY <2>1
  <2>3. (\A x \in found : x = "ok")
          <=> /\ \A key \in {"spec", "qa"} : prose(key) = "ok"
              /\ \A i \in Surface!At(ls, "code") : rest(i) = "ok"
    <3> HIDE DEF prose, rest
    <3> QED
      OBVIOUS
  <2> HIDE DEF found, prose, rest, Stands, Fits
  <2> QED
    BY <1>5, <1>6, <2>2, <2>3
<1>8. PICK i \in Surface!At(ls, "tier") : Surface!At(ls, "tier") = {i} /\ ls[i].value \in Surface!Tiers
  <2>1. PICK i \in Surface!At(ls, "tier") : ls[i].value \in Surface!Tiers
    BY <1>3 DEF Surface!Malformed
  <2>2. ASSUME NEW j \in Surface!At(ls, "tier")
        PROVE  j = i
    BY <1>3, <2>1 DEF Surface!Malformed, Surface!At
  <2> QED
    BY <2>1, <2>2
<1>9. Cardinality(Surface!At(ls, "tier")) = 1
  BY <1>8, FS_Singleton
<1>10. \A t : Tier(t) <=> ls[i].value = t
  BY <1>8
<1>11. Surface!Reviewable(ls, site, roots, cap, bytes)
         <=> /\ \A key \in {"spec", "qa"} : /\ Surface!At(ls, key) # {}
                                            /\ \A j \in Surface!At(ls, key) : Stands(j) /\ Fits(j)
             /\ \A j \in Surface!At(ls, "code") : Stands(j)
             /\ ls[i].value = "routine" => ~Code
             /\ ls[i].value = "critical" => Code
  <2> DEFINE has(key) == \E j \in 1..Len(ls) : ls[j].key = key
             named == {ls[j].value : j \in {m \in 1..Len(ls) : ls[m].key \in {"spec", "qa", "code"}}}
             written == {ls[j].value : j \in {m \in 1..Len(ls) : ls[m].key \in {"spec", "qa"}}}
             In(v) == /\ site.resolve[v] \in Places
                      /\ site.within[site.resolve[v]] \in roots
                      /\ site.disk[site.resolve[v]].is = "file" /\ site.disk[site.resolve[v]].visible
             Short(v) == /\ site.disk[site.resolve[v]].lines <= cap
                         /\ site.disk[site.resolve[v]].bytes <= bytes
             Tiered == \A j \in 1..Len(ls) :
                         ls[j].key = "tier" =>
                           CASE ls[j].value = "routine" -> ~has("code")
                             [] ls[j].value = "critical" -> has("code")
                             [] OTHER -> TRUE
  <2>1. Surface!Reviewable(ls, site, roots, cap, bytes)
          <=> /\ has("spec") /\ has("qa") /\ \A v \in named : In(v)
              /\ \A v \in written : Short(v)
              /\ Tiered
    BY Zenon DEF Surface!Reviewable
  <2>2. \A key : has(key) <=> Surface!At(ls, key) # {}
    BY DEF Surface!At
  <2>3. Code <=> has("code")
    BY DEF Surface!At
  <2>4. Tiered <=> (ls[i].value = "routine" => ~has("code")) /\ (ls[i].value = "critical" => has("code"))
    <3>1. \A j \in 1..Len(ls) : ls[j].key = "tier" <=> j = i
      BY <1>8 DEF Surface!At
    <3>2. i \in 1..Len(ls)
      BY <1>8 DEF Surface!At
    <3>3. ls[i].value \in {"routine", "elevated", "critical"}
      BY <1>8 DEF Surface!Tiers
    <3> HIDE DEF has
    <3> QED
      BY <3>1, <3>2, <3>3
  <2>5. (\A v \in named : In(v))
          <=> \A key \in {"spec", "qa", "code"} : \A j \in Surface!At(ls, key) : Stands(j)
    <3>1. \A j : Stands(j) <=> In(ls[j].value)
      OBVIOUS
    <3> HIDE DEF Stands, In
    <3> QED
      BY <3>1 DEF Surface!At
  <2>6. (\A v \in written : Short(v))
          <=> \A key \in {"spec", "qa"} : \A j \in Surface!At(ls, key) : Fits(j)
    <3>1. \A j : Fits(j) <=> Short(ls[j].value)
      OBVIOUS
    <3> HIDE DEF Fits, Short
    <3> QED
      BY <3>1 DEF Surface!At
  <2> HIDE DEF has, named, written, In, Short, Tiered, Stands, Fits, Code
  <2> QED
    BY <2>1, <2>2, <2>3, <2>4, <2>5, <2>6
<1>12. judged = "ok"
         <=> /\ "breach" \notin found
             /\ ls[i].value = "routine" => ~Code
             /\ ls[i].value = "critical" => Code
  <2> HIDE DEF found, Code, Tier, judged
  <2> QED
    BY <1>2, <1>3, <1>10
<1> HIDE DEF judged, found, Code, Stands, Fits
<1> QED
  BY <1>7, <1>9, <1>11, <1>12

-----------------------------------------------------------------------------
(* plan-decay *)

\* A path is located one component at a time.
LEMMA LocateRounds ==
  ASSUME NEW tree, NEW S, NEW path \in Seq(S)
  PROVE  \E f : /\ f[0] = [status |-> "exact", at |-> <<>>]
                /\ \A k \in 1..Len(path) : f[k] = Plan!Step(tree, f[k - 1], path[k])
                /\ Plan!Locate(tree, path) = f[Len(path)]
<1> DEFINE N == Len(path)
           Op(s, k) == Plan!Step(tree, s, path[k])
           Runs(f, n) == f = [k \in 0..n |-> IF k = 0 THEN [status |-> "exact", at |-> <<>>] ELSE Op(f[k - 1], k)]
           M == {n \in 0..N : \E f : Runs(f, n)}
<1>1. N \in Nat
  BY ElementOfSeq
<1>2. 0 \in M
  <2> DEFINE g == [k \in 0..0 |-> [status |-> "exact", at |-> <<>>]]
  <2>1. g = [k \in 0..0 |-> IF k = 0 THEN [status |-> "exact", at |-> <<>>] ELSE Op(g[k - 1], k)]
    OBVIOUS
  <2>2. Runs(g, 0)
    BY <2>1
  <2> HIDE DEF Runs, g, N
  <2> QED
    BY <1>1, <2>2
<1>3. ASSUME NEW n \in 1..N, n - 1 \in M
      PROVE  n \in M
  <2>1. PICK f : Runs(f, n - 1)
    BY <1>3
  <2> DEFINE g == [k \in 0..n |-> IF k = n THEN Op(f[n - 1], n) ELSE f[k]]
             h == [k \in 0..n |-> IF k = 0 THEN [status |-> "exact", at |-> <<>>] ELSE Op(g[k - 1], k)]
             e == [k \in 0..(n - 1) |-> IF k = 0 THEN [status |-> "exact", at |-> <<>>] ELSE Op(f[k - 1], k)]
  <2>2. ASSUME NEW k \in 0..n
        PROVE  g[k] = h[k]
    <3> HIDE DEF Op
    <3>1. f = e
      BY <2>1
    <3>2. \A j \in 0..(n - 1) : e[j] = IF j = 0 THEN [status |-> "exact", at |-> <<>>] ELSE Op(f[j - 1], j)
      OBVIOUS
    <3>3. \A j \in 0..(n - 1) : f[j] = IF j = 0 THEN [status |-> "exact", at |-> <<>>] ELSE Op(f[j - 1], j)
      <4> HIDE DEF e
      <4> QED
        BY <3>1, <3>2
    <3>4. n \in Nat /\ n > 0
      BY <1>1, <1>3
    <3>5. CASE k = n
      BY <3>4, <3>5
    <3>6. CASE k # n
      <4>1. k \in 0..(n - 1) /\ (k # 0 => k - 1 \in 0..n /\ k - 1 # n)
        BY <3>4, <3>6
      <4>2. g[k] = f[k] /\ (k # 0 => g[k - 1] = f[k - 1])
        BY <3>6, <4>1
      <4>3. h[k] = IF k = 0 THEN [status |-> "exact", at |-> <<>>] ELSE Op(g[k - 1], k)
        OBVIOUS
      <4> HIDE DEF g, h
      <4> QED
        BY <3>3, <4>1, <4>2, <4>3
    <3> QED
      BY <3>5, <3>6
  <2>3. g = h
    <3> HIDE DEF Op
    <3> QED
      BY <2>2
  <2>4. Runs(g, n)
    BY <2>3
  <2> HIDE DEF Runs, g, N
  <2> QED
    BY <1>1, <2>4
<1>4. N \in M
  <2>1. 0..N \subseteq M
    <3> HIDE DEF M, N
    <3> QED
      BY <1>1, <1>2, <1>3, EveryRound
  <2> HIDE DEF M, N
  <2> QED
    BY <1>1, <2>1
<1>5. PICK f : Runs(f, N)
  BY <1>4
<1> DEFINE st[k \in 0..N] == IF k = 0 THEN [status |-> "exact", at |-> <<>>] ELSE Plan!Step(tree, st[k - 1], path[k])
<1>6. st = [k \in 0..N |-> IF k = 0 THEN [status |-> "exact", at |-> <<>>] ELSE Plan!Step(tree, st[k - 1], path[k])]
  <2> HIDE DEF N
  <2> QED
    BY <1>5
<1>7. Plan!Locate(tree, path) = st[N]
  BY DEF Plan!Locate
<1> DEFINE h == [k \in 0..N |-> IF k = 0 THEN [status |-> "exact", at |-> <<>>] ELSE Op(st[k - 1], k)]
<1>8. h[0] = [status |-> "exact", at |-> <<>>] /\ \A k \in 1..N : h[k] = Op(st[k - 1], k)
  <2> HIDE DEF st, N, Op
  <2> QED
    BY <1>1
<1>9. st = h
  BY <1>6
<1>10. st[0] = [status |-> "exact", at |-> <<>>] /\ \A k \in 1..N : st[k] = Op(st[k - 1], k)
  <2> HIDE DEF h, st, N, Op
  <2> QED
    BY <1>8, <1>9
<1> HIDE DEF st
<1> QED
  BY <1>7, <1>10

\* The entries that match the first k components of a path, one by one.
Upto(tree, path, k) ==
  {p \in DOMAIN tree : Len(p) = k /\ \A i \in 1..k : Plan!Nfc(p[i]) = Plan!Nfc(path[i])}

\* The k-th component is there in another case or not under a file only.
Astray(tree, path, k) ==
  /\ Upto(tree, path, k) = {}
  /\ \E p \in Upto(tree, path, k - 1) : Plan!Variants(tree, p, path[k]) # {}

\* A path means the entries that match all of it, and is misspelt at a component.
LEMMA MeantUpto ==
  ASSUME NEW tree, NEW path \in Seq(Plan!Name), Plan!IsTree(tree)
  PROVE  /\ Plan!Meant(tree, path) = Upto(tree, path, Len(path))
         /\ Plan!Misspelt(tree, path) <=> \E k \in 1..Len(path) : Astray(tree, path, k)
<1>1. Plan!Meant(tree, path) = Upto(tree, path, Len(path))
  BY DEF Plan!Meant, Upto
<1>2. Len(path) \in Nat
  BY ElementOfSeq
<1>3. ASSUME NEW k \in 0..Len(path)
      PROVE  Plan!Meant(tree, SubSeq(path, 1, k)) = Upto(tree, path, k)
  <2> DEFINE pre == SubSeq(path, 1, k)
  <2>1. Len(pre) = k /\ \A i \in 1..k : pre[i] = path[i]
    <3>1. \A i \in 1..k : path[i] \in Plan!Name
      BY <1>2, ElementOfSeq
    <3>2. 1 \in Int /\ k \in Int /\ Len(path) \in Int /\ k <= Len(path)
      BY <1>2
    <3> QED
      BY <3>1, <3>2, SubSeqProperties
  <2> HIDE DEF pre
  <2>2. Plan!Meant(tree, pre) = Upto(tree, path, k)
    BY <2>1 DEF Plan!Meant, Upto
  <2> QED
    BY <2>2 DEF pre
<1>4. ASSUME NEW k \in 1..Len(path)
      PROVE  /\ Plan!Meant(tree, SubSeq(path, 1, k)) = Upto(tree, path, k)
             /\ Plan!Meant(tree, SubSeq(path, 1, k - 1)) = Upto(tree, path, k - 1)
  <2>1. k \in 0..Len(path) /\ k - 1 \in 0..Len(path)
    BY <1>2
  <2> QED
    BY <1>3, <2>1
<1>5. Plan!Misspelt(tree, path) <=> \E k \in 1..Len(path) : Astray(tree, path, k)
  BY <1>4 DEF Plan!Misspelt, Astray
<1> QED
  BY <1>1, <1>5

\* An entry of a tree lies in a directory of the tree.
LEMMA Parents ==
  ASSUME NEW tree, Plan!IsTree(tree), NEW p \in DOMAIN tree, p # <<>>
  PROVE  LET dir == Plan!Parent(p)
         IN  /\ Len(p) \in Nat \ {0}
             /\ dir \in DOMAIN tree /\ tree[dir].is \in {"dir", "locked"}
             /\ Len(dir) = Len(p) - 1 /\ \A i \in 1..(Len(p) - 1) : dir[i] = p[i]
             /\ Plan!Own(p) = p[Len(p)]
<1>1. p \in Seq(Plan!Name)
  BY DEF Plan!IsTree
<1>2. Len(p) \in Nat \ {0}
  BY <1>1, EmptySeq, ElementOfSeq
<1>3. Plan!Own(p) = p[Len(p)]
  BY DEF Plan!Own
<1>4. Plan!Parent(p) = SubSeq(p, 1, Len(p) - 1)
  BY DEF Plan!Parent
<1>5. Len(Plan!Parent(p)) = Len(p) - 1 /\ \A i \in 1..(Len(p) - 1) : Plan!Parent(p)[i] = p[i]
  <2> DEFINE n == Len(p) - 1
             dir == SubSeq(p, 1, n)
  <2>1. 1 \in Int /\ n \in Nat /\ Len(p) \in Int /\ n <= Len(p)
    BY <1>2
  <2>2. \A i \in 1..n : p[i] \in Plan!Name
    <3> SUFFICES ASSUME NEW i \in 1..n PROVE p[i] \in Plan!Name
      OBVIOUS
    <3>1. i \in 1..Len(p)
      BY <1>2
    <3> QED
      BY <1>1, <3>1, ElementOfSeq
  <2>3. Len(dir) = n /\ \A i \in 1..n : dir[i] = p[i]
    <3> HIDE DEF n
    <3> QED
      BY <1>1, <2>1, <2>2, SubSeqProperties
  <2> QED
    BY <1>4, <2>3
<1>6. Plan!Parent(p) \in DOMAIN tree /\ tree[Plan!Parent(p)].is \in {"dir", "locked"}
  BY DEF Plan!IsTree
<1> QED
  BY <1>2, <1>3, <1>5, <1>6

\* The entries that match one component more are entries of those that match so far.
LEMMA OneDeeper ==
  ASSUME NEW tree, Plan!IsTree(tree), NEW path \in Seq(Plan!Name), NEW k \in 1..Len(path)
  PROVE  Upto(tree, path, k)
           = {p \in DOMAIN tree : /\ p # <<>> /\ Plan!Parent(p) \in Upto(tree, path, k - 1)
                                  /\ Plan!Nfc(Plan!Own(p)) = Plan!Nfc(path[k])}
<1>1. k \in Nat \ {0}
  BY ElementOfSeq
<1>2. ASSUME NEW p \in DOMAIN tree, p # <<>>
      PROVE  p \in Upto(tree, path, k) <=> /\ Plan!Parent(p) \in Upto(tree, path, k - 1)
                                           /\ Plan!Nfc(Plan!Own(p)) = Plan!Nfc(path[k])
  <2> DEFINE dir == Plan!Parent(p)
             Same(i) == Plan!Nfc(p[i]) = Plan!Nfc(path[i])
  <2>1. /\ Len(p) \in Nat \ {0} /\ dir \in DOMAIN tree
        /\ Len(dir) = Len(p) - 1 /\ \A i \in 1..(Len(p) - 1) : dir[i] = p[i]
        /\ Plan!Own(p) = p[Len(p)]
    BY <1>2, Parents
  <2>2. p \in Upto(tree, path, k) <=> Len(p) = k /\ \A i \in 1..k : Same(i)
    BY DEF Upto
  <2>3. dir \in Upto(tree, path, k - 1)
          <=> Len(dir) = k - 1 /\ \A i \in 1..(k - 1) : Plan!Nfc(dir[i]) = Plan!Nfc(path[i])
    BY <2>1 DEF Upto
  <2>4. CASE Len(p) # k
    <3>1. Len(dir) # k - 1
      BY <1>1, <2>1, <2>4
    <3> QED
      BY <2>2, <2>3, <2>4, <3>1
  <2>5. CASE Len(p) = k
    <3>1. dir \in Upto(tree, path, k - 1) <=> \A i \in 1..(k - 1) : Same(i)
      BY <1>1, <2>1, <2>3, <2>5
    <3>2. (\A i \in 1..k : Same(i)) <=> (\A i \in 1..(k - 1) : Same(i)) /\ Same(k)
      <4> HIDE DEF Same
      <4> QED
        BY <1>1
    <3>3. Plan!Nfc(Plan!Own(p)) = Plan!Nfc(path[k]) <=> Same(k)
      BY <2>1, <2>5
    <3> HIDE DEF Same
    <3> QED
      BY <2>2, <2>5, <3>1, <3>2, <3>3
  <2> QED
    BY <2>4, <2>5
<1>3. ASSUME NEW p \in Upto(tree, path, k)
      PROVE  p \in DOMAIN tree /\ p # <<>>
  <2>1. Len(p) = k /\ Len(<<>>) = 0
    BY DEF Upto
  <2> QED
    BY <1>1, <2>1 DEF Upto
<1> QED
  BY <1>2, <1>3

\* How far the search for a path has come: what it found after k components, or why
\* it found nothing.
OnTrack(tree, path, k, s) ==
  /\ s \in [status : {"exact", "missing", "variant", "fault"}, at : Seq(Plan!Name)]
  /\ s.status = "exact" => (k = 0 /\ s.at = <<>>) \/ Upto(tree, path, k) = {s.at}
  /\ s.status \in {"missing", "variant"} => Upto(tree, path, k) = {}
  /\ s.status \in {"exact", "missing"} => \A n \in 1..k : ~Astray(tree, path, n)
  /\ s.status = "variant" => \E n \in 1..k : Astray(tree, path, n)

\* Where nothing matches so far nothing is found further down, or misspelt there.
LEMMA NothingBelow ==
  ASSUME NEW tree, Plan!IsTree(tree), NEW path \in Seq(Plan!Name), NEW k \in 1..Len(path),
         Upto(tree, path, k - 1) = {}
  PROVE  Upto(tree, path, k) = {} /\ ~Astray(tree, path, k)
BY OneDeeper DEF Astray

\* Below the one entry that matches so far, the entries that match are its entries.
LEMMA EntriesBelow ==
  ASSUME NEW tree, Plan!IsTree(tree), NEW path \in Seq(Plan!Name), NEW k \in 1..Len(path),
         NEW at, Upto(tree, path, k - 1) = {at}
  PROVE  LET want == path[k]
         IN  /\ Upto(tree, path, k) = Plan!Entries(tree, at, want)
             /\ Astray(tree, path, k)
                  <=> Plan!Entries(tree, at, want) = {} /\ Plan!Variants(tree, at, want) # {}
             /\ tree[at].is \notin {"dir", "locked"}
                  => Plan!Entries(tree, at, want) = {} /\ Plan!Variants(tree, at, want) = {}
             /\ Plan!Entries(tree, at, want) \subseteq Seq(Plan!Name)
<1>1. Upto(tree, path, k) = Plan!Entries(tree, at, path[k])
  BY OneDeeper DEF Plan!Entries
<1>2. Astray(tree, path, k)
        <=> Plan!Entries(tree, at, path[k]) = {} /\ Plan!Variants(tree, at, path[k]) # {}
  BY <1>1 DEF Astray
<1>3. ASSUME NEW p \in DOMAIN tree, p # <<>>, Plan!Parent(p) = at
      PROVE  tree[at].is \in {"dir", "locked"}
  BY <1>3, Parents
<1>4. tree[at].is \notin {"dir", "locked"}
        => Plan!Entries(tree, at, path[k]) = {} /\ Plan!Variants(tree, at, path[k]) = {}
  BY <1>3 DEF Plan!Entries, Plan!Variants
<1>5. Plan!Entries(tree, at, path[k]) \subseteq Seq(Plan!Name)
  BY DEF Plan!Entries, Plan!IsTree
<1> QED
  BY <1>1, <1>2, <1>4, <1>5

\* Each component keeps the search on track.
LEMMA StaysOnTrack ==
  ASSUME NEW tree, Plan!IsTree(tree), NEW path \in Seq(Plan!Name), NEW k \in 1..Len(path),
         NEW s, OnTrack(tree, path, k - 1, s)
  PROVE  OnTrack(tree, path, k, Plan!Step(tree, s, path[k]))
<1> DEFINE at == s.at
           want == path[k]
           exact == Plan!Entries(tree, at, want)
           near == Plan!Variants(tree, at, want)
           then == Plan!Step(tree, s, want)
           Off(n) == Astray(tree, path, n)
           Far(n) == Upto(tree, path, n)
           turned(status) == [s EXCEPT !.status = status]
           Statuses == {"exact", "missing", "variant", "fault"}
<1>1. k \in Nat \ {0} /\ \A n : n \in 1..k <=> n \in 1..(k - 1) \/ n = k
  BY ElementOfSeq
<1>2. s \in [status : Statuses, at : Seq(Plan!Name)]
  BY DEF OnTrack
<1>3. \A status \in Statuses :
        /\ turned(status) \in [status : Statuses, at : Seq(Plan!Name)]
        /\ turned(status).status = status /\ turned(status).at = at
  BY <1>2
<1>4. then = CASE s.status # "exact" -> s
               [] s.status = "exact" /\ at \notin DOMAIN tree -> turned("missing")
               [] OTHER ->
                    CASE tree[at].is = "locked" -> turned("fault")
                      [] tree[at].is \in {"file", "opaque"} -> turned("missing")
                      [] OTHER ->
                           IF \E p, q \in exact : p # q THEN turned("fault")
                           ELSE IF exact # {} THEN [s EXCEPT !.at = CHOOSE p \in exact : TRUE]
                           ELSE IF near # {} THEN turned("variant")
                           ELSE turned("missing")
  BY DEF Plan!Step
<1>5. ASSUME NEW t, OnTrack(tree, path, k, t), then = t
      PROVE  OnTrack(tree, path, k, then)
  BY <1>5
<1>6. ASSUME NEW t \in [status : Statuses, at : Seq(Plan!Name)], t.status = "missing",
             Far(k) = {}, \A n \in 1..k : ~Off(n)
      PROVE  OnTrack(tree, path, k, t)
  BY <1>6 DEF OnTrack
<1>7. ASSUME NEW t \in [status : Statuses, at : Seq(Plan!Name)], t.status = "fault"
      PROVE  OnTrack(tree, path, k, t)
  BY <1>7 DEF OnTrack
<1>8. CASE s.status # "exact"
  <2>1. then = s
    <3> HIDE DEF then, turned
    <3> QED
      BY <1>4, <1>8
  <2>2. CASE s.status = "fault"
    BY <1>2, <1>7, <2>1, <2>2
  <2>3. CASE s.status \in {"missing", "variant"}
    <3>1. Far(k) = {} /\ ~Off(k)
      BY <2>3, NothingBelow DEF OnTrack
    <3>2. s.status = "missing" => \A n \in 1..k : ~Off(n)
      BY <1>1, <3>1 DEF OnTrack
    <3>3. s.status = "variant" => \E n \in 1..k : Off(n)
      BY <1>1 DEF OnTrack
    <3>4. OnTrack(tree, path, k, s)
      BY <1>2, <2>3, <3>1, <3>2, <3>3 DEF OnTrack
    <3> QED
      BY <2>1, <3>4
  <2> QED
    BY <1>2, <1>8, <2>2, <2>3
<1>9. CASE s.status = "exact" /\ at \notin DOMAIN tree
  <2>1. then = turned("missing")
    <3> HIDE DEF then, turned, at
    <3> QED
      BY <1>4, <1>9
  <2>2. k = 1 /\ at = <<>>
    <3>1. Far(k - 1) # {at}
      BY <1>9 DEF Upto
    <3> QED
      BY <1>1, <1>9, <3>1 DEF OnTrack
  <2>3. Far(k - 1) = {}
    <3>1. ASSUME NEW p \in Far(k - 1)
          PROVE  FALSE
      <4>1. p \in DOMAIN tree /\ Len(p) = 0
        BY <2>2 DEF Upto
      <4>2. p \in Seq(Plan!Name)
        BY <4>1 DEF Plan!IsTree
      <4> QED
        BY <1>9, <2>2, <4>1, <4>2, EmptySeq
    <3> QED
      BY <3>1
  <2>4. Far(k) = {} /\ ~Off(k)
    BY <2>3, NothingBelow
  <2>5. \A n \in 1..k : ~Off(n)
    BY <1>1, <1>9, <2>4 DEF OnTrack
  <2> HIDE DEF turned
  <2> QED
    BY <1>3, <1>6, <2>1, <2>4, <2>5
<1>10. CASE s.status = "exact" /\ at \in DOMAIN tree
  <2>1. Far(k - 1) = {at}
    <3>1. SUFFICES ASSUME k - 1 = 0, at = <<>> PROVE Far(k - 1) = {at}
      BY <1>10 DEF OnTrack
    <3>2. at \in Far(k - 1)
      BY <1>10, <3>1 DEF Upto
    <3>3. ASSUME NEW p \in Far(k - 1)
          PROVE  p = at
      <4>1. p \in DOMAIN tree /\ Len(p) = 0
        BY <3>1, <3>3 DEF Upto
      <4>2. p \in Seq(Plan!Name)
        BY <4>1 DEF Plan!IsTree
      <4> QED
        BY <3>1, <4>1, <4>2, EmptySeq
    <3> QED
      BY <3>2, <3>3
  <2>2. /\ Far(k) = exact
        /\ Off(k) <=> exact = {} /\ near # {}
        /\ tree[at].is \notin {"dir", "locked"} => exact = {} /\ near = {}
        /\ exact \subseteq Seq(Plan!Name)
    BY <2>1, EntriesBelow
  <2>3. ~Off(k) => \A n \in 1..k : ~Off(n)
    BY <1>1, <1>10 DEF OnTrack
  <2>4. then = CASE tree[at].is = "locked" -> turned("fault")
                 [] tree[at].is \in {"file", "opaque"} -> turned("missing")
                 [] OTHER ->
                      IF \E p, q \in exact : p # q THEN turned("fault")
                      ELSE IF exact # {} THEN [s EXCEPT !.at = CHOOSE p \in exact : TRUE]
                      ELSE IF near # {} THEN turned("variant")
                      ELSE turned("missing")
    <3> HIDE DEF then, turned, at, exact, near
    <3> QED
      BY <1>4, <1>10, Zenon
  <2>5. CASE tree[at].is = "locked" \/ \E p, q \in exact : p # q
    <3>1. (tree[at].is \in {"file", "opaque"}) => ~\E p, q \in exact : p # q
      BY <2>2
    <3>2. then = turned("fault")
      <4> HIDE DEF then, turned, at, exact, near
      <4> QED
        BY <2>4, <2>5, <3>1
    <3> HIDE DEF turned
    <3> QED
      BY <1>3, <1>7, <3>2
  <2>6. CASE tree[at].is # "locked" /\ tree[at].is \in {"file", "opaque"}
    <3>1. then = turned("missing")
      <4> HIDE DEF then, turned, at, exact, near
      <4> QED
        BY <2>4, <2>6
    <3>2. Far(k) = {} /\ ~Off(k)
      BY <2>2, <2>6
    <3> HIDE DEF turned
    <3> QED
      BY <1>3, <1>6, <2>3, <3>1, <3>2
  <2>7. CASE /\ tree[at].is \notin {"locked", "file", "opaque"}
             /\ ~(\E p, q \in exact : p # q) /\ exact # {}
    <3> DEFINE it == CHOOSE p \in exact : TRUE
               moved == [s EXCEPT !.at = it]
    <3>1. then = moved
      <4> HIDE DEF then, turned, at, exact, near
      <4> QED
        BY <2>4, <2>7
    <3>2. it \in exact /\ exact = {it}
      <4>1. it \in exact
        <5> HIDE DEF exact
        <5> QED
          BY <2>7
      <4> HIDE DEF it, exact
      <4> QED
        BY <2>7, <4>1
    <3>3. ~Off(k) /\ Far(k) = {it} /\ it \in Seq(Plan!Name)
      BY <2>2, <3>2
    <3>4. moved \in [status : Statuses, at : Seq(Plan!Name)] /\ moved.status = "exact" /\ moved.at = it
      <4> HIDE DEF it
      <4> QED
        BY <1>2, <1>10, <3>3
    <3>5. OnTrack(tree, path, k, moved)
      <4> HIDE DEF it, moved
      <4> QED
        BY <2>3, <3>3, <3>4 DEF OnTrack
    <3> QED
      BY <3>1, <3>5
  <2>8. CASE tree[at].is \notin {"locked", "file", "opaque"} /\ exact = {} /\ near # {}
    <3>1. then = turned("variant")
      <4> HIDE DEF then, turned, at, exact, near
      <4> QED
        BY <2>4, <2>8
    <3>2. Far(k) = {} /\ Off(k) /\ k \in 1..k
      BY <1>1, <2>2, <2>8
    <3>3. turned("variant") \in [status : Statuses, at : Seq(Plan!Name)] /\ turned("variant").status = "variant"
      BY <1>3
    <3> HIDE DEF turned
    <3>4. OnTrack(tree, path, k, turned("variant"))
      BY <3>2, <3>3 DEF OnTrack
    <3> QED
      BY <3>1, <3>4
  <2>9. CASE tree[at].is \notin {"locked", "file", "opaque"} /\ exact = {} /\ near = {}
    <3>1. then = turned("missing")
      <4> HIDE DEF then, turned, at, exact, near
      <4> QED
        BY <2>4, <2>9
    <3>2. Far(k) = {} /\ ~Off(k)
      BY <2>2, <2>9
    <3> HIDE DEF turned
    <3> QED
      BY <1>3, <1>6, <2>3, <3>1, <3>2
  <2> HIDE DEF then, turned, at, exact, near
  <2> QED
    BY <2>5, <2>6, <2>7, <2>8, <2>9
<1> QED
  BY <1>8, <1>9, <1>10

\* The search ends at the one entry a path means, or says why there is none; only a
\* fault leaves open what it means.
LEMMA LocateMeans ==
  ASSUME NEW tree, Plan!IsTree(tree), NEW path \in Plan!Path
  PROVE  LET found == Plan!Locate(tree, path)
         IN  /\ found.status \in {"exact", "missing", "variant", "fault"}
             /\ found.status = "exact" => Plan!Meant(tree, path) = {found.at}
             /\ found.status = "missing" => Plan!Meant(tree, path) = {} /\ ~Plan!Misspelt(tree, path)
             /\ found.status = "variant" => Plan!Meant(tree, path) = {} /\ Plan!Misspelt(tree, path)
<1> DEFINE N == Len(path)
           start == [status |-> "exact", at |-> <<>>]
<1>1. path \in Seq(Plan!Name) /\ path # <<>>
  BY DEF Plan!Path
<1>2. N \in Nat /\ N # 0
  BY <1>1, EmptySeq, ElementOfSeq
<1>3. PICK f : /\ f[0] = start
               /\ \A k \in 1..N : f[k] = Plan!Step(tree, f[k - 1], path[k])
               /\ Plan!Locate(tree, path) = f[N]
  BY <1>1, LocateRounds
<1> DEFINE K == {k \in 0..N : OnTrack(tree, path, k, f[k])}
<1>4. 0 \in K
  <2>1. OnTrack(tree, path, 0, start)
    <3>1. <<>> \in Seq(Plan!Name)
      OBVIOUS
    <3> QED
      BY <3>1 DEF OnTrack
  <2> HIDE DEF start
  <2> QED
    BY <1>2, <1>3, <2>1
<1>5. ASSUME NEW k \in 1..N, k - 1 \in K
      PROVE  k \in K
  <2>1. OnTrack(tree, path, k, Plan!Step(tree, f[k - 1], path[k]))
    BY <1>1, <1>5, StaysOnTrack
  <2> QED
    BY <1>3, <1>5, <2>1
<1>6. N \in K
  <2>1. 0..N \subseteq K
    <3> HIDE DEF K, N
    <3> QED
      BY <1>2, <1>4, <1>5, EveryRound
  <2> HIDE DEF K, N
  <2> QED
    BY <1>2, <2>1
<1>7. OnTrack(tree, path, N, f[N])
  BY <1>6
<1>8. /\ Plan!Meant(tree, path) = Upto(tree, path, N)
      /\ Plan!Misspelt(tree, path) <=> \E k \in 1..N : Astray(tree, path, k)
  BY <1>1, MeantUpto
<1> HIDE DEF N
<1> QED
  BY <1>2, <1>3, <1>7, <1>8 DEF OnTrack

\* A row that can be checked holds exactly if it is true of its tree, and cannot be
\* if its path means two entries.
LEMMA CheckIsTrue ==
  ASSUME NEW tree, Plan!IsTree(tree), NEW row \in Plan!Row, row.kind # "malformed"
  PROVE  LET found == Plan!Check(row, tree)
         IN  /\ found \in {"hold", "diverge", "fault"}
             /\ found # "fault" => (found = "hold" <=> Plan!True(row, tree))
             /\ (\E p, q \in Plan!Meant(tree, row.path) : p # q) => found = "fault"
<1> DEFINE found == Plan!Locate(tree, row.path)
           means == Plan!Meant(tree, row.path)
           bad == Plan!Misspelt(tree, row.path)
           texts == {tree[p].text : p \in {q \in means : tree[q].is = "file"}}
           text == tree[found.at].text
           holds(b) == IF b THEN "hold" ELSE "diverge"
           checked == Plan!Check(row, tree)
           Plain == row.kind \in {"exists", "absent"}
           Says == CASE row.kind = "unchanged" -> text.digest = row.arg
                     [] row.kind = "contains" -> row.arg \in text.literals
                     [] row.kind = "lacks" -> row.arg \notin text.literals
           Holds == Plan!True(row, tree)
<1>1. row.path \in Plan!Path /\ row.kind \in {"exists", "absent", "unchanged", "contains", "lacks"}
  BY DEF Plan!Row
<1>2. /\ found.status \in {"exact", "missing", "variant", "fault"}
      /\ found.status = "exact" => means = {found.at}
      /\ found.status = "missing" => means = {} /\ ~bad
      /\ found.status = "variant" => means = {} /\ bad
  BY <1>1, LocateMeans
<1>3. /\ found.status = "fault" => checked = "fault"
      /\ found.status # "fault" /\ row.kind = "exists" => checked = holds(found.status = "exact")
      /\ found.status # "fault" /\ row.kind = "absent" => checked = holds(found.status = "missing")
      /\ found.status \in {"missing", "variant"} /\ ~Plain => checked = "diverge"
      /\ found.status = "exact" /\ ~Plain =>
           checked = IF tree[found.at].is # "file" THEN "fault" ELSE holds(Says)
  <2>1. CASE found.status = "fault"
    BY <2>1 DEF Plan!Check
  <2>2. CASE found.status # "fault" /\ row.kind = "exists"
    BY <2>2 DEF Plan!Check
  <2>3. CASE found.status # "fault" /\ row.kind = "absent"
    BY <2>3 DEF Plan!Check
  <2>4. CASE found.status \in {"missing", "variant"} /\ ~Plain
    BY <2>4 DEF Plan!Check
  <2>5. CASE found.status = "exact" /\ ~Plain
    <3>1. CASE tree[found.at].is # "file"
      BY <2>5, <3>1 DEF Plan!Check
    <3>2. CASE tree[found.at].is = "file"
      <4>1. CASE row.kind = "unchanged"
        BY <2>5, <3>2, <4>1 DEF Plan!Check
      <4>2. CASE row.kind = "contains"
        BY <2>5, <3>2, <4>2 DEF Plan!Check
      <4>3. CASE row.kind = "lacks"
        BY <2>5, <3>2, <4>3 DEF Plan!Check
      <4> QED
        BY <1>1, <2>5, <4>1, <4>2, <4>3
    <3> QED
      BY <3>1, <3>2
  <2> HIDE DEF found, checked, Says
  <2> QED
    BY <1>1, <1>2, <2>1, <2>2, <2>3, <2>4, <2>5
<1>4. /\ row.kind = "exists" => (Holds <=> means # {})
      /\ row.kind = "absent" => (Holds <=> means = {} /\ ~bad)
      /\ row.kind = "unchanged" => (Holds <=> \E t \in texts : t.digest = row.arg)
      /\ row.kind = "contains" => (Holds <=> \E t \in texts : row.arg \in t.literals)
      /\ row.kind = "lacks" => (Holds <=> \E t \in texts : row.arg \notin t.literals)
  <2>1. CASE row.kind = "exists"
    BY <2>1 DEF Plan!True
  <2>2. CASE row.kind = "absent"
    BY <2>2 DEF Plan!True
  <2>3. CASE row.kind = "unchanged"
    BY <2>3 DEF Plan!True
  <2>4. CASE row.kind = "contains"
    BY <2>4 DEF Plan!True
  <2>5. CASE row.kind = "lacks"
    BY <2>5 DEF Plan!True
  <2> HIDE DEF Holds
  <2> QED
    BY <1>1, <2>1, <2>2, <2>3, <2>4, <2>5
<1>5. found.status \in {"missing", "variant"} => texts = {}
  BY <1>2
<1>6. found.status = "exact" /\ tree[found.at].is = "file" => texts = {text}
  BY <1>2
<1>7. row.kind = "unchanged" => (Says <=> text.digest = row.arg)
  OBVIOUS
<1>8. row.kind = "contains" => (Says <=> row.arg \in text.literals)
  OBVIOUS
<1>9. row.kind = "lacks" => (Says <=> row.arg \notin text.literals)
  OBVIOUS
<1>10. (\E p, q \in means : p # q) => found.status = "fault"
  BY <1>2
<1>11. \A b : holds(b) \in {"hold", "diverge"} /\ (holds(b) = "hold" <=> b)
  OBVIOUS
<1>12. SUFFICES /\ checked \in {"hold", "diverge", "fault"}
                /\ checked # "fault" => (checked = "hold" <=> Holds)
                /\ found.status = "fault" => checked = "fault"
  <2>1. (\E p, q \in means : p # q) <=> \E p, q \in Plan!Meant(tree, row.path) : p # q
    OBVIOUS
  <2> HIDE DEF found, means
  <2> QED
    BY <1>10, <2>1
<1> HIDE DEF found, means, checked, Holds, holds, bad, texts, text, Says
<1>13. CASE found.status = "fault"
  BY <1>3, <1>13
<1>14. CASE found.status # "fault" /\ row.kind = "exists"
  BY <1>2, <1>3, <1>4, <1>11, <1>14
<1>15. CASE found.status # "fault" /\ row.kind = "absent"
  BY <1>2, <1>3, <1>4, <1>11, <1>15
<1>16. CASE found.status \in {"missing", "variant"} /\ ~Plain
  BY <1>1, <1>2, <1>3, <1>4, <1>5, <1>16
<1>17. CASE found.status = "exact" /\ ~Plain
  <2>1. CASE tree[found.at].is # "file"
    BY <1>3, <1>17, <2>1
  <2>2. CASE tree[found.at].is = "file"
    <3>1. texts = {text} /\ checked = holds(Says)
      BY <1>3, <1>6, <1>17, <2>2
    <3>2. Holds <=> Says
      BY <1>1, <1>4, <1>7, <1>8, <1>9, <1>17, <3>1
    <3> QED
      BY <1>11, <1>17, <3>1, <3>2
  <2> QED
    BY <2>1, <2>2
<1> QED
  BY <1>1, <1>2, <1>13, <1>14, <1>15, <1>16, <1>17

\* A plan that gets a verdict passes exactly if each row is true of the tree it was
\* checked against, and gets none if a row's path means two entries.
LEMMA PlanHolds ==
  ASSUME NEW ls, \A i \in 1..Len(ls) : ls[i].row \in Plan!Row /\ Plan!IsTree(ls[i].tree)
  PROVE  LET code == Plan!Exit(ls)
         IN  /\ code # 2 => (code = 0 <=> \A i \in 1..Len(ls) : Plan!True(ls[i].row, ls[i].tree))
             /\ (\E i \in 1..Len(ls) :
                   /\ ls[i].row.kind # "malformed"
                   /\ \E p, q \in Plan!Meant(ls[i].tree, ls[i].row.path) : p # q) => code = 2
<1> DEFINE check(i) == Plan!Check(ls[i].row, ls[i].tree)
           results == {check(i) : i \in 1..Len(ls)}
           Refused == ls = <<>> \/ \E i \in 1..Len(ls) : ls[i].row.kind = "malformed"
           code == Plan!Exit(ls)
           Holds(i) == Plan!True(ls[i].row, ls[i].tree)
           Two(i) == \E p, q \in Plan!Meant(ls[i].tree, ls[i].row.path) : p # q
<1>1. code = IF Refused \/ "fault" \in results THEN 2 ELSE IF "diverge" \in results THEN 1 ELSE 0
  BY DEF Plan!Exit
<1>2. ASSUME NEW i \in 1..Len(ls), ls[i].row.kind # "malformed"
      PROVE  /\ check(i) \in {"hold", "diverge", "fault"}
             /\ check(i) # "fault" => (check(i) = "hold" <=> Holds(i))
             /\ Two(i) => check(i) = "fault"
  BY <1>2, CheckIsTrue
<1>3. \A r : r \in results <=> \E i \in 1..Len(ls) : check(i) = r
  OBVIOUS
<1> HIDE DEF check, results, code, Holds, Two
<1>4. code # 2 => (code = 0 <=> \A i \in 1..Len(ls) : Holds(i))
  <2>1. SUFFICES ASSUME ~Refused, "fault" \notin results
        PROVE  code = 0 <=> \A i \in 1..Len(ls) : Holds(i)
    BY <1>1
  <2>2. \A i \in 1..Len(ls) : ls[i].row.kind # "malformed" /\ check(i) # "fault"
    BY <1>3, <2>1
  <2>3. code = 0 <=> "diverge" \notin results
    BY <1>1, <2>1
  <2>4. \A i \in 1..Len(ls) : check(i) # "diverge" <=> Holds(i)
    BY <1>2, <2>2
  <2> QED
    BY <1>3, <2>3, <2>4
<1>5. ASSUME NEW i \in 1..Len(ls), ls[i].row.kind # "malformed", Two(i)
      PROVE  code = 2
  BY <1>1, <1>2, <1>3, <1>5
<1> QED
  BY <1>4, <1>5 DEF code, Holds, Two

-----------------------------------------------------------------------------
(* pilot-gate *)

\* A record is read line by line.
LEMMA ReadRounds ==
  ASSUME NEW S, NEW ls \in Seq(S)
  PROVE  \E f : /\ f[0] = Pilot!Start
                /\ \A k \in 1..Len(ls) : f[k] = Pilot!Parse(f[k - 1], ls[k])
                /\ Pilot!Read(ls) = f[Len(ls)]
<1> DEFINE N == Len(ls)
           Op(s, k) == Pilot!Parse(s, ls[k])
           Runs(f, n) == f = [k \in 0..n |-> IF k = 0 THEN Pilot!Start ELSE Op(f[k - 1], k)]
           M == {n \in 0..N : \E f : Runs(f, n)}
<1>1. N \in Nat
  BY ElementOfSeq
<1>2. 0 \in M
  <2> DEFINE g == [k \in 0..0 |-> Pilot!Start]
  <2>1. g = [k \in 0..0 |-> IF k = 0 THEN Pilot!Start ELSE Op(g[k - 1], k)]
    OBVIOUS
  <2>2. Runs(g, 0)
    BY <2>1
  <2> HIDE DEF Runs, g, N
  <2> QED
    BY <1>1, <2>2
<1>3. ASSUME NEW n \in 1..N, n - 1 \in M
      PROVE  n \in M
  <2>1. PICK f : Runs(f, n - 1)
    BY <1>3
  <2> DEFINE g == [k \in 0..n |-> IF k = n THEN Op(f[n - 1], n) ELSE f[k]]
             h == [k \in 0..n |-> IF k = 0 THEN Pilot!Start ELSE Op(g[k - 1], k)]
             e == [k \in 0..(n - 1) |-> IF k = 0 THEN Pilot!Start ELSE Op(f[k - 1], k)]
  <2>2. ASSUME NEW k \in 0..n
        PROVE  g[k] = h[k]
    <3> HIDE DEF Op
    <3>1. f = e
      BY <2>1
    <3>2. \A j \in 0..(n - 1) : e[j] = IF j = 0 THEN Pilot!Start ELSE Op(f[j - 1], j)
      OBVIOUS
    <3>3. \A j \in 0..(n - 1) : f[j] = IF j = 0 THEN Pilot!Start ELSE Op(f[j - 1], j)
      <4> HIDE DEF e
      <4> QED
        BY <3>1, <3>2
    <3>4. n \in Nat /\ n > 0
      BY <1>1, <1>3
    <3>5. CASE k = n
      BY <3>4, <3>5
    <3>6. CASE k # n
      <4>1. k \in 0..(n - 1) /\ (k # 0 => k - 1 \in 0..n /\ k - 1 # n)
        BY <3>4, <3>6
      <4>2. g[k] = f[k] /\ (k # 0 => g[k - 1] = f[k - 1])
        BY <3>6, <4>1
      <4>3. h[k] = IF k = 0 THEN Pilot!Start ELSE Op(g[k - 1], k)
        OBVIOUS
      <4> HIDE DEF g, h
      <4> QED
        BY <3>3, <4>1, <4>2, <4>3
    <3> QED
      BY <3>5, <3>6
  <2>3. g = h
    <3> HIDE DEF Op
    <3> QED
      BY <2>2
  <2>4. Runs(g, n)
    BY <2>3
  <2> HIDE DEF Runs, g, N
  <2> QED
    BY <1>1, <2>4
<1>4. N \in M
  <2>1. 0..N \subseteq M
    <3> HIDE DEF M, N
    <3> QED
      BY <1>1, <1>2, <1>3, EveryRound
  <2> HIDE DEF M, N
  <2> QED
    BY <1>1, <2>1
<1>5. PICK f : Runs(f, N)
  BY <1>4
<1> DEFINE st[k \in 0..N] == IF k = 0 THEN Pilot!Start ELSE Pilot!Parse(st[k - 1], ls[k])
<1>6. st = [k \in 0..N |-> IF k = 0 THEN Pilot!Start ELSE Pilot!Parse(st[k - 1], ls[k])]
  <2> HIDE DEF N
  <2> QED
    BY <1>5
<1>7. Pilot!Read(ls) = st[N]
  BY DEF Pilot!Read
<1> DEFINE h == [k \in 0..N |-> IF k = 0 THEN Pilot!Start ELSE Op(st[k - 1], k)]
<1>8. h[0] = Pilot!Start /\ \A k \in 1..N : h[k] = Op(st[k - 1], k)
  <2> HIDE DEF st, N, Op
  <2> QED
    BY <1>1
<1>9. st = h
  BY <1>6
<1>10. st[0] = Pilot!Start /\ \A k \in 1..N : st[k] = Op(st[k - 1], k)
  <2> HIDE DEF h, st, N, Op
  <2> QED
    BY <1>8, <1>9
<1> HIDE DEF st
<1> QED
  BY <1>7, <1>10

\* The stages are judged in the order they were declared.
LEMMA JudgeRounds ==
  ASSUME NEW S, NEW order \in Seq(S), NEW walked, NEW disk
  PROVE  \E f : /\ f[0] = [seen |-> {}, problem |-> Len(order) < MinStages, error |-> FALSE]
                /\ \A k \in 1..Len(order) : f[k] = Pilot!Inspect(walked, disk, f[k - 1], order[k])
                /\ Pilot!Judge(order, walked, disk) = f[Len(order)]
<1> DEFINE N == Len(order)
           Op(s, k) == Pilot!Inspect(walked, disk, s, order[k])
           Runs(f, n) == f = [k \in 0..n |-> IF k = 0 THEN [seen |-> {}, problem |-> Len(order) < MinStages, error |-> FALSE] ELSE Op(f[k - 1], k)]
           M == {n \in 0..N : \E f : Runs(f, n)}
<1>1. N \in Nat
  BY ElementOfSeq
<1>2. 0 \in M
  <2> DEFINE g == [k \in 0..0 |-> [seen |-> {}, problem |-> Len(order) < MinStages, error |-> FALSE]]
  <2>1. g = [k \in 0..0 |-> IF k = 0 THEN [seen |-> {}, problem |-> Len(order) < MinStages, error |-> FALSE] ELSE Op(g[k - 1], k)]
    OBVIOUS
  <2>2. Runs(g, 0)
    BY <2>1
  <2> HIDE DEF Runs, g, N
  <2> QED
    BY <1>1, <2>2
<1>3. ASSUME NEW n \in 1..N, n - 1 \in M
      PROVE  n \in M
  <2>1. PICK f : Runs(f, n - 1)
    BY <1>3
  <2> DEFINE g == [k \in 0..n |-> IF k = n THEN Op(f[n - 1], n) ELSE f[k]]
             h == [k \in 0..n |-> IF k = 0 THEN [seen |-> {}, problem |-> Len(order) < MinStages, error |-> FALSE] ELSE Op(g[k - 1], k)]
             e == [k \in 0..(n - 1) |-> IF k = 0 THEN [seen |-> {}, problem |-> Len(order) < MinStages, error |-> FALSE] ELSE Op(f[k - 1], k)]
  <2>2. ASSUME NEW k \in 0..n
        PROVE  g[k] = h[k]
    <3> HIDE DEF Op
    <3>1. f = e
      BY <2>1
    <3>2. \A j \in 0..(n - 1) : e[j] = IF j = 0 THEN [seen |-> {}, problem |-> Len(order) < MinStages, error |-> FALSE] ELSE Op(f[j - 1], j)
      OBVIOUS
    <3>3. \A j \in 0..(n - 1) : f[j] = IF j = 0 THEN [seen |-> {}, problem |-> Len(order) < MinStages, error |-> FALSE] ELSE Op(f[j - 1], j)
      <4> HIDE DEF e
      <4> QED
        BY <3>1, <3>2
    <3>4. n \in Nat /\ n > 0
      BY <1>1, <1>3
    <3>5. CASE k = n
      BY <3>4, <3>5
    <3>6. CASE k # n
      <4>1. k \in 0..(n - 1) /\ (k # 0 => k - 1 \in 0..n /\ k - 1 # n)
        BY <3>4, <3>6
      <4>2. g[k] = f[k] /\ (k # 0 => g[k - 1] = f[k - 1])
        BY <3>6, <4>1
      <4>3. h[k] = IF k = 0 THEN [seen |-> {}, problem |-> Len(order) < MinStages, error |-> FALSE] ELSE Op(g[k - 1], k)
        OBVIOUS
      <4> HIDE DEF g, h
      <4> QED
        BY <3>3, <4>1, <4>2, <4>3
    <3> QED
      BY <3>5, <3>6
  <2>3. g = h
    <3> HIDE DEF Op
    <3> QED
      BY <2>2
  <2>4. Runs(g, n)
    BY <2>3
  <2> HIDE DEF Runs, g, N
  <2> QED
    BY <1>1, <2>4
<1>4. N \in M
  <2>1. 0..N \subseteq M
    <3> HIDE DEF M, N
    <3> QED
      BY <1>1, <1>2, <1>3, EveryRound
  <2> HIDE DEF M, N
  <2> QED
    BY <1>1, <2>1
<1>5. PICK f : Runs(f, N)
  BY <1>4
<1> DEFINE st[k \in 0..N] == IF k = 0 THEN [seen |-> {}, problem |-> Len(order) < MinStages, error |-> FALSE] ELSE Pilot!Inspect(walked, disk, st[k - 1], order[k])
<1>6. st = [k \in 0..N |-> IF k = 0 THEN [seen |-> {}, problem |-> Len(order) < MinStages, error |-> FALSE] ELSE Pilot!Inspect(walked, disk, st[k - 1], order[k])]
  <2> HIDE DEF N
  <2> QED
    BY <1>5
<1>7. Pilot!Judge(order, walked, disk) = st[N]
  BY DEF Pilot!Judge
<1> DEFINE h == [k \in 0..N |-> IF k = 0 THEN [seen |-> {}, problem |-> Len(order) < MinStages, error |-> FALSE] ELSE Op(st[k - 1], k)]
<1>8. h[0] = [seen |-> {}, problem |-> Len(order) < MinStages, error |-> FALSE] /\ \A k \in 1..N : h[k] = Op(st[k - 1], k)
  <2> HIDE DEF st, N, Op
  <2> QED
    BY <1>1
<1>9. st = h
  BY <1>6
<1>10. st[0] = [seen |-> {}, problem |-> Len(order) < MinStages, error |-> FALSE] /\ \A k \in 1..N : st[k] = Op(st[k - 1], k)
  <2> HIDE DEF h, st, N, Op
  <2> QED
    BY <1>8, <1>9
<1> HIDE DEF st
<1> QED
  BY <1>7, <1>10

\* The first k lines of a record, by what they say.
StageLines(ls, k) == {i \in 1..k : ls[i].key = "stage"}
WalkLines(ls, k) == {i \in 1..k : ls[i].key = "walked"}
Key(ls, i) == Pilot!Norm(ls[i].name)

\* What was made of the first k lines of a record that is not malformed so far.
WellRead(ls, k, s) ==
  /\ \A i \in 1..k : ls[i].key # "other"
  /\ s.slices \in {0, 1} /\ (s.slices = 0 <=> \A i \in 1..k : ls[i].key # "slice")
  /\ \A i, j \in 1..k : ls[i].key = "slice" /\ ls[j].key = "slice" => i = j
  /\ s.order \in Seq(Stages \X BOOLEAN)
  /\ \A x : (\E a \in 1..Len(s.order) : s.order[a] = x) <=> \E i \in StageLines(ls, k) : Key(ls, i) = x
  /\ \A a, b \in 1..Len(s.order) : s.order[a] = s.order[b] => a = b
  /\ \A i, j \in StageLines(ls, k) : Key(ls, i) = Key(ls, j) => i = j
  /\ DOMAIN s.walked = {Key(ls, i) : i \in WalkLines(ls, k)}
  /\ \A i, j \in WalkLines(ls, k) : Key(ls, i) = Key(ls, j) => i = j
  /\ \A i \in WalkLines(ls, k) : s.walked[Key(ls, i)] = ls[i]

\* What was read of the first k lines.
ReadSoFar(ls, k, s) ==
  /\ s = [slices |-> s.slices, order |-> s.order, walked |-> s.walked, malformed |-> s.malformed]
  /\ s.malformed \in BOOLEAN
  /\ ~s.malformed => WellRead(ls, k, s)

\* Each line is read into what was made of the ones before, or ends the reading.
LEMMA ReadsOn ==
  ASSUME NEW ls \in Seq(Pilot!Line), NEW k \in 1..Len(ls), NEW s, ReadSoFar(ls, k - 1, s)
  PROVE  ReadSoFar(ls, k, Pilot!Parse(s, ls[k]))
<1> DEFINE line == ls[k]
           name == Pilot!Norm(line.name)
           then == Pilot!Parse(s, line)
           sliced == [s EXCEPT !.slices = 1]
           staged == [s EXCEPT !.order = Append(@, name)]
           walked == [s EXCEPT !.walked = Pilot!With(@, name, line)]
           broken == [s EXCEPT !.malformed = TRUE]
           Whole(t) == t = [slices |-> t.slices, order |-> t.order, walked |-> t.walked, malformed |-> t.malformed]
<1>1. k \in Nat \ {0} /\ \A i : i \in 1..k <=> i \in 1..(k - 1) \/ i = k
  BY ElementOfSeq
<1>2. k \notin 1..(k - 1)
  BY <1>1
<1>3. line \in Pilot!Line
  BY ElementOfSeq
<1>4. line.key \in {"slice", "stage", "walked", "other"}
  BY <1>3 DEF Pilot!Line
<1>5. line.key \in {"stage", "walked"} => name \in Stages \X BOOLEAN
  <2>1. SUFFICES ASSUME line.key \in {"stage", "walked"} PROVE name \in Stages \X BOOLEAN
    OBVIOUS
  <2>2. line.name \in Pilot!Names
    BY <1>3, <2>1 DEF Pilot!Line
  <2> QED
    BY <2>2 DEF Pilot!Names, Pilot!Norm
<1>6. Whole(s) /\ s.malformed \in BOOLEAN /\ (~s.malformed => WellRead(ls, k - 1, s))
  BY DEF ReadSoFar
<1>7. then = IF s.malformed THEN s
             ELSE CASE line.key = "slice" /\ s.slices = 0 -> sliced
                    [] line.key = "stage" /\ name \notin Pilot!Among(s.order) -> staged
                    [] line.key = "walked" /\ name \notin DOMAIN s.walked -> walked
                    [] OTHER -> broken
  BY DEF Pilot!Parse, Pilot!Walkable
<1>8. /\ Whole(sliced) /\ sliced.slices = 1 /\ sliced.order = s.order /\ sliced.walked = s.walked
         /\ sliced.malformed = s.malformed
      /\ Whole(staged) /\ staged.slices = s.slices /\ staged.order = Append(s.order, name)
         /\ staged.walked = s.walked /\ staged.malformed = s.malformed
      /\ Whole(walked) /\ walked.slices = s.slices /\ walked.order = s.order
         /\ walked.walked = Pilot!With(s.walked, name, line) /\ walked.malformed = s.malformed
      /\ Whole(broken) /\ broken.malformed = TRUE
  <2> DEFINE a == s.slices
             b == s.order
             c == s.walked
             d == s.malformed
  <2>1. s = [slices |-> a, order |-> b, walked |-> c, malformed |-> d]
    BY <1>6
  <2> HIDE DEF a, b, c, d, name, line
  <2>2. s.order = b /\ s.walked = c /\ s.slices = a /\ s.malformed = d
    BY <2>1
  <2>3. sliced = [slices |-> 1, order |-> b, walked |-> c, malformed |-> d]
    BY <2>1
  <2>4. staged = [slices |-> a, order |-> Append(b, name), walked |-> c, malformed |-> d]
    <3>1. staged = [s EXCEPT !.order = Append(b, name)]
      BY <2>2
    <3> HIDE DEF staged
    <3> QED
      BY <2>1, <3>1
  <2>5. walked = [slices |-> a, order |-> b, walked |-> Pilot!With(c, name, line), malformed |-> d]
    BY <2>1, <2>2
  <2>6. broken = [slices |-> a, order |-> b, walked |-> c, malformed |-> TRUE]
    <3>1. broken = [[slices |-> a, order |-> b, walked |-> c, malformed |-> d] EXCEPT !.malformed = TRUE]
      BY <2>1
    <3> HIDE DEF broken
    <3> QED
      BY <3>1, Zenon
  <2> HIDE DEF sliced, staged, walked, broken
  <2> QED
    BY <2>2, <2>3, <2>4, <2>5, <2>6
<1>9. StageLines(ls, k) = StageLines(ls, k - 1) \cup (IF line.key = "stage" THEN {k} ELSE {})
  BY <1>1 DEF StageLines
<1>10. WalkLines(ls, k) = WalkLines(ls, k - 1) \cup (IF line.key = "walked" THEN {k} ELSE {})
  BY <1>1 DEF WalkLines
<1>11. k \notin StageLines(ls, k - 1) /\ k \notin WalkLines(ls, k - 1)
  BY <1>2 DEF StageLines, WalkLines
<1> HIDE DEF sliced, staged, walked, broken
<1>12. CASE s.malformed
  <2>1. then = s
    BY <1>7, <1>12
  <2>2. ReadSoFar(ls, k, s)
    BY <1>6, <1>12 DEF ReadSoFar
  <2> QED
    BY <2>1, <2>2
<1>13. CASE ~s.malformed /\ line.key = "slice" /\ s.slices = 0
  <2>1. then = sliced
    BY <1>7, <1>13
  <2>2. WellRead(ls, k - 1, s)
    BY <1>6, <1>13
  <2>3. StageLines(ls, k) = StageLines(ls, k - 1) /\ WalkLines(ls, k) = WalkLines(ls, k - 1)
    BY <1>9, <1>10, <1>13
  <2>4. /\ \A i \in 1..k : ls[i].key # "other"
        /\ ~\A i \in 1..k : ls[i].key # "slice"
        /\ \A i, j \in 1..k : ls[i].key = "slice" /\ ls[j].key = "slice" => i = j
    BY <1>1, <1>13, <2>2 DEF WellRead
  <2>5. WellRead(ls, k, sliced)
    BY <1>8, <2>2, <2>3, <2>4 DEF WellRead
  <2> QED
    BY <1>6, <1>8, <2>1, <2>5 DEF ReadSoFar
<1>14. CASE ~s.malformed /\ line.key = "stage" /\ name \notin Pilot!Among(s.order)
  <2>1. then = staged
    BY <1>7, <1>14
  <2>2. WellRead(ls, k - 1, s)
    BY <1>6, <1>14
  <2>3. /\ StageLines(ls, k) = StageLines(ls, k - 1) \cup {k}
        /\ WalkLines(ls, k) = WalkLines(ls, k - 1) /\ Key(ls, k) = name
    BY <1>9, <1>10, <1>14 DEF Key
  <2>4. /\ \A i \in 1..k : ls[i].key # "other"
        /\ (\A i \in 1..k : ls[i].key # "slice") <=> \A i \in 1..(k - 1) : ls[i].key # "slice"
        /\ \A i, j \in 1..k : ls[i].key = "slice" /\ ls[j].key = "slice" => i = j
    BY <1>1, <1>14, <2>2 DEF WellRead
  <2> DEFINE old == s.order
             new == Append(old, name)
             n == Len(old)
  <2>5. /\ old \in Seq(Stages \X BOOLEAN) /\ name \in Stages \X BOOLEAN /\ n \in Nat
        /\ \A x : (\E a \in 1..n : old[a] = x) <=> \E i \in StageLines(ls, k - 1) : Key(ls, i) = x
        /\ \A a, b \in 1..n : old[a] = old[b] => a = b
    BY <1>5, <1>14, <2>2 DEF WellRead
  <2>6. \A a \in 1..n : old[a] # name
    BY <1>14 DEF Pilot!Among
  <2>7. /\ new \in Seq(Stages \X BOOLEAN) /\ Len(new) = n + 1 /\ new[n + 1] = name
        /\ \A a \in 1..n : new[a] = old[a]
    BY <2>5, AppendProperties
  <2>8. \A a : a \in 1..(n + 1) <=> a \in 1..n \/ a = n + 1
    BY <2>5
  <2> HIDE DEF old, new, n
  <2>9. /\ \A x : (\E a \in 1..Len(new) : new[a] = x) <=> \E i \in StageLines(ls, k) : Key(ls, i) = x
        /\ \A a, b \in 1..Len(new) : new[a] = new[b] => a = b
    <3>1. \A a : a \in 1..Len(new) <=> a \in 1..n \/ a = n + 1
      BY <2>7, <2>8
    <3>2. \A x : (\E a \in 1..Len(new) : new[a] = x) <=> (\E a \in 1..n : old[a] = x) \/ x = name
      BY <2>7, <3>1
    <3>3. \A x : (\E i \in StageLines(ls, k) : Key(ls, i) = x)
                   <=> (\E i \in StageLines(ls, k - 1) : Key(ls, i) = x) \/ x = name
      BY <2>3
    <3>4. \A a, b \in 1..Len(new) : new[a] = new[b] => a = b
      BY <2>5, <2>6, <2>7, <3>1
    <3> QED
      BY <2>5, <3>2, <3>3, <3>4
  <2>10. \A i \in StageLines(ls, k - 1) : Key(ls, i) # name
    BY <2>5, <2>6
  <2>11. \A i, j \in StageLines(ls, k) : Key(ls, i) = Key(ls, j) => i = j
    BY <2>2, <2>3, <2>10 DEF WellRead
  <2>12. staged.order = new
    BY <1>8 DEF new, old
  <2>13. WellRead(ls, k, staged)
    <3>1. staged.slices = s.slices /\ staged.walked = s.walked
      BY <1>8
    <3>2. /\ s.slices \in {0, 1} /\ (s.slices = 0 <=> \A i \in 1..k : ls[i].key # "slice")
          /\ DOMAIN s.walked = {Key(ls, i) : i \in WalkLines(ls, k)}
          /\ \A i, j \in WalkLines(ls, k) : Key(ls, i) = Key(ls, j) => i = j
          /\ \A i \in WalkLines(ls, k) : s.walked[Key(ls, i)] = ls[i]
      BY <2>2, <2>3, <2>4 DEF WellRead
    <3>3. /\ staged.order \in Seq(Stages \X BOOLEAN)
          /\ \A x : (\E a \in 1..Len(staged.order) : staged.order[a] = x)
                     <=> \E i \in StageLines(ls, k) : Key(ls, i) = x
          /\ \A a, b \in 1..Len(staged.order) : staged.order[a] = staged.order[b] => a = b
      BY <2>7, <2>9, <2>12, Zenon
    <3> QED
      BY <2>4, <2>11, <3>1, <3>2, <3>3, Zenon DEF WellRead
  <2> QED
    BY <1>6, <1>8, <2>1, <2>13 DEF ReadSoFar
<1>15. CASE ~s.malformed /\ line.key = "walked" /\ name \notin DOMAIN s.walked
  <2>1. then = walked
    BY <1>7, <1>15
  <2>2. WellRead(ls, k - 1, s)
    BY <1>6, <1>15
  <2>3. /\ WalkLines(ls, k) = WalkLines(ls, k - 1) \cup {k}
        /\ StageLines(ls, k) = StageLines(ls, k - 1) /\ Key(ls, k) = name /\ ls[k] = line
    BY <1>9, <1>10, <1>15 DEF Key
  <2>4. /\ \A i \in 1..k : ls[i].key # "other"
        /\ (\A i \in 1..k : ls[i].key # "slice") <=> \A i \in 1..(k - 1) : ls[i].key # "slice"
        /\ \A i, j \in 1..k : ls[i].key = "slice" /\ ls[j].key = "slice" => i = j
    BY <1>1, <1>15, <2>2 DEF WellRead
  <2> DEFINE old == s.walked
             new == Pilot!With(old, name, line)
  <2>5. /\ DOMAIN new = DOMAIN old \cup {name} /\ new[name] = line
        /\ \A x \in DOMAIN old \ {name} : new[x] = old[x]
    BY DEF Pilot!With
  <2>6. /\ DOMAIN old = {Key(ls, i) : i \in WalkLines(ls, k - 1)}
        /\ \A i, j \in WalkLines(ls, k - 1) : Key(ls, i) = Key(ls, j) => i = j
        /\ \A i \in WalkLines(ls, k - 1) : old[Key(ls, i)] = ls[i]
    BY <2>2 DEF WellRead
  <2>7. name \notin DOMAIN old /\ walked.walked = new
    BY <1>8, <1>15
  <2> HIDE DEF old, new, line, name
  <2>8. \A i \in WalkLines(ls, k - 1) : Key(ls, i) # name
    BY <2>6, <2>7
  <2>9. /\ DOMAIN new = {Key(ls, i) : i \in WalkLines(ls, k)}
        /\ \A i, j \in WalkLines(ls, k) : Key(ls, i) = Key(ls, j) => i = j
    BY <2>3, <2>5, <2>6, <2>8
  <2>10. \A i \in WalkLines(ls, k) : new[Key(ls, i)] = ls[i]
    <3>1. ASSUME NEW i \in WalkLines(ls, k - 1)
          PROVE  new[Key(ls, i)] = ls[i]
      BY <2>5, <2>6, <2>8
    <3>2. new[Key(ls, k)] = ls[k]
      BY <2>3, <2>5
    <3> QED
      BY <2>3, <3>1, <3>2
  <2>11. WellRead(ls, k, walked)
    BY <1>8, <2>2, <2>3, <2>4, <2>7, <2>9, <2>10 DEF WellRead
  <2> QED
    BY <1>6, <1>8, <2>1, <2>11 DEF ReadSoFar, line
<1>16. CASE /\ ~s.malformed /\ ~(line.key = "slice" /\ s.slices = 0)
            /\ ~(line.key = "stage" /\ name \notin Pilot!Among(s.order))
            /\ ~(line.key = "walked" /\ name \notin DOMAIN s.walked)
  <2>1. then = broken
    BY <1>7, <1>16
  <2> QED
    BY <1>8, <2>1 DEF ReadSoFar
<1> QED
  BY <1>12, <1>13, <1>14, <1>15, <1>16

\* The file the walk of the i-th declared stage left, and a walk that counts: a
\* successful one, of a file with content that no earlier stage left.
Left(order, walked, disk, i) == disk[walked[order[i]].artifact]
Counts(order, walked, disk, i) ==
  /\ order[i] \in DOMAIN walked /\ walked[order[i]].code = 0
  /\ Left(order, walked, disk, i) \notin Pilot!Faults
  /\ \A j \in 1..(i - 1) : Left(order, walked, disk, j) # Left(order, walked, disk, i)

\* What the gate noted of the first k stages.
JudgedSoFar(order, walked, disk, k, v) ==
  /\ v = [seen |-> v.seen, problem |-> v.problem, error |-> v.error]
  /\ v.problem \in BOOLEAN /\ v.error \in BOOLEAN
  /\ ~v.error => (~v.problem <=> /\ ~(Len(order) < MinStages)
                                 /\ \A i \in 1..k : Counts(order, walked, disk, i))
  /\ ~v.error /\ ~v.problem => v.seen = {Left(order, walked, disk, i) : i \in 1..k}

\* Each stage adds to the verdict on the ones before.
LEMMA JudgesOn ==
  ASSUME NEW order, NEW walked, NEW disk, NEW k \in Nat \ {0}, NEW v,
         JudgedSoFar(order, walked, disk, k - 1, v)
  PROVE  JudgedSoFar(order, walked, disk, k, Pilot!Inspect(walked, disk, v, order[k]))
<1> DEFINE stage == order[k]
           found == disk[walked[stage].artifact]
           Failed == walked[stage].code # 0
           then == Pilot!Inspect(walked, disk, v, stage)
           faulty == [v EXCEPT !.problem = TRUE]
           wrong == [v EXCEPT !.error = TRUE]
           more == [v EXCEPT !.seen = @ \cup {found}, !.problem = @ \/ Failed]
           Whole(t) == t = [seen |-> t.seen, problem |-> t.problem, error |-> t.error]
           Few == Len(order) < MinStages
           C(i) == Counts(order, walked, disk, i)
           L(i) == Left(order, walked, disk, i)
           Goal(t) == JudgedSoFar(order, walked, disk, k, t)
<1>1. then = IF stage \notin DOMAIN walked THEN faulty
             ELSE IF found = "unreadable" THEN wrong
             ELSE IF found \in Pilot!Faults \cup v.seen THEN faulty ELSE more
  BY DEF Pilot!Inspect
<1>2. Whole(v) /\ v.problem \in BOOLEAN /\ v.error \in BOOLEAN
  BY DEF JudgedSoFar
<1>3. /\ ~v.error => (~v.problem <=> ~Few /\ \A i \in 1..(k - 1) : C(i))
      /\ ~v.error /\ ~v.problem => v.seen = {L(i) : i \in 1..(k - 1)}
  BY DEF JudgedSoFar
<1>4. \A i : i \in 1..k <=> i \in 1..(k - 1) \/ i = k
  OBVIOUS
<1>5. C(k) <=> /\ stage \in DOMAIN walked /\ ~Failed
               /\ found \notin Pilot!Faults /\ \A j \in 1..(k - 1) : L(j) # found
  BY DEF Counts, Left
<1>6. L(k) = found
  BY DEF Left
<1>7. /\ Whole(faulty) /\ faulty.problem = TRUE /\ faulty.error = v.error /\ faulty.seen = v.seen
      /\ Whole(wrong) /\ wrong.error = TRUE /\ wrong.problem = v.problem
      /\ Whole(more) /\ more.seen = v.seen \cup {found} /\ more.error = v.error
         /\ more.problem = (v.problem \/ Failed)
  <2> DEFINE a == v.seen
             b == v.problem
             c == v.error
  <2>1. v = [seen |-> a, problem |-> b, error |-> c]
    BY <1>2
  <2> HIDE DEF a, b, c, found, Failed
  <2>2. v.seen = a /\ v.problem = b /\ v.error = c
    BY <2>1, Zenon
  <2>3. faulty = [seen |-> a, problem |-> TRUE, error |-> c]
    <3>1. faulty = [[seen |-> a, problem |-> b, error |-> c] EXCEPT !.problem = TRUE]
      BY <2>1
    <3> HIDE DEF faulty
    <3> QED
      BY <3>1, Zenon
  <2>4. wrong = [seen |-> a, problem |-> b, error |-> TRUE]
    <3>1. wrong = [[seen |-> a, problem |-> b, error |-> c] EXCEPT !.error = TRUE]
      BY <2>1
    <3> HIDE DEF wrong
    <3> QED
      BY <3>1, Zenon
  <2>5. more = [seen |-> a \cup {found}, problem |-> (b \/ Failed), error |-> c]
    <3>1. more = [v EXCEPT !.seen = a \cup {found}, !.problem = (b \/ Failed)]
      BY <2>2, Zenon
    <3>2. more = [[seen |-> a, problem |-> b, error |-> c] EXCEPT !.seen = a \cup {found}, !.problem = (b \/ Failed)]
      BY <2>1, <3>1, Zenon
    <3> HIDE DEF more
    <3> QED
      BY <3>2, Zenon
  <2> HIDE DEF faulty, wrong, more
  <2> QED
    BY <2>2, <2>3, <2>4, <2>5, Zenon
<1> HIDE DEF faulty, wrong, more, C, L, Failed, found, Few
<1>8. ASSUME ~C(k), NEW t, Whole(t), t.problem = TRUE, t.error = v.error
      PROVE  Goal(t)
  <2>1. ~\A i \in 1..k : C(i)
    BY <1>4, <1>8
  <2> QED
    BY <1>2, <1>8, <2>1 DEF JudgedSoFar, C, L, Few
<1>9. CASE stage \notin DOMAIN walked
  <2>1. then = faulty /\ ~C(k)
    BY <1>1, <1>5, <1>9
  <2> QED
    BY <1>7, <1>8, <2>1
<1>10. CASE stage \in DOMAIN walked /\ found = "unreadable"
  <2>1. then = wrong
    BY <1>1, <1>10
  <2>2. Goal(wrong)
    BY <1>2, <1>7 DEF JudgedSoFar
  <2> QED
    BY <2>1, <2>2
<1>11. CASE v.error
  <2>1. then.error = TRUE /\ Whole(then) /\ then.problem \in BOOLEAN
    <3>1. then \in {faulty, wrong, more}
      BY <1>1, Zenon
    <3> HIDE DEF then
    <3> QED
      BY <1>2, <1>7, <1>11, <3>1
  <2> HIDE DEF then
  <2>2. Goal(then)
    BY <2>1 DEF JudgedSoFar
  <2> QED
    BY <2>2 DEF then
<1>12. CASE /\ stage \in DOMAIN walked /\ found # "unreadable" /\ ~v.error
            /\ found \in Pilot!Faults \cup v.seen
  <2>1. then = faulty
    BY <1>1, <1>12
  <2>2. CASE ~v.problem
    <3>1. ~C(k)
      BY <1>3, <1>5, <1>12, <2>2
    <3> QED
      BY <1>7, <1>8, <2>1, <3>1
  <2>3. CASE v.problem
    <3>1. ~(~Few /\ \A i \in 1..k : C(i))
      BY <1>3, <1>4, <1>12, <2>3
    <3>2. Goal(faulty)
      BY <1>2, <1>7, <3>1 DEF JudgedSoFar, C, L, Few
    <3> QED
      BY <2>1, <3>2
  <2> QED
    BY <2>2, <2>3
<1>13. CASE /\ stage \in DOMAIN walked /\ found # "unreadable" /\ ~v.error
            /\ found \notin Pilot!Faults \cup v.seen
  <2>1. then = more
    BY <1>1, <1>13
  <2>2. ~v.problem => (C(k) <=> ~Failed)
    BY <1>3, <1>5, <1>13
  <2>3. ~(v.problem \/ Failed) <=> ~Few /\ \A i \in 1..k : C(i)
    BY <1>3, <1>4, <1>13, <2>2
  <2>4. ~v.problem => v.seen \cup {found} = {L(i) : i \in 1..k}
    BY <1>3, <1>4, <1>6, <1>13
  <2>5. /\ more.problem \in BOOLEAN /\ more.error \in BOOLEAN
        /\ ~more.problem <=> ~Few /\ \A i \in 1..k : C(i)
        /\ ~more.problem => more.seen = {L(i) : i \in 1..k}
    BY <1>2, <1>7, <2>3, <2>4
  <2>6. Goal(more)
    BY <1>7, <2>5 DEF JudgedSoFar, C, L, Few
  <2> QED
    BY <2>1, <2>6
<1> QED
  BY <1>9, <1>10, <1>11, <1>12, <1>13

\* A function has as many values as arguments exactly if no two arguments share one.
LEMMA ValuesCount ==
  ASSUME NEW S, IsFiniteSet(S), NEW f, f \in [S -> {f[i] : i \in S}]
  PROVE  LET T == {f[i] : i \in S}
         IN  /\ IsFiniteSet(T) /\ Cardinality(T) \in Nat
             /\ Cardinality(T) = Cardinality(S) <=> \A i, j \in S : f[i] = f[j] => i = j
<1> DEFINE T == {f[i] : i \in S}
<1>1. f \in Surjection(S, T)
  BY DEF Surjection
<1>2. f \in Injection(S, T) <=> \A i, j \in S : f[i] = f[j] => i = j
  BY DEF Injection, IsInjective
<1> QED
  BY <1>1, <1>2, FS_Surjection, FS_CardinalityType

\* The gate counts as this module does.
LEMMA PilotCounts == \A S : Pilot!Cardinality(S) = Cardinality(S)
BY DEF Pilot!Cardinality, Cardinality

\* What the reading of a whole record says of its lines.
LEMMA RecordRead ==
  ASSUME NEW ls \in Seq(Pilot!Line), NEW r, WellRead(ls, Len(ls), r)
  PROVE  LET D == Pilot!Declared(ls)
             n == Len(r.order)
         IN  /\ D = {Key(ls, i) : i \in StageLines(ls, Len(ls))} /\ D = {r.order[a] : a \in 1..n}
             /\ Cardinality(StageLines(ls, Len(ls))) = Cardinality(D) /\ Cardinality(D) = n
             /\ r.slices # 0 => Cardinality({i \in 1..Len(ls) : ls[i].key = "slice"}) = 1
             /\ \A s : Pilot!Walks(ls, s) = {i \in WalkLines(ls, Len(ls)) : Key(ls, i) = s}
<1> DEFINE N == Len(ls)
           n == Len(r.order)
           D == Pilot!Declared(ls)
           stages == StageLines(ls, N)
<1>1. N \in Nat /\ n \in Nat /\ r.order \in Seq(Stages \X BOOLEAN)
  BY ElementOfSeq DEF WellRead
<1>2. D = {Key(ls, i) : i \in stages}
  BY DEF Pilot!Declared, StageLines, Key
<1>3. D = {r.order[a] : a \in 1..n}
  <2>1. \A x : (\E a \in 1..n : r.order[a] = x) <=> \E i \in stages : Key(ls, i) = x
    BY DEF WellRead
  <2> HIDE DEF D, n, stages
  <2> QED
    BY <1>2, <2>1
<1>4. IsFiniteSet(1..N) /\ IsFiniteSet(1..n) /\ Cardinality(1..n) = n
  <2>1. 1 \in Int /\ N \in Int /\ n \in Int
    BY <1>1
  <2>2. Cardinality(1..n) = IF 1 > n THEN 0 ELSE n - 1 + 1
    BY <2>1, FS_Interval
  <2>3. Cardinality(1..n) = n
    <3> HIDE DEF n
    <3> QED
      BY <1>1, <2>2
  <2> QED
    BY <2>1, <2>3, FS_Interval
<1>5. Cardinality(stages) = Cardinality(D)
  <2> DEFINE f == [i \in stages |-> Key(ls, i)]
  <2>1. IsFiniteSet(stages)
    BY <1>4, FS_Subset DEF StageLines
  <2>2. {f[i] : i \in stages} = D /\ \A i \in stages : f[i] = Key(ls, i)
    BY <1>2
  <2>3. f \in [stages -> {f[i] : i \in stages}]
    OBVIOUS
  <2>4. \A i, j \in stages : f[i] = f[j] => i = j
    BY <2>2 DEF WellRead
  <2> HIDE DEF f, stages, D
  <2> QED
    BY <2>1, <2>2, <2>3, <2>4, ValuesCount
<1>6. Cardinality(D) = n
  <2> DEFINE S == 1..n
             f == [a \in S |-> r.order[a]]
  <2>1. {f[a] : a \in S} = D /\ \A a \in S : f[a] = r.order[a]
    BY <1>3
  <2>2. f \in [S -> {f[a] : a \in S}]
    OBVIOUS
  <2>3. \A a, b \in S : f[a] = f[b] => a = b
    BY <2>1 DEF WellRead
  <2>4. IsFiniteSet(S) /\ Cardinality(S) = n
    BY <1>4
  <2> HIDE DEF f, D, S
  <2> QED
    BY <2>1, <2>2, <2>3, <2>4, ValuesCount
<1>7. ASSUME r.slices # 0
      PROVE  Cardinality({i \in 1..N : ls[i].key = "slice"}) = 1
  <2>1. PICK i \in 1..N : ls[i].key = "slice"
    BY <1>7 DEF WellRead
  <2>2. \A j \in 1..N : ls[j].key = "slice" => j = i
    BY <2>1 DEF WellRead
  <2>3. {j \in 1..N : ls[j].key = "slice"} = {i}
    BY <2>1, <2>2
  <2> QED
    BY <2>3, FS_Singleton
<1>8. \A s : Pilot!Walks(ls, s) = {i \in WalkLines(ls, N) : Key(ls, i) = s}
  BY DEF Pilot!Walks, WalkLines, Key
<1> QED
  BY <1>2, <1>3, <1>5, <1>6, <1>7, <1>8

\* The stages that count are the evidence a reader asks for.
LEMMA EvidenceCounts ==
  ASSUME NEW ls \in Seq(Pilot!Line), NEW disk, NEW r, WellRead(ls, Len(ls), r), r.slices # 0
  PROVE  Pilot!Evidenced(ls, disk)
           <=> /\ ~(Len(r.order) < MinStages)
               /\ \A a \in 1..Len(r.order) : Counts(r.order, r.walked, disk, a)
               /\ DOMAIN r.walked \subseteq Pilot!Among(r.order)
<1> DEFINE N == Len(ls)
           n == Len(r.order)
           D == Pilot!Declared(ls)
           walks == WalkLines(ls, N)
           files == {disk[ls[i].artifact] : i \in walks}
           L(a) == Left(r.order, r.walked, disk, a)
           Succeeds(s) == s \in DOMAIN r.walked /\ r.walked[s].code = 0
           Apart == \A a \in 1..n : L(a) \notin Pilot!Faults /\ \A j \in 1..(a - 1) : L(j) # L(a)
           Ones == \A s \in D : \E i \in walks : Pilot!Walks(ls, s) = {i} /\ ls[i].code = 0
           Named == \A i \in walks : Key(ls, i) \in D
           Many == Cardinality(D) >= MinStages
           Files == files \cap Pilot!Faults = {} /\ Cardinality(files) = Cardinality(D)
<1>1. N \in Nat /\ n \in Nat /\ MinStages \in Nat
  BY BoundsAssumption, ElementOfSeq DEF WellRead
<1>2. /\ D = {r.order[a] : a \in 1..n}
      /\ Cardinality(StageLines(ls, N)) = Cardinality(D) /\ Cardinality(D) = n
      /\ Cardinality({i \in 1..N : ls[i].key = "slice"}) = 1
      /\ \A s : Pilot!Walks(ls, s) = {i \in walks : Key(ls, i) = s}
  BY RecordRead
<1>3. /\ DOMAIN r.walked = {Key(ls, i) : i \in walks}
      /\ \A i, j \in walks : Key(ls, i) = Key(ls, j) => i = j
      /\ \A i \in walks : r.walked[Key(ls, i)] = ls[i]
  BY DEF WellRead
<1>4. Pilot!Evidenced(ls, disk) <=> Many /\ Ones /\ Named /\ Files
  <2> DEFINE W == {i \in 1..N : ls[i].key = "walked"}
             T == {i \in 1..N : ls[i].key = "stage"}
             F == {i \in 1..N : ls[i].key = "slice"}
  <2>1. W = walks /\ T = StageLines(ls, N)
    BY DEF WalkLines, StageLines
  <2>2. Pilot!Evidenced(ls, disk)
          <=> /\ \A i \in 1..N : ls[i].key # "other"
              /\ Pilot!Cardinality(F) = 1
              /\ Pilot!Cardinality(T) = Pilot!Cardinality(D)
              /\ Pilot!Cardinality(D) >= MinStages
              /\ \A s \in D : \E i \in W : Pilot!Walks(ls, s) = {i} /\ ls[i].code = 0
              /\ \A i \in W : Key(ls, i) \in D
              /\ {disk[ls[i].artifact] : i \in W} \cap Pilot!Faults = {}
              /\ Pilot!Cardinality({disk[ls[i].artifact] : i \in W}) = Pilot!Cardinality(D)
    BY Zenon DEF Pilot!Evidenced, Key
  <2>3. \A i \in 1..N : ls[i].key # "other"
    BY DEF WellRead
  <2>4. Cardinality(F) = 1 /\ Cardinality(T) = Cardinality(D)
    BY <1>2, <2>1
  <2> HIDE DEF W, T, F, D, walks
  <2> QED
    BY <2>1, <2>2, <2>3, <2>4, PilotCounts
<1>5. Many <=> ~(n < MinStages)
  BY <1>1, <1>2
<1>6. Ones <=> \A a \in 1..n : Succeeds(r.order[a])
  <2>1. ASSUME NEW s
        PROVE  (\E i \in walks : Pilot!Walks(ls, s) = {i} /\ ls[i].code = 0) <=> Succeeds(s)
    <3>1. ASSUME NEW i \in walks, Pilot!Walks(ls, s) = {i}, ls[i].code = 0
          PROVE  Succeeds(s)
      <4>1. Key(ls, i) = s
        BY <1>2, <3>1
      <4> QED
        BY <1>3, <3>1, <4>1
    <3>2. ASSUME Succeeds(s)
          PROVE  \E i \in walks : Pilot!Walks(ls, s) = {i} /\ ls[i].code = 0
      <4>1. PICK i \in walks : Key(ls, i) = s
        BY <1>3, <3>2
      <4>2. Pilot!Walks(ls, s) = {i} /\ ls[i].code = 0
        BY <1>2, <1>3, <3>2, <4>1
      <4> QED
        BY <4>2
    <3> QED
      BY <3>1, <3>2
  <2> HIDE DEF Succeeds, walks, D
  <2> QED
    BY <1>2, <2>1
<1>7. Named <=> DOMAIN r.walked \subseteq D
  BY <1>3
<1>8. D = Pilot!Among(r.order)
  <2>1. r.order \in Seq(Stages \X BOOLEAN)
    BY DEF WellRead
  <2>2. DOMAIN r.order = 1..n
    BY <2>1
  <2> QED
    BY <1>2, <2>2 DEF Pilot!Among
<1>9. ASSUME Ones, Named
      PROVE  Files <=> Apart
  <2>1. \A a \in 1..n : r.order[a] \in DOMAIN r.walked
    BY <1>6, <1>9
  <2>2. files = {L(a) : a \in 1..n}
    <3>1. ASSUME NEW i \in walks
          PROVE  \E a \in 1..n : disk[ls[i].artifact] = L(a)
      <4>1. PICK a \in 1..n : r.order[a] = Key(ls, i)
        BY <1>2, <1>9
      <4> QED
        BY <1>3, <4>1 DEF Left
    <3>2. ASSUME NEW a \in 1..n
          PROVE  \E i \in walks : L(a) = disk[ls[i].artifact]
      <4>1. PICK i \in walks : Key(ls, i) = r.order[a]
        BY <1>3, <2>1
      <4> QED
        BY <1>3, <4>1 DEF Left
    <3> HIDE DEF L, walks
    <3> QED
      BY <3>1, <3>2
  <2> DEFINE S == 1..n
             f == [a \in S |-> L(a)]
  <2>3. {f[a] : a \in S} = files /\ \A a \in S : f[a] = L(a)
    <3> HIDE DEF L, files
    <3> QED
      BY <2>2
  <2>4. f \in [S -> {f[a] : a \in S}]
    OBVIOUS
  <2>5. IsFiniteSet(S) /\ Cardinality(S) = n
    <3>1. 1 \in Int /\ n \in Int
      BY <1>1
    <3>2. IsFiniteSet(S)
      BY <3>1, FS_Interval
    <3>3. Cardinality(1..n) = IF 1 > n THEN 0 ELSE n - 1 + 1
      BY <3>1, FS_Interval
    <3>4. Cardinality(1..n) = n
      <4> HIDE DEF n
      <4> QED
        BY <1>1, <3>3
    <3> QED
      BY <3>2, <3>4
  <2>6. Cardinality(files) = n <=> \A a, b \in S : f[a] = f[b] => a = b
    <3> HIDE DEF f, S, files
    <3> QED
      BY <2>3, <2>4, <2>5, ValuesCount
  <2>7. (\A a, b \in S : f[a] = f[b] => a = b) <=> \A a \in 1..n : \A j \in 1..(a - 1) : L(j) # L(a)
    <3> HIDE DEF f, L
    <3>1. ASSUME \A a, b \in S : f[a] = f[b] => a = b, NEW a \in 1..n, NEW j \in 1..(a - 1)
          PROVE  L(j) # L(a)
      <4>1. j \in S /\ a \in S /\ j # a
        BY <1>1
      <4> QED
        BY <2>3, <3>1, <4>1
    <3>2. ASSUME \A a \in 1..n : \A j \in 1..(a - 1) : L(j) # L(a), NEW a \in S, NEW b \in S, f[a] = f[b]
          PROVE  a = b
      <4>1. L(a) = L(b)
        BY <2>3, <3>2
      <4>2. a \in 1..(b - 1) \/ b \in 1..(a - 1) \/ a = b
        BY <1>1
      <4> QED
        BY <3>2, <4>1, <4>2
    <3> QED
      BY <3>1, <3>2
  <2>8. files \cap Pilot!Faults = {} <=> \A a \in 1..n : L(a) \notin Pilot!Faults
    <3> HIDE DEF L, files
    <3> QED
      BY <2>2
  <2> HIDE DEF f, S, L, files, D
  <2> QED
    BY <1>2, <2>6, <2>7, <2>8
<1>10. (\A a \in 1..n : Counts(r.order, r.walked, disk, a))
         <=> (\A a \in 1..n : Succeeds(r.order[a])) /\ Apart
  BY DEF Counts
<1> HIDE DEF Ones, Named, Many, Files, Apart, D, Succeeds
<1> QED
  BY <1>4, <1>5, <1>6, <1>7, <1>8, <1>9, <1>10

\* A record that gets a verdict passes exactly if every stage of its pilot slice left
\* a file of its own, and gets none if a stage is walked twice.
LEMMA PilotHolds ==
  ASSUME NEW ls \in Seq(Pilot!Line), NEW disk
  PROVE  LET code == Pilot!Exit(ls, disk)
         IN  /\ code # 2 => (code = 0 <=> Pilot!Evidenced(ls, disk))
             /\ (\E s \in Pilot!Declared(ls) : Cardinality(Pilot!Walks(ls, s)) > 1) => code = 2
<1> DEFINE N == Len(ls)
           r == Pilot!Read(ls)
           n == Len(r.order)
           v == Pilot!Judge(r.order, r.walked, disk)
           code == Pilot!Exit(ls, disk)
           Stray == ~(DOMAIN r.walked \subseteq Pilot!Among(r.order))
<1>1. code = IF r.malformed \/ r.slices = 0 \/ v.error THEN 2
             ELSE IF v.problem \/ Stray THEN 1 ELSE 0
  BY Zenon DEF Pilot!Exit
<1>2. N \in Nat
  BY ElementOfSeq
<1>3. ReadSoFar(ls, N, r)
  <2>1. PICK f : /\ f[0] = Pilot!Start
                 /\ \A k \in 1..N : f[k] = Pilot!Parse(f[k - 1], ls[k])
                 /\ r = f[N]
    BY ReadRounds
  <2> DEFINE K == {k \in 0..N : ReadSoFar(ls, k, f[k])}
  <2>2. 0 \in K
    <3>1. WellRead(ls, 0, Pilot!Start)
      <4>1. 1..0 = {} /\ <<>> \in Seq(Stages \X BOOLEAN) /\ Len(<<>>) = 0 /\ DOMAIN <<>> = {}
        OBVIOUS
      <4> QED
        BY <4>1 DEF WellRead, Pilot!Start, StageLines, WalkLines
    <3>2. ReadSoFar(ls, 0, Pilot!Start)
      BY <3>1 DEF ReadSoFar, Pilot!Start
    <3> QED
      BY <1>2, <2>1, <3>2
  <2>3. ASSUME NEW k \in 1..N, k - 1 \in K
        PROVE  k \in K
    <3>1. ReadSoFar(ls, k, Pilot!Parse(f[k - 1], ls[k]))
      BY <2>3, ReadsOn
    <3> QED
      BY <2>1, <2>3, <3>1
  <2>4. 0..N \subseteq K
    <3> HIDE DEF K, N
    <3> QED
      BY <1>2, <2>2, <2>3, EveryRound
  <2>5. N \in K
    <3> HIDE DEF K, N
    <3> QED
      BY <1>2, <2>4
  <2> HIDE DEF r
  <2> QED
    BY <2>1, <2>5
<1> HIDE DEF r
<1>4. SUFFICES ASSUME ~r.malformed, r.slices # 0, ~v.error
      PROVE  /\ code = 0 <=> Pilot!Evidenced(ls, disk)
             /\ \A s : ~(Cardinality(Pilot!Walks(ls, s)) > 1)
  BY <1>1, Zenon
<1>5. WellRead(ls, N, r) /\ r.order \in Seq(Stages \X BOOLEAN)
  BY <1>3, <1>4 DEF ReadSoFar, WellRead
<1>6. JudgedSoFar(r.order, r.walked, disk, n, v)
  <2> DEFINE few == n < MinStages
             first == [seen |-> {}, problem |-> few, error |-> FALSE]
  <2>1. PICK f : /\ f[0] = first
                 /\ \A k \in 1..n : f[k] = Pilot!Inspect(r.walked, disk, f[k - 1], r.order[k])
                 /\ v = f[n]
    <3> DEFINE T == Stages \X BOOLEAN
               o == r.order
               w == r.walked
    <3>1. o \in Seq(T)
      BY <1>5
    <3> HIDE DEF T, o, w
    <3>2. \E f : /\ f[0] = [seen |-> {}, problem |-> Len(o) < MinStages, error |-> FALSE]
                 /\ \A k \in 1..Len(o) : f[k] = Pilot!Inspect(w, disk, f[k - 1], o[k])
                 /\ Pilot!Judge(o, w, disk) = f[Len(o)]
      BY <3>1, JudgeRounds
    <3> QED
      BY <3>2 DEF o, w
  <2> DEFINE K == {k \in 0..n : JudgedSoFar(r.order, r.walked, disk, k, f[k])}
  <2>2. n \in Nat /\ MinStages \in Nat
    BY <1>5, BoundsAssumption, ElementOfSeq
  <2>3. 0 \in K
    <3> DEFINE t == [seen |-> {}, problem |-> few, error |-> FALSE]
    <3>1. few \in BOOLEAN /\ (few <=> Len(r.order) < MinStages) /\ 1..0 = {}
      OBVIOUS
    <3> HIDE DEF few
    <3>2. /\ t.seen = {} /\ t.problem = few /\ t.error = FALSE
          /\ t = [seen |-> t.seen, problem |-> t.problem, error |-> t.error]
      OBVIOUS
    <3> HIDE DEF t
    <3>3. JudgedSoFar(r.order, r.walked, disk, 0, t)
      BY <3>1, <3>2, Zenon DEF JudgedSoFar
    <3>4. JudgedSoFar(r.order, r.walked, disk, 0, first)
      BY <3>3 DEF t
    <3> HIDE DEF first
    <3> QED
      BY <2>1, <2>2, <3>4
  <2>4. ASSUME NEW k \in 1..n, k - 1 \in K
        PROVE  k \in K
    <3>1. k \in Nat \ {0}
      BY <2>2
    <3>2. JudgedSoFar(r.order, r.walked, disk, k, Pilot!Inspect(r.walked, disk, f[k - 1], r.order[k]))
      BY <2>4, <3>1, JudgesOn
    <3> QED
      BY <2>1, <2>4, <3>2
  <2>5. 0..n \subseteq K
    <3> HIDE DEF K, n
    <3> QED
      BY <2>2, <2>3, <2>4, EveryRound
  <2>6. n \in K
    <3> HIDE DEF K, n
    <3> QED
      BY <2>2, <2>5
  <2> HIDE DEF v
  <2> QED
    BY <2>1, <2>6
<1>7. ~v.problem <=> ~(n < MinStages) /\ \A a \in 1..n : Counts(r.order, r.walked, disk, a)
  BY <1>4, <1>6 DEF JudgedSoFar
<1>8. code = 0 <=> ~v.problem /\ ~Stray
  <2> HIDE DEF code, v, Stray
  <2> QED
    BY <1>1, <1>4
<1>9. Pilot!Evidenced(ls, disk) <=> ~v.problem /\ ~Stray
  <2> HIDE DEF v
  <2> QED
    BY <1>4, <1>5, <1>7, EvidenceCounts
<1>10. ASSUME NEW s
       PROVE  ~(Cardinality(Pilot!Walks(ls, s)) > 1)
  <2>1. \A i, j \in Pilot!Walks(ls, s) : i = j
    <3>1. Pilot!Walks(ls, s) = {i \in WalkLines(ls, N) : Key(ls, i) = s}
      BY <1>5, RecordRead
    <3>2. \A i, j \in WalkLines(ls, N) : Key(ls, i) = Key(ls, j) => i = j
      BY <1>5 DEF WellRead
    <3> QED
      BY <3>1, <3>2
  <2>2. CASE Pilot!Walks(ls, s) = {}
    BY <2>2, FS_EmptySet
  <2>3. CASE Pilot!Walks(ls, s) # {}
    <3>1. PICK i : Pilot!Walks(ls, s) = {i}
      BY <2>1, <2>3
    <3>2. Cardinality(Pilot!Walks(ls, s)) = 1
      BY <3>1, FS_Singleton
    <3> QED
      BY <3>2
  <2> QED
    BY <2>2, <2>3
<1> QED
  BY <1>8, <1>9, <1>10

-----------------------------------------------------------------------------
(* check-excusals *)

\* A ledger without a second opener or heading is read line by line.
LEMMA LedgerRounds ==
  ASSUME NEW S, NEW ls \in Seq(S), ~Excusals!SecondOpener(ls), ~Excusals!SecondHeading(ls)
  PROVE  \E f : /\ f[0] = Excusals!Start
                /\ \A k \in 1..Len(ls) : f[k] = Excusals!Read(Excusals!EntryIds(ls), f[k - 1], ls[k])
                /\ Excusals!ReadLedger(ls) = f[Len(ls)]
<1> DEFINE N == Len(ls)
           Op(s, k) == Excusals!Read(Excusals!EntryIds(ls), s, ls[k])
           Runs(f, n) == f = [k \in 0..n |-> IF k = 0 THEN Excusals!Start ELSE Op(f[k - 1], k)]
           M == {n \in 0..N : \E f : Runs(f, n)}
<1>1. N \in Nat
  BY ElementOfSeq
<1>2. 0 \in M
  <2> DEFINE g == [k \in 0..0 |-> Excusals!Start]
  <2>1. g = [k \in 0..0 |-> IF k = 0 THEN Excusals!Start ELSE Op(g[k - 1], k)]
    OBVIOUS
  <2>2. Runs(g, 0)
    BY <2>1
  <2> HIDE DEF Runs, g, N
  <2> QED
    BY <1>1, <2>2
<1>3. ASSUME NEW n \in 1..N, n - 1 \in M
      PROVE  n \in M
  <2>1. PICK f : Runs(f, n - 1)
    BY <1>3
  <2> DEFINE g == [k \in 0..n |-> IF k = n THEN Op(f[n - 1], n) ELSE f[k]]
             h == [k \in 0..n |-> IF k = 0 THEN Excusals!Start ELSE Op(g[k - 1], k)]
             e == [k \in 0..(n - 1) |-> IF k = 0 THEN Excusals!Start ELSE Op(f[k - 1], k)]
  <2>2. ASSUME NEW k \in 0..n
        PROVE  g[k] = h[k]
    <3> HIDE DEF Op
    <3>1. f = e
      BY <2>1
    <3>2. \A j \in 0..(n - 1) : e[j] = IF j = 0 THEN Excusals!Start ELSE Op(f[j - 1], j)
      OBVIOUS
    <3>3. \A j \in 0..(n - 1) : f[j] = IF j = 0 THEN Excusals!Start ELSE Op(f[j - 1], j)
      <4> HIDE DEF e
      <4> QED
        BY <3>1, <3>2
    <3>4. n \in Nat /\ n > 0
      BY <1>1, <1>3
    <3>5. CASE k = n
      BY <3>4, <3>5
    <3>6. CASE k # n
      <4>1. k \in 0..(n - 1) /\ (k # 0 => k - 1 \in 0..n /\ k - 1 # n)
        BY <3>4, <3>6
      <4>2. g[k] = f[k] /\ (k # 0 => g[k - 1] = f[k - 1])
        BY <3>6, <4>1
      <4>3. h[k] = IF k = 0 THEN Excusals!Start ELSE Op(g[k - 1], k)
        OBVIOUS
      <4> HIDE DEF g, h
      <4> QED
        BY <3>3, <4>1, <4>2, <4>3
    <3> QED
      BY <3>5, <3>6
  <2>3. g = h
    <3> HIDE DEF Op
    <3> QED
      BY <2>2
  <2>4. Runs(g, n)
    BY <2>3
  <2> HIDE DEF Runs, g, N
  <2> QED
    BY <1>1, <2>4
<1>4. N \in M
  <2>1. 0..N \subseteq M
    <3> HIDE DEF M, N
    <3> QED
      BY <1>1, <1>2, <1>3, EveryRound
  <2> HIDE DEF M, N
  <2> QED
    BY <1>1, <2>1
<1>5. PICK f : Runs(f, N)
  BY <1>4
<1> DEFINE st[k \in 0..N] == IF k = 0 THEN Excusals!Start ELSE Excusals!Read(Excusals!EntryIds(ls), st[k - 1], ls[k])
<1>6. st = [k \in 0..N |-> IF k = 0 THEN Excusals!Start ELSE Excusals!Read(Excusals!EntryIds(ls), st[k - 1], ls[k])]
  <2> HIDE DEF N
  <2> QED
    BY <1>5
<1>7. Excusals!ReadLedger(ls) = st[N]
  BY DEF Excusals!ReadLedger
<1> DEFINE h == [k \in 0..N |-> IF k = 0 THEN Excusals!Start ELSE Op(st[k - 1], k)]
<1>8. h[0] = Excusals!Start /\ \A k \in 1..N : h[k] = Op(st[k - 1], k)
  <2> HIDE DEF st, N, Op
  <2> QED
    BY <1>1
<1>9. st = h
  BY <1>6
<1>10. st[0] = Excusals!Start /\ \A k \in 1..N : st[k] = Op(st[k - 1], k)
  <2> HIDE DEF h, st, N, Op
  <2> QED
    BY <1>8, <1>9
<1> HIDE DEF st
<1> QED
  BY <1>7, <1>10

\* The lines that rule twice: one that begins with the id of an entry inside one, and
\* two statements of a field in one entry.
Inside(ls, k) ==
  \E j \in 1..k : /\ ls[j].place = "indented" /\ ls[j].name \notin Required /\ ls[j].head # <<>>
                  /\ Excusals!CanonicalId(ls[j].head) \in Excusals!EntryIds(ls)
Twice(ls, k) ==
  \E i \in Excusals!Openers(ls), f \in Required, a, b \in 1..k :
    a # b /\ a \in Excusals!Statements(ls, i, f) /\ b \in Excusals!Statements(ls, i, f)

\* The fields stated after line i, up to line k.
Stated(ls, i, k) == {ls[j].name : j \in {m \in (i + 1)..k : Excusals!States(ls[m])}}

\* What was made of the first k lines: the entry that is open is that of the last
\* opener, and has the fields stated since.
Kept(ls, k, s) ==
  /\ s = [entries |-> s.entries, current |-> s.current, last |-> s.last, malformed |-> s.malformed]
  /\ s.malformed \in BOOLEAN /\ (s.malformed <=> Inside(ls, k) \/ Twice(ls, k))
  /\ ~s.malformed =>
       \/ s.current = <<>> /\ \A j \in 1..k : ls[j].place # "opener"
       \/ \E i \in 1..k : /\ ls[i].place = "opener" /\ \A j \in (i + 1)..k : ls[j].place # "opener"
                          /\ s.current = ls[i].head /\ s.current # <<>>
                          /\ s.current \in DOMAIN s.entries
                          /\ DOMAIN s.entries[s.current] = Stated(ls, i, k)

\* An id is not the absence of one.
LEMMA AnIdIsSome == Excusals!Raw \cap {<<>>} = {}
<1>1. SUFFICES ASSUME NEW p \in Mutants \X {"bare", "decorated"}, p = <<>>
      PROVE  FALSE
  BY DEF Excusals!Raw
<1>2. PICK a \in Mutants, b \in {"bare", "decorated"} : p = <<a, b>>
  BY <1>1
<1>3. Len(p) = 2 /\ Len(<<>>) = 0
  BY <1>2
<1> QED
  BY <1>1, <1>3

\* A statement of an entry is one of its field below its opener, with no other opener
\* between.
LEMMA StatementsBelow ==
  ASSUME NEW ls, NEW i, NEW f
  PROVE  Excusals!Statements(ls, i, f)
           = {j \in (i + 1)..Len(ls) : /\ \A m \in (i + 1)..j : ls[m].place # "opener"
                                       /\ Excusals!States(ls[j]) /\ ls[j].name = f}
BY DEF Excusals!Statements, Excusals!Block, Excusals!Below

\* A line that states nothing adds no second statement.
LEMMA NotTwice ==
  ASSUME NEW ls, NEW k \in Nat \ {0}, ~Excusals!States(ls[k])
  PROVE  Twice(ls, k) <=> Twice(ls, k - 1)
<1>1. \A j : j \in 1..k <=> j \in 1..(k - 1) \/ j = k
  OBVIOUS
<1>2. \A i, f : k \notin Excusals!Statements(ls, i, f)
  BY StatementsBelow
<1> QED
  BY <1>1, <1>2 DEF Twice

\* The fields stated up to a line are those stated before it, and the one it states.
LEMMA StatedMore ==
  ASSUME NEW ls, NEW k \in Nat \ {0}, NEW i \in 1..(k - 1)
  PROVE  Stated(ls, i, k)
           = Stated(ls, i, k - 1) \cup (IF Excusals!States(ls[k]) THEN {ls[k].name} ELSE {})
<1>1. \A j : j \in (i + 1)..k <=> j \in (i + 1)..(k - 1) \/ j = k
  OBVIOUS
<1> QED
  BY <1>1 DEF Stated

\* A line that states nothing adds no field.
LEMMA StatedSame ==
  ASSUME NEW ls, NEW k \in Nat \ {0}, NEW i \in 1..(k - 1), ~Excusals!States(ls[k])
  PROVE  Stated(ls, i, k) = Stated(ls, i, k - 1)
<1>1. \A j : j \in (i + 1)..k <=> j \in (i + 1)..(k - 1) \/ j = k
  OBVIOUS
<1>2. {m \in (i + 1)..k : Excusals!States(ls[m])} = {m \in (i + 1)..(k - 1) : Excusals!States(ls[m])}
  BY <1>1
<1> QED
  BY <1>2 DEF Stated

\* Each line is read into what was made of the ones before.
LEMMA KeepsOn ==
  ASSUME NEW ls \in Seq(Excusals!Line), NEW k \in 1..Len(ls), NEW s, Kept(ls, k - 1, s)
  PROVE  Kept(ls, k, Excusals!Read(Excusals!EntryIds(ls), s, ls[k]))
<1> DEFINE line == ls[k]
           ids == Excusals!EntryIds(ls)
           then == Excusals!Read(ids, s, line)
           broken == [s EXCEPT !.malformed = TRUE]
           opened == [s EXCEPT !.entries = Excusals!With(@, line.head, <<>>), !.current = line.head, !.last = "none"]
           entry == s.entries[s.current]
           stated == [s EXCEPT !.entries[s.current] = Excusals!With(entry, line.name, line.size), !.last = line.name]
           continued == [s EXCEPT !.entries[s.current][s.last] = @ + line.size]
           Whole(t) == t = [entries |-> t.entries, current |-> t.current, last |-> t.last, malformed |-> t.malformed]
           Within == line.name \notin Required /\ line.head # <<>> /\ Excusals!CanonicalId(line.head) \in ids
           Bad(n) == Inside(ls, n) \/ Twice(ls, n)
           None(t, n) == t.current = <<>> /\ \A j \in 1..n : ls[j].place # "opener"
           Open(t, n, i) == /\ ls[i].place = "opener" /\ \A j \in (i + 1)..n : ls[j].place # "opener"
                            /\ t.current = ls[i].head /\ t.current # <<>>
                            /\ t.current \in DOMAIN t.entries
                            /\ DOMAIN t.entries[t.current] = Stated(ls, i, n)
           Goal(t) == Kept(ls, k, t)
<1>1. k \in Nat \ {0} /\ k <= Len(ls) /\ Len(ls) \in Nat
  BY ElementOfSeq
<1>2. \A j : j \in 1..k <=> j \in 1..(k - 1) \/ j = k
  BY <1>1
<1>3. line \in Excusals!Line
  BY ElementOfSeq
<1>4. line.place \in {"opener", "indented", "heading", "skipped"} /\ (line.place = "opener" => line.head # <<>>)
  <2>1. line.place \in {"opener", "indented", "heading", "skipped"} /\ (line.place = "opener" => line.head \in Excusals!Raw)
    BY <1>3 DEF Excusals!Line
  <2>2. Excusals!Raw \cap {<<>>} = {}
    BY AnIdIsSome
  <2> QED
    BY <2>1, <2>2
<1>5. /\ Whole(s) /\ s.malformed \in BOOLEAN /\ (s.malformed <=> Bad(k - 1))
      /\ ~s.malformed => None(s, k - 1) \/ \E i \in 1..(k - 1) : Open(s, k - 1, i)
  BY DEF Kept
<1>6. then = IF s.malformed \/ line.place \in {"skipped", "heading"} THEN s
             ELSE IF line.place = "opener" THEN opened
             ELSE IF Within THEN broken
             ELSE IF s.current = <<>> THEN s
             ELSE CASE line.name \in DOMAIN entry -> broken
                    [] line.name \in Required \ DOMAIN entry -> stated
                    [] line.name = "prose" /\ s.last # "none" -> continued
                    [] OTHER -> s
  BY DEF Excusals!Read, Excusals!None
<1>7. Inside(ls, k) <=> Inside(ls, k - 1) \/ (line.place = "indented" /\ Within)
  BY <1>2 DEF Inside
<1>8. Twice(ls, k - 1) => Twice(ls, k)
  BY <1>2 DEF Twice
<1>9. Excusals!States(line) <=> line.place = "indented" /\ line.name \in Required
  BY DEF Excusals!States
<1>10. ~Excusals!States(line) => (Twice(ls, k) <=> Twice(ls, k - 1))
  BY <1>1, NotTwice
<1>11. ASSUME NEW t, Whole(t), t.malformed \in BOOLEAN, t.malformed <=> Bad(k),
              ~t.malformed => None(t, k) \/ \E i \in 1..k : Open(t, k, i)
       PROVE  Goal(t)
  BY <1>11 DEF Kept
<1>12. ASSUME NEW i \in 1..(k - 1), NEW t, t.current = s.current, t.current \in DOMAIN t.entries,
              Open(s, k - 1, i), line.place # "opener",
              DOMAIN t.entries[t.current] = Stated(ls, i, k)
       PROVE  Open(t, k, i)
  <2>1. \A j \in (i + 1)..k : j \in (i + 1)..(k - 1) \/ j = k
    BY <1>1
  <2> QED
    BY <1>12, <2>1
<1>13. /\ Whole(broken) /\ broken.malformed = TRUE
       /\ Whole(opened) /\ opened.malformed = s.malformed /\ opened.current = line.head
          /\ opened.entries = Excusals!With(s.entries, line.head, <<>>)
       /\ Whole(stated) /\ stated.malformed = s.malformed /\ stated.current = s.current
          /\ stated.entries = [s.entries EXCEPT ![s.current] = Excusals!With(entry, line.name, line.size)]
       /\ Whole(continued) /\ continued.malformed = s.malformed /\ continued.current = s.current
          /\ continued.entries = [s.entries EXCEPT ![s.current] = [entry EXCEPT ![s.last] = @ + line.size]]
  <2> DEFINE a == s.entries
             b == s.current
             c == s.last
             d == s.malformed
             e1 == Excusals!With(a, line.head, <<>>)
             e2 == [a EXCEPT ![b] = Excusals!With(a[b], line.name, line.size)]
             e3 == [a EXCEPT ![b] = [a[b] EXCEPT ![c] = @ + line.size]]
             head == line.head
             name == line.name
             size == line.size
  <2>1. s = [entries |-> a, current |-> b, last |-> c, malformed |-> d]
    BY <1>5
  <2>2. broken = [s EXCEPT !.malformed = TRUE]
    OBVIOUS
  <2>3. opened = [s EXCEPT !.entries = e1, !.current = head, !.last = "none"]
    OBVIOUS
  <2>4. stated = [s EXCEPT !.entries = e2, !.last = name]
    OBVIOUS
  <2>5. continued = [s EXCEPT !.entries = e3]
    OBVIOUS
  <2>6. /\ e1 = Excusals!With(s.entries, line.head, <<>>) /\ head = line.head
        /\ e2 = [s.entries EXCEPT ![s.current] = Excusals!With(entry, line.name, line.size)]
        /\ e3 = [s.entries EXCEPT ![s.current] = [entry EXCEPT ![s.last] = @ + line.size]]
    OBVIOUS
  <2>7. b = s.current /\ d = s.malformed
    OBVIOUS
  <2> HIDE DEF a, b, c, d, e1, e2, e3, head, name, size, broken, opened, stated, continued, line, entry
  <2>8. broken = [entries |-> a, current |-> b, last |-> c, malformed |-> TRUE]
    BY <2>1, <2>2, Zenon
  <2>9. opened = [entries |-> e1, current |-> head, last |-> "none", malformed |-> d]
    BY <2>1, <2>3, Zenon
  <2>10. stated = [entries |-> e2, current |-> b, last |-> name, malformed |-> d]
    BY <2>1, <2>4, Zenon
  <2>11. continued = [entries |-> e3, current |-> b, last |-> c, malformed |-> d]
    BY <2>1, <2>5, Zenon
  <2> QED
    BY <2>6, <2>7, <2>8, <2>9, <2>10, <2>11, Zenon
<1> HIDE DEF broken, opened, stated, continued, Within
<1>14. CASE s.malformed
  <2>1. then = s
    BY <1>6, <1>14
  <2>2. Bad(k)
    BY <1>5, <1>7, <1>8, <1>14
  <2>3. Goal(s)
    BY <1>5, <1>11, <1>14, <2>2
  <2> QED
    BY <2>1, <2>3
<1>15. CASE ~s.malformed /\ line.place \in {"skipped", "heading"}
  <2>1. then = s
    BY <1>6, <1>15
  <2>2. ~Bad(k) /\ ~Excusals!States(line)
    BY <1>5, <1>7, <1>9, <1>10, <1>15
  <2>3. None(s, k - 1) => None(s, k)
    BY <1>2, <1>15
  <2>4. ASSUME NEW i \in 1..(k - 1), Open(s, k - 1, i)
        PROVE  Open(s, k, i) /\ i \in 1..k
    <3>1. Stated(ls, i, k) = Stated(ls, i, k - 1)
      BY <1>1, <2>2, StatedSame
    <3> QED
      BY <1>2, <1>12, <1>15, <2>4, <3>1
  <2>5. Goal(s)
    <3> HIDE DEF None, Open
    <3> QED
      BY <1>5, <1>11, <1>15, <2>2, <2>3, <2>4
  <2> QED
    BY <2>1, <2>5
<1>16. CASE ~s.malformed /\ line.place = "opener"
  <2>1. then = opened
    BY <1>6, <1>16
  <2>2. ~Bad(k)
    BY <1>5, <1>7, <1>9, <1>10, <1>16
  <2>3. Open(opened, k, k) /\ k \in 1..k
    <3>1. (k + 1)..k = {}
      BY <1>1
    <3>2. Stated(ls, k, k) = {}
      BY <3>1 DEF Stated
    <3>3. opened.current \in DOMAIN opened.entries /\ opened.entries[opened.current] = <<>>
      BY <1>13 DEF Excusals!With
    <3>4. DOMAIN opened.entries[opened.current] = {}
      BY <3>3
    <3> QED
      BY <1>1, <1>4, <1>13, <1>16, <3>1, <3>2, <3>3, <3>4
  <2>4. Goal(opened)
    <3> HIDE DEF Open, None
    <3> QED
      BY <1>5, <1>11, <1>13, <1>16, <2>2, <2>3
  <2> QED
    BY <2>1, <2>4
<1>17. ASSUME NEW t, Whole(t), t.malformed = TRUE, Bad(k)
       PROVE  Goal(t)
  BY <1>11, <1>17
<1>18. CASE ~s.malformed /\ line.place = "indented" /\ Within
  <2>1. then = broken
    BY <1>6, <1>18
  <2>2. Bad(k)
    BY <1>7, <1>18
  <2> QED
    BY <1>13, <1>17, <2>1, <2>2
<1>19. CASE ~s.malformed /\ line.place = "indented" /\ ~Within /\ s.current = <<>>
  <2>1. then = s
    BY <1>6, <1>19
  <2>2. None(s, k)
    BY <1>2, <1>5, <1>19
  <2>3. \A i \in Excusals!Openers(ls) : \A f : k \notin Excusals!Statements(ls, i, f)
    <3>1. SUFFICES ASSUME NEW i \in Excusals!Openers(ls), NEW f, k \in Excusals!Statements(ls, i, f)
          PROVE  FALSE
      OBVIOUS
    <3>2. i \in 1..Len(ls) /\ ls[i].place = "opener" /\ k \in (i + 1)..Len(ls)
      BY <3>1, StatementsBelow DEF Excusals!Openers
    <3>3. i \in 1..k
      BY <1>1, <3>2
    <3> QED
      BY <2>2, <3>2, <3>3
  <2>4. ~Twice(ls, k)
    <3>1. ~Twice(ls, k - 1)
      BY <1>5, <1>19
    <3> QED
      BY <1>2, <2>3, <3>1 DEF Twice
  <2>5. ~Bad(k)
    BY <1>5, <1>7, <1>19, <2>4
  <2> QED
    BY <1>5, <1>11, <1>19, <2>1, <2>2, <2>5
<1>20. CASE ~s.malformed /\ line.place = "indented" /\ ~Within /\ s.current # <<>>
  <2>1. PICK i \in 1..(k - 1) : Open(s, k - 1, i)
    BY <1>5, <1>20
  <2>2. /\ ls[i].place = "opener" /\ \A j \in (i + 1)..(k - 1) : ls[j].place # "opener"
        /\ s.current \in DOMAIN s.entries /\ DOMAIN entry = Stated(ls, i, k - 1)
    BY <2>1
  <2>3. i \in Nat /\ i \in 1..k /\ i \in Excusals!Openers(ls) /\ k \in (i + 1)..Len(ls)
    BY <1>1, <2>2 DEF Excusals!Openers
  <2>4. \A m \in (i + 1)..k : ls[m].place # "opener"
    BY <1>1, <1>20, <2>2, <2>3
  <2>5. Stated(ls, i, k - 1) \subseteq Required
    BY DEF Stated, Excusals!States
  <2> HIDE DEF None, Open
  <2>6. CASE line.name \in DOMAIN entry
    <3>0. line.name \in Required /\ line.name # "prose" /\ ~(line.name \in Required \ DOMAIN entry)
      <4> HIDE DEF line, entry
      <4> QED
        BY <2>2, <2>5, <2>6, FieldsAssumption
    <3>1. then = broken
      <4> HIDE DEF entry, then, line
      <4> QED
        BY <1>6, <1>20, <2>6, <3>0
    <3>2. PICK j \in (i + 1)..(k - 1) : Excusals!States(ls[j]) /\ ls[j].name = line.name
      BY <2>2, <2>6 DEF Stated
    <3>3. j \in 1..k /\ j # k /\ j \in (i + 1)..Len(ls) /\ k \in 1..k
      BY <1>1, <2>3
    <3>4. Excusals!States(line) /\ line.name \in Required
      BY <1>9, <1>20, <2>2, <2>5, <2>6
    <3>5. k \in Excusals!Statements(ls, i, line.name)
      BY <2>3, <2>4, <3>4, StatementsBelow
    <3>6. \A m \in (i + 1)..j : ls[m].place # "opener"
      BY <1>1, <2>2, <2>3
    <3>7. j \in Excusals!Statements(ls, i, line.name)
      BY <3>2, <3>3, <3>6, StatementsBelow
    <3>8. Bad(k)
      BY <2>3, <3>3, <3>4, <3>5, <3>7 DEF Twice
    <3> QED
      BY <1>13, <1>17, <3>1, <3>8
  <2>7. CASE line.name \in Required \ DOMAIN entry
    <3>1. then = stated
      <4>1. line.name # "prose"
        BY <2>7, FieldsAssumption
      <4> QED
        BY <1>6, <1>20, <2>7, <4>1
    <3>2. Excusals!States(line)
      BY <1>9, <1>20, <2>7
    <3>3. Stated(ls, i, k) = Stated(ls, i, k - 1) \cup {line.name}
      BY <1>1, <3>2, StatedMore
    <3>4. ASSUME NEW h \in Excusals!Openers(ls), NEW f, NEW a \in 1..(k - 1),
                 a \in Excusals!Statements(ls, h, f), k \in Excusals!Statements(ls, h, f)
          PROVE  FALSE
      <4>1. /\ h \in 1..Len(ls) /\ ls[h].place = "opener"
            /\ k \in (h + 1)..Len(ls) /\ \A m \in (h + 1)..k : ls[m].place # "opener"
            /\ a \in (h + 1)..Len(ls) /\ Excusals!States(ls[a]) /\ ls[a].name = line.name
        BY <3>4, StatementsBelow DEF Excusals!Openers
      <4>2. h = i
        <5>1. h \in Nat /\ h < k
          BY <1>1, <4>1
        <5>2. ~(i < h)
          BY <2>3, <2>4, <4>1, <5>1
        <5>3. ~(h < i)
          BY <2>2, <2>3, <4>1, <5>1
        <5> QED
          BY <2>3, <5>1, <5>2, <5>3
      <4>3. a \in (i + 1)..(k - 1)
        BY <1>1, <4>1, <4>2
      <4>4. line.name \in Stated(ls, i, k - 1)
        BY <4>1, <4>3 DEF Stated
      <4> QED
        BY <2>2, <2>7, <4>4
    <3>5. ~Twice(ls, k)
      <4>1. ~Twice(ls, k - 1)
        BY <1>5, <1>20
      <4> QED
        BY <1>2, <3>4, <4>1 DEF Twice
    <3>6. ~Bad(k)
      BY <1>5, <1>7, <1>20, <3>5
    <3>7. /\ stated.current \in DOMAIN stated.entries
          /\ stated.entries[stated.current] = Excusals!With(entry, line.name, line.size)
      BY <1>13, <2>2
    <3>8. DOMAIN stated.entries[stated.current] = Stated(ls, i, k)
      <4>1. DOMAIN Excusals!With(entry, line.name, line.size) = DOMAIN entry \cup {line.name}
        BY DEF Excusals!With
      <4> HIDE DEF entry
      <4> QED
        BY <2>2, <3>3, <3>7, <4>1
    <3>9. Open(stated, k, i)
      BY <1>12, <1>13, <1>20, <2>1, <3>7, <3>8
    <3>10. Goal(stated)
      BY <1>5, <1>11, <1>13, <1>20, <2>3, <3>6, <3>9
    <3> QED
      BY <3>1, <3>10
  <2>8. CASE line.name \notin Required
    <3>1. line.name \notin DOMAIN entry
      BY <2>2, <2>5, <2>8
    <3>2. then = IF line.name = "prose" /\ s.last # "none" THEN continued ELSE s
      BY <1>6, <1>20, <2>8, <3>1
    <3>3. ~Excusals!States(line)
      BY <1>9, <2>8
    <3>4. ~Bad(k)
      BY <1>5, <1>7, <1>10, <1>20, <3>3
    <3>5. Stated(ls, i, k) = Stated(ls, i, k - 1)
      BY <1>1, <3>3, StatedSame
    <3>6. Goal(s)
      <4>1. Open(s, k, i)
        BY <1>12, <1>20, <2>1, <2>2, <3>5
      <4> QED
        BY <1>5, <1>11, <1>20, <2>3, <3>4, <4>1
    <3>7. Goal(continued)
      <4>1. /\ continued.current \in DOMAIN continued.entries
            /\ DOMAIN continued.entries[continued.current] = DOMAIN entry
        BY <1>13, <2>2
      <4>2. Open(continued, k, i)
        BY <1>12, <1>13, <1>20, <2>1, <2>2, <3>5, <4>1
      <4> QED
        BY <1>5, <1>11, <1>13, <1>20, <2>3, <3>4, <4>2
    <3> HIDE DEF then
    <3>8. Goal(then)
      BY <3>2, <3>6, <3>7
    <3> QED
      BY <3>8 DEF then
  <2> QED
    BY <2>6, <2>7, <2>8
<1> QED
  BY <1>4, <1>14, <1>15, <1>16, <1>18, <1>19, <1>20


\* A ledger is refused when two of its places could be taken for the ruling on one
\* mutant, and only then.
LEMMA RefusedWhenAmbiguous ==
  ASSUME NEW ls \in Seq(Excusals!Line)
  PROVE  Excusals!ReadLedger(ls).malformed <=> Excusals!Contested(ls)
<1> DEFINE N == Len(ls)
           H(m) == Excusals!Heads(ls, m)
           Id(i) == Excusals!CanonicalId(ls[i].head)
           Two == \E m \in Mutants : \E i, j \in H(m) :
                    /\ i # j
                    /\ ls[i].place = "opener" \/ {ls[i].place, ls[j].place} = {"heading"}
           Again == \E i \in Excusals!Openers(ls), f \in Required, j, k \in 1..N :
                      j # k /\ {j, k} \subseteq Excusals!Statements(ls, i, f)
<1>1. N \in Nat
  BY ElementOfSeq
<1>2. Excusals!Contested(ls) <=> Two \/ Again
  BY DEF Excusals!Contested
<1>3. \A i \in 1..N : /\ ls[i].place \in {"opener", "indented", "heading", "skipped"}
                      /\ ls[i].head # <<>> => ls[i].head \in Excusals!Raw
                      /\ ls[i].place = "opener" => ls[i].head # <<>>
  <2>1. \A i \in 1..N : ls[i] \in Excusals!Line
    BY ElementOfSeq
  <2>2. \A i \in 1..N : /\ ls[i].place \in {"opener", "indented", "heading", "skipped"}
                        /\ ls[i].head \in Excusals!Raw \cup {<<>>}
                        /\ ls[i].place = "opener" => ls[i].head \in Excusals!Raw
    BY <2>1 DEF Excusals!Line, Excusals!None
  <2> QED
    BY <2>2, AnIdIsSome
<1>4. \A i \in 1..N : ls[i].head # <<>> => Id(i) \in Mutants
  BY <1>3 DEF Excusals!CanonicalId, Excusals!Raw
<1>5. \A m : \A i : i \in H(m) <=> /\ i \in 1..N /\ ls[i].place # "skipped" /\ ls[i].head # <<>>
                                   /\ ~(ls[i].place = "indented" /\ ls[i].name \in Required) /\ Id(i) = m
  BY DEF Excusals!Heads, Excusals!States, Excusals!None
<1>6. \A i : i \in Excusals!Openers(ls) <=> i \in 1..N /\ ls[i].place = "opener"
  BY DEF Excusals!Openers
<1>7. \A m : m \in Excusals!EntryIds(ls) <=> \E i \in 1..N : ls[i].place = "opener" /\ Id(i) = m
  BY <1>6 DEF Excusals!EntryIds
<1>8. Excusals!SecondOpener(ls)
        <=> \E i, j \in 1..N : i # j /\ ls[i].place = "opener" /\ ls[j].place = "opener" /\ Id(i) = Id(j)
  BY <1>6 DEF Excusals!SecondOpener
<1>9. Excusals!SecondHeading(ls)
        <=> \E i \in 1..N : /\ ls[i].place = "heading" /\ ls[i].head # <<>>
                            /\ \/ \E j \in 1..N : ls[j].place = "opener" /\ Id(j) = Id(i)
                               \/ \E j \in 1..(i - 1) :
                                    ls[j].place = "heading" /\ ls[j].head # <<>> /\ Id(j) = Id(i)
  BY <1>7 DEF Excusals!SecondHeading, Excusals!None
<1>10. Inside(ls, N) <=> \E j \in 1..N : /\ ls[j].place = "indented" /\ ls[j].name \notin Required /\ ls[j].head # <<>>
                                         /\ \E i \in 1..N : ls[i].place = "opener" /\ Id(i) = Id(j)
  BY <1>7 DEF Inside
<1>11. Again <=> Twice(ls, N)
  BY DEF Twice
<1> HIDE DEF Id, H
<1>12. Two <=> Excusals!SecondOpener(ls) \/ Excusals!SecondHeading(ls) \/ Inside(ls, N)
  <2>1. ASSUME Two
        PROVE  Excusals!SecondOpener(ls) \/ Excusals!SecondHeading(ls) \/ Inside(ls, N)
    <3>0. PICK m \in Mutants : \E i, j \in H(m) :
            i # j /\ (ls[i].place = "opener" \/ {ls[i].place, ls[j].place} = {"heading"})
      BY <2>1
    <3>1. PICK i \in H(m), j \in H(m) :
            i # j /\ (ls[i].place = "opener" \/ {ls[i].place, ls[j].place} = {"heading"})
      BY <3>0
    <3>2. /\ i \in 1..N /\ j \in 1..N /\ Id(i) = Id(j) /\ ls[i].head # <<>> /\ ls[j].head # <<>>
          /\ ls[j].place # "skipped" /\ (ls[j].place = "indented" => ls[j].name \notin Required)
      BY <1>5, <3>1
    <3>3. CASE ls[i].place = "opener" /\ ls[j].place = "opener"
      BY <1>8, <3>1, <3>2, <3>3
    <3>4. CASE ls[i].place = "opener" /\ ls[j].place = "heading"
      BY <1>9, <3>2, <3>4
    <3>5. CASE ls[i].place = "opener" /\ ls[j].place = "indented"
      BY <1>10, <3>2, <3>5
    <3>6. CASE ls[i].place = "heading" /\ ls[j].place = "heading"
      <4>1. i \in 1..(j - 1) \/ j \in 1..(i - 1)
        BY <1>1, <3>1, <3>2
      <4> QED
        BY <1>9, <3>2, <3>6, <4>1
    <3>7. {ls[i].place, ls[j].place} = {"heading"} => ls[i].place = "heading" /\ ls[j].place = "heading"
      OBVIOUS
    <3> QED
      BY <1>3, <3>1, <3>2, <3>3, <3>4, <3>5, <3>6, <3>7
  <2>2. ASSUME NEW i \in 1..N, NEW j \in 1..N, i # j, ls[i].head # <<>>, ls[j].head # <<>>, Id(i) = Id(j),
               ls[i].place = "opener" \/ (ls[i].place = "heading" /\ ls[j].place = "heading"),
               ls[j].place # "skipped", ls[j].place = "indented" => ls[j].name \notin Required
        PROVE  Two
    <3>1. Id(i) \in Mutants
      BY <1>4, <2>2
    <3>2. i \in H(Id(i)) /\ j \in H(Id(i))
      BY <1>5, <2>2
    <3>3. ls[i].place = "opener" \/ {ls[i].place, ls[j].place} = {"heading"}
      BY <2>2
    <3> QED
      BY <2>2, <3>1, <3>2, <3>3
  <2> HIDE DEF Two
  <2>3. Excusals!SecondOpener(ls) => Two
    BY <1>3, <1>8, <2>2
  <2>4. Excusals!SecondHeading(ls) => Two
    <3>1. SUFFICES ASSUME NEW i \in 1..N, ls[i].place = "heading", ls[i].head # <<>>,
                          \/ \E j \in 1..N : ls[j].place = "opener" /\ Id(j) = Id(i)
                          \/ \E j \in 1..(i - 1) :
                               ls[j].place = "heading" /\ ls[j].head # <<>> /\ Id(j) = Id(i)
                   PROVE  Two
      BY <1>9
    <3>2. CASE \E j \in 1..N : ls[j].place = "opener" /\ Id(j) = Id(i)
      <4>1. PICK j \in 1..N : ls[j].place = "opener" /\ Id(j) = Id(i)
        BY <3>2
      <4>2. j # i /\ ls[j].head # <<>>
        BY <1>3, <3>1, <4>1
      <4> QED
        BY <2>2, <3>1, <4>1, <4>2
    <3>3. CASE \E j \in 1..(i - 1) : ls[j].place = "heading" /\ ls[j].head # <<>> /\ Id(j) = Id(i)
      <4>1. PICK j \in 1..(i - 1) : ls[j].place = "heading" /\ ls[j].head # <<>> /\ Id(j) = Id(i)
        BY <3>3
      <4>2. j \in 1..N /\ j # i
        BY <1>1
      <4> QED
        BY <2>2, <3>1, <4>1, <4>2
    <3> QED
      BY <3>1, <3>2, <3>3
  <2>5. Inside(ls, N) => Two
    <3>1. SUFFICES ASSUME NEW j \in 1..N, ls[j].place = "indented", ls[j].name \notin Required, ls[j].head # <<>>,
                          NEW i \in 1..N, ls[i].place = "opener", Id(i) = Id(j)
                   PROVE  Two
      BY <1>10
    <3>2. i # j /\ ls[i].head # <<>>
      BY <1>3, <3>1
    <3> QED
      BY <2>2, <3>1, <3>2
  <2> QED
    BY <2>1, <2>3, <2>4, <2>5
<1> HIDE DEF Two, Again
<1>13. CASE Excusals!SecondOpener(ls) \/ Excusals!SecondHeading(ls)
  <2>1. Excusals!ReadLedger(ls) = [Excusals!Start EXCEPT !.malformed = TRUE]
    BY <1>13 DEF Excusals!ReadLedger
  <2>2. Excusals!ReadLedger(ls).malformed = TRUE
    BY <2>1 DEF Excusals!Start
  <2> QED
    BY <1>2, <1>12, <1>13, <2>2
<1>14. CASE ~Excusals!SecondOpener(ls) /\ ~Excusals!SecondHeading(ls)
  <2>1. PICK f : /\ f[0] = Excusals!Start
                 /\ \A k \in 1..N : f[k] = Excusals!Read(Excusals!EntryIds(ls), f[k - 1], ls[k])
                 /\ Excusals!ReadLedger(ls) = f[N]
    BY <1>14, LedgerRounds
  <2> DEFINE S == {k \in 0..N : Kept(ls, k, f[k])}
  <2>2. Kept(ls, 0, Excusals!Start)
    <3>1. 1..0 = {}
      OBVIOUS
    <3>2. ~Inside(ls, 0) /\ ~Twice(ls, 0)
      BY <3>1 DEF Inside, Twice
    <3> QED
      BY <3>1, <3>2 DEF Kept, Excusals!Start, Excusals!None
  <2>3. 0 \in S
    BY <1>1, <2>1, <2>2
  <2>4. ASSUME NEW k \in 1..N, k - 1 \in S
        PROVE  k \in S
    <3>1. Kept(ls, k - 1, f[k - 1])
      BY <2>4
    <3>2. Kept(ls, k, Excusals!Read(Excusals!EntryIds(ls), f[k - 1], ls[k]))
      BY <3>1, KeepsOn
    <3> QED
      BY <1>1, <2>1, <3>2
  <2>5. 0..N \subseteq S
    <3> HIDE DEF S, N
    <3> QED
      BY <1>1, <2>3, <2>4, EveryRound
  <2>6. Kept(ls, N, f[N])
    BY <1>1, <2>5
  <2>7. f[N].malformed <=> Inside(ls, N) \/ Twice(ls, N)
    BY <2>6 DEF Kept
  <2> QED
    BY <1>2, <1>11, <1>12, <1>14, <2>1, <2>7
<1> QED
  BY <1>13, <1>14

\* check-excusals exits with 2 on the ambiguous ledgers, and on no others.
LEMMA ExcusalsHold ==
  ASSUME NEW ls \in Seq(Excusals!Line), NEW survivors
  PROVE  Excusals!Exit(survivors, ls) = 2 <=> Excusals!Contested(ls)
BY RefusedWhenAmbiguous DEF Excusals!Exit

\* What line k adds to what the statement at j says.
Adding(ls, j, k) == IF k \in Excusals!Spoken(ls, j) THEN ls[k].size ELSE 0

\* What a statement says is summed line by line.
LEMMA SayRounds ==
  ASSUME NEW ls \in Seq(Excusals!Line), NEW j
  PROVE  \E f \in [0..Len(ls) -> Nat] : /\ f[0] = 0
                                        /\ \A k \in 1..Len(ls) : f[k] = f[k - 1] + Adding(ls, j, k)
                                        /\ Excusals!Says(ls, j) = f[Len(ls)]
<1> DEFINE N == Len(ls)
           S == Nat
           Op(s, k) == s + Adding(ls, j, k)
           g == [p \in S \X (1..N) |-> Op(p[1], p[2])]
<1>1. N \in Nat /\ 0 \in S
  BY ElementOfSeq
<1>2. \A s \in S : \A k \in 1..N : Op(s, k) \in S
  <2>1. \A k \in 1..N : Adding(ls, j, k) \in Nat
    <3>1. \A k \in 1..N : ls[k] \in Excusals!Line
      BY ElementOfSeq
    <3>2. \A k \in 1..N : ls[k].size \in Nat
      BY <3>1 DEF Excusals!Line
    <3> QED
      BY <3>2 DEF Adding
  <2> HIDE DEF N
  <2> QED
    BY <2>1
<1>3. PICK f \in [0..N -> S] : f[0] = 0 /\ \A k \in 1..N : f[k] = Op(f[k - 1], k)
  <2> HIDE DEF Op, S, N
  <2>1. g \in [S \X (1..N) -> S]
    BY <1>2
  <2>2. PICK f : ReadBy(f, N, S, 0, g)
    <3> HIDE DEF g
    <3> QED
      BY <1>1, <2>1, Reading
  <2>3. \A k \in 1..N : f[k - 1] \in S
    BY <1>1, <2>2 DEF ReadBy
  <2>4. \A k \in 1..N : g[<<f[k - 1], k>>] = Op(f[k - 1], k)
    BY <2>3
  <2> QED
    BY <2>2, <2>4 DEF ReadBy
<1> DEFINE Round(h, k) == IF k = 0 THEN 0 ELSE Op(h[k - 1], k)
           st[k \in 0..N] == IF k = 0 THEN 0 ELSE st[k - 1] + Adding(ls, j, k)
<1>4. Excusals!Says(ls, j) = st[N]
  BY DEF Excusals!Says, Adding
<1>5. st = [k \in 0..N |-> Round(st, k)]
  <2>1. f = [k \in 0..N |-> Round(f, k)]
    <3> HIDE DEF Op, S, N
    <3> QED
      BY <1>1, <1>3
  <2> HIDE DEF N, S
  <2> QED
    BY <2>1
<1> HIDE DEF st, N, S, Op
<1>6. st[0] = 0 /\ \A k \in 1..N : st[k] = Op(st[k - 1], k)
  <2> DEFINE h == [k \in 0..N |-> Round(st, k)]
  <2>1. h[0] = 0 /\ \A k \in 1..N : h[k] = Op(st[k - 1], k)
    BY <1>1
  <2> HIDE DEF h, Round
  <2> QED
    BY <1>5, <2>1 DEF h
<1>7. 0..N \subseteq {k \in 0..N : st[k] = f[k]}
  <2> DEFINE A == {k \in 0..N : st[k] = f[k]}
  <2>1. 0 \in A
    <3>1. st[0] = f[0]
      BY <1>3, <1>6, Zenon
    <3> QED
      BY <1>1, <3>1
  <2>2. \A k \in 1..N : k - 1 \in A => k \in A
    <3>1. \A k \in 1..N : f[k] = Op(f[k - 1], k) /\ st[k] = Op(st[k - 1], k)
      BY <1>3, <1>6
    <3> QED
      BY <1>1, <3>1
  <2> HIDE DEF A
  <2> QED
    BY <1>1, <2>1, <2>2, EveryRound DEF A
<1>8. st[N] = f[N]
  BY <1>1, <1>7
<1> QED
  BY <1>3, <1>4, <1>8 DEF N, S, Op

\* How much of the statement at j was read after each line.
SoFar(ls, j) ==
  CHOOSE f \in [0..Len(ls) -> Nat] : /\ f[0] = 0
                                     /\ \A k \in 1..Len(ls) : f[k] = f[k - 1] + Adding(ls, j, k)
                                     /\ Excusals!Says(ls, j) = f[Len(ls)]

\* A statement goes on to the next entry or statement, with the prose between.
LEMMA SpokenLines ==
  ASSUME NEW ls, NEW j, NEW k
  PROVE  k \in Excusals!Spoken(ls, j)
           <=> \/ k = j
               \/ /\ k \in (j + 1)..Len(ls) /\ ls[k].place = "indented" /\ ls[k].name = "prose"
                  /\ \A m \in (j + 1)..k : ls[m].place # "opener" /\ ~Excusals!States(ls[m])
BY DEF Excusals!Spoken, Excusals!Below

\* It says nothing before its line, and then what it adds up to.
LEMMA SaysSoFar ==
  ASSUME NEW ls \in Seq(Excusals!Line), NEW j \in 1..Len(ls)
  PROVE  /\ \A k \in 0..Len(ls) : SoFar(ls, j)[k] \in Nat
         /\ SoFar(ls, j)[j] = ls[j].size
         /\ \A k \in 1..Len(ls) : SoFar(ls, j)[k] = SoFar(ls, j)[k - 1] + Adding(ls, j, k)
         /\ Excusals!Says(ls, j) = SoFar(ls, j)[Len(ls)]
<1> DEFINE N == Len(ls)
           F == SoFar(ls, j)
<1>1. N \in Nat /\ j \in Nat /\ j <= N /\ j > 0
  BY ElementOfSeq
<1>2. /\ F \in [0..N -> Nat] /\ F[0] = 0
      /\ \A k \in 1..N : F[k] = F[k - 1] + Adding(ls, j, k)
      /\ Excusals!Says(ls, j) = F[N]
  <2>1. \E f \in [0..N -> Nat] : /\ f[0] = 0
                                 /\ \A k \in 1..N : f[k] = f[k - 1] + Adding(ls, j, k)
                                 /\ Excusals!Says(ls, j) = f[N]
    BY SayRounds
  <2> QED
    BY <2>1 DEF SoFar
<1> HIDE DEF F, N
<1>3. \A k \in 0..N : F[k] \in Nat
  BY <1>2
<1>4. 0..(j - 1) \subseteq {k \in 0..N : F[k] = 0}
  <2> DEFINE A == {k \in 0..N : F[k] = 0}
  <2>1. 0 \in A
    BY <1>1, <1>2
  <2>2. ASSUME NEW k \in 1..(j - 1), k - 1 \in A
        PROVE  k \in A
    <3>1. k \in 1..N /\ k # j /\ k \notin (j + 1)..Len(ls)
      BY <1>1
    <3>2. Adding(ls, j, k) = 0
      BY <3>1, SpokenLines DEF Adding
    <3> QED
      BY <1>1, <1>2, <2>2, <3>1, <3>2
  <2> HIDE DEF A
  <2>3. j - 1 \in Nat
    BY <1>1
  <2> QED
    BY <2>1, <2>2, <2>3, EveryRound DEF A
<1>5. F[j] = ls[j].size
  <2>1. F[j - 1] = 0
    <3>1. j - 1 \in 0..(j - 1)
      BY <1>1
    <3> QED
      BY <1>4, <3>1
  <2>2. Adding(ls, j, j) = ls[j].size
    BY SpokenLines DEF Adding
  <2>3. ls[j].size \in Nat
    <3>1. ls[j] \in Excusals!Line
      BY ElementOfSeq
    <3> QED
      BY <3>1 DEF Excusals!Line
  <2>4. j \in 1..N
    BY <1>1
  <2>5. F[j] = F[j - 1] + Adding(ls, j, j)
    BY <1>2, <2>4
  <2> QED
    BY <2>1, <2>2, <2>3, <2>5
<1> QED
  BY <1>2, <1>3, <1>5 DEF F, N

\* The statements that follow the opener at i, up to line k.
Stating(ls, i, k) ==
  {j \in (i + 1)..k : Excusals!States(ls[j]) /\ \A m \in (i + 1)..j : ls[m].place # "opener"}

\* An entry has what was stated since line i, as far as it was said by line k.
Records(ls, i, k, entry) ==
  /\ DOMAIN entry = {ls[j].name : j \in Stating(ls, i, k)}
  /\ \A j \in Stating(ls, i, k) : entry[ls[j].name] = SoFar(ls, j)[k]

\* The last statement is the one that prose continues.
Lasts(ls, k, last) ==
  /\ last = "none" =>
       \A i \in 1..k : \A j \in Stating(ls, i, k) :
         ls[i].place = "opener" => \E m \in (j + 1)..k : ls[m].place = "opener"
  /\ last # "none" =>
       \E i \in 1..k : \E j \in Stating(ls, i, k) :
         /\ ls[i].place = "opener" /\ last = ls[j].name
         /\ \A m \in (j + 1)..k : ls[m].place # "opener" /\ ~Excusals!States(ls[m])

\* What was made of the first k lines: an entry for each opener.
Ruling(ls, k, s) ==
  ~s.malformed =>
    /\ DOMAIN s.entries = {ls[i].head : i \in {m \in 1..k : ls[m].place = "opener"}}
    /\ \A i \in 1..k : ls[i].place = "opener" => Records(ls, i, k, s.entries[ls[i].head])
    /\ Lasts(ls, k, s.last)

\* What one line makes of what was read, an entry and a field at a time.
Makes(line, s, then) ==
  /\ ~s.malformed
  /\ line.place = "opener" =>
       then.entries = Excusals!With(s.entries, line.head, <<>>) /\ then.last = "none"
  /\ line.place = "indented" /\ s.current # <<>> /\ line.name \in Required =>
       /\ line.name \notin DOMAIN s.entries[s.current] /\ then.last = line.name
       /\ then.entries = [s.entries EXCEPT ![s.current] =
                          Excusals!With(s.entries[s.current], line.name, line.size)]
  /\ line.place = "indented" /\ s.current # <<>> /\ line.name = "prose"
       /\ line.name \notin DOMAIN s.entries[s.current] /\ s.last # "none" =>
       /\ then.last = s.last
       /\ then.entries = [s.entries EXCEPT ![s.current] =
                          [s.entries[s.current] EXCEPT ![s.last] = @ + line.size]]
  /\ \/ line.place \in {"skipped", "heading"}
     \/ line.place = "indented" /\ s.current = <<>>
     \/ line.place = "indented" /\ line.name \notin DOMAIN s.entries[s.current] /\ line.name = "other"
     \/ /\ line.place = "indented" /\ line.name \notin DOMAIN s.entries[s.current]
        /\ line.name = "prose" /\ s.last = "none"
     => then.entries = s.entries /\ then.last = s.last

\* A ledger that stays well formed is read as Makes has it.
LEMMA ReadIs ==
  ASSUME NEW ids, NEW line, line.place \in {"opener", "indented", "heading", "skipped"},
         line.name \in Excusals!Said, NEW s,
         s = [entries |-> s.entries, current |-> s.current, last |-> s.last, malformed |-> s.malformed],
         NEW then, then = Excusals!Read(ids, s, line), ~then.malformed, s.malformed \in BOOLEAN
  PROVE  Makes(line, s, then)
<1> DEFINE a == s.entries
           b == s.current
           c == s.last
           d == s.malformed
           entry == a[b]
           head == line.head
           name == line.name
           size == line.size
           e1 == Excusals!With(a, head, <<>>)
           e2 == [a EXCEPT ![b] = Excusals!With(a[b], name, size)]
           e3 == [a EXCEPT ![b] = [a[b] EXCEPT ![c] = @ + size]]
           broken == [s EXCEPT !.malformed = TRUE]
           opened == [s EXCEPT !.entries = e1, !.current = head, !.last = "none"]
           stated == [s EXCEPT !.entries = e2, !.last = name]
           continued == [s EXCEPT !.entries = e3]
           Within == name \notin Required /\ head # <<>> /\ Excusals!CanonicalId(head) \in ids
<1>1. then = IF s.malformed \/ line.place \in {"skipped", "heading"} THEN s
             ELSE IF line.place = "opener" THEN opened
             ELSE IF Within THEN broken
             ELSE IF s.current = <<>> THEN s
             ELSE CASE name \in DOMAIN entry -> broken
                    [] name \in Required \ DOMAIN entry -> stated
                    [] name = "prose" /\ c # "none" -> continued
                    [] OTHER -> s
  BY DEF Excusals!Read, Excusals!None
<1>2. s = [entries |-> a, current |-> b, last |-> c, malformed |-> d]
  OBVIOUS
<1>3. ~then.malformed /\ d \in BOOLEAN /\ d = s.malformed /\ b = s.current /\ c = s.last /\ a = s.entries
  OBVIOUS
<1>4. (name = "prose" \/ name = "other") => name \notin Required
  BY FieldsAssumption
<1>5. name \in Required \/ name = "prose" \/ name = "other"
  BY DEF Excusals!Said
<1> USE <1>2
<1>6. /\ broken.malformed = TRUE
      /\ opened.entries = e1 /\ opened.last = "none"
      /\ stated.entries = e2 /\ stated.last = name
      /\ continued.entries = e3 /\ continued.last = c
  <2>1. /\ broken = [s EXCEPT !.malformed = TRUE]
        /\ opened = [s EXCEPT !.entries = e1, !.current = head, !.last = "none"]
        /\ stated = [s EXCEPT !.entries = e2, !.last = name]
        /\ continued = [s EXCEPT !.entries = e3]
    OBVIOUS
  <2> HIDE DEF a, b, c, d, e1, e2, e3, head, name, size, broken, opened, stated, continued, entry
  <2>2. broken = [entries |-> a, current |-> b, last |-> c, malformed |-> TRUE]
    BY <2>1, Zenon
  <2>3. opened = [entries |-> e1, current |-> head, last |-> "none", malformed |-> d]
    BY <2>1, Zenon
  <2>4. stated = [entries |-> e2, current |-> b, last |-> name, malformed |-> d]
    BY <2>1, Zenon
  <2>5. continued = [entries |-> e3, current |-> b, last |-> c, malformed |-> d]
    BY <2>1, Zenon
  <2> QED
    BY <2>2, <2>3, <2>4, <2>5, Zenon
<1>7. /\ e1 = Excusals!With(s.entries, line.head, <<>>)
      /\ e2 = [s.entries EXCEPT ![s.current] = Excusals!With(s.entries[s.current], line.name, line.size)]
      /\ e3 = [s.entries EXCEPT ![s.current] = [s.entries[s.current] EXCEPT ![s.last] = @ + line.size]]
      /\ entry = s.entries[s.current] /\ name = line.name
  OBVIOUS
<1> HIDE DEF a, b, c, d, e1, e2, e3, head, size, broken, opened, stated, continued, Within, entry
<1>8. ~s.malformed
  BY <1>1, <1>3
<1>9. line.place = "opener" => then = opened
  BY <1>1, <1>8
<1>10. ~(line.place = "indented" /\ Within)
  BY <1>1, <1>3, <1>6, <1>8
<1>11. ASSUME line.place = "indented"
       PROVE  then = IF s.current = <<>> THEN s
                     ELSE CASE name \in DOMAIN entry -> broken
                            [] name \in Required \ DOMAIN entry -> stated
                            [] name = "prose" /\ c # "none" -> continued
                            [] OTHER -> s
  BY <1>1, <1>8, <1>10, <1>11
<1>12. ASSUME line.place = "indented", s.current # <<>>, name \in Required
       PROVE  name \notin DOMAIN entry /\ then = stated
  <2>1. name # "prose"
    BY <1>4, <1>12
  <2>2. then = IF name \in DOMAIN entry THEN broken ELSE stated
    BY <1>11, <1>12, <2>1
  <2> QED
    BY <1>3, <1>6, <2>2
<1>13. ASSUME line.place = "indented", s.current # <<>>, name = "prose", name \notin DOMAIN entry, s.last # "none"
       PROVE  then = continued
  BY <1>3, <1>4, <1>11, <1>13
<1>14. ASSUME \/ line.place \in {"skipped", "heading"}
              \/ line.place = "indented" /\ s.current = <<>>
              \/ line.place = "indented" /\ name \notin DOMAIN entry /\ name = "other"
              \/ /\ line.place = "indented" /\ name \notin DOMAIN entry
                 /\ name = "prose" /\ s.last = "none"
       PROVE  then = s
  <2>1. CASE line.place \in {"skipped", "heading"}
    BY <1>1, <2>1
  <2>2. CASE line.place = "indented" /\ s.current = <<>>
    BY <1>11, <2>2
  <2>3. CASE line.place = "indented" /\ name \notin DOMAIN entry /\ name = "other"
    BY <1>4, <1>11, <2>3
  <2>4. CASE line.place = "indented" /\ name \notin DOMAIN entry /\ name = "prose" /\ s.last = "none"
    BY <1>3, <1>4, <1>11, <2>4
  <2> QED
    BY <1>14, <2>1, <2>2, <2>3, <2>4
<1>15. /\ line.place = "opener" =>
              then.entries = Excusals!With(s.entries, line.head, <<>>) /\ then.last = "none"
       /\ line.place = "indented" /\ s.current # <<>> /\ line.name \in Required =>
              then.entries = e2 /\ then.last = line.name
       /\ line.place = "indented" /\ s.current # <<>> /\ line.name = "prose"
              /\ line.name \notin DOMAIN entry /\ s.last # "none" =>
              then.entries = e3 /\ then.last = s.last
  BY <1>3, <1>6, <1>7, <1>9, <1>12, <1>13
<1> QED
  BY <1>3, <1>7, <1>8, <1>12, <1>14, <1>15 DEF Makes, entry, a, b

\* A line belongs to the statements of the entry it is in.
LEMMA StatingMore ==
  ASSUME NEW ls, NEW k \in Nat \ {0}, NEW i \in 1..(k - 1)
  PROVE  \A j : j \in Stating(ls, i, k)
                  <=> \/ j \in Stating(ls, i, k - 1)
                      \/ j = k /\ Excusals!States(ls[k]) /\ \A m \in (i + 1)..k : ls[m].place # "opener"
<1>1. \A j : j \in (i + 1)..k <=> j \in (i + 1)..(k - 1) \/ j = k
  OBVIOUS
<1> QED
  BY <1>1 DEF Stating

\* An opener states nothing itself.
LEMMA StatingNone ==
  ASSUME NEW ls, NEW k \in Nat
  PROVE  Stating(ls, k, k) = {}
<1>1. (k + 1)..k = {}
  OBVIOUS
<1> QED
  BY <1>1 DEF Stating

\* A line that is not part of what an entry says leaves the entry as it was.
LEMMA RecordsStill ==
  ASSUME NEW ls \in Seq(Excusals!Line), NEW k \in 1..Len(ls), NEW i \in 1..(k - 1), NEW entry,
         Records(ls, i, k - 1, entry), Stating(ls, i, k) = Stating(ls, i, k - 1),
         \A j \in Stating(ls, i, k) : k \notin Excusals!Spoken(ls, j)
  PROVE  Records(ls, i, k, entry)
<1>1. k \in Nat /\ k - 1 \in 0..Len(ls)
  BY ElementOfSeq
<1>2. ASSUME NEW j \in Stating(ls, i, k)
      PROVE  entry[ls[j].name] = SoFar(ls, j)[k]
  <2>1. entry[ls[j].name] = SoFar(ls, j)[k - 1]
    BY DEF Records
  <2>2. j \in 1..Len(ls)
    BY <1>1 DEF Stating
  <2>3. Adding(ls, j, k) = 0
    BY DEF Adding
  <2>4. SoFar(ls, j)[k - 1] \in Nat /\ SoFar(ls, j)[k] = SoFar(ls, j)[k - 1] + 0
    BY <1>1, <2>2, <2>3, SaysSoFar
  <2> QED
    BY <2>1, <2>4
<1> QED
  BY <1>2 DEF Records

\* Where nothing is stated twice, a field of an entry has one statement.
LEMMA OneStatement ==
  ASSUME NEW ls, Len(ls) \in Nat, NEW k \in 0..Len(ls), ~Twice(ls, k),
         NEW i \in 1..k, ls[i].place = "opener",
         NEW a \in Stating(ls, i, k), NEW b \in Stating(ls, i, k), ls[a].name = ls[b].name
  PROVE  a = b
<1>1. /\ i \in Excusals!Openers(ls) /\ ls[a].name \in Required /\ a \in 1..k /\ b \in 1..k
      /\ a \in (i + 1)..Len(ls) /\ b \in (i + 1)..Len(ls)
  BY DEF Excusals!Openers, Stating, Excusals!States
<1>2. a \in Excusals!Statements(ls, i, ls[a].name) /\ b \in Excusals!Statements(ls, i, ls[a].name)
  BY <1>1, StatementsBelow DEF Stating
<1> QED
  BY <1>1, <1>2 DEF Twice

\* Each line goes to the entry of its opener.
LEMMA RulesOn ==
  ASSUME NEW ls \in Seq(Excusals!Line), ~Excusals!SecondOpener(ls), NEW k \in 1..Len(ls), NEW s,
         Kept(ls, k - 1, s), Ruling(ls, k - 1, s)
  PROVE  Ruling(ls, k, Excusals!Read(Excusals!EntryIds(ls), s, ls[k]))
<1> DEFINE line == ls[k]
           then == Excusals!Read(Excusals!EntryIds(ls), s, line)
           entry == s.entries[s.current]
           IsOpener(i) == ls[i].place = "opener"
           Heads(n) == {ls[i].head : i \in {m \in 1..n : ls[m].place = "opener"}}
           Goal(e, l) == /\ DOMAIN e = Heads(k)
                         /\ \A i \in 1..k : IsOpener(i) => Records(ls, i, k, e[ls[i].head])
                         /\ Lasts(ls, k, l)
<1>1. SUFFICES ASSUME ~then.malformed
               PROVE  Goal(then.entries, then.last)
  BY DEF Ruling
<1>2. /\ k \in Nat \ {0} /\ k <= Len(ls) /\ Len(ls) \in Nat
      /\ \A i : i \in 1..k <=> i \in 1..(k - 1) \/ i = k
  BY ElementOfSeq
<1>3. line.place \in {"opener", "indented", "heading", "skipped"} /\ line.name \in Excusals!Said /\ line.size \in Nat
  <2>1. line \in Excusals!Line
    BY ElementOfSeq
  <2> QED
    BY <2>1 DEF Excusals!Line
<1>4. /\ s = [entries |-> s.entries, current |-> s.current, last |-> s.last, malformed |-> s.malformed]
      /\ s.malformed \in BOOLEAN /\ (s.malformed <=> Inside(ls, k - 1) \/ Twice(ls, k - 1))
  BY DEF Kept
<1>5. /\ ~s.malformed
      /\ line.place = "opener" =>
           then.entries = Excusals!With(s.entries, line.head, <<>>) /\ then.last = "none"
      /\ line.place = "indented" /\ s.current # <<>> /\ line.name \in Required =>
           /\ line.name \notin DOMAIN entry /\ then.last = line.name
           /\ then.entries = [s.entries EXCEPT ![s.current] = Excusals!With(entry, line.name, line.size)]
      /\ line.place = "indented" /\ s.current # <<>> /\ line.name = "prose"
           /\ line.name \notin DOMAIN entry /\ s.last # "none" =>
           /\ then.last = s.last
           /\ then.entries = [s.entries EXCEPT ![s.current] = [entry EXCEPT ![s.last] = @ + line.size]]
      /\ \/ line.place \in {"skipped", "heading"}
         \/ line.place = "indented" /\ s.current = <<>>
         \/ line.place = "indented" /\ line.name \notin DOMAIN entry /\ line.name = "other"
         \/ /\ line.place = "indented" /\ line.name \notin DOMAIN entry
            /\ line.name = "prose" /\ s.last = "none"
         => then.entries = s.entries /\ then.last = s.last
  <2>1. ~then.malformed
    BY <1>1
  <2> HIDE DEF line
  <2>2. then = Excusals!Read(Excusals!EntryIds(ls), s, line)
    OBVIOUS
  <2> HIDE DEF then
  <2>3. Makes(line, s, then)
    BY <1>3, <1>4, <2>1, <2>2, ReadIs
  <2> QED
    BY <2>3 DEF Makes
<1>6. /\ DOMAIN s.entries = Heads(k - 1)
      /\ \A i \in 1..(k - 1) : IsOpener(i) => Records(ls, i, k - 1, s.entries[ls[i].head])
      /\ Lasts(ls, k - 1, s.last)
  BY <1>5 DEF Ruling
<1>7. \A i, j \in 1..Len(ls) : IsOpener(i) /\ IsOpener(j) /\ ls[i].head = ls[j].head => i = j
  BY DEF Excusals!SecondOpener, Excusals!Openers
<1>8. \/ s.current = <<>> /\ \A j \in 1..(k - 1) : ~IsOpener(j)
      \/ /\ s.current # <<>>
         /\ \E i \in 1..(k - 1) : /\ IsOpener(i) /\ \A j \in (i + 1)..(k - 1) : ~IsOpener(j)
                                  /\ s.current = ls[i].head /\ s.current \in DOMAIN s.entries
  BY <1>5 DEF Kept
<1>9. ~Twice(ls, k - 1) /\ k - 1 \in 0..Len(ls)
  BY <1>2, <1>4, <1>5
<1>10. Excusals!States(line) <=> line.place = "indented" /\ line.name \in Required
  BY DEF Excusals!States
<1>11. line.name = "prose" \/ line.name = "other" => line.name \notin Required
  BY FieldsAssumption
<1>12. \A i \in 1..(k - 1) : \A j \in Stating(ls, i, k - 1) : j \in (i + 1)..(k - 1) /\ j \in 1..(k - 1) /\ Excusals!States(ls[j])
  BY <1>2 DEF Stating
<1> HIDE DEF then
<1>13. CASE line.place = "opener"
  <2> DEFINE e == then.entries
  <2>1. e = Excusals!With(s.entries, line.head, <<>>) /\ then.last = "none"
    BY <1>5, <1>13
  <2>2. ~Excusals!States(line) /\ \A j : j # k => k \notin Excusals!Spoken(ls, j)
    BY <1>10, <1>13, SpokenLines
  <2> HIDE DEF e
  <2>3. DOMAIN e = Heads(k)
    <3>1. DOMAIN e = DOMAIN s.entries \cup {line.head}
      BY <2>1 DEF Excusals!With
    <3>2. Heads(k) = Heads(k - 1) \cup {line.head}
      BY <1>2, <1>13
    <3> QED
      BY <1>6, <3>1, <3>2
  <2>4. ASSUME NEW i \in 1..(k - 1), IsOpener(i)
        PROVE  Records(ls, i, k, e[ls[i].head])
    <3>1. ls[i].head # line.head /\ ls[i].head \in DOMAIN s.entries
      <4>1. i \in 1..Len(ls) /\ k \in 1..Len(ls) /\ i # k
        BY <1>2
      <4> QED
        BY <1>6, <1>7, <1>13, <2>4, <4>1
    <3>2. e[ls[i].head] = s.entries[ls[i].head]
      BY <2>1, <3>1 DEF Excusals!With
    <3>3. Stating(ls, i, k) = Stating(ls, i, k - 1)
      <4>1. \A j : j \in Stating(ls, i, k) <=> j \in Stating(ls, i, k - 1)
        BY <1>2, <2>2, StatingMore
      <4> QED
        BY <4>1
    <3>4. \A j \in Stating(ls, i, k) : k \notin Excusals!Spoken(ls, j)
      <4>1. \A j \in Stating(ls, i, k) : j # k
        BY <1>2, <1>12, <3>3
      <4> QED
        BY <2>2, <4>1
    <3> QED
      BY <1>6, <2>4, <3>2, <3>3, <3>4, RecordsStill
  <2>5. Records(ls, k, k, e[line.head])
    <3>1. e[line.head] = <<>>
      BY <2>1 DEF Excusals!With
    <3>2. DOMAIN e[line.head] = {}
      BY <3>1
    <3> QED
      BY <1>2, <3>2, StatingNone DEF Records
  <2>6. Lasts(ls, k, "none")
    <3>1. ASSUME NEW i \in 1..k, NEW j \in Stating(ls, i, k)
          PROVE  \E m \in (j + 1)..k : ls[m].place = "opener"
      <4>1. i # k
        BY <1>2, <3>1, StatingNone
      <4>2. i \in 1..(k - 1)
        BY <1>2, <4>1
      <4>3. j \in Stating(ls, i, k - 1)
        BY <1>2, <2>2, <3>1, <4>2, StatingMore
      <4>4. k \in (j + 1)..k
        BY <1>2, <1>12, <4>2, <4>3
      <4> QED
        BY <1>13, <4>4
    <3> QED
      BY <3>1 DEF Lasts
  <2> QED
    BY <1>2, <2>1, <2>3, <2>4, <2>5, <2>6 DEF e
<1>14. ASSUME line.place # "opener"
       PROVE  /\ Heads(k) = Heads(k - 1)
              /\ \A i \in 1..k : IsOpener(i) => i \in 1..(k - 1)
  BY <1>2, <1>14
<1>15. ASSUME line.place # "opener", then.entries = s.entries, then.last = s.last,
              \A i \in 1..(k - 1) : IsOpener(i) => ~Excusals!States(line),
              \A i \in 1..(k - 1) : IsOpener(i) => \A j \in Stating(ls, i, k - 1) : k \notin Excusals!Spoken(ls, j)
       PROVE  Goal(then.entries, then.last)
  <2>1. ASSUME NEW i \in 1..(k - 1), IsOpener(i)
        PROVE  Stating(ls, i, k) = Stating(ls, i, k - 1)
    <3>1. \A j : j \in Stating(ls, i, k) <=> j \in Stating(ls, i, k - 1)
      BY <1>2, <1>15, <2>1, StatingMore
    <3> QED
      BY <3>1
  <2>2. ASSUME NEW i \in 1..k, IsOpener(i)
        PROVE  Records(ls, i, k, s.entries[ls[i].head])
    <3>1. i \in 1..(k - 1)
      BY <1>14, <1>15, <2>2
    <3> QED
      BY <1>6, <1>15, <2>1, <2>2, <3>1, RecordsStill
  <2>3. Lasts(ls, k, s.last)
    <3>1. ASSUME s.last = "none", NEW i \in 1..k, NEW j \in Stating(ls, i, k), IsOpener(i)
          PROVE  \E m \in (j + 1)..k : IsOpener(m)
      <4>1. i \in 1..(k - 1) /\ j \in Stating(ls, i, k - 1)
        BY <1>14, <1>15, <2>1, <3>1
      <4>2. PICK m \in (j + 1)..(k - 1) : IsOpener(m)
        BY <1>6, <3>1, <4>1 DEF Lasts
      <4>3. m \in (j + 1)..k
        BY <1>2, <1>12, <4>1
      <4> QED
        BY <4>2, <4>3
    <3>2. ASSUME s.last # "none"
          PROVE  \E i \in 1..k : \E j \in Stating(ls, i, k) :
                   /\ IsOpener(i) /\ s.last = ls[j].name
                   /\ \A m \in (j + 1)..k : ls[m].place # "opener" /\ ~Excusals!States(ls[m])
      <4>0. PICK i \in 1..(k - 1) : \E j \in Stating(ls, i, k - 1) :
              /\ IsOpener(i) /\ s.last = ls[j].name
              /\ \A m \in (j + 1)..(k - 1) : ls[m].place # "opener" /\ ~Excusals!States(ls[m])
        BY <1>6, <3>2 DEF Lasts
      <4>1. PICK j \in Stating(ls, i, k - 1) :
              /\ IsOpener(i) /\ s.last = ls[j].name
              /\ \A m \in (j + 1)..(k - 1) : ls[m].place # "opener" /\ ~Excusals!States(ls[m])
        BY <4>0
      <4>2. \A m \in (j + 1)..k : m \in (j + 1)..(k - 1) \/ m = k
        BY <1>2, <1>12
      <4>3. ~Excusals!States(line)
        BY <1>15, <4>1
      <4>4. i \in 1..k /\ j \in Stating(ls, i, k)
        BY <1>2, <2>1, <4>1
      <4>5. \A m \in (j + 1)..k : ls[m].place # "opener" /\ ~Excusals!States(ls[m])
        BY <1>15, <4>1, <4>2, <4>3
      <4> QED
        BY <4>1, <4>4, <4>5
    <3> QED
      BY <3>1, <3>2 DEF Lasts
  <2> QED
    BY <1>6, <1>14, <1>15, <2>2, <2>3
<1>16. CASE line.place \in {"skipped", "heading"}
  BY <1>5, <1>10, <1>15, <1>16, SpokenLines, <1>12, <1>2
<1>17. CASE line.place = "indented" /\ s.current = <<>>
  BY <1>5, <1>8, <1>15, <1>17
<1>18. CASE line.place = "indented" /\ s.current # <<>>
  <2>1. PICK o \in 1..(k - 1) : /\ IsOpener(o) /\ \A j \in (o + 1)..(k - 1) : ~IsOpener(j)
                                /\ s.current = ls[o].head /\ s.current \in DOMAIN s.entries
    BY <1>8, <1>18
  <2>2. o \in 1..k /\ o \in Nat /\ o < k /\ o \in 1..Len(ls) /\ \A m \in (o + 1)..k : ~IsOpener(m)
    BY <1>2, <1>18, <2>1
  <2>3. Records(ls, o, k - 1, entry)
    BY <1>6, <2>1
  <2>4. /\ DOMAIN entry = {ls[j].name : j \in Stating(ls, o, k - 1)}
        /\ DOMAIN entry \subseteq Required
        /\ \A j \in Stating(ls, o, k - 1) : entry[ls[j].name] = SoFar(ls, j)[k - 1]
    BY <1>12, <2>1, <2>3 DEF Records, Excusals!States
  <2>5. ASSUME NEW i \in 1..(k - 1), IsOpener(i), i # o
        PROVE  /\ ls[i].head # s.current /\ Stating(ls, i, k) = Stating(ls, i, k - 1)
               /\ \A j \in Stating(ls, i, k) : k \notin Excusals!Spoken(ls, j)
    <3>1. i \in 1..Len(ls)
      BY <1>2
    <3>2. ls[i].head # s.current
      BY <1>7, <2>1, <2>2, <2>5, <3>1
    <3>3. i < o
      BY <1>2, <2>1, <2>5
    <3>4. o \in (i + 1)..k
      BY <1>2, <2>2, <3>3
    <3>5. Stating(ls, i, k) = Stating(ls, i, k - 1)
      <4>1. \A j : j \in Stating(ls, i, k) <=> j \in Stating(ls, i, k - 1)
        BY <1>2, <2>1, <3>4, StatingMore
      <4> QED
        BY <4>1
    <3>6. ASSUME NEW j \in Stating(ls, i, k)
          PROVE  k \notin Excusals!Spoken(ls, j)
      <4>1. j \in (i + 1)..(k - 1) /\ \A m \in (i + 1)..j : ~IsOpener(m)
        BY <3>5, <3>6 DEF Stating
      <4>2. ~(o <= j)
        BY <2>1, <2>2, <3>3, <4>1
      <4>3. o \in (j + 1)..k /\ j # k
        BY <1>2, <2>2, <4>1, <4>2
      <4> QED
        BY <2>1, <4>3, SpokenLines
    <3> QED
      BY <3>2, <3>5, <3>6
  <2>6. \A j : j \in Stating(ls, o, k) <=> j \in Stating(ls, o, k - 1) \/ (j = k /\ Excusals!States(line))
    BY <1>2, <2>1, <2>2, StatingMore
  <2>7. line.name \in Required \/ line.name = "prose" \/ line.name = "other"
    BY <1>3 DEF Excusals!Said
  \* The other entries stay as they are.
  <2>8. ASSUME NEW e, DOMAIN e = DOMAIN s.entries, \A h \in DOMAIN e : h # s.current => e[h] = s.entries[h],
               Records(ls, o, k, e[s.current]), NEW l, Lasts(ls, k, l)
        PROVE  Goal(e, l)
    <3>1. ASSUME NEW i \in 1..k, IsOpener(i)
          PROVE  Records(ls, i, k, e[ls[i].head])
      <4>1. i \in 1..(k - 1)
        BY <1>14, <1>18, <3>1
      <4>2. CASE i = o
        BY <2>1, <2>8, <4>2
      <4>3. CASE i # o
        <5>1. ls[i].head \in DOMAIN e /\ ls[i].head # s.current
          BY <1>6, <2>5, <2>8, <3>1, <4>1, <4>3
        <5>2. e[ls[i].head] = s.entries[ls[i].head]
          BY <2>8, <5>1
        <5> QED
          BY <1>6, <2>5, <3>1, <4>1, <4>3, <5>2, RecordsStill
      <4> QED
        BY <4>2, <4>3
    <3> QED
      BY <1>6, <1>14, <1>18, <2>8, <3>1
  <2>9. CASE line.name \in Required
    <3> DEFINE more == Excusals!With(entry, line.name, line.size)
               e == [s.entries EXCEPT ![s.current] = more]
    <3>1. line.name \notin DOMAIN entry /\ then.last = line.name /\ then.entries = e
      BY <1>5, <1>18, <2>9
    <3>2. Excusals!States(line)
      BY <1>10, <1>18, <2>9
    <3>3. DOMAIN e = DOMAIN s.entries /\ e[s.current] = more /\ \A h \in DOMAIN e : h # s.current => e[h] = s.entries[h]
      BY <2>1
    <3>4. /\ DOMAIN more = DOMAIN entry \cup {line.name}
          /\ more[line.name] = line.size
          /\ \A f \in DOMAIN entry : f # line.name => more[f] = entry[f]
      BY DEF Excusals!With
    <3> HIDE DEF more, e, entry
    <3>5. Records(ls, o, k, more)
      <4>1. DOMAIN more = {ls[j].name : j \in Stating(ls, o, k)}
        BY <2>4, <2>6, <3>2, <3>4
      <4>2. ASSUME NEW j \in Stating(ls, o, k), j # k
            PROVE  more[ls[j].name] = SoFar(ls, j)[k]
        <5>1. j \in Stating(ls, o, k - 1)
          BY <2>6, <4>2
        <5>2. ls[j].name \in DOMAIN entry /\ ls[j].name # line.name
          BY <2>4, <3>1, <5>1
        <5>3. more[ls[j].name] = SoFar(ls, j)[k - 1]
          BY <2>4, <3>4, <5>1, <5>2
        <5>4. k \notin Excusals!Spoken(ls, j)
          BY <1>11, <2>9, <4>2, SpokenLines
        <5>5. j \in 1..Len(ls) /\ k - 1 \in 0..Len(ls)
          BY <1>2, <1>12, <2>1, <5>1
        <5>6. SoFar(ls, j)[k] = SoFar(ls, j)[k - 1] + 0 /\ SoFar(ls, j)[k - 1] \in Nat
          BY <5>4, <5>5, SaysSoFar DEF Adding
        <5> QED
          BY <5>3, <5>6
      <4>3. more[line.name] = SoFar(ls, k)[k]
        BY <3>4, SaysSoFar
      <4> QED
        BY <4>1, <4>2, <4>3 DEF Records
    <3>6. Lasts(ls, k, line.name)
      <4>1. line.name # "none"
        BY <2>9, FieldsAssumption
      <4>2. k \in Stating(ls, o, k) /\ (k + 1)..k = {}
        BY <1>2, <2>6, <3>2
      <4> QED
        BY <2>1, <2>2, <4>1, <4>2 DEF Lasts
    <3> QED
      BY <2>8, <3>1, <3>3, <3>5, <3>6
  <2>10. ASSUME line.name \notin Required
         PROVE  /\ line.name \notin DOMAIN entry /\ ~Excusals!States(line)
                /\ Stating(ls, o, k) = Stating(ls, o, k - 1)
    BY <1>10, <2>4, <2>6, <2>10
  <2>11. CASE line.name = "other"
    <3>1. then.entries = s.entries /\ then.last = s.last
      BY <1>5, <1>11, <1>18, <2>10, <2>11
    <3>2. \A i \in 1..(k - 1) : \A j \in Stating(ls, i, k - 1) : k \notin Excusals!Spoken(ls, j)
      BY <1>2, <1>12, <2>11, SpokenLines
    <3> QED
      BY <1>11, <1>15, <1>18, <2>10, <2>11, <3>1, <3>2
  <2>12. CASE line.name = "prose" /\ s.last = "none"
    <3>1. then.entries = s.entries /\ then.last = s.last
      BY <1>5, <1>11, <1>18, <2>10, <2>12
    <3>2. ASSUME NEW i \in 1..(k - 1), IsOpener(i), NEW j \in Stating(ls, i, k - 1)
          PROVE  k \notin Excusals!Spoken(ls, j)
      <4>1. PICK m \in (j + 1)..(k - 1) : IsOpener(m)
        BY <1>6, <2>12, <3>2 DEF Lasts
      <4>2. m \in (j + 1)..k /\ k # j
        BY <1>2, <1>12, <3>2
      <4> QED
        BY <4>1, <4>2, SpokenLines
    <3> QED
      BY <1>11, <1>15, <1>18, <2>10, <2>12, <3>1, <3>2
  <2>13. CASE line.name = "prose" /\ s.last # "none"
    <3> DEFINE more == [entry EXCEPT ![s.last] = @ + line.size]
               e == [s.entries EXCEPT ![s.current] = more]
    <3>1. then.last = s.last /\ then.entries = e
      BY <1>5, <1>11, <1>18, <2>10, <2>13
    <3>0. PICK h \in 1..(k - 1) : \E a \in Stating(ls, h, k - 1) :
            /\ IsOpener(h) /\ s.last = ls[a].name
            /\ \A m \in (a + 1)..(k - 1) : ls[m].place # "opener" /\ ~Excusals!States(ls[m])
      BY <1>6, <2>13 DEF Lasts
    <3>2. PICK a \in Stating(ls, h, k - 1) :
            /\ IsOpener(h) /\ s.last = ls[a].name
            /\ \A m \in (a + 1)..(k - 1) : ls[m].place # "opener" /\ ~Excusals!States(ls[m])
      BY <3>0
    <3>3. h = o
      <4>1. a \in (h + 1)..(k - 1) /\ \A m \in (h + 1)..a : ~IsOpener(m)
        BY <3>2 DEF Stating
      <4>2. ~(o < h)
        BY <2>1, <2>2, <3>2
      <4>3. ~(h < o)
        <5>1. SUFFICES ASSUME h < o
                       PROVE  FALSE
          OBVIOUS
        <5>2. o \in (h + 1)..a \/ o \in (a + 1)..(k - 1)
          BY <1>2, <2>2, <4>1, <5>1
        <5> QED
          BY <2>1, <3>2, <4>1, <5>2
      <4> QED
        BY <2>2, <4>2, <4>3
    <3>4. DOMAIN e = DOMAIN s.entries /\ e[s.current] = more /\ \A x \in DOMAIN e : x # s.current => e[x] = s.entries[x]
      BY <2>1
    <3>5. s.last \in DOMAIN entry
      BY <2>4, <3>2, <3>3
    <3>6. /\ DOMAIN more = DOMAIN entry
          /\ more[s.last] = entry[s.last] + line.size
          /\ \A f \in DOMAIN entry : f # s.last => more[f] = entry[f]
      BY <3>5
    <3> HIDE DEF more, e, entry
    <3>7. line.name \notin Required /\ Stating(ls, o, k) = Stating(ls, o, k - 1) /\ ~Excusals!States(line)
      BY <1>11, <2>10, <2>13
    <3>8. ASSUME NEW j \in Stating(ls, o, k)
          PROVE  more[ls[j].name] = SoFar(ls, j)[k]
      <4>1. j \in Stating(ls, o, k - 1) /\ j \in (o + 1)..(k - 1) /\ j \in 1..Len(ls) /\ Excusals!States(ls[j])
        BY <1>2, <1>12, <2>1, <3>7, <3>8
      <4>2. SoFar(ls, j)[k - 1] \in Nat /\ SoFar(ls, j)[k] = SoFar(ls, j)[k - 1] + Adding(ls, j, k)
        BY <1>9, <4>1, SaysSoFar
      <4>3. entry[ls[j].name] = SoFar(ls, j)[k - 1] /\ ls[j].name \in DOMAIN entry
        BY <2>4, <4>1
      <4>4. a \in Stating(ls, o, k - 1) /\ a \in (o + 1)..(k - 1) /\ Excusals!States(ls[a])
        BY <1>12, <2>1, <3>2, <3>3
      <4>5. CASE j = a
        <5>1. \A m \in (j + 1)..k : m \in (a + 1)..(k - 1) \/ m = k
          BY <1>2, <4>1, <4>5
        <5>2. k \in (j + 1)..Len(ls)
          BY <1>2, <4>1
        <5>3. k \in Excusals!Spoken(ls, j)
          BY <1>18, <2>13, <3>2, <3>7, <5>1, <5>2, SpokenLines
        <5> QED
          BY <3>2, <3>6, <4>2, <4>3, <4>5, <5>3 DEF Adding
      <4>6. CASE j # a
        <5>1. ls[j].name # ls[a].name
          <6>1. o \in 1..(k - 1)
            BY <2>1
          <6> QED
            BY <1>2, <1>9, <2>1, <4>1, <4>4, <4>6, <6>1, OneStatement
        <5>2. \E m \in (j + 1)..k : ls[m].place = "opener" \/ Excusals!States(ls[m])
          <6>1. CASE j < a
            <7>1. a \in (j + 1)..k
              BY <1>2, <4>1, <4>4, <6>1
            <7> QED
              BY <4>4, <7>1
          <6>2. CASE ~(j < a)
            <7>1. j \in (a + 1)..(k - 1)
              BY <1>2, <2>2, <4>1, <4>4, <4>6, <6>2
            <7> QED
              BY <3>2, <4>1, <7>1
          <6> QED
            BY <6>1, <6>2
        <5>3. k \notin Excusals!Spoken(ls, j)
          <6>1. j # k
            BY <1>2, <4>1
          <6> QED
            BY <5>2, <6>1, SpokenLines
        <5> QED
          BY <3>2, <3>6, <4>2, <4>3, <5>1, <5>3 DEF Adding
      <4> QED
        BY <4>5, <4>6
    <3>9. Records(ls, o, k, more)
      BY <2>4, <3>6, <3>7, <3>8 DEF Records
    <3>10. Lasts(ls, k, s.last)
      <4>1. \A m \in (a + 1)..k : ls[m].place # "opener" /\ ~Excusals!States(ls[m])
        <5>1. \A m \in (a + 1)..k : m \in (a + 1)..(k - 1) \/ m = k
          BY <1>2, <1>12, <3>2
        <5> QED
          BY <1>18, <3>2, <3>7, <5>1
      <4> QED
        BY <2>1, <2>2, <2>13, <3>2, <3>3, <3>7, <4>1 DEF Lasts
    <3> QED
      BY <2>8, <3>1, <3>4, <3>9, <3>10
  <2> QED
    BY <2>7, <2>9, <2>11, <2>12, <2>13
<1> QED
  BY <1>3, <1>13, <1>16, <1>17, <1>18

\* The ledger as it is read has an entry for each opener.
LEMMA LedgerRuled ==
  ASSUME NEW ls \in Seq(Excusals!Line), ~Excusals!SecondOpener(ls), ~Excusals!SecondHeading(ls)
  PROVE  Ruling(ls, Len(ls), Excusals!ReadLedger(ls))
<1> DEFINE N == Len(ls)
<1>1. N \in Nat
  BY ElementOfSeq
<1>2. PICK f : /\ f[0] = Excusals!Start
               /\ \A k \in 1..N : f[k] = Excusals!Read(Excusals!EntryIds(ls), f[k - 1], ls[k])
               /\ Excusals!ReadLedger(ls) = f[N]
  BY LedgerRounds
<1> DEFINE S == {k \in 0..N : Kept(ls, k, f[k]) /\ Ruling(ls, k, f[k])}
<1>3. 1..0 = {} /\ Excusals!Start = [entries |-> <<>>, current |-> <<>>, last |-> "none", malformed |-> FALSE]
  BY DEF Excusals!Start, Excusals!None
<1>4. Kept(ls, 0, Excusals!Start)
  <2>1. ~Inside(ls, 0) /\ ~Twice(ls, 0)
    BY <1>3 DEF Inside, Twice
  <2> QED
    BY <1>3, <2>1 DEF Kept
<1>5. Ruling(ls, 0, Excusals!Start)
  <2>1. {m \in 1..0 : ls[m].place = "opener"} = {}
    BY <1>3
  <2>2. DOMAIN <<>> = {}
    OBVIOUS
  <2>3. Lasts(ls, 0, "none")
    BY <1>3 DEF Lasts
  <2> QED
    BY <1>3, <2>1, <2>2, <2>3 DEF Ruling
<1>6. 0 \in S
  BY <1>1, <1>2, <1>4, <1>5
<1>7. ASSUME NEW k \in 1..N, k - 1 \in S
      PROVE  k \in S
  <2>1. Kept(ls, k - 1, f[k - 1]) /\ Ruling(ls, k - 1, f[k - 1])
    BY <1>7
  <2>2. Kept(ls, k, Excusals!Read(Excusals!EntryIds(ls), f[k - 1], ls[k]))
    BY <2>1, KeepsOn
  <2>3. Ruling(ls, k, Excusals!Read(Excusals!EntryIds(ls), f[k - 1], ls[k]))
    BY <2>1, RulesOn
  <2> QED
    BY <1>1, <1>2, <2>2, <2>3
<1>8. 0..N \subseteq S
  <2> HIDE DEF S, N
  <2> QED
    BY <1>1, <1>6, <1>7, EveryRound
<1>9. N \in 0..N
  BY <1>1
<1> QED
  BY <1>2, <1>8, <1>9

\* Where nothing is ambiguous, an entry is what a reader finds under its id.
LEMMA EntriesAreRulings ==
  ASSUME NEW ls \in Seq(Excusals!Line), ~Excusals!Contested(ls),
         NEW i \in Excusals!Openers(ls), NEW entry, Records(ls, i, Len(ls), entry)
  PROVE  /\ Excusals!Heads(ls, Excusals!CanonicalId(ls[i].head)) = {i}
         /\ \A f \in Required :
              /\ f \in DOMAIN entry <=> \E j : j \in Excusals!Statements(ls, i, f)
              /\ \A j \in Excusals!Statements(ls, i, f) :
                   /\ j \in Excusals!Block(ls, i) /\ Excusals!Statements(ls, i, f) = {j}
                   /\ entry[f] = Excusals!Says(ls, j) /\ Excusals!Says(ls, j) \in Nat
<1> DEFINE N == Len(ls)
<1>1. N \in Nat /\ i \in 1..N /\ ls[i].place = "opener"
  BY ElementOfSeq DEF Excusals!Openers
<1>2. ls[i].head \in Excusals!Raw
  <2>1. ls[i] \in Excusals!Line
    BY <1>1, ElementOfSeq
  <2> QED
    BY <1>1, <2>1 DEF Excusals!Line
<1>3. Excusals!Heads(ls, Excusals!CanonicalId(ls[i].head)) = {i}
  <2> DEFINE m == Excusals!CanonicalId(ls[i].head)
  <2>1. m \in Mutants /\ ls[i].head # Excusals!None
    BY <1>2, AnIdIsSome DEF Excusals!CanonicalId, Excusals!Raw, Excusals!None
  <2>2. i \in Excusals!Heads(ls, m)
    BY <1>1, <2>1 DEF Excusals!Heads, Excusals!States
  <2> HIDE DEF m
  <2>3. \A j \in Excusals!Heads(ls, m) : j = i
    BY <1>1, <2>1, <2>2 DEF Excusals!Contested
  <2> QED
    BY <2>2, <2>3 DEF m
<1>4. ASSUME NEW f \in Required
      PROVE  \A j : j \in Excusals!Statements(ls, i, f) <=> j \in Stating(ls, i, N) /\ ls[j].name = f
  BY StatementsBelow DEF Stating
<1>5. \A f \in Required : f \in DOMAIN entry <=> \E j : j \in Excusals!Statements(ls, i, f)
  BY <1>4 DEF Records
<1>6. ASSUME NEW f \in Required, NEW j \in Excusals!Statements(ls, i, f)
      PROVE  /\ j \in Excusals!Block(ls, i) /\ Excusals!Statements(ls, i, f) = {j}
             /\ entry[f] = Excusals!Says(ls, j) /\ Excusals!Says(ls, j) \in Nat
  <2>1. j \in Excusals!Block(ls, i)
    BY <1>6 DEF Excusals!Statements
  <2>2. \A h : h \in Excusals!Statements(ls, i, f) => h \in 1..N
    BY <1>1, StatementsBelow
  <2>3. \A h \in Excusals!Statements(ls, i, f) : h = j
    <3>1. SUFFICES ASSUME NEW h \in Excusals!Statements(ls, i, f), h # j
                   PROVE  FALSE
      OBVIOUS
    <3>2. {h, j} \subseteq Excusals!Statements(ls, i, f) /\ h \in 1..N /\ j \in 1..N
      BY <1>6, <2>2
    <3> QED
      BY <3>1, <3>2 DEF Excusals!Contested
  <2>4. j \in Stating(ls, i, N) /\ ls[j].name = f
    BY <1>4, <1>6
  <2>5. entry[f] = SoFar(ls, j)[N]
    BY <2>4 DEF Records
  <2>6. j \in 1..N
    BY <1>6, <2>2
  <2>7. N \in 0..N
    BY <1>1
  <2>8. Excusals!Says(ls, j) = SoFar(ls, j)[N] /\ SoFar(ls, j)[N] \in Nat
    BY <2>6, <2>7, SaysSoFar
  <2> QED
    BY <1>6, <2>1, <2>3, <2>5, <2>8
<1> QED
  BY <1>3, <1>5, <1>6

\* check-excusals passes exactly when each survivor has one excusal of substance.
LEMMA ExcusalsRead ==
  ASSUME NEW ls \in Seq(Excusals!Line), NEW survivors, Excusals!Exit(survivors, ls) # 2
  PROVE  Excusals!Exit(survivors, ls) = 0 <=> \A m \in survivors : Excusals!Excused(ls, m)
<1> DEFINE ledger == Excusals!ReadLedger(ls)
           N == Len(ls)
           Holds(m) == m \in DOMAIN ledger.entries /\ Excusals!Complete(ledger.entries[m])
<1>1. ~ledger.malformed /\ ~Excusals!Contested(ls)
  BY RefusedWhenAmbiguous DEF Excusals!Exit
<1>2. Excusals!Exit(survivors, ls) = 0 <=> \A m \in survivors : Holds(m)
  BY <1>1 DEF Excusals!Exit
<1>3. ~Excusals!SecondOpener(ls) /\ ~Excusals!SecondHeading(ls)
  <2>1. ASSUME Excusals!SecondOpener(ls) \/ Excusals!SecondHeading(ls)
        PROVE  ledger = [Excusals!Start EXCEPT !.malformed = TRUE]
    BY <2>1 DEF Excusals!ReadLedger
  <2>2. [Excusals!Start EXCEPT !.malformed = TRUE].malformed = TRUE
    BY DEF Excusals!Start
  <2> HIDE DEF ledger
  <2> QED
    BY <1>1, <2>1, <2>2
<1>4. Ruling(ls, N, ledger)
  BY <1>3, LedgerRuled
<1> HIDE DEF ledger
<1>5. DOMAIN ledger.entries = {ls[i].head : i \in Excusals!Openers(ls)}
  <2>1. Excusals!Openers(ls) = {i \in 1..N : ls[i].place = "opener"}
    BY DEF Excusals!Openers
  <2> QED
    BY <1>1, <1>4, <2>1 DEF Ruling
<1>6. \A i \in Excusals!Openers(ls) : Records(ls, i, N, ledger.entries[ls[i].head])
  BY <1>1, <1>4 DEF Ruling, Excusals!Openers
<1>7. ASSUME NEW i \in Excusals!Openers(ls)
      PROVE  Excusals!Complete(ledger.entries[ls[i].head])
               <=> \A f \in Required : \E j \in Excusals!Block(ls, i) :
                     /\ Excusals!Statements(ls, i, f) = {j}
                     /\ Excusals!Says(ls, j) >= 1
                     /\ f = "argument" => Excusals!Says(ls, j) >= Least
  <2> DEFINE e == ledger.entries[ls[i].head]
             Stated1(f, j) == /\ Excusals!Statements(ls, i, f) = {j}
                              /\ Excusals!Says(ls, j) >= 1
                              /\ f = "argument" => Excusals!Says(ls, j) >= Least
  <2>1. /\ \A f \in Required :
             /\ f \in DOMAIN e <=> \E j : j \in Excusals!Statements(ls, i, f)
             /\ \A j \in Excusals!Statements(ls, i, f) :
                  /\ j \in Excusals!Block(ls, i) /\ Excusals!Statements(ls, i, f) = {j}
                  /\ e[f] = Excusals!Says(ls, j) /\ Excusals!Says(ls, j) \in Nat
    BY <1>1, <1>6, <1>7, EntriesAreRulings
  <2>2. "argument" \in Required
    BY FieldsAssumption
  <2> HIDE DEF e
  <2>3. Excusals!Complete(e) <=> /\ \A f \in Required : f \in DOMAIN e /\ e[f] > 0
                                 /\ e["argument"] >= Least
    BY DEF Excusals!Complete
  <2>4. ASSUME Excusals!Complete(e), NEW f \in Required
        PROVE  \E j \in Excusals!Block(ls, i) : Stated1(f, j)
    <3>1. PICK j : j \in Excusals!Statements(ls, i, f)
      BY <2>1, <2>3, <2>4
    <3>2. e[f] = Excusals!Says(ls, j) /\ Excusals!Says(ls, j) \in Nat /\ e[f] > 0
      BY <2>1, <2>3, <2>4, <3>1
    <3>3. Excusals!Says(ls, j) >= 1
      BY <3>2
    <3>4. f = "argument" => Excusals!Says(ls, j) >= Least
      BY <2>3, <2>4, <3>2
    <3> QED
      BY <2>1, <3>1, <3>3, <3>4
  <2>5. ASSUME \A f \in Required : \E j \in Excusals!Block(ls, i) : Stated1(f, j)
        PROVE  Excusals!Complete(e)
    <3>1. ASSUME NEW f \in Required
          PROVE  f \in DOMAIN e /\ e[f] > 0 /\ (f = "argument" => e[f] >= Least)
      <4>1. PICK j \in Excusals!Block(ls, i) : Stated1(f, j)
        BY <2>5, <3>1
      <4>2. j \in Excusals!Statements(ls, i, f)
        BY <4>1
      <4>3. f \in DOMAIN e /\ e[f] = Excusals!Says(ls, j) /\ Excusals!Says(ls, j) \in Nat
        BY <2>1, <3>1, <4>2
      <4> QED
        BY <4>1, <4>3
    <3> QED
      BY <2>2, <2>3, <3>1
  <2>6. Excusals!Complete(e) <=> \A f \in Required : \E j \in Excusals!Block(ls, i) : Stated1(f, j)
    BY <2>4, <2>5
  <2> QED
    BY <2>6 DEF e
<1>8. ASSUME NEW m
      PROVE  Holds(m) <=> Excusals!Excused(ls, m)
  <2>1. ASSUME Holds(m)
        PROVE  Excusals!Excused(ls, m)
    <3>1. PICK i \in Excusals!Openers(ls) : ls[i].head = m
      BY <1>5, <2>1
    <3>2. Excusals!Heads(ls, Excusals!CanonicalId(m)) = {i}
      BY <1>1, <1>6, <3>1, EntriesAreRulings
    <3>3. Excusals!Complete(ledger.entries[ls[i].head])
      BY <2>1, <3>1
    <3> QED
      BY <1>7, <3>1, <3>2, <3>3 DEF Excusals!Excused
  <2>2. ASSUME Excusals!Excused(ls, m)
        PROVE  Holds(m)
    <3>1. PICK i \in Excusals!Openers(ls) :
            /\ ls[i].head = m
            /\ \A f \in Required : \E j \in Excusals!Block(ls, i) :
                 /\ Excusals!Statements(ls, i, f) = {j}
                 /\ Excusals!Says(ls, j) >= 1
                 /\ f = "argument" => Excusals!Says(ls, j) >= Least
      BY <2>2 DEF Excusals!Excused
    <3> QED
      BY <1>5, <1>7, <3>1
  <2> QED
    BY <2>1, <2>2
<1> QED
  BY <1>2, <1>8

-----------------------------------------------------------------------------
(* toolchain-check *)

\* A toolchain that passes runs every gate on the change, whichever of a flag's
\* occurrences the tool obeys.
LEMMA ToolchainReads ==
  ASSUME NEW ls, Tools!ToolchainExit(TRUE, ls) = 0
  PROVE  \A i \in 1..Len(ls) : Tools!RunsScoped(ls[i])
<1>1. SUFFICES ASSUME NEW i \in 1..Len(ls)
      PROVE  Tools!RunsScoped(ls[i])
  OBVIOUS
<1> DEFINE r == ls[i]
           shared == Tools!FlagsOf(r.cmd, r.scope.flag)
<1>2. Tools!Scoped(r) /\ ~Tools!DeniedInCommand(r)
  BY DEF Tools!ToolchainExit, Tools!Breach
<1>3. r.scope.is = "flag" /\ Tools!ScopeStatus(r.scope, r.cmd) = "present"
  BY <1>2 DEF Tools!Scoped
<1>4. (\A w \in shared : w.value # "off") /\ shared # {}
  BY <1>3 DEF Tools!ScopeStatus
<1>5. \A w : w \in shared <=> \E j \in 1..Len(r.cmd) : w = r.cmd[j] /\ w.is = "flag" /\ w.flag = r.scope.flag
  BY DEF Tools!FlagsOf, Tools!Word1
<1>6. \A j \in 1..Len(r.cmd) : r.cmd[j].is = "flag" => r.cmd[j].flag \notin DenyScope
  BY <1>2 DEF Tools!DeniedInCommand, Tools!Word1
<1> HIDE DEF r, shared
<1>7. Tools!RunsScoped(r)
  BY <1>3, <1>4, <1>5, <1>6 DEF Tools!RunsScoped
<1> QED
  BY <1>7 DEF r

-----------------------------------------------------------------------------
(* secret-manifest *)

\* A verdict of secret-manifest is that of a reader of both files.
LEMMA SecretsRead ==
  ASSUME NEW ls \in Seq(Secrets!Line), NEW min \in Nat, Secrets!Exit(ls, min) # 2
  PROVE  Secrets!Exit(ls, min) = 0 <=> Secrets!Declared(ls, min)
<1> DEFINE L == Secrets!Rows(ls, "list")
           M == Secrets!Rows(ls, "manifest")
           same(p, q) == p[1] = q[1] /\ (p[2] = "cased" <=> q[2] = "cased")
           says(i) == ls[i].says
           Substance(i) == ~says(i).empty /\ ~says(i).stub /\ says(i).chars > 0 /\ says(i).chars >= min
<1>1. /\ \A i : i \in L <=> i \in 1..Len(ls) /\ ls[i].of = "list" /\ ls[i].is = "row"
      /\ \A i : i \in M <=> i \in 1..Len(ls) /\ ls[i].of = "manifest" /\ ls[i].is = "row"
  <2>1. \A i : i \in L <=> i \in 1..Len(ls) /\ ls[i].of = "list" /\ ls[i].is = "row"
    BY Zenon DEF Secrets!Rows
  <2>2. \A i : i \in M <=> i \in 1..Len(ls) /\ ls[i].of = "manifest" /\ ls[i].is = "row"
    BY Zenon DEF Secrets!Rows
  <2> HIDE DEF L, M
  <2> QED
    BY <2>1, <2>2
<1>2. \A i \in 1..Len(ls) : ls[i] \in Secrets!Line
  BY ElementOfSeq
<1>3. \A i \in M : says(i) \in Secrets!Declaration
  <2>1. \A l \in Secrets!Line : l.of = "manifest" /\ l.is = "row" => l.says \in Secrets!Declaration
    BY DEF Secrets!Line
  <2> HIDE DEF M
  <2> QED
    BY <1>1, <1>2, <2>1
<1>4. \A i \in M : says(i).chars \in Nat /\ (says(i).empty => says(i).chars = 0)
  <2>1. \A d \in Secrets!Declaration : d.chars \in Nat /\ (d.empty => d.chars = 0)
    <3>1. \A d \in [chars : Nat, stub : BOOLEAN, empty : {FALSE}] : d.chars \in Nat /\ d.empty = FALSE
      OBVIOUS
    <3>2. \A d \in [chars : {0}, stub : {FALSE}, empty : {TRUE}] : d.chars = 0
      OBVIOUS
    <3>3. SUFFICES ASSUME NEW d \in Secrets!Declaration
          PROVE  d.chars \in Nat /\ (d.empty => d.chars = 0)
      OBVIOUS
    <3>4. \/ d \in [chars : Nat, stub : BOOLEAN, empty : {FALSE}]
          \/ d \in [chars : {0}, stub : {FALSE}, empty : {TRUE}]
      BY DEF Secrets!Declaration
    <3>5. (d.chars \in Nat /\ d.empty = FALSE) \/ d.chars = 0
      BY <3>1, <3>2, <3>4, Zenon
    <3> QED
      BY <3>5
  <2> HIDE DEF says, M
  <2> QED
    BY <1>3, <2>1
<1>5. \A i \in M : Substance(i) <=> says(i).chars >= min /\ says(i).chars > 0 /\ ~says(i).stub
  <2> HIDE DEF says, M
  <2> QED
    BY <1>4
<1>6. \A p, q : Secrets!NormKey(p) = Secrets!NormKey(q) <=> same(p, q)
  <2>1. \A p, q : Secrets!NormKey(p) = Secrets!NormKey(q) <=> p[1] = q[1] /\ (p[2] = "cased") = (q[2] = "cased")
    BY DEF Secrets!NormKey
  <2> QED
    BY <2>1
<1>7. Secrets!Exit(ls, min) = 0 <=> \A i \in L : Secrets!Hides(ls, ls[i].path, min)
  BY Zenon DEF Secrets!Exit
<1>8. \A i \in L : Secrets!Hides(ls, ls[i].path, min)
                     <=> \E j \in M : {k \in M : same(ls[k].path, ls[i].path)} = {j} /\ Substance(j)
  <2>1. \A i \in L : Secrets!Hides(ls, ls[i].path, min)
                       <=> \E j \in M : {k \in M : Secrets!NormKey(ls[k].path) = Secrets!NormKey(ls[i].path)} = {j} /\ Substance(j)
    BY DEF Secrets!Hides, Secrets!Declares
  <2> HIDE DEF L, M, Substance, same
  <2> QED
    BY <1>6, <2>1
<1>9. Secrets!Declared(ls, min)
        <=> \A i \in L : \E j \in M :
              /\ same(ls[j].path, ls[i].path)
              /\ says(j).chars >= min /\ says(j).chars > 0 /\ ~says(j).stub
              /\ \A k \in M : same(ls[k].path, ls[i].path) => k = j
  <2>1. Secrets!Declared(ls, min)
          <=> \A i \in 1..Len(ls) : ls[i].of = "list" /\ ls[i].is = "row" =>
                \E j \in 1..Len(ls) :
                  /\ ls[j].of = "manifest" /\ ls[j].is = "row" /\ same(ls[j].path, ls[i].path)
                  /\ says(j).chars >= min /\ says(j).chars > 0 /\ ~says(j).stub
                  /\ \A k \in 1..Len(ls) :
                       ls[k].of = "manifest" /\ ls[k].is = "row" /\ same(ls[k].path, ls[i].path) => k = j
    BY DEF Secrets!Declared
  <2> HIDE DEF L, M, same, says
  <2> QED
    BY <1>1, <2>1
<1>10. ASSUME NEW i \in L
       PROVE  (\E j \in M : {k \in M : same(ls[k].path, ls[i].path)} = {j} /\ Substance(j))
                <=> \E j \in M : /\ same(ls[j].path, ls[i].path)
                                 /\ says(j).chars >= min /\ says(j).chars > 0 /\ ~says(j).stub
                                 /\ \A k \in M : same(ls[k].path, ls[i].path) => k = j
  <2> HIDE DEF L, M, same, says, Substance
  <2> QED
    BY <1>5
<1> HIDE DEF L, M, same, says, Substance
<1> QED
  BY <1>7, <1>8, <1>9, <1>10

-----------------------------------------------------------------------------
(* margin-ledger *)

\* A total is summed row by row.
LEMMA TotalRounds ==
  ASSUME NEW ls, NEW field, Len(ls) \in Nat, \A i \in 1..Len(ls) : ls[i][field] \in Nat
  PROVE  \E f \in [0..Len(ls) -> Nat] : /\ f[0] = 0
                                        /\ \A k \in 1..Len(ls) : f[k] = f[k - 1] + ls[k][field]
                                        /\ Sums!Total(ls, field) = f[Len(ls)]
<1> DEFINE N == Len(ls)
           S == Nat
           Op(s, k) == s + ls[k][field]
           g == [p \in S \X (1..N) |-> Op(p[1], p[2])]
<1>1. N \in Nat /\ 0 \in S
  OBVIOUS
<1>2. \A s \in S : \A k \in 1..N : Op(s, k) \in S
  BY <1>1
<1>3. PICK f \in [0..N -> S] : f[0] = 0 /\ \A k \in 1..N : f[k] = Op(f[k - 1], k)
  <2> HIDE DEF Op, S, N
  <2>1. g \in [S \X (1..N) -> S]
    BY <1>2
  <2>2. PICK f : ReadBy(f, N, S, 0, g)
    <3> HIDE DEF g
    <3> QED
      BY <1>1, <2>1, Reading
  <2>3. \A k \in 1..N : f[k - 1] \in S
    BY <1>1, <2>2 DEF ReadBy
  <2>4. \A k \in 1..N : g[<<f[k - 1], k>>] = Op(f[k - 1], k)
    BY <2>3
  <2> QED
    BY <2>2, <2>4 DEF ReadBy
<1> DEFINE Round(h, k) == IF k = 0 THEN 0 ELSE Op(h[k - 1], k)
           st[k \in 0..N] == IF k = 0 THEN 0 ELSE st[k - 1] + ls[k][field]
<1>4. Sums!Total(ls, field) = st[N]
  BY DEF Sums!Total
<1>5. st = [k \in 0..N |-> Round(st, k)]
  <2>1. f = [k \in 0..N |-> Round(f, k)]
    <3> HIDE DEF Op, S, N
    <3> QED
      BY <1>1, <1>3
  <2> HIDE DEF N, S
  <2> QED
    BY <2>1
<1> HIDE DEF st, N, S, Op
<1>6. st[0] = 0 /\ \A k \in 1..N : st[k] = Op(st[k - 1], k)
  <2> DEFINE h == [k \in 0..N |-> Round(st, k)]
  <2>1. h[0] = 0 /\ \A k \in 1..N : h[k] = Op(st[k - 1], k)
    BY <1>1
  <2> HIDE DEF h, Round
  <2> QED
    BY <1>5, <2>1 DEF h
<1>7. 0..N \subseteq {k \in 0..N : st[k] = f[k]}
  <2> DEFINE A == {k \in 0..N : st[k] = f[k]}
  <2>1. 0 \in A /\ \A k \in 1..N : k - 1 \in A => k \in A
    BY <1>1, <1>3, <1>6
  <2> HIDE DEF A
  <2> QED
    BY <1>1, <2>1, EveryRound DEF A
<1>8. st[N] = f[N]
  BY <1>1, <1>7
<1> QED
  BY <1>3, <1>4, <1>8 DEF N, S, Op


\* If no story is under the floor their aggregate is not.
LEMMA NoneBelow ==
  ASSUME NEW ls, Len(ls) \in Nat, \A i \in 1..Len(ls) : ls[i] \in Sums!MarginRow,
         NEW floor \in Sums!Floors,
         \A i \in 1..Len(ls) : ~Sums!Below(ls[i].human, ls[i].gated, floor)
  PROVE  ~Sums!Below(Sums!Total(ls, "human"), Sums!Total(ls, "gated"), floor)
<1> DEFINE N == Len(ls)
           n == floor.n
           d == floor.d
<1>1. n \in Nat /\ d \in Nat
  BY DEF Sums!Floors
<1>2. \A i \in 1..N : ls[i]["human"] \in Nat /\ ls[i]["gated"] \in Nat
  BY DEF Sums!MarginRow
<1>3. \A i \in 1..N : ls[i]["human"] * d >= n * ls[i]["gated"]
  <2>1. \A i \in 1..N : ~(ls[i]["human"] * d < n * ls[i]["gated"])
    BY DEF Sums!Below
  <2>2. \A i \in 1..N : ls[i]["human"] * d \in Nat /\ n * ls[i]["gated"] \in Nat
    BY <1>1, <1>2
  <2> HIDE DEF n, d, N
  <2> QED
    BY <2>1, <2>2
<1>4. PICK h \in [0..N -> Nat] : /\ h[0] = 0 /\ \A k \in 1..N : h[k] = h[k - 1] + ls[k]["human"]
                                 /\ Sums!Total(ls, "human") = h[N]
  BY <1>2, TotalRounds
<1>5. PICK g \in [0..N -> Nat] : /\ g[0] = 0 /\ \A k \in 1..N : g[k] = g[k - 1] + ls[k]["gated"]
                                 /\ Sums!Total(ls, "gated") = g[N]
  BY <1>2, TotalRounds
<1> DEFINE A == {k \in 0..N : h[k] * d >= n * g[k]}
<1> HIDE DEF n, d, N
<1>6. 0 \in A
  BY <1>1, <1>4, <1>5, N \in Nat DEF N
<1>7. ASSUME NEW k \in 1..N, k - 1 \in A
      PROVE  k \in A
  <2> DEFINE a == h[k - 1]
             b == g[k - 1]
             x == ls[k]["human"]
             y == ls[k]["gated"]
  <2>1. N \in Nat /\ k - 1 \in 0..N /\ k \in 0..N
    BY DEF N
  <2>2. a \in Nat /\ b \in Nat /\ x \in Nat /\ y \in Nat /\ a * d >= n * b /\ x * d >= n * y
    BY <1>2, <1>3, <1>7, <2>1
  <2>3. h[k] = a + x /\ g[k] = b + y
    BY <1>4, <1>5
  <2> HIDE DEF a, b, x, y
  <2>4. (a + x) * d = a * d + x * d /\ n * (b + y) = n * b + n * y
    BY <1>1, <2>2
  <2>5. a * d \in Nat /\ x * d \in Nat /\ n * b \in Nat /\ n * y \in Nat
    BY <1>1, <2>2
  <2>6. (a + x) * d >= n * (b + y)
    BY <2>2, <2>4, <2>5
  <2> QED
    BY <2>1, <2>3, <2>6
<1>8. N \in Nat /\ N \in A
  <2>1. N \in Nat
    BY DEF N
  <2>2. 0..N \subseteq A
    <3> HIDE DEF A
    <3> QED
      BY <1>6, <1>7, <2>1, EveryRound
  <2> QED
    BY <2>1, <2>2
<1>9. h[N] * d \in Nat /\ n * g[N] \in Nat
  <2>1. h[N] \in Nat /\ g[N] \in Nat
    BY <1>8
  <2> QED
    BY <1>1, <2>1
<1>10. ~(h[N] * d < n * g[N])
  BY <1>8, <1>9
<1> QED
  BY <1>4, <1>5, <1>10 DEF Sums!Below, n, d

\* A verdict of margin-ledger is about the stories one by one.
LEMMA MarginsRead ==
  ASSUME NEW ls \in Seq(Sums!MarginRow \cup {Sums!Bad}), NEW floor \in Sums!Floors,
         Sums!MarginExit([readable |-> TRUE, rows |-> ls], floor) \in {0, 1}
  PROVE  Sums!MarginExit([readable |-> TRUE, rows |-> ls], floor) = 0
           <=> \A i \in 1..Len(ls) : ~Sums!Below(ls[i].human, ls[i].gated, floor)
<1> DEFINE file == [readable |-> TRUE, rows |-> ls]
           code == Sums!MarginExit(file, floor)
<1>1. Len(ls) \in Nat /\ \A i \in 1..Len(ls) : ls[i] \in Sums!MarginRow \cup {Sums!Bad}
  BY ElementOfSeq
<1>2. file.readable = TRUE /\ file.rows = ls
  OBVIOUS
<1>3. floor.n \in Nat
  BY DEF Sums!Floors
<1> HIDE DEF file
<1>4. code = IF floor.n = 0 THEN 3
             ELSE IF ls = <<>> \/ (\E i \in DOMAIN ls : ls[i] = Sums!Bad) THEN 2
             ELSE IF Sums!Breach(ls, floor) THEN 1 ELSE 0
  BY <1>2, <1>3 DEF Sums!MarginExit
<1>5. ~(\E i \in DOMAIN ls : ls[i] = Sums!Bad) /\ (code = 0 <=> ~Sums!Breach(ls, floor))
  BY <1>4 DEF file
<1>6. \A i \in 1..Len(ls) : ls[i] \in Sums!MarginRow
  <2>1. DOMAIN ls = 1..Len(ls)
    BY <1>1
  <2> QED
    BY <1>1, <1>5, <2>1
<1>7. Sums!Breach(ls, floor) <=> \E i \in 1..Len(ls) : Sums!Below(ls[i].human, ls[i].gated, floor)
  BY <1>1, <1>6, NoneBelow DEF Sums!Breach
<1> QED
  BY <1>5, <1>7 DEF file

-----------------------------------------------------------------------------
(* review-record *)

\* The options read so far, and the entries.
Options == [paths : {0, 1}, min : Int, error : BOOLEAN, help : BOOLEAN]
Scans == [entries : Nat, seen : SUBSET Ids, problem : BOOLEAN, fatal : BOOLEAN]

\* A command line is read word by word.
LEMMA OptionRounds ==
  ASSUME NEW argv \in Seq(Review!Word)
  PROVE  \E f \in [0..Len(argv) -> Options] : /\ f[0] = Review!Args0
                                              /\ \A k \in 1..Len(argv) : f[k] = Review!ParseArg(f[k - 1], argv[k])
                                              /\ Review!ParseArgs(argv).min = f[Len(argv)].min
<1> DEFINE N == Len(argv)
           S == Options
           Op(s, k) == Review!ParseArg(s, argv[k])
           g == [p \in S \X (1..N) |-> Op(p[1], p[2])]
<1>1. N \in Nat /\ Review!Args0 \in S
  BY ElementOfSeq DEF Review!Args0, Options
<1>2. \A s \in S : \A k \in 1..N : Op(s, k) \in S
  <2>1. SUFFICES ASSUME NEW s \in Options, NEW k \in 1..N
        PROVE  Review!ParseArg(s, argv[k]) \in Options
    OBVIOUS
  <2>2. argv[k].is = "min" => argv[k].n \in Int
    BY ElementOfSeq DEF Review!Word
  <2> DEFINE word == argv[k]
  <2> HIDE DEF word
  <2>3. Review!ParseArg(s, word) \in Options
    BY <2>2 DEF Review!ParseArg, Options, word
  <2> QED
    BY <2>3 DEF word
<1>3. PICK f \in [0..N -> S] : f[0] = Review!Args0 /\ \A k \in 1..N : f[k] = Op(f[k - 1], k)
  <2> HIDE DEF Op, S, N
  <2>1. g \in [S \X (1..N) -> S]
    BY <1>2
  <2>2. PICK f : ReadBy(f, N, S, Review!Args0, g)
    <3> HIDE DEF g
    <3> QED
      BY <1>1, <2>1, Reading
  <2>3. \A k \in 1..N : f[k - 1] \in S
    BY <1>1, <2>2 DEF ReadBy
  <2>4. \A k \in 1..N : g[<<f[k - 1], k>>] = Op(f[k - 1], k)
    BY <2>3
  <2> QED
    BY <2>2, <2>4 DEF ReadBy
<1> DEFINE Round(h, k) == IF k = 0 THEN Review!Args0 ELSE Op(h[k - 1], k)
           st[k \in 0..N] == IF k = 0 THEN Review!Args0 ELSE Review!ParseArg(st[k - 1], argv[k])
<1>4. Review!ParseArgs(argv).min = st[N].min
  BY DEF Review!ParseArgs
<1>5. st = [k \in 0..N |-> Round(st, k)]
  <2>1. f = [k \in 0..N |-> Round(f, k)]
    <3> HIDE DEF Op, S, N
    <3> QED
      BY <1>1, <1>3
  <2> HIDE DEF N, S
  <2> QED
    BY <2>1
<1> HIDE DEF st, N, S, Op
<1>6. st[0] = Review!Args0 /\ \A k \in 1..N : st[k] = Op(st[k - 1], k)
  <2> DEFINE h == [k \in 0..N |-> Round(st, k)]
  <2>1. h[0] = Review!Args0 /\ \A k \in 1..N : h[k] = Op(st[k - 1], k)
    BY <1>1
  <2> HIDE DEF h, Round
  <2> QED
    BY <1>5, <2>1 DEF h
<1>7. 0..N \subseteq {k \in 0..N : st[k] = f[k]}
  <2> DEFINE A == {k \in 0..N : st[k] = f[k]}
  <2>1. 0 \in A /\ \A k \in 1..N : k - 1 \in A => k \in A
    BY <1>1, <1>3, <1>6
  <2> HIDE DEF A
  <2> QED
    BY <1>1, <2>1, EveryRound DEF A
<1>8. st[N] = f[N]
  BY <1>1, <1>7
<1> QED
  BY <1>3, <1>4, <1>8 DEF N, S, Op

\* What one line changes.
LEMMA ScanForms ==
  ASSUME NEW s \in Scans, NEW key
  PROVE  /\ s.entries \in Nat /\ s.seen \subseteq Ids /\ s.problem \in BOOLEAN /\ s.fatal \in BOOLEAN
         /\ [s EXCEPT !.problem = TRUE]
              = [entries |-> s.entries, seen |-> s.seen, problem |-> TRUE, fatal |-> s.fatal]
         /\ [s EXCEPT !.fatal = TRUE]
              = [entries |-> s.entries, seen |-> s.seen, problem |-> s.problem, fatal |-> TRUE]
         /\ [s EXCEPT !.entries = @ + 1, !.seen = @ \cup {key}]
              = [entries |-> s.entries + 1, seen |-> s.seen \cup {key}, problem |-> s.problem, fatal |-> s.fatal]
<1>1. s.entries \in Nat /\ s.seen \subseteq Ids /\ s.problem \in BOOLEAN /\ s.fatal \in BOOLEAN
  BY DEF Scans
<1> DEFINE a == s.entries
           b == s.seen
           c == s.problem
           d == s.fatal
           e == s.entries + 1
           f == s.seen \cup {key}
<1>2. s = [entries |-> a, seen |-> b, problem |-> c, fatal |-> d]
  BY DEF Scans
<1>3. [s EXCEPT !.entries = @ + 1, !.seen = @ \cup {key}] = [s EXCEPT !.entries = e, !.seen = f]
  OBVIOUS
<1> HIDE DEF a, b, c, d, e, f
<1> DEFINE faulty == [s EXCEPT !.problem = TRUE]
           hidden == [s EXCEPT !.fatal = TRUE]
           more == [s EXCEPT !.entries = e, !.seen = f]
<1>4. faulty = [entries |-> a, seen |-> b, problem |-> TRUE, fatal |-> d]
  <2>1. faulty = [[entries |-> a, seen |-> b, problem |-> c, fatal |-> d] EXCEPT !.problem = TRUE]
    BY <1>2
  <2> HIDE DEF faulty
  <2> QED
    BY <2>1, Zenon
<1>5. hidden = [entries |-> a, seen |-> b, problem |-> c, fatal |-> TRUE]
  <2>1. hidden = [[entries |-> a, seen |-> b, problem |-> c, fatal |-> d] EXCEPT !.fatal = TRUE]
    BY <1>2
  <2> HIDE DEF hidden
  <2> QED
    BY <2>1, Zenon
<1>6. more = [entries |-> e, seen |-> f, problem |-> c, fatal |-> d]
  <2>1. more = [[entries |-> a, seen |-> b, problem |-> c, fatal |-> d] EXCEPT !.entries = e, !.seen = f]
    BY <1>2
  <2> HIDE DEF more
  <2> QED
    BY <2>1, Zenon
<1> QED
  BY <1>1, <1>3, <1>4, <1>5, <1>6 DEF a, b, c, d, e, f

\* A record is scanned line by line.
LEMMA ScanRounds ==
  ASSUME NEW ls \in Seq(Review!Line)
  PROVE  \E f \in [0..Len(ls) -> Scans] : /\ f[0] = Review!Scan0
                                          /\ \A k \in 1..Len(ls) : f[k] = Review!ScanLine(f[k - 1], ls[k])
                                          /\ Review!Scan(ls) = f[Len(ls)]
<1> DEFINE N == Len(ls)
           S == Scans
           Op(s, k) == Review!ScanLine(s, ls[k])
           g == [p \in S \X (1..N) |-> Op(p[1], p[2])]
<1>1. N \in Nat /\ Review!Scan0 \in S
  BY ElementOfSeq DEF Review!Scan0, Scans
<1>2. \A s \in S : \A k \in 1..N : Op(s, k) \in S
  <2>1. SUFFICES ASSUME NEW s \in Scans, NEW k \in 1..N
        PROVE  Review!ScanLine(s, ls[k]) \in Scans
    OBVIOUS
  <2> DEFINE line == ls[k]
             key == Review!NormKey(line.id)
  <2>2. line.kind \in {"FOUND", "FALSIFIED"} => key \in Ids
    BY ElementOfSeq DEF Review!Line, Review!Names, Review!NormKey
  <2>3. line.kind \in {"blank", "prose", "FOUND", "FALSIFIED"}
    BY ElementOfSeq DEF Review!Line
  <2>4. Review!ScanLine(s, line)
          = IF s.fatal \/ line.kind = "blank" THEN s
            ELSE IF line.kind = "prose" THEN [s EXCEPT !.problem = TRUE]
            ELSE IF Review!Invisible(line.id) THEN [s EXCEPT !.fatal = TRUE]
            ELSE IF key \in s.seen THEN [s EXCEPT !.problem = TRUE]
            ELSE [s EXCEPT !.entries = @ + 1, !.seen = @ \cup {key}]
    BY DEF Review!ScanLine
  <2> HIDE DEF line, key
  <2>5. Review!ScanLine(s, line) \in Scans
    <3>1. [s EXCEPT !.problem = TRUE] \in Scans /\ [s EXCEPT !.fatal = TRUE] \in Scans
      BY ScanForms DEF Scans
    <3>2. key \in Ids => [s EXCEPT !.entries = @ + 1, !.seen = @ \cup {key}] \in Scans
      <4>1. [s EXCEPT !.entries = @ + 1, !.seen = @ \cup {key}]
              = [entries |-> s.entries + 1, seen |-> s.seen \cup {key}, problem |-> s.problem, fatal |-> s.fatal]
        BY ScanForms
      <4>2. s.entries \in Nat /\ s.problem \in BOOLEAN /\ s.fatal \in BOOLEAN /\ s.seen \subseteq Ids
        BY ScanForms
      <4>3. s.entries + 1 \in Nat
        BY <4>2
      <4>4. key \in Ids => s.seen \cup {key} \in SUBSET Ids
        BY <4>2
      <4> QED
        BY <4>1, <4>2, <4>3, <4>4 DEF Scans
    <3> QED
      BY <2>2, <2>3, <2>4, <3>1, <3>2
  <2> QED
    BY <2>5 DEF line
<1>3. PICK f \in [0..N -> S] : f[0] = Review!Scan0 /\ \A k \in 1..N : f[k] = Op(f[k - 1], k)
  <2> HIDE DEF Op, S, N
  <2>1. g \in [S \X (1..N) -> S]
    BY <1>2
  <2>2. PICK f : ReadBy(f, N, S, Review!Scan0, g)
    <3> HIDE DEF g
    <3> QED
      BY <1>1, <2>1, Reading
  <2>3. \A k \in 1..N : f[k - 1] \in S
    BY <1>1, <2>2 DEF ReadBy
  <2>4. \A k \in 1..N : g[<<f[k - 1], k>>] = Op(f[k - 1], k)
    BY <2>3
  <2> QED
    BY <2>2, <2>4 DEF ReadBy
<1> DEFINE Round(h, k) == IF k = 0 THEN Review!Scan0 ELSE Op(h[k - 1], k)
           st[k \in 0..N] == IF k = 0 THEN Review!Scan0 ELSE Review!ScanLine(st[k - 1], ls[k])
<1>4. Review!Scan(ls) = st[N]
  BY DEF Review!Scan
<1>5. st = [k \in 0..N |-> Round(st, k)]
  <2>1. f = [k \in 0..N |-> Round(f, k)]
    <3> HIDE DEF Op, S, N
    <3> QED
      BY <1>1, <1>3
  <2> HIDE DEF N, S
  <2> QED
    BY <2>1
<1> HIDE DEF st, N, S, Op
<1>6. st[0] = Review!Scan0 /\ \A k \in 1..N : st[k] = Op(st[k - 1], k)
  <2> DEFINE h == [k \in 0..N |-> Round(st, k)]
  <2>1. h[0] = Review!Scan0 /\ \A k \in 1..N : h[k] = Op(st[k - 1], k)
    BY <1>1
  <2> HIDE DEF h, Round
  <2> QED
    BY <1>5, <2>1 DEF h
<1>7. 0..N \subseteq {k \in 0..N : st[k] = f[k]}
  <2> DEFINE A == {k \in 0..N : st[k] = f[k]}
  <2>1. 0 \in A /\ \A k \in 1..N : k - 1 \in A => k \in A
    BY <1>1, <1>3, <1>6
  <2> HIDE DEF A
  <2> QED
    BY <1>1, <2>1, EveryRound DEF A
<1>8. st[N] = f[N]
  BY <1>1, <1>7
<1> QED
  BY <1>3, <1>4, <1>8 DEF N, S, Op


\* The gate counts as this module does.
LEMMA ReviewCounts == \A S : Review!Cardinality(S) = Cardinality(S)
BY DEF Review!Cardinality, Cardinality

\* What is known after k lines: the keys of the entries, and whether something else,
\* or an entry again, was among them.
Scanned(ls, k, s) ==
  LET E == {i \in 1..k : ls[i].kind \in {"FOUND", "FALSIFIED"}}
      key(i) == Review!NormKey(ls[i].id)
  IN  /\ s.fatal <=> \E i \in E : Review!Invisible(ls[i].id)
      /\ ~s.fatal =>
           /\ s.seen = {key(i) : i \in E} /\ IsFiniteSet(s.seen) /\ s.entries = Cardinality(s.seen)
           /\ s.problem <=> \/ \E i \in 1..k : ls[i].kind = "prose"
                            \/ \E i, j \in E : i # j /\ key(i) = key(j)

\* Each line is scanned after the ones before.
LEMMA ScansOn ==
  ASSUME NEW ls \in Seq(Review!Line), NEW k \in 1..Len(ls), NEW s \in Scans, Scanned(ls, k - 1, s)
  PROVE  Scanned(ls, k, Review!ScanLine(s, ls[k]))
<1> DEFINE E(n) == {i \in 1..n : ls[i].kind \in {"FOUND", "FALSIFIED"}}
           key(i) == Review!NormKey(ls[i].id)
           hidden(i) == Review!Invisible(ls[i].id)
           Hid(n) == \E i \in E(n) : hidden(i)
           Keys(n) == {key(i) : i \in E(n)}
           Prose(n) == \E i \in 1..n : ls[i].kind = "prose"
           Again(n) == \E i, j \in E(n) : i # j /\ key(i) = key(j)
           Known(n, t) == /\ t.fatal <=> Hid(n)
                          /\ ~t.fatal => /\ t.seen = Keys(n) /\ IsFiniteSet(t.seen) /\ t.entries = Cardinality(t.seen)
                                         /\ t.problem <=> Prose(n) \/ Again(n)
           line == ls[k]
           entry == line.kind \in {"FOUND", "FALSIFIED"}
           then == Review!ScanLine(s, line)
<1>0. SUFFICES Known(k, then)
  BY DEF Scanned
<1>1. k \in Nat /\ k >= 1 /\ (\A i : i \in 1..k <=> i \in 1..(k - 1) \/ i = k) /\ k \notin 1..(k - 1)
  BY ElementOfSeq
<1>2. line.kind \in {"blank", "prose", "FOUND", "FALSIFIED"}
  BY ElementOfSeq DEF Review!Line
<1>3. then = IF s.fatal \/ line.kind = "blank" THEN s
             ELSE IF line.kind = "prose" THEN [s EXCEPT !.problem = TRUE]
             ELSE IF hidden(k) THEN [s EXCEPT !.fatal = TRUE]
             ELSE IF key(k) \in s.seen THEN [s EXCEPT !.problem = TRUE]
             ELSE [s EXCEPT !.entries = @ + 1, !.seen = @ \cup {key(k)}]
  BY DEF Review!ScanLine
<1>4. Known(k - 1, s)
  BY DEF Scanned
<1>5. /\ E(k) = (IF entry THEN E(k - 1) \cup {k} ELSE E(k - 1)) /\ k \notin E(k - 1)
      /\ Prose(k) <=> Prose(k - 1) \/ line.kind = "prose"
  BY <1>1
<1>6. [s EXCEPT !.problem = TRUE] = [entries |-> s.entries, seen |-> s.seen, problem |-> TRUE, fatal |-> s.fatal]
  BY ScanForms
<1>7. [s EXCEPT !.fatal = TRUE] = [entries |-> s.entries, seen |-> s.seen, problem |-> s.problem, fatal |-> TRUE]
  BY ScanForms
<1>8. [s EXCEPT !.entries = @ + 1, !.seen = @ \cup {key(k)}]
        = [entries |-> s.entries + 1, seen |-> s.seen \cup {key(k)}, problem |-> s.problem, fatal |-> s.fatal]
  BY ScanForms
<1>9. s.entries \in Nat
  BY DEF Scans
<1> HIDE DEF E, key, hidden, line, then
<1>10. /\ entry => (Hid(k) <=> Hid(k - 1) \/ hidden(k)) /\ Keys(k) = Keys(k - 1) \cup {key(k)}
                    /\ (Again(k) <=> Again(k - 1) \/ key(k) \in Keys(k - 1))
       /\ ~entry => E(k) = E(k - 1)
  BY <1>5
<1> HIDE DEF Hid, Keys, Prose, Again
<1>11. ASSUME ~entry
       PROVE  (Hid(k) <=> Hid(k - 1)) /\ Keys(k) = Keys(k - 1) /\ (Again(k) <=> Again(k - 1))
  BY <1>5, <1>11 DEF Hid, Keys, Again
<1>12. CASE s.fatal
  BY <1>3, <1>4, <1>10, <1>11, <1>12
<1>13. CASE ~s.fatal /\ ~entry
  <2>1. CASE line.kind = "blank"
    BY <1>3, <1>4, <1>5, <1>11, <1>13, <2>1
  <2>2. CASE line.kind = "prose"
    <3>1. then = [entries |-> s.entries, seen |-> s.seen, problem |-> TRUE, fatal |-> s.fatal]
      BY <1>3, <1>6, <1>13, <2>2
    <3> QED
      BY <1>4, <1>5, <1>11, <1>13, <2>2, <3>1
  <2> QED
    BY <1>2, <1>13, <2>1, <2>2
<1>14. CASE ~s.fatal /\ entry /\ hidden(k)
  <2>1. then = [entries |-> s.entries, seen |-> s.seen, problem |-> s.problem, fatal |-> TRUE]
    BY <1>3, <1>7, <1>14
  <2> QED
    BY <1>10, <1>14, <2>1
<1>15. CASE ~s.fatal /\ entry /\ ~hidden(k) /\ key(k) \in s.seen
  <2>1. then = [entries |-> s.entries, seen |-> s.seen, problem |-> TRUE, fatal |-> s.fatal]
    BY <1>3, <1>6, <1>15
  <2>2. Keys(k) = s.seen /\ Again(k)
    BY <1>4, <1>10, <1>15
  <2> QED
    BY <1>4, <1>10, <1>15, <2>1, <2>2
<1>16. CASE ~s.fatal /\ entry /\ ~hidden(k) /\ key(k) \notin s.seen
  <2>1. then = [entries |-> s.entries + 1, seen |-> s.seen \cup {key(k)}, problem |-> s.problem, fatal |-> s.fatal]
    BY <1>3, <1>8, <1>16
  <2>2. Keys(k) = s.seen \cup {key(k)} /\ (Again(k) <=> Again(k - 1))
    BY <1>4, <1>10, <1>16
  <2>3. IsFiniteSet(s.seen \cup {key(k)}) /\ Cardinality(s.seen \cup {key(k)}) = s.entries + 1
    BY <1>4, <1>16, FS_AddElement
  <2> QED
    BY <1>4, <1>5, <1>10, <1>16, <2>1, <2>2, <2>3
<1> QED
  BY <1>12, <1>13, <1>14, <1>15, <1>16

\* A verdict of review-record is that of a reader of the whole list.
LEMMA ReviewReads ==
  ASSUME NEW ls \in Seq(Review!Line), NEW argv \in Seq(Review!Word), NEW refusal,
         ~Review!ParseArgs(argv).help,
         Review!Exit(argv, [refusal |-> refusal, lines |-> ls]) # 2
  PROVE  Review!Exit(argv, [refusal |-> refusal, lines |-> ls]) = 0
           <=> Review!IsReview(ls, Review!ParseArgs(argv).min)
<1> DEFINE N == Len(ls)
           E == {i \in 1..N : ls[i].kind \in {"FOUND", "FALSIFIED"}}
           key == [i \in E |-> Review!NormKey(ls[i].id)]
           least == Review!ParseArgs(argv).min
           s == Review!Scan(ls)
           Keys == {key[i] : i \in E}
           Prose == \E i \in 1..N : ls[i].kind = "prose"
           code == Review!Exit(argv, [refusal |-> refusal, lines |-> ls])
<1>1. N \in Nat
  BY ElementOfSeq
<1>2. least \in Int
  <2>1. PICK f \in [0..Len(argv) -> Options] : least = f[Len(argv)].min
    BY OptionRounds
  <2>2. Len(argv) \in 0..Len(argv)
    BY ElementOfSeq
  <2> HIDE DEF least
  <2> QED
    BY <2>1, <2>2 DEF Options
<1>3. Scanned(ls, N, s)
  <2>1. PICK f \in [0..N -> Scans] : /\ f[0] = Review!Scan0
                                     /\ \A k \in 1..N : f[k] = Review!ScanLine(f[k - 1], ls[k])
                                     /\ s = f[N]
    BY ScanRounds
  <2> DEFINE A == {k \in 0..N : Scanned(ls, k, f[k])}
  <2>2. Scanned(ls, 0, Review!Scan0)
    <3>1. 1..0 = {} /\ IsFiniteSet({}) /\ Cardinality({}) = 0
      BY FS_EmptySet
    <3> QED
      BY <3>1 DEF Scanned, Review!Scan0
  <2>3. 0 \in A /\ \A k \in 1..N : k - 1 \in A => k \in A
    <3>1. \A k \in 1..N : f[k - 1] \in Scans /\ k \in 0..N
      BY <1>1
    <3> HIDE DEF N
    <3> QED
      BY <1>1, <2>1, <2>2, <3>1, ScansOn DEF N
  <2>4. 0..N \subseteq A
    <3> HIDE DEF A, N
    <3> QED
      BY <1>1, <2>3, EveryRound
  <2> HIDE DEF s, N
  <2> QED
    BY <1>1, <2>1, <2>4
<1>4. ~s.fatal /\ (code = 0 <=> ~s.problem /\ ~(s.entries < least))
  <2> DEFINE file == [refusal |-> refusal, lines |-> ls]
  <2>1. file.lines = ls
    OBVIOUS
  <2> HIDE DEF file
  <2>2. code = 2 \/ code = IF s.fatal THEN 2 ELSE IF s.problem \/ s.entries < least THEN 1 ELSE 0
    BY <2>1 DEF Review!Exit, file
  <2> HIDE DEF code, s, least
  <2> QED
    BY <2>2 DEF code
<1>5. /\ \A i \in E : ~Review!Invisible(ls[i].id)
      /\ s.seen = {Review!NormKey(ls[i].id) : i \in E} /\ s.entries = Cardinality(s.seen)
      /\ s.problem <=> Prose \/ \E i, j \in E : i # j /\ Review!NormKey(ls[i].id) = Review!NormKey(ls[j].id)
  BY <1>3, <1>4 DEF Scanned
<1>6. s.seen = Keys /\ (s.problem <=> Prose \/ \E i, j \in E : i # j /\ key[i] = key[j])
  <2>1. \A i \in E : key[i] = Review!NormKey(ls[i].id)
    OBVIOUS
  <2> HIDE DEF E, key, s
  <2> QED
    BY <1>5, <2>1
<1>7. IsFiniteSet(E) /\ Cardinality(E) \in Nat
  <2>1. IsFiniteSet(1..N)
    BY <1>1, FS_Interval
  <2> QED
    BY <2>1, FS_Subset, FS_CardinalityType
<1>8. /\ Cardinality(Keys) \in Nat
      /\ Cardinality(Keys) = Cardinality(E) <=> \A i, j \in E : key[i] = key[j] => i = j
  <2>1. key \in [E -> Keys]
    OBVIOUS
  <2> HIDE DEF key, E
  <2> QED
    BY <1>7, <2>1, ValuesCount
<1>9. Review!IsReview(ls, least)
        <=> ~Prose /\ Cardinality(Keys) = Cardinality(E) /\ Cardinality(E) >= least
  <2>1. Keys = {ls[i].id[1] : i \in E}
    BY DEF Review!NormKey
  <2>2. Review!IsReview(ls, least)
          <=> /\ \A i \in 1..N : ls[i].kind # "prose"
              /\ \A i \in E : ~Review!Invisible(ls[i].id)
              /\ Review!Cardinality({ls[i].id[1] : i \in E}) = Review!Cardinality(E)
              /\ Review!Cardinality(E) >= least
    BY DEF Review!IsReview
  <2> HIDE DEF Keys, E, least
  <2> QED
    BY <1>5, <2>1, <2>2, ReviewCounts
<1> DEFINE Again == \E i, j \in E : i # j /\ key[i] = key[j]
           a == Cardinality(Keys)
           b == Cardinality(E)
<1>10. (a = b <=> ~Again) /\ (s.problem <=> Prose \/ Again)
  <2> HIDE DEF E, key, Keys, s, Prose
  <2> QED
    BY <1>6, <1>8
<1>11. s.entries = a
  BY <1>5, <1>6
<1> HIDE DEF E, key, Keys, Prose, s, least, code, Again, a, b
<1>12. a \in Nat /\ b \in Nat
  BY <1>7, <1>8 DEF a, b
<1>13. ~s.problem /\ ~(a < least) <=> ~Prose /\ a = b /\ b >= least
  BY <1>2, <1>10, <1>12
<1> QED
  BY <1>4, <1>9, <1>11, <1>13 DEF code, least, a, b

-----------------------------------------------------------------------------
(* inventory *)

\* The gates count as this module does.
LEMMA PromptCounts == \A S : Prompts!Cardinality(S) = Cardinality(S)
BY DEF Prompts!Cardinality, Cardinality

\* How many of A there are up to k.
HowMany(A, k) == Cardinality({i \in 1..k : i \in A})

\* Line by line, the number rises by one where there is one.
LEMMA OneMore ==
  ASSUME NEW A
  PROVE  /\ HowMany(A, 0) = 0
         /\ \A k \in Nat : HowMany(A, k) \in Nat
         /\ \A k \in Nat \ {0} : HowMany(A, k) = HowMany(A, k - 1) + IF k \in A THEN 1 ELSE 0
<1> DEFINE B(k) == {i \in 1..k : i \in A}
<1>1. \A k \in Nat : IsFiniteSet(B(k)) /\ Cardinality(B(k)) \in Nat
  <2>1. SUFFICES ASSUME NEW k \in Nat
        PROVE  IsFiniteSet(B(k)) /\ Cardinality(B(k)) \in Nat
    OBVIOUS
  <2>2. IsFiniteSet(1..k)
    BY 1 \in Int /\ k \in Int, FS_Interval
  <2> QED
    BY <2>2, FS_Subset, FS_CardinalityType
<1>2. B(0) = {}
  OBVIOUS
<1>3. ASSUME NEW k \in Nat \ {0}
      PROVE  Cardinality(B(k)) = Cardinality(B(k - 1)) + IF k \in A THEN 1 ELSE 0
  <2>1. k - 1 \in Nat /\ k \notin B(k - 1)
    OBVIOUS
  <2>2. B(k) = IF k \in A THEN B(k - 1) \cup {k} ELSE B(k - 1)
    OBVIOUS
  <2>3. k \notin A => Cardinality(B(k - 1)) = Cardinality(B(k - 1)) + 0
    BY <1>1, <2>1
  <2> HIDE DEF B
  <2>4. k \in A => Cardinality(B(k - 1) \cup {k}) = Cardinality(B(k - 1)) + 1
    BY <1>1, <2>1, FS_AddElement
  <2> QED
    BY <2>2, <2>3, <2>4
<1> QED
  BY <1>1, <1>2, <1>3, FS_EmptySet DEF HowMany

\* The elements up to k are the first, the second, and so on.
LEMMA Numbered ==
  ASSUME NEW A, NEW N \in Nat
  PROVE  {HowMany(A, i) : i \in {j \in 1..N : j \in A}} = 1..HowMany(A, N)
<1> DEFINE Nos(k) == {HowMany(A, i) : i \in {j \in 1..k : j \in A}}
           M == {k \in 0..N : Nos(k) = 1..HowMany(A, k)}
<1>1. 0 \in M
  BY OneMore
<1>2. ASSUME NEW k \in 1..N, k - 1 \in M
      PROVE  k \in M
  <2>1. k - 1 \in Nat /\ k \in Nat \ {0} /\ k \in 0..N
    OBVIOUS
  <2>2. Nos(k) = IF k \in A THEN Nos(k - 1) \cup {HowMany(A, k)} ELSE Nos(k - 1)
    <3>1. {j \in 1..k : j \in A} = {j \in 1..(k - 1) : j \in A} \cup IF k \in A THEN {k} ELSE {}
      BY <2>1
    <3> QED
      BY <3>1
  <2>3. /\ HowMany(A, k - 1) \in Nat
        /\ HowMany(A, k) = HowMany(A, k - 1) + IF k \in A THEN 1 ELSE 0
    BY <2>1, OneMore
  <2>4. Nos(k - 1) = 1..HowMany(A, k - 1)
    BY <1>2
  <2> DEFINE a == HowMany(A, k - 1)
             b == HowMany(A, k)
  <2> HIDE DEF Nos, a, b
  <2>5. a \in Nat => 1..(a + 1) = (1..a) \cup {a + 1}
    OBVIOUS
  <2>6. Nos(k) = 1..b
    <3>1. Nos(k) = IF k \in A THEN (1..a) \cup {b} ELSE 1..a
      BY <2>2, <2>4 DEF a, b
    <3>2. a \in Nat /\ b = a + IF k \in A THEN 1 ELSE 0
      BY <2>3 DEF a, b
    <3>3. k \notin A => b = a
      BY <3>2
    <3>4. k \in A => b = a + 1
      BY <3>2
    <3> QED
      BY <2>5, <3>1, <3>2, <3>3, <3>4
  <2> QED
    BY <2>1, <2>6 DEF Nos, b
<1>3. 0..N \subseteq M
  <2> HIDE DEF M
  <2> QED
    BY <1>1, <1>2, EveryRound
<1> QED
  BY <1>3

\* What is open, and the rules so far.
Extracts == [fenced : BOOLEAN, rules : Seq(Nat)]
ExtractOne(ls, s, k) ==
  IF ls[k].is = "fence" THEN [fenced |-> ~s.fenced, rules |-> s.rules]
  ELSE IF ls[k].is = "item" /\ ~s.fenced THEN [fenced |-> FALSE, rules |-> Append(s.rules, k)]
  ELSE s

\* A prompt is read line by line.
LEMMA ExtractRounds ==
  ASSUME NEW ls \in Seq(Prompts!PromptLine)
  PROVE  \E f \in [0..Len(ls) -> Extracts] : /\ f[0] = [fenced |-> FALSE, rules |-> <<>>]
                                             /\ \A k \in 1..Len(ls) : f[k] = ExtractOne(ls, f[k - 1], k)
                                             /\ Prompts!Extract(ls) = f[Len(ls)].rules
<1> DEFINE N == Len(ls)
           S == Extracts
           Op(s, k) == ExtractOne(ls, s, k)
           g == [p \in S \X (1..N) |-> Op(p[1], p[2])]
<1>1. N \in Nat /\ [fenced |-> FALSE, rules |-> <<>>] \in S
  BY ElementOfSeq DEF Extracts
<1>2. \A s \in S : \A k \in 1..N : Op(s, k) \in S
  BY <1>1 DEF ExtractOne, Extracts
<1>3. PICK f \in [0..N -> S] : f[0] = [fenced |-> FALSE, rules |-> <<>>] /\ \A k \in 1..N : f[k] = Op(f[k - 1], k)
  <2> HIDE DEF Op, S, N
  <2>1. g \in [S \X (1..N) -> S]
    BY <1>2
  <2>2. PICK f : ReadBy(f, N, S, [fenced |-> FALSE, rules |-> <<>>], g)
    <3> HIDE DEF g
    <3> QED
      BY <1>1, <2>1, Reading
  <2>3. \A k \in 1..N : f[k - 1] \in S
    BY <1>1, <2>2 DEF ReadBy
  <2>4. \A k \in 1..N : g[<<f[k - 1], k>>] = Op(f[k - 1], k)
    BY <2>3
  <2> QED
    BY <2>2, <2>4 DEF ReadBy
<1> DEFINE Round(h, k) == IF k = 0 THEN [fenced |-> FALSE, rules |-> <<>>] ELSE Op(h[k - 1], k)
           st[k \in 0..N] == IF k = 0 THEN [fenced |-> FALSE, rules |-> <<>>] ELSE ExtractOne(ls, st[k - 1], k)
<1>4. Prompts!Extract(ls) = st[N].rules
  BY DEF Prompts!Extract, ExtractOne
<1>5. st = [k \in 0..N |-> Round(st, k)]
  <2>1. f = [k \in 0..N |-> Round(f, k)]
    <3> HIDE DEF Op, S, N
    <3> QED
      BY <1>1, <1>3
  <2> HIDE DEF N, S
  <2> QED
    BY <2>1
<1> HIDE DEF st, N, S, Op
<1>6. st[0] = [fenced |-> FALSE, rules |-> <<>>] /\ \A k \in 1..N : st[k] = Op(st[k - 1], k)
  <2> DEFINE h == [k \in 0..N |-> Round(st, k)]
  <2>1. h[0] = [fenced |-> FALSE, rules |-> <<>>] /\ \A k \in 1..N : h[k] = Op(st[k - 1], k)
    BY <1>1
  <2> HIDE DEF h, Round
  <2> QED
    BY <1>5, <2>1 DEF h
<1>7. 0..N \subseteq {k \in 0..N : st[k] = f[k]}
  <2> DEFINE A == {k \in 0..N : st[k] = f[k]}
  <2>1. 0 \in A
    <3>1. st[0] = f[0]
      BY <1>3, <1>6, Zenon
    <3> QED
      BY <1>1, <3>1
  <2>2. \A k \in 1..N : k - 1 \in A => k \in A
    <3>1. \A k \in 1..N : f[k] = Op(f[k - 1], k) /\ st[k] = Op(st[k - 1], k)
      BY <1>3, <1>6
    <3> QED
      BY <1>1, <3>1
  <2> HIDE DEF A
  <2> QED
    BY <1>1, <2>1, <2>2, EveryRound DEF A
<1>8. st[N] = f[N]
  BY <1>1, <1>7
<1> QED
  BY <1>3, <1>4, <1>8 DEF N, S, Op


\* What a renderer has open after a line, an opener that nothing closes included.
OpensOne(ls, o, j) ==
  IF o # 0 THEN IF Prompts!Ends(ls, o, j) THEN 0 ELSE o
  ELSE IF ls[j].is = "fence" THEN j ELSE 0

\* It opens and closes fences line by line.
LEMMA OpenAtRounds ==
  ASSUME NEW ls, Len(ls) \in Nat
  PROVE  \E f \in [0..Len(ls) -> Nat] : /\ f[0] = 0
                                        /\ \A k \in 1..Len(ls) : f[k] = OpensOne(ls, f[k - 1], k)
                                        /\ \A k \in 0..Len(ls) : Prompts!OpenAt(ls, k) = f[k]
<1> DEFINE N == Len(ls)
           S == Nat
           Op(s, k) == OpensOne(ls, s, k)
           g == [p \in S \X (1..N) |-> Op(p[1], p[2])]
<1>1. N \in Nat /\ 0 \in S
  OBVIOUS
<1>2. \A s \in S : \A k \in 1..N : Op(s, k) \in S
  BY <1>1 DEF OpensOne
<1>3. PICK f \in [0..N -> S] : f[0] = 0 /\ \A k \in 1..N : f[k] = Op(f[k - 1], k)
  <2> HIDE DEF Op, S, N
  <2>1. g \in [S \X (1..N) -> S]
    BY <1>2
  <2>2. PICK f : ReadBy(f, N, S, 0, g)
    <3> HIDE DEF g
    <3> QED
      BY <1>1, <2>1, Reading
  <2>3. \A k \in 1..N : f[k - 1] \in S
    BY <1>1, <2>2 DEF ReadBy
  <2>4. \A k \in 1..N : g[<<f[k - 1], k>>] = Op(f[k - 1], k)
    BY <2>3
  <2> QED
    BY <2>2, <2>4 DEF ReadBy
<1> DEFINE Round(h, k) == IF k = 0 THEN 0 ELSE Op(h[k - 1], k)
           st[k \in 0..N] == IF k = 0 THEN 0 ELSE OpensOne(ls, st[k - 1], k)
<1>4. \A k : Prompts!OpenAt(ls, k) = st[k]
  BY DEF Prompts!OpenAt, OpensOne
<1>5. st = [k \in 0..N |-> Round(st, k)]
  <2>1. f = [k \in 0..N |-> Round(f, k)]
    <3> HIDE DEF Op, S, N
    <3> QED
      BY <1>1, <1>3
  <2> HIDE DEF N, S
  <2> QED
    BY <2>1
<1> HIDE DEF st, N, S, Op
<1>6. st[0] = 0 /\ \A k \in 1..N : st[k] = Op(st[k - 1], k)
  <2> DEFINE h == [k \in 0..N |-> Round(st, k)]
  <2>1. h[0] = 0 /\ \A k \in 1..N : h[k] = Op(st[k - 1], k)
    BY <1>1
  <2> HIDE DEF h, Round
  <2> QED
    BY <1>5, <2>1 DEF h
<1>7. 0..N \subseteq {k \in 0..N : st[k] = f[k]}
  <2> DEFINE A == {k \in 0..N : st[k] = f[k]}
  <2>1. 0 \in A
    <3>1. st[0] = f[0]
      BY <1>3, <1>6, Zenon
    <3> QED
      BY <1>1, <3>1
  <2>2. \A k \in 1..N : k - 1 \in A => k \in A
    <3>1. \A k \in 1..N : f[k] = Op(f[k - 1], k) /\ st[k] = Op(st[k - 1], k)
      BY <1>3, <1>6
    <3> QED
      BY <1>1, <3>1
  <2> HIDE DEF A
  <2> QED
    BY <1>1, <2>1, <2>2, EveryRound DEF A
<1>8. \A k \in 0..N : Prompts!OpenAt(ls, k) = f[k]
  BY <1>4, <1>7
<1> QED
  BY <1>3, <1>8 DEF N, S, Op

\* Where fences match, one is open below an odd number of fence lines.
LEMMA OpenIsOdd ==
  ASSUME NEW ls, Len(ls) \in Nat, Prompts!FencesMatch(ls), NEW i \in 1..Len(ls)
  PROVE  Prompts!OpenAt(ls, i) = 0 <=> HowMany({k \in 1..Len(ls) : ls[k].is = "fence"}, i) % 2 = 0
<1> DEFINE N == Len(ls)
           F == {k \in 1..N : ls[k].is = "fence"}
           since(j, k) == /\ j \in F /\ j <= k /\ HowMany(F, j - 1) % 2 = 0
                          /\ \A m \in F : m <= j \/ m > k
<1>1. /\ \A m : m \in F <=> m \in 1..N /\ ls[m].is = "fence"
      /\ N \in Nat /\ i \in 0..N
  OBVIOUS
<1>2. PICK o \in [0..N -> Nat] : /\ o[0] = 0
                                 /\ \A k \in 1..N : o[k] = OpensOne(ls, o[k - 1], k)
                                 /\ \A k \in 0..N : Prompts!OpenAt(ls, k) = o[k]
  BY OpenAtRounds
<1> HIDE DEF F
<1>3. \A k \in Nat : HowMany(F, k) \in Nat
  BY OneMore
<1>4. ASSUME NEW j, NEW k \in F, since(j, k - 1)
      PROVE  Prompts!Ends(ls, j, k)
  <2>1. j \in 1..N /\ k \in 1..N /\ ls[j].is = "fence" /\ ls[k].is = "fence" /\ j < k
    BY <1>1, <1>4
  <2>2. \A m \in (j + 1)..(k - 1) : ls[m].is # "fence"
    <3>1. \A m \in (j + 1)..(k - 1) : m \in 1..N /\ ~(m <= j \/ m > k - 1)
      BY <2>1
    <3> QED
      BY <1>1, <1>4, <3>1
  <2>3. {m \in 1..(j - 1) : ls[m].is = "fence"} = {m \in 1..(j - 1) : m \in F}
    BY <1>1, <2>1
  <2>4. Prompts!Cardinality({m \in 1..(j - 1) : ls[m].is = "fence"}) % 2 = 0
    <3>1. HowMany(F, j - 1) % 2 = 0
      BY <1>4
    <3> QED
      BY <2>3, <3>1, PromptCounts DEF HowMany
  <2>5. Prompts!Pair(ls, j, k)
    BY <2>1, <2>2, <2>4 DEF Prompts!Pair
  <2> QED
    BY <2>1, <2>5 DEF Prompts!FencesMatch
<1> DEFINE So(k) == /\ o[k] = 0 <=> HowMany(F, k) % 2 = 0
                    /\ o[k] # 0 => since(o[k], k)
           M == {k \in 0..N : So(k)}
<1>5. 0 \in M
  <2>1. HowMany(F, 0) % 2 = 0 /\ 0 \in 0..N
    BY <1>1, OneMore
  <2> HIDE DEF since
  <2> QED
    BY <1>2, <2>1
<1>6. ASSUME NEW k \in 1..N, k - 1 \in M
      PROVE  k \in M
  <2> DEFINE p == o[k - 1]
             q == o[k]
             a == HowMany(F, k - 1)
             b == HowMany(F, k)
  <2>1. k \in Nat \ {0} /\ k \in 0..N /\ k - 1 \in 0..N /\ k - 1 \in Nat
    BY <1>1
  <2>2. q = OpensOne(ls, p, k)
    BY <1>2
  <2>3. (p = 0 <=> a % 2 = 0) /\ (p # 0 => since(p, k - 1))
    BY <1>6
  <2>4. a \in Nat /\ b = a + IF k \in F THEN 1 ELSE 0
    BY <2>1, OneMore
  <2>5. k \in F <=> ls[k].is = "fence"
    BY <1>1
  <2> HIDE DEF p, q, a, b
  <2>6. CASE k \notin F
    <3>1. q = p /\ b = a
      BY <2>2, <2>4, <2>5, <2>6 DEF OpensOne, Prompts!Ends
    <3>2. since(p, k - 1) => since(p, k)
      <4>1. \A m \in F : m \in Nat /\ (m > k - 1 => m > k)
        BY <1>1, <2>1, <2>6
      <4> QED
        BY <2>1, <4>1
    <3> HIDE DEF since
    <3> QED
      BY <2>1, <2>3, <3>1, <3>2 DEF q, b
  <2>7. CASE k \in F /\ p # 0
    <3>1. Prompts!Ends(ls, p, k)
      <4> HIDE DEF since
      <4> QED
        BY <1>4, <2>3, <2>7
    <3>2. q = 0
      BY <2>2, <2>7, <3>1 DEF OpensOne
    <3>3. b % 2 = 0
      BY <2>3, <2>4, <2>7
    <3> HIDE DEF since
    <3> QED
      BY <2>1, <3>2, <3>3 DEF q, b
  <2>8. CASE k \in F /\ p = 0
    <3>1. q = k /\ q # 0
      BY <2>1, <2>2, <2>5, <2>8 DEF OpensOne
    <3>2. a % 2 = 0 /\ b % 2 # 0
      BY <2>3, <2>4, <2>8
    <3>3. since(k, k)
      <4>1. \A m \in F : m <= k \/ m > k
        BY <1>1, <2>1
      <4> QED
        BY <2>1, <2>8, <3>2, <4>1 DEF a
    <3> HIDE DEF since
    <3> QED
      BY <2>1, <3>1, <3>2, <3>3 DEF q, b
  <2> QED
    BY <2>6, <2>7, <2>8
<1>7. 0..N \subseteq M
  <2> HIDE DEF M
  <2> QED
    BY <1>1, <1>5, <1>6, EveryRound
<1>8. i \in M
  <2> HIDE DEF M
  <2> QED
    BY <1>1, <1>7
<1> HIDE DEF since
<1> QED
  BY <1>1, <1>2, <1>8 DEF F

\* The rules of a prompt are the items a reader counts, and have their numbers.
LEMMA RulesCounted ==
  ASSUME NEW ls \in Seq(Prompts!PromptLine), Prompts!FencesMatch(ls)
  PROVE  1..Len(Prompts!Extract(ls))
           = {Cardinality({j \in 1..i : Prompts!Counted(ls, j)}) : i \in {j \in 1..Len(ls) : Prompts!Counted(ls, j)}}
<1> DEFINE N == Len(ls)
           F == {i \in 1..N : ls[i].is = "fence"}
           C == {i \in 1..N : Prompts!Counted(ls, i)}
<1>1. N \in Nat
  BY ElementOfSeq
<1>2. \A i \in 1..N : i \in C <=> ls[i].is = "item" /\ HowMany(F, i) % 2 = 0
  <2>1. \A i \in 1..N : Prompts!OpenAt(ls, i) = 0 <=> HowMany(F, i) % 2 = 0
    BY <1>1, OpenIsOdd
  <2>2. \A i : Prompts!Counted(ls, i) <=> ls[i].is = "item" /\ Prompts!OpenAt(ls, i) = 0
    BY DEF Prompts!Counted
  <2> HIDE DEF F, N
  <2> QED
    BY <2>1, <2>2
<1>3. PICK f \in [0..N -> Extracts] :
         /\ f[0] = [fenced |-> FALSE, rules |-> <<>>]
         /\ \A k \in 1..N : f[k] = ExtractOne(ls, f[k - 1], k)
         /\ Prompts!Extract(ls) = f[N].rules
  BY ExtractRounds
<1> DEFINE So(k) == /\ f[k].fenced <=> HowMany(F, k) % 2 = 1
                    /\ Len(f[k].rules) = HowMany(C, k)
           M == {k \in 0..N : So(k)}
<1>4. 0 \in M
  <2>1. HowMany(F, 0) = 0 /\ HowMany(C, 0) = 0 /\ 0 % 2 = 0 /\ 0 \in 0..N
    BY <1>1, OneMore
  <2>2. f[0].fenced = FALSE /\ Len(f[0].rules) = 0
    BY <1>3
  <2> HIDE DEF F, C, N
  <2> QED
    BY <2>1, <2>2
<1>5. ASSUME NEW k \in 1..N, k - 1 \in M
      PROVE  k \in M
  <2> DEFINE s == f[k - 1]
             then == f[k]
             a == HowMany(F, k - 1)
             b == HowMany(C, k - 1)
  <2>1. k \in Nat \ {0} /\ k - 1 \in Nat /\ k - 1 \in 0..N /\ k \in 0..N
    BY <1>1
  <2>2. s \in Extracts
    BY <1>3, <2>1
  <2>3. /\ a \in Nat /\ b \in Nat
        /\ HowMany(F, k) = a + (IF k \in F THEN 1 ELSE 0)
        /\ HowMany(C, k) = b + (IF k \in C THEN 1 ELSE 0)
    BY <2>1, OneMore
  <2>4. k \in F <=> ls[k].is = "fence"
    OBVIOUS
  <2>5. (s.fenced <=> a % 2 = 1) /\ Len(s.rules) = b
    BY <1>5
  <2>6. then = ExtractOne(ls, s, k)
    BY <1>3
  <2>7. k \in C <=> ls[k].is = "item" /\ HowMany(F, k) % 2 = 0
    BY <1>2
  <2> HIDE DEF F, C, s, then, a, b
  <2>8. (then.fenced <=> HowMany(F, k) % 2 = 1) /\ Len(then.rules) = HowMany(C, k)
    <3>1. s.rules \in Seq(Nat) /\ s.fenced \in BOOLEAN
      BY <2>2 DEF Extracts
    <3>2. CASE ls[k].is = "fence"
      <4>1. then.fenced = ~s.fenced /\ then.rules = s.rules
        BY <2>2, <2>6, <3>2 DEF ExtractOne, Extracts
      <4>2. (a + 1) % 2 = 1 <=> ~(a % 2 = 1)
        BY <2>3
      <4>3. HowMany(F, k) = a + 1
        BY <2>3, <2>4, <3>2
      <4>4. k \notin C
        BY <2>7, <3>2
      <4>5. HowMany(C, k) = b
        BY <2>3, <4>4
      <4>6. then.fenced <=> HowMany(F, k) % 2 = 1
        BY <2>5, <4>1, <4>2, <4>3
      <4>7. Len(then.rules) = HowMany(C, k)
        BY <2>5, <4>1, <4>5
      <4> QED
        BY <4>6, <4>7
    <3>3. CASE ls[k].is = "item" /\ ~s.fenced
      <4>1. then.fenced = s.fenced /\ then.rules = Append(s.rules, k)
        BY <2>2, <2>6, <3>3 DEF ExtractOne, Extracts
      <4>2. Len(Append(s.rules, k)) = Len(s.rules) + 1
        BY <2>1, <3>1
      <4>3. a % 2 = 0 <=> ~(a % 2 = 1)
        BY <2>3
      <4>4. HowMany(F, k) = a
        BY <2>3, <2>4, <3>3
      <4>5. HowMany(C, k) = b + 1
        BY <2>3, <2>5, <2>7, <3>3, <4>3, <4>4
      <4>6. then.fenced <=> HowMany(F, k) % 2 = 1
        BY <2>5, <4>1, <4>4
      <4>7. Len(then.rules) = HowMany(C, k)
        BY <2>5, <4>1, <4>2, <4>5
      <4> QED
        BY <4>6, <4>7
    <3>4. CASE ls[k].is # "fence" /\ ~(ls[k].is = "item" /\ ~s.fenced)
      <4>1. then = s
        BY <2>6, <3>4 DEF ExtractOne
      <4>3. a % 2 = 0 <=> ~(a % 2 = 1)
        BY <2>3
      <4>4. HowMany(F, k) = a
        BY <2>3, <2>4, <3>4
      <4>5. k \notin C
        BY <2>5, <2>7, <3>4, <4>3, <4>4
      <4>6. HowMany(C, k) = b
        BY <2>3, <4>5
      <4> QED
        BY <2>5, <4>1, <4>4, <4>6
    <3> QED
      BY <3>2, <3>3, <3>4
  <2> QED
    BY <2>1, <2>8 DEF then
<1>6. Len(Prompts!Extract(ls)) = HowMany(C, N)
  <2>1. 0..N \subseteq M
    <3> HIDE DEF M, N
    <3> QED
      BY <1>1, <1>4, <1>5, EveryRound
  <2>2. N \in M
    <3> HIDE DEF M, N
    <3> QED
      BY <1>1, <2>1
  <2>3. So(N)
    BY <2>2
  <2> HIDE DEF N, C, F, M
  <2> QED
    BY <1>3, <2>3
<1>7. {HowMany(C, i) : i \in {j \in 1..N : j \in C}} = 1..HowMany(C, N)
  BY <1>1, Numbered
<1>8. \A i \in 1..N : {j \in 1..i : j \in C} = {j \in 1..i : Prompts!Counted(ls, j)}
  BY <1>1
<1>9. {j \in 1..N : j \in C} = C
  OBVIOUS
<1> HIDE DEF N
<1>10. \A i \in C : HowMany(C, i) = Cardinality({j \in 1..i : Prompts!Counted(ls, j)})
  BY <1>8 DEF HowMany
<1> HIDE DEF C
<1> QED
  BY <1>6, <1>7, <1>9, <1>10 DEF C, N

\* A verdict of the inventory's check is that of a reader of the prompt.
LEMMA AuditReads ==
  ASSUME NEW ls \in Seq(Prompts!PromptLine), Prompts!FencesMatch(ls), NEW call, call.mode = "check",
         Prompts!AuditExit(ls, call) # 2
  PROVE  Prompts!AuditExit(ls, call) = 0 <=> Prompts!AuditPlaced(ls, call)
<1> DEFINE C == {i \in 1..Len(ls) : Prompts!Counted(ls, i)}
           no(i) == Cardinality({j \in 1..i : Prompts!Counted(ls, j)})
<1>1. Prompts!AuditExit(ls, call) = 0
        <=> \A n \in 1..Len(Prompts!Extract(ls)) : Prompts!Destined(call.audit, n)
  BY DEF Prompts!AuditExit
<1>2. 1..Len(Prompts!Extract(ls)) = {no(i) : i \in C}
  BY RulesCounted
<1>3. Prompts!AuditPlaced(ls, call) <=> \A i \in C : Prompts!Destined(call.audit, no(i))
  <2>1. Prompts!AuditPlaced(ls, call)
          <=> \A i \in 1..Len(ls) : Prompts!Counted(ls, i) =>
                \E k \in 1..Len(call.audit) :
                  /\ call.audit[k].destined
                  /\ Prompts!Cardinality({j \in 1..i : Prompts!Counted(ls, j)}) \in call.audit[k].numbers
    BY DEF Prompts!AuditPlaced
  <2> QED
    BY <2>1, PromptCounts DEF Prompts!Destined
<1> HIDE DEF C, no
<1> QED
  BY <1>1, <1>2, <1>3

-----------------------------------------------------------------------------
(* strategic-share *)

\* What line k adds to the minutes of R.
Adds(ls, R, k) == IF k \in R THEN ls[k].minutes ELSE 0

\* The minutes of some of the rows are summed line by line.
LEMMA MinutesRounds ==
  ASSUME NEW ls, Len(ls) \in Nat, NEW R, \A i \in R : i \in 1..Len(ls) => ls[i].minutes \in Int
  PROVE  \E f \in [0..Len(ls) -> Int] : /\ f[0] = 0
                                        /\ \A k \in 1..Len(ls) : f[k] = f[k - 1] + Adds(ls, R, k)
                                        /\ Sums!Minutes(ls, R) = f[Len(ls)]
<1> DEFINE N == Len(ls)
           S == Int
           Op(s, k) == s + Adds(ls, R, k)
           g == [p \in S \X (1..N) |-> Op(p[1], p[2])]
<1>1. N \in Nat /\ 0 \in S
  OBVIOUS
<1>2. \A s \in S : \A k \in 1..N : Op(s, k) \in S
  BY <1>1 DEF Adds
<1>3. PICK f \in [0..N -> S] : f[0] = 0 /\ \A k \in 1..N : f[k] = Op(f[k - 1], k)
  <2> HIDE DEF Op, S, N
  <2>1. g \in [S \X (1..N) -> S]
    BY <1>2
  <2>2. PICK f : ReadBy(f, N, S, 0, g)
    <3> HIDE DEF g
    <3> QED
      BY <1>1, <2>1, Reading
  <2>3. \A k \in 1..N : f[k - 1] \in S
    BY <1>1, <2>2 DEF ReadBy
  <2>4. \A k \in 1..N : g[<<f[k - 1], k>>] = Op(f[k - 1], k)
    BY <2>3
  <2> QED
    BY <2>2, <2>4 DEF ReadBy
<1> DEFINE Round(h, k) == IF k = 0 THEN 0 ELSE Op(h[k - 1], k)
           st[k \in 0..N] == IF k = 0 THEN 0 ELSE st[k - 1] + Adds(ls, R, k)
<1>4. Sums!Minutes(ls, R) = st[N]
  BY DEF Sums!Minutes, Adds
<1>5. st = [k \in 0..N |-> Round(st, k)]
  <2>1. f = [k \in 0..N |-> Round(f, k)]
    <3> HIDE DEF Op, S, N
    <3> QED
      BY <1>1, <1>3
  <2> HIDE DEF N, S
  <2> QED
    BY <2>1
<1> HIDE DEF st, N, S, Op
<1>6. st[0] = 0 /\ \A k \in 1..N : st[k] = Op(st[k - 1], k)
  <2> DEFINE h == [k \in 0..N |-> Round(st, k)]
  <2>1. h[0] = 0 /\ \A k \in 1..N : h[k] = Op(st[k - 1], k)
    BY <1>1
  <2> HIDE DEF h, Round
  <2> QED
    BY <1>5, <2>1 DEF h
<1>7. 0..N \subseteq {k \in 0..N : st[k] = f[k]}
  <2> DEFINE A == {k \in 0..N : st[k] = f[k]}
  <2>1. 0 \in A
    <3>1. st[0] = f[0]
      BY <1>3, <1>6, Zenon
    <3> QED
      BY <1>1, <3>1
  <2>2. \A k \in 1..N : k - 1 \in A => k \in A
    <3>1. \A k \in 1..N : f[k] = Op(f[k - 1], k) /\ st[k] = Op(st[k - 1], k)
      BY <1>3, <1>6
    <3> QED
      BY <1>1, <3>1
  <2> HIDE DEF A
  <2> QED
    BY <1>1, <2>1, <2>2, EveryRound DEF A
<1>8. st[N] = f[N]
  BY <1>1, <1>7
<1> QED
  BY <1>3, <1>4, <1>8 DEF N, S, Op


\* The minutes of a row that moved a metric.
Moved(line) == IF line.tag = "strategic" /\ line.evidence = "moved" THEN line.minutes ELSE 0

\* A reader weighs the rows one by one.
LEMMA MarginRounds ==
  ASSUME NEW ls, Len(ls) \in Nat, \A i \in 1..Len(ls) : ls[i].is = "row" => ls[i].minutes \in Int,
         NEW band, band.floor \in Int
  PROVE  \E f \in [0..Len(ls) -> Int] : /\ f[0] = 0
                                        /\ \A k \in 1..Len(ls) : f[k] = IF ls[k].is # "row" THEN f[k - 1]
                                                                        ELSE f[k - 1] + 100 * Moved(ls[k]) - band.floor * ls[k].minutes
                                        /\ (Sums!IsInvested(ls, band)
                                               <=> /\ \A i \in 1..Len(ls) : ls[i].is = "row" => ls[i].tag = "tactical" \/ Moved(ls[i]) # 0
                                                   /\ f[Len(ls)] >= 0)
<1> DEFINE N == Len(ls)
           S == Int
           Op(s, k) == IF ls[k].is # "row" THEN s
                       ELSE s + 100 * Moved(ls[k]) - band.floor * ls[k].minutes
           g == [p \in S \X (1..N) |-> Op(p[1], p[2])]
<1>1. N \in Nat /\ 0 \in S
  OBVIOUS
<1>2. \A s \in S : \A k \in 1..N : Op(s, k) \in S
  <2>1. \A k \in 1..N : ls[k].is = "row" => Moved(ls[k]) \in Int /\ ls[k].minutes \in Int
    BY <1>1 DEF Moved
  <2> QED
    BY <1>1, <2>1
<1>3. PICK f \in [0..N -> S] : f[0] = 0 /\ \A k \in 1..N : f[k] = Op(f[k - 1], k)
  <2> HIDE DEF Op, S, N
  <2>1. g \in [S \X (1..N) -> S]
    BY <1>2
  <2>2. PICK f : ReadBy(f, N, S, 0, g)
    <3> HIDE DEF g
    <3> QED
      BY <1>1, <2>1, Reading
  <2>3. \A k \in 1..N : f[k - 1] \in S
    BY <1>1, <2>2 DEF ReadBy
  <2>4. \A k \in 1..N : g[<<f[k - 1], k>>] = Op(f[k - 1], k)
    BY <2>3
  <2> QED
    BY <2>2, <2>4 DEF ReadBy
<1> DEFINE Round(h, k) == IF k = 0 THEN 0 ELSE Op(h[k - 1], k)
           st[k \in 0..N] == IF k = 0 THEN 0 ELSE IF ls[k].is # "row" THEN st[k - 1]
                                                  ELSE st[k - 1] + 100 * Moved(ls[k]) - band.floor * ls[k].minutes
<1> DEFINE Claims == \A i \in 1..Len(ls) : ls[i].is = "row" => ls[i].tag = "tactical" \/ Moved(ls[i]) # 0
<1>4. Sums!IsInvested(ls, band) <=> Claims /\ st[N] >= 0
  BY DEF Sums!IsInvested, Moved
<1>5. st = [k \in 0..N |-> Round(st, k)]
  <2>1. f = [k \in 0..N |-> Round(f, k)]
    <3> HIDE DEF Op, S, N
    <3> QED
      BY <1>1, <1>3
  <2> HIDE DEF N, S
  <2> QED
    BY <2>1
<1> HIDE DEF st, N, S, Op
<1>6. st[0] = 0 /\ \A k \in 1..N : st[k] = Op(st[k - 1], k)
  <2> DEFINE h == [k \in 0..N |-> Round(st, k)]
  <2>1. h[0] = 0 /\ \A k \in 1..N : h[k] = Op(st[k - 1], k)
    BY <1>1
  <2> HIDE DEF h, Round
  <2> QED
    BY <1>5, <2>1 DEF h
<1>7. 0..N \subseteq {k \in 0..N : st[k] = f[k]}
  <2> DEFINE A == {k \in 0..N : st[k] = f[k]}
  <2>1. 0 \in A
    <3>1. st[0] = f[0]
      BY <1>3, <1>6, Zenon
    <3> QED
      BY <1>1, <3>1
  <2>2. \A k \in 1..N : k - 1 \in A => k \in A
    <3>1. \A k \in 1..N : f[k] = Op(f[k - 1], k) /\ st[k] = Op(st[k - 1], k)
      BY <1>3, <1>6
    <3> QED
      BY <1>1, <3>1
  <2> HIDE DEF A
  <2> QED
    BY <1>1, <2>1, <2>2, EveryRound DEF A
<1>8. st[N] = f[N]
  BY <1>1, <1>7
<1> QED
  BY <1>3, <1>4, <1>8 DEF N, S, Op


\* A verdict of strategic-share is that of a reader of the ledger.
LEMMA ShareReads ==
  ASSUME NEW ls \in Seq(Sums!ShareLine), NEW band, band.floor \in Int,
         Sums!ShareExit(ls, band) \in {0, 1}
  PROVE  Sums!ShareExit(ls, band) = 0 <=> Sums!IsInvested(ls, band)
<1> DEFINE N == Len(ls)
           R == Sums!ShareRows(ls)
           E == {i \in R : Sums!Evidenced(ls[i])}
           floor == band.floor
           Claims == \A i \in 1..Len(ls) : ls[i].is = "row" => ls[i].tag = "tactical" \/ Moved(ls[i]) # 0
           Claimed == \E i \in R \ E : ls[i].tag = "strategic"
<1>1. N \in Nat /\ \A i \in 1..N : ls[i] \in Sums!ShareLine
  BY ElementOfSeq
<1>2. \A i \in 1..N : ls[i].is = "row" =>
         ls[i].minutes \in Int /\ ls[i].tag \in {"tactical", "strategic"}
  <2>1. \A l \in Sums!ShareLine : l.is = "row" => l.minutes \in Int /\ l.tag \in {"tactical", "strategic"}
    BY DEF Sums!ShareLine
  <2> QED
    BY <1>1, <2>1
<1>3. /\ \A i \in R : ~(ls[i].minutes <= 0)
      /\ Sums!ShareExit(ls, band) = 0
           <=> ~(Claimed \/ Sums!Minutes(ls, E) * 100 < floor * Sums!Minutes(ls, R))
  BY DEF Sums!ShareExit
<1>4. \A i : i \in R <=> i \in 1..N /\ ls[i].is = "row"
  BY DEF Sums!ShareRows
<1>5. \A i \in R : ls[i].minutes \in Int /\ ls[i].minutes > 0 /\ ls[i].tag \in {"tactical", "strategic"}
  BY <1>2, <1>3, <1>4
<1>6. \A i \in R : Moved(ls[i]) = IF i \in E THEN ls[i].minutes ELSE 0
  BY DEF Moved, Sums!Evidenced
<1>7. \A i \in E : i \in R /\ ls[i].tag = "strategic"
  BY DEF Sums!Evidenced
<1> HIDE DEF N, R, E, floor
<1>8. Claims <=> ~Claimed
  <2>1. Claims <=> \A i \in R : ls[i].tag = "tactical" \/ Moved(ls[i]) # 0
    BY <1>4 DEF N
  <2>2. \A i \in R : Moved(ls[i]) # 0 <=> i \in E
    BY <1>5, <1>6
  <2> HIDE DEF Claims
  <2> QED
    BY <1>5, <1>7, <2>1, <2>2
<1>9. PICK t \in [0..N -> Int] : /\ t[0] = 0 /\ \A k \in 1..N : t[k] = t[k - 1] + Adds(ls, R, k)
                                 /\ Sums!Minutes(ls, R) = t[N]
  <2>1. \A i \in R : i \in 1..Len(ls) => ls[i].minutes \in Int
    BY <1>5
  <2>2. Len(ls) \in Nat
    BY <1>1 DEF N
  <2>3. \E f \in [0..Len(ls) -> Int] :
          /\ f[0] = 0
          /\ \A k \in 1..Len(ls) : f[k] = f[k - 1] + Adds(ls, R, k)
          /\ Sums!Minutes(ls, R) = f[Len(ls)]
    <3> HIDE DEF Claims, Claimed
    <3> QED
      BY <2>1, <2>2, MinutesRounds
  <2> QED
    BY <2>3 DEF N
<1>10. PICK e \in [0..N -> Int] : /\ e[0] = 0 /\ \A k \in 1..N : e[k] = e[k - 1] + Adds(ls, E, k)
                                  /\ Sums!Minutes(ls, E) = e[N]
  <2>1. \A i \in E : i \in 1..Len(ls) => ls[i].minutes \in Int
    BY <1>5, <1>7
  <2>2. Len(ls) \in Nat
    BY <1>1 DEF N
  <2>3. \E f \in [0..Len(ls) -> Int] :
          /\ f[0] = 0
          /\ \A k \in 1..Len(ls) : f[k] = f[k - 1] + Adds(ls, E, k)
          /\ Sums!Minutes(ls, E) = f[Len(ls)]
    <3> HIDE DEF Claims, Claimed
    <3> QED
      BY <2>1, <2>2, MinutesRounds
  <2> QED
    BY <2>3 DEF N
<1>11. PICK m \in [0..N -> Int] :
          /\ m[0] = 0
          /\ \A k \in 1..N : m[k] = IF ls[k].is # "row" THEN m[k - 1]
                                    ELSE m[k - 1] + 100 * Moved(ls[k]) - floor * ls[k].minutes
          /\ Sums!IsInvested(ls, band) <=> Claims /\ m[N] >= 0
  BY <1>1, <1>2, MarginRounds DEF N, floor
<1> HIDE DEF Claims, Claimed
<1> DEFINE M == {k \in 0..N : m[k] = 100 * e[k] - floor * t[k]}
<1>12. floor \in Int
  BY DEF floor
<1>13. 0 \in M
  BY <1>1, <1>9, <1>10, <1>11, <1>12
<1>14. ASSUME NEW k \in 1..N, k - 1 \in M
       PROVE  k \in M
  <2> DEFINE x == m[k - 1]
             y == e[k - 1]
             z == t[k - 1]
             n == ls[k].minutes
  <2>1. k \in 0..N /\ k - 1 \in 0..N
    BY <1>1
  <2>2. x \in Int /\ y \in Int /\ z \in Int /\ x = 100 * y - floor * z
    BY <1>9, <1>10, <1>11, <1>14, <2>1
  <2>3. CASE k \notin R
    <3>1. m[k] = x
      BY <1>4, <1>11, <2>3
    <3>2. e[k] = y + 0 /\ t[k] = z + 0
      BY <1>7, <1>9, <1>10, <2>3 DEF Adds
    <3> HIDE DEF x, y, z
    <3> QED
      BY <2>1, <2>2, <3>1, <3>2
  <2>4. CASE k \in R
    <3>1. n \in Int
      BY <1>5, <2>4
    <3>2. m[k] = x + 100 * (IF k \in E THEN n ELSE 0) - floor * n
      BY <1>4, <1>6, <1>11, <2>4
    <3>3. e[k] = y + (IF k \in E THEN n ELSE 0) /\ t[k] = z + n
      BY <1>9, <1>10, <2>4 DEF Adds
    <3> DEFINE w == IF k \in E THEN n ELSE 0
    <3>4. w \in Int
      BY <3>1
    <3> HIDE DEF x, y, z, n, w
    <3>5. m[k] = x + 100 * w - floor * n /\ e[k] = y + w
      BY <3>2, <3>3 DEF w
    <3>6. floor * (z + n) = floor * z + floor * n /\ floor * z \in Int /\ floor * n \in Int
      BY <1>12, <2>2, <3>1
    <3> QED
      BY <2>1, <2>2, <3>1, <3>3, <3>4, <3>5, <3>6
  <2> QED
    BY <2>3, <2>4
<1>15. m[N] = 100 * e[N] - floor * t[N] /\ N \in 0..N
  <2>1. 0..N \subseteq M
    <3> HIDE DEF M
    <3> QED
      BY <1>1, <1>13, <1>14, EveryRound
  <2> QED
    BY <1>1, <2>1
<1>16. m[N] >= 0 <=> ~(e[N] * 100 < floor * t[N])
  <2>1. e[N] \in Int /\ t[N] \in Int /\ floor * t[N] \in Int
    BY <1>9, <1>10, <1>12, <1>15
  <2> QED
    BY <1>15, <2>1
<1> QED
  BY <1>3, <1>8, <1>9, <1>10, <1>11, <1>16

-----------------------------------------------------------------------------
(* density-cap *)

\* The lines known to be inside a fence.
Insides == [until : Nat, inside : SUBSET Nat]
Inside0 == [until |-> 0, inside |-> {}]
FenceOne(ls, s, i) ==
  IF i <= s.until \/ ls[i].is # "fence" \/ Prompts!Closers(ls, i) = {} THEN s
  ELSE LET close == CHOOSE j \in Prompts!Closers(ls, i) : \A k \in Prompts!Closers(ls, i) : j <= k
       IN  [until |-> close, inside |-> s.inside \cup i..close]

\* A fence has a first closer if it has one.
LEMMA FirstCloser ==
  ASSUME NEW ls, Len(ls) \in Nat, NEW i \in 1..Len(ls), Prompts!Closers(ls, i) # {}
  PROVE  LET close == CHOOSE j \in Prompts!Closers(ls, i) : \A k \in Prompts!Closers(ls, i) : j <= k
         IN  /\ close \in Prompts!Closers(ls, i) /\ \A k \in Prompts!Closers(ls, i) : close <= k
             /\ close \in (i + 1)..Len(ls)
<1> DEFINE C == Prompts!Closers(ls, i)
<1>1. C \subseteq (i + 1)..Len(ls)
  BY DEF Prompts!Closers
<1>2. C \subseteq Nat
  BY <1>1
<1> HIDE DEF C
<1>3. \E x \in C : \A y \in C : x <= y
  BY <1>2, LeastNatural DEF C
<1> QED
  BY <1>1, <1>3 DEF C

\* The gate looks for fences line by line.
LEMMA FenceRounds ==
  ASSUME NEW ls, Len(ls) \in Nat
  PROVE  \E f \in [0..Len(ls) -> Insides] : /\ f[0] = Inside0
                                            /\ \A k \in 1..Len(ls) : f[k] = FenceOne(ls, f[k - 1], k)
                                            /\ Prompts!Fenced(ls) = f[Len(ls)].inside
<1> DEFINE N == Len(ls)
           S == Insides
           Op(s, k) == FenceOne(ls, s, k)
           g == [p \in S \X (1..N) |-> Op(p[1], p[2])]
<1>1. N \in Nat /\ Inside0 \in S
  BY DEF Inside0, Insides
<1>2. \A s \in S : \A k \in 1..N : Op(s, k) \in S
  <2>1. SUFFICES ASSUME NEW s \in S, NEW k \in 1..N
        PROVE  Op(s, k) \in S
    OBVIOUS
  <2>2. CASE k <= s.until \/ ls[k].is # "fence" \/ Prompts!Closers(ls, k) = {}
    BY <2>2 DEF FenceOne
  <2>3. CASE ~(k <= s.until \/ ls[k].is # "fence" \/ Prompts!Closers(ls, k) = {})
    <3> DEFINE close == CHOOSE j \in Prompts!Closers(ls, k) : \A i \in Prompts!Closers(ls, k) : j <= i
    <3>1. close \in (k + 1)..Len(ls)
      BY <1>1, <2>3, FirstCloser
    <3>2. Op(s, k) = [until |-> close, inside |-> s.inside \cup k..close]
      BY <2>3 DEF FenceOne
    <3> HIDE DEF close
    <3>3. close \in Nat /\ s.inside \cup k..close \in SUBSET Nat
      BY <1>1, <3>1 DEF Insides
    <3> QED
      BY <3>2, <3>3 DEF Insides
  <2> QED
    BY <2>2, <2>3
<1>3. PICK f \in [0..N -> S] : f[0] = Inside0 /\ \A k \in 1..N : f[k] = Op(f[k - 1], k)
  <2> HIDE DEF Op, S, N
  <2>1. g \in [S \X (1..N) -> S]
    BY <1>2
  <2>2. PICK f : ReadBy(f, N, S, Inside0, g)
    <3> HIDE DEF g
    <3> QED
      BY <1>1, <2>1, Reading
  <2>3. \A k \in 1..N : f[k - 1] \in S
    BY <1>1, <2>2 DEF ReadBy
  <2>4. \A k \in 1..N : g[<<f[k - 1], k>>] = Op(f[k - 1], k)
    BY <2>3
  <2> QED
    BY <2>2, <2>4 DEF ReadBy
<1> DEFINE Round(h, k) == IF k = 0 THEN Inside0 ELSE Op(h[k - 1], k)
           st[k \in 0..N] == IF k = 0 THEN Inside0 ELSE FenceOne(ls, st[k - 1], k)
<1>4. Prompts!Fenced(ls) = st[N].inside
  BY DEF Prompts!Fenced, FenceOne, Inside0
<1>5. st = [k \in 0..N |-> Round(st, k)]
  <2>1. f = [k \in 0..N |-> Round(f, k)]
    <3> HIDE DEF Op, S, N
    <3> QED
      BY <1>1, <1>3
  <2> HIDE DEF N, S
  <2> QED
    BY <2>1
<1> HIDE DEF st, N, S, Op
<1>6. st[0] = Inside0 /\ \A k \in 1..N : st[k] = Op(st[k - 1], k)
  <2> DEFINE h == [k \in 0..N |-> Round(st, k)]
  <2>1. h[0] = Inside0 /\ \A k \in 1..N : h[k] = Op(st[k - 1], k)
    BY <1>1
  <2> HIDE DEF h, Round
  <2> QED
    BY <1>5, <2>1 DEF h
<1>7. 0..N \subseteq {k \in 0..N : st[k] = f[k]}
  <2> DEFINE A == {k \in 0..N : st[k] = f[k]}
  <2>1. 0 \in A
    <3>1. st[0] = f[0]
      BY <1>3, <1>6, Zenon
    <3> QED
      BY <1>1, <3>1
  <2>2. \A k \in 1..N : k - 1 \in A => k \in A
    <3>1. \A k \in 1..N : f[k] = Op(f[k - 1], k) /\ st[k] = Op(st[k - 1], k)
      BY <1>3, <1>6
    <3> QED
      BY <1>1, <3>1
  <2> HIDE DEF A
  <2> QED
    BY <1>1, <2>1, <2>2, EveryRound DEF A
<1>8. st[N] = f[N]
  BY <1>1, <1>7
<1> QED
  BY <1>3, <1>4, <1>8 DEF N, S, Op


\* What a reader has open after a line.
OpenOne(ls, o, j) ==
  IF o # 0 THEN IF Prompts!Ends(ls, o, j) THEN 0 ELSE o
  ELSE IF ls[j].is = "fence" /\ \E k \in (j + 1)..Len(ls) : Prompts!Ends(ls, j, k) THEN j
  ELSE 0

\* A reader opens and closes fences line by line.
LEMMA OpenRounds ==
  ASSUME NEW ls, Len(ls) \in Nat
  PROVE  \E f \in [0..Len(ls) -> Nat] : /\ f[0] = 0
                                        /\ \A k \in 1..Len(ls) : f[k] = OpenOne(ls, f[k - 1], k)
                                        /\ Prompts!ShownAsCode(ls) = {j \in 1..Len(ls) : f[j] # 0 \/ f[j - 1] # 0}
<1> DEFINE N == Len(ls)
           S == Nat
           Op(s, k) == OpenOne(ls, s, k)
           g == [p \in S \X (1..N) |-> Op(p[1], p[2])]
<1>1. N \in Nat /\ 0 \in S
  OBVIOUS
<1>2. \A s \in S : \A k \in 1..N : Op(s, k) \in S
  BY <1>1 DEF OpenOne
<1>3. PICK f \in [0..N -> S] : f[0] = 0 /\ \A k \in 1..N : f[k] = Op(f[k - 1], k)
  <2> HIDE DEF Op, S, N
  <2>1. g \in [S \X (1..N) -> S]
    BY <1>2
  <2>2. PICK f : ReadBy(f, N, S, 0, g)
    <3> HIDE DEF g
    <3> QED
      BY <1>1, <2>1, Reading
  <2>3. \A k \in 1..N : f[k - 1] \in S
    BY <1>1, <2>2 DEF ReadBy
  <2>4. \A k \in 1..N : g[<<f[k - 1], k>>] = Op(f[k - 1], k)
    BY <2>3
  <2> QED
    BY <2>2, <2>4 DEF ReadBy
<1> DEFINE Round(h, k) == IF k = 0 THEN 0 ELSE Op(h[k - 1], k)
           st[k \in 0..N] == IF k = 0 THEN 0 ELSE OpenOne(ls, st[k - 1], k)
<1>4. Prompts!ShownAsCode(ls) = {j \in 1..N : st[j] # 0 \/ st[j - 1] # 0}
  BY DEF Prompts!ShownAsCode, OpenOne, Prompts!Ends
<1>5. st = [k \in 0..N |-> Round(st, k)]
  <2>1. f = [k \in 0..N |-> Round(f, k)]
    <3> HIDE DEF Op, S, N
    <3> QED
      BY <1>1, <1>3
  <2> HIDE DEF N, S
  <2> QED
    BY <2>1
<1> HIDE DEF st, N, S, Op
<1>6. st[0] = 0 /\ \A k \in 1..N : st[k] = Op(st[k - 1], k)
  <2> DEFINE h == [k \in 0..N |-> Round(st, k)]
  <2>1. h[0] = 0 /\ \A k \in 1..N : h[k] = Op(st[k - 1], k)
    BY <1>1
  <2> HIDE DEF h, Round
  <2> QED
    BY <1>5, <2>1 DEF h
<1>7. 0..N \subseteq {k \in 0..N : st[k] = f[k]}
  <2> DEFINE A == {k \in 0..N : st[k] = f[k]}
  <2>1. 0 \in A
    <3>1. st[0] = f[0]
      BY <1>3, <1>6, Zenon
    <3> QED
      BY <1>1, <3>1
  <2>2. \A k \in 1..N : k - 1 \in A => k \in A
    <3>1. \A k \in 1..N : f[k] = Op(f[k - 1], k) /\ st[k] = Op(st[k - 1], k)
      BY <1>3, <1>6
    <3> QED
      BY <1>1, <3>1
  <2> HIDE DEF A
  <2> QED
    BY <1>1, <2>1, <2>2, EveryRound DEF A
<1>8. {j \in 1..N : st[j] # 0 \/ st[j - 1] # 0} = {j \in 1..N : f[j] # 0 \/ f[j - 1] # 0}
  <2>1. \A j \in 1..N : j \in 0..N /\ j - 1 \in 0..N
    BY <1>1
  <2> QED
    BY <1>7, <2>1
<1> QED
  BY <1>3, <1>4, <1>8 DEF N, S, Op


\* What the gate takes for the inside of fences is what is shown as code.
LEMMA FencedIsShown ==
  ASSUME NEW ls, Len(ls) \in Nat
  PROVE  Prompts!Fenced(ls) = Prompts!ShownAsCode(ls)
<1> DEFINE N == Len(ls)
<1>1. PICK f \in [0..N -> Insides] : /\ f[0] = Inside0
                                     /\ \A k \in 1..N : f[k] = FenceOne(ls, f[k - 1], k)
                                     /\ Prompts!Fenced(ls) = f[N].inside
  BY FenceRounds
<1>2. PICK o \in [0..N -> Nat] : /\ o[0] = 0
                                 /\ \A k \in 1..N : o[k] = OpenOne(ls, o[k - 1], k)
                                 /\ Prompts!ShownAsCode(ls) = {j \in 1..N : o[j] # 0 \/ o[j - 1] # 0}
  BY OpenRounds
<1>3. \A i : Prompts!Closers(ls, i) = {j \in (i + 1)..N : Prompts!Ends(ls, i, j)}
  BY DEF Prompts!Closers, Prompts!Ends
<1> DEFINE Shown(k) == {j \in 1..k : o[j] # 0 \/ o[j - 1] # 0}
           Closed(i, c) == /\ c \in Prompts!Closers(ls, i) /\ \A j \in Prompts!Closers(ls, i) : c <= j
           So(k) == /\ f[k].until \in 0..N
                    /\ o[k] # 0 <=> f[k].until > k
                    /\ o[k] # 0 => o[k] \in 1..k /\ Closed(o[k], f[k].until)
                    /\ f[k].inside = Shown(k) \cup (k + 1)..f[k].until
           M == {k \in 0..N : So(k)}
<1>4. 0 \in M
  BY <1>1, <1>2 DEF Inside0
<1>5. ASSUME NEW k \in 1..N, k - 1 \in M
      PROVE  k \in M
  <2> DEFINE s == f[k - 1]
             u == s.until
             p == o[k - 1]
             C(i) == Prompts!Closers(ls, i)
  <2>1. N \in Nat /\ k \in Nat /\ k - 1 \in 0..N /\ k \in 0..N /\ k - 1 + 1 = k
    OBVIOUS
  <2>2. /\ u \in 0..N /\ (p # 0 <=> u > k - 1) /\ (p # 0 => p \in 1..(k - 1) /\ Closed(p, u))
        /\ s.inside = Shown(k - 1) \cup k..u
    BY <1>5, <2>1
  <2>3. f[k] = FenceOne(ls, s, k) /\ o[k] = OpenOne(ls, p, k)
    BY <1>1, <1>2
  <2>4. Shown(k) = Shown(k - 1) \cup (IF o[k] # 0 \/ p # 0 THEN {k} ELSE {})
    <3>1. \A j : j \in 1..k <=> j \in 1..(k - 1) \/ j = k
      BY <2>1
    <3> QED
      BY <3>1
  <2> HIDE DEF Shown, N
  <2>5. CASE p # 0
    <3>1. k <= u /\ p \in 1..(k - 1)
      BY <2>1, <2>2, <2>5
    <3>2. f[k] = s
      BY <2>3, <3>1 DEF FenceOne
    <3>3. Prompts!Ends(ls, p, k) <=> k \in C(p)
      <4>1. k \in (p + 1)..N
        BY <2>1, <3>1
      <4> QED
        BY <1>3, <4>1 DEF N
    <3>4. k \in C(p) <=> k = u
      BY <2>1, <2>2, <2>5, <3>1
    <3>5. o[k] = IF k = u THEN 0 ELSE p
      BY <2>3, <2>5, <3>3, <3>4 DEF OpenOne
    <3>6. o[k] # 0 <=> u > k
      BY <2>1, <2>2, <2>5, <3>1, <3>5
    <3>7. o[k] # 0 => o[k] \in 1..k /\ Closed(o[k], u)
      BY <2>1, <2>2, <2>5, <3>1, <3>5
    <3>8. s.inside = Shown(k) \cup (k + 1)..u
      <4>1. k..u = {k} \cup (k + 1)..u
        BY <2>1, <2>2, <3>1
      <4>2. Shown(k) = Shown(k - 1) \cup {k}
        BY <2>4, <2>5
      <4> QED
        BY <2>2, <4>1, <4>2
    <3>9. So(k)
      BY <2>2, <3>2, <3>6, <3>7, <3>8
    <3> QED
      BY <2>1, <3>9
  <2>6. CASE p = 0 /\ (ls[k].is # "fence" \/ C(k) = {})
    <3>1. ~(u > k - 1) /\ f[k] = s
      BY <2>2, <2>3, <2>6 DEF FenceOne
    <3>2. o[k] = 0
      BY <1>3, <2>3, <2>6 DEF OpenOne, N
    <3>3. ~(u > k) /\ k..u = {} /\ (k + 1)..u = {}
      BY <2>1, <2>2, <3>1
    <3>4. Shown(k) = Shown(k - 1)
      BY <2>4, <2>6, <3>2
    <3>5. s.inside = Shown(k) \cup (k + 1)..u
      BY <2>2, <3>3, <3>4
    <3>6. So(k)
      BY <2>2, <3>1, <3>2, <3>3, <3>5
    <3> QED
      BY <2>1, <3>6
  <2>7. CASE p = 0 /\ ls[k].is = "fence" /\ C(k) # {}
    <3> DEFINE close == CHOOSE j \in C(k) : \A i \in C(k) : j <= i
    <3>1. Closed(k, close) /\ close \in (k + 1)..N
      BY <2>7, FirstCloser DEF N
    <3>2. ~(k <= u) /\ k..u = {}
      BY <2>1, <2>2, <2>7
    <3>3. f[k] = [until |-> close, inside |-> s.inside \cup k..close]
      BY <2>3, <2>7, <3>2 DEF FenceOne
    <3> HIDE DEF close
    <3>4. f[k].until = close /\ f[k].inside = s.inside \cup k..close
      BY <3>3
    <3>5. o[k] = k
      BY <1>3, <2>3, <2>7 DEF OpenOne, N
    <3>6. close \in 0..N /\ close > k /\ k..close = {k} \cup (k + 1)..close /\ k # 0 /\ k \in 1..k
      BY <2>1, <3>1
    <3>7. Shown(k) = Shown(k - 1) \cup {k}
      BY <2>4, <3>5, <3>6
    <3>8. f[k].inside = Shown(k) \cup (k + 1)..close
      BY <2>2, <3>2, <3>4, <3>6, <3>7
    <3>9. So(k)
      BY <3>1, <3>4, <3>5, <3>6, <3>8
    <3> QED
      BY <2>1, <3>9
  <2> QED
    BY <2>5, <2>6, <2>7
<1>6. So(N) /\ N \in Nat
  <2>1. N \in Nat /\ 0..N \subseteq M
    <3> HIDE DEF M
    <3> QED
      BY <1>4, <1>5, EveryRound
  <2>2. N \in M
    <3> HIDE DEF M, N
    <3> QED
      BY <2>1
  <2> QED
    BY <2>2
<1>7. (N + 1)..f[N].until = {}
  BY <1>6
<1>8. f[N].inside = Shown(N)
  <2>1. f[N].inside = Shown(N) \cup (N + 1)..f[N].until
    BY <1>6
  <2> HIDE DEF Shown, N
  <2> QED
    BY <1>7, <2>1
<1> QED
  BY <1>1, <1>2, <1>8

\* The directives counted so far, and where in a table the last line stands.
Counteds == [units : SUBSET Nat, table : {"none", "header", "body"}]
Counted0 == [units |-> {}, table |-> "none"]
UnitOne(ls, fenced, s, i) ==
  IF i \in fenced \/ ls[i].is = "blank" THEN [units |-> s.units, table |-> "none"]
  ELSE IF ls[i].is = "table"
  THEN IF s.table = "header" /\ ls[i].delimiter THEN [units |-> s.units, table |-> "body"]
       ELSE [units |-> s.units \cup {i}, table |-> IF s.table = "none" THEN "header" ELSE "body"]
  ELSE [units |-> IF ls[i].is \in {"list", "modal"} \/ (ls[i].is = "fence" /\ ls[i].modal)
                  THEN s.units \cup {i} ELSE s.units,
        table |-> "none"]

\* The gate counts line by line.
LEMMA UnitRounds ==
  ASSUME NEW ls, Len(ls) \in Nat
  PROVE  \E f \in [0..Len(ls) -> Counteds] : /\ f[0] = Counted0
                                             /\ \A k \in 1..Len(ls) : f[k] = UnitOne(ls, Prompts!Fenced(ls), f[k - 1], k)
                                             /\ Prompts!Units(ls) = f[Len(ls)].units
<1> DEFINE N == Len(ls)
           S == Counteds
           Op(s, k) == UnitOne(ls, Prompts!Fenced(ls), s, k)
           g == [p \in S \X (1..N) |-> Op(p[1], p[2])]
<1>1. N \in Nat /\ Counted0 \in S
  BY DEF Counted0, Counteds
<1>2. \A s \in S : \A k \in 1..N : Op(s, k) \in S
  BY <1>1 DEF UnitOne, Counteds
<1>3. PICK f \in [0..N -> S] : f[0] = Counted0 /\ \A k \in 1..N : f[k] = Op(f[k - 1], k)
  <2> HIDE DEF Op, S, N
  <2>1. g \in [S \X (1..N) -> S]
    BY <1>2
  <2>2. PICK f : ReadBy(f, N, S, Counted0, g)
    <3> HIDE DEF g
    <3> QED
      BY <1>1, <2>1, Reading
  <2>3. \A k \in 1..N : f[k - 1] \in S
    BY <1>1, <2>2 DEF ReadBy
  <2>4. \A k \in 1..N : g[<<f[k - 1], k>>] = Op(f[k - 1], k)
    BY <2>3
  <2> QED
    BY <2>2, <2>4 DEF ReadBy
<1> DEFINE Round(h, k) == IF k = 0 THEN Counted0 ELSE Op(h[k - 1], k)
           st[k \in 0..N] == IF k = 0 THEN Counted0 ELSE UnitOne(ls, Prompts!Fenced(ls), st[k - 1], k)
<1>4. Prompts!Units(ls) = st[N].units
  BY DEF Prompts!Units, UnitOne, Counted0
<1>5. st = [k \in 0..N |-> Round(st, k)]
  <2>1. f = [k \in 0..N |-> Round(f, k)]
    <3> HIDE DEF Op, S, N
    <3> QED
      BY <1>1, <1>3
  <2> HIDE DEF N, S
  <2> QED
    BY <2>1
<1> HIDE DEF st, N, S, Op
<1>6. st[0] = Counted0 /\ \A k \in 1..N : st[k] = Op(st[k - 1], k)
  <2> DEFINE h == [k \in 0..N |-> Round(st, k)]
  <2>1. h[0] = Counted0 /\ \A k \in 1..N : h[k] = Op(st[k - 1], k)
    BY <1>1
  <2> HIDE DEF h, Round
  <2> QED
    BY <1>5, <2>1 DEF h
<1>7. 0..N \subseteq {k \in 0..N : st[k] = f[k]}
  <2> DEFINE A == {k \in 0..N : st[k] = f[k]}
  <2>1. 0 \in A
    <3>1. st[0] = f[0]
      BY <1>3, <1>6, Zenon
    <3> QED
      BY <1>1, <3>1
  <2>2. \A k \in 1..N : k - 1 \in A => k \in A
    <3>1. \A k \in 1..N : f[k] = Op(f[k - 1], k) /\ st[k] = Op(st[k - 1], k)
      BY <1>3, <1>6
    <3> QED
      BY <1>1, <3>1
  <2> HIDE DEF A
  <2> QED
    BY <1>1, <2>1, <2>2, EveryRound DEF A
<1>8. st[N] = f[N]
  BY <1>1, <1>7
<1> QED
  BY <1>3, <1>4, <1>8 DEF N, S, Op


\* The units of a prompt are the directives a reader meets.
LEMMA UnitsAreDirectives ==
  ASSUME NEW ls, Len(ls) \in Nat
  PROVE  Prompts!Units(ls) = Prompts!Directives(ls) /\ Prompts!Units(ls) \subseteq 1..Len(ls)
<1> DEFINE N == Len(ls)
           X == Prompts!ShownAsCode(ls)
           Y == Prompts!Fenced(ls)
           shown == 1..N \ X
           row(i) == i \in shown /\ ls[i].is = "table"
           unit(i) == \/ ls[i].is \in {"list", "modal"} \/ (ls[i].is = "fence" /\ ls[i].modal)
                      \/ row(i) /\ ~(ls[i].delimiter /\ row(i - 1) /\ ~row(i - 2))
           Us(k) == {i \in 1..k : i \in shown /\ unit(i)}
           where(k) == IF ~row(k) THEN "none" ELSE IF row(k - 1) THEN "body" ELSE "header"
<1>1. Y = X
  BY FencedIsShown
<1>2. PICK f \in [0..N -> Counteds] : /\ f[0] = Counted0
                                      /\ \A k \in 1..N : f[k] = UnitOne(ls, Y, f[k - 1], k)
                                      /\ Prompts!Units(ls) = f[N].units
  BY UnitRounds
<1>3. Prompts!Directives(ls) = {i \in shown : unit(i)}
  BY DEF Prompts!Directives
<1> DEFINE So(k) == f[k].units = Us(k) /\ f[k].table = where(k)
           M == {k \in 0..N : So(k)}
<1>4. 0 \in M
  <2>1. 1..0 = {} /\ ~row(0) /\ 0 \in 0..N
    OBVIOUS
  <2> HIDE DEF row, N
  <2> QED
    BY <1>2, <2>1 DEF Counted0
<1>5. ASSUME NEW k \in 1..N, k - 1 \in M
      PROVE  k \in M
  <2> DEFINE s == f[k - 1]
             then == f[k]
             worded == ls[k].is \in {"list", "modal"} \/ (ls[k].is = "fence" /\ ls[k].modal)
  <2>1. k \in Nat /\ k \in 0..N /\ k - 1 - 1 = k - 2
    OBVIOUS
  <2>2. s.units = Us(k - 1) /\ s.table = where(k - 1)
    BY <1>5
  <2>3. then = UnitOne(ls, X, s, k)
    BY <1>1, <1>2
  <2>4. k \in shown <=> k \notin X
    OBVIOUS
  <2>5. Us(k) = Us(k - 1) \cup (IF k \in shown /\ unit(k) THEN {k} ELSE {})
    <3>1. \A j : j \in 1..k <=> j \in 1..(k - 1) \/ j = k
      BY <2>1
    <3> HIDE DEF shown, unit
    <3> QED
      BY <3>1
  <2>6. where(k - 1) = IF ~row(k - 1) THEN "none" ELSE IF row(k - 2) THEN "body" ELSE "header"
    BY <2>1
  <2>7. row(k) <=> k \notin X /\ ls[k].is = "table"
    BY <2>4
  <2>8. unit(k) <=> worded \/ (row(k) /\ ~(ls[k].delimiter /\ row(k - 1) /\ ~row(k - 2)))
    OBVIOUS
  <2> HIDE DEF Us, shown, row, unit, worded, X, then, s
  <2>9. then.units = Us(k) /\ then.table = where(k)
    <3>1. CASE k \in X \/ ls[k].is = "blank"
      <4>1. then.units = s.units /\ then.table = "none"
        BY <2>3, <3>1 DEF UnitOne
      <4>2. ~row(k) /\ (k \in shown => ~worded)
        BY <2>4, <2>7, <3>1 DEF worded
      <4> QED
        BY <2>2, <2>5, <2>8, <4>1, <4>2
    <3>2. CASE k \notin X /\ ls[k].is = "table"
      <4>1. row(k) /\ ~worded /\ k \in shown
        BY <2>4, <2>7, <3>2 DEF worded
      <4>2. CASE s.table = "header" /\ ls[k].delimiter
        <5>1. then.units = s.units /\ then.table = "body"
          BY <2>3, <3>2, <4>2 DEF UnitOne
        <5>2. row(k - 1) /\ ~row(k - 2)
          BY <2>2, <2>6, <4>2
        <5> QED
          BY <2>2, <2>5, <2>8, <4>1, <4>2, <5>1, <5>2
      <4>3. CASE ~(s.table = "header" /\ ls[k].delimiter)
        <5>1. then.units = s.units \cup {k} /\ then.table = IF s.table = "none" THEN "header" ELSE "body"
          BY <2>3, <3>2, <4>3 DEF UnitOne
        <5>2. /\ row(k - 1) /\ ~row(k - 2) => ~ls[k].delimiter
              /\ s.table = "none" <=> ~row(k - 1)
          BY <2>2, <2>6, <4>3
        <5> QED
          BY <2>2, <2>5, <2>8, <4>1, <5>1, <5>2
      <4> QED
        BY <4>2, <4>3
    <3>3. CASE k \notin X /\ ls[k].is # "table" /\ ls[k].is # "blank"
      <4>1. then.units = (IF worded THEN s.units \cup {k} ELSE s.units) /\ then.table = "none"
        BY <2>3, <3>3 DEF UnitOne, worded
      <4>2. ~row(k) /\ k \in shown
        BY <2>4, <2>7, <3>3
      <4> QED
        BY <2>2, <2>5, <2>8, <4>1, <4>2
    <3> QED
      BY <3>1, <3>2, <3>3
  <2> QED
    BY <2>1, <2>9 DEF then
<1>6. f[N].units = Us(N)
  <2>1. 0..N \subseteq M
    <3> HIDE DEF M
    <3> QED
      BY <1>4, <1>5, EveryRound
  <2>2. N \in 0..N
    OBVIOUS
  <2>3. N \in M
    <3> HIDE DEF M, N
    <3> QED
      BY <2>1, <2>2
  <2> QED
    BY <2>3
<1>7. Us(N) = {i \in shown : unit(i)}
  <2> HIDE DEF unit
  <2> QED
    OBVIOUS
<1>8. Us(N) \subseteq 1..N
  OBVIOUS
<1> HIDE DEF Us, shown, unit
<1> QED
  BY <1>2, <1>3, <1>6, <1>7, <1>8

\* A verdict of density-cap is about the directives a reader meets.
LEMMA DensityReads ==
  ASSUME NEW ls, Len(ls) \in Nat, NEW cap \in Nat, Prompts!DensityExit(TRUE, ls, cap) # 2
  PROVE  Prompts!DensityExit(TRUE, ls, cap) = 0 <=> Cardinality(Prompts!Directives(ls)) <= cap
<1> DEFINE n == Cardinality(Prompts!Directives(ls))
<1>1. n \in Nat
  <2>1. IsFiniteSet(1..Len(ls))
    BY 1 \in Int /\ Len(ls) \in Int, FS_Interval
  <2> QED
    BY <2>1, UnitsAreDirectives, FS_Subset, FS_CardinalityType
<1>2. Prompts!DensityExit(TRUE, ls, cap) = 0 <=> ~(n > cap)
  <2>1. Prompts!DensityExit(TRUE, ls, cap) = 0 <=> ~(Prompts!Cardinality(Prompts!Units(ls)) > cap)
    BY DEF Prompts!DensityExit
  <2>2. Prompts!Units(ls) = Prompts!Directives(ls)
    BY UnitsAreDirectives
  <2> QED
    BY <2>1, <2>2, PromptCounts
<1>3. ~(n > cap) <=> n <= cap
  <2> HIDE DEF n
  <2> QED
    BY <1>1
<1> QED
  BY <1>2, <1>3

-----------------------------------------------------------------------------
(* zone-lint *)

\* A set of numbers with a bound has a greatest one.
LEMMA Greatest ==
  ASSUME NEW i \in Nat, NEW T, T \subseteq 1..i, T # {}
  PROVE  \E x \in T : \A y \in T : y <= x
<1> DEFINE D == {i - x : x \in T}
<1>1. D \subseteq Nat /\ D # {}
  <2>1. \A x \in T : i - x \in Nat
    OBVIOUS
  <2> QED
    BY <2>1
<1>2. PICK d \in D : \A y \in D : d <= y
  <2> HIDE DEF D
  <2> QED
    BY <1>1, LeastNatural
<1>3. PICK x \in T : d = i - x
  OBVIOUS
<1>4. \A y \in T : i - y \in D /\ y \in Int
  OBVIOUS
<1> HIDE DEF D
<1> QED
  BY <1>2, <1>3, <1>4

\* Where none are, the number does not rise.
LEMMA NoneBetween ==
  ASSUME NEW A, NEW i \in Nat, NEW k \in Nat, i <= k, \A m \in (i + 1)..k : m \notin A
  PROVE  HowMany(A, i) = HowMany(A, k)
<1>1. {m \in 1..i : m \in A} = {m \in 1..k : m \in A}
  OBVIOUS
<1> QED
  BY <1>1 DEF HowMany

\* Whether a fence is open, and the directives that stand outside of the head.
Zones == [fenced : BOOLEAN, strays : SUBSET Nat]
Zone0 == [fenced |-> FALSE, strays |-> {}]
ZoneOne(ls, head, s, i) ==
  IF i \in Prompts!Marks(ls)
  THEN [fenced |-> s.fenced # (i \notin Prompts!Unclosed(ls)), strays |-> s.strays]
  ELSE IF ~s.fenced /\ i > head /\ ls[i].is = "shouts"
  THEN [fenced |-> FALSE, strays |-> s.strays \cup {i}]
  ELSE s

\* The gate follows the marks line by line.
LEMMA ZoneRounds ==
  ASSUME NEW ls, Len(ls) \in Nat, NEW head
  PROVE  \E f \in [0..Len(ls) -> Zones] : /\ f[0] = Zone0
                                          /\ \A k \in 1..Len(ls) : f[k] = ZoneOne(ls, head, f[k - 1], k)
                                          /\ Prompts!Strays(ls, head) = f[Len(ls)].strays
<1> DEFINE N == Len(ls)
           S == Zones
           Op(s, k) == ZoneOne(ls, head, s, k)
           g == [p \in S \X (1..N) |-> Op(p[1], p[2])]
<1>1. N \in Nat /\ Zone0 \in S
  BY DEF Zone0, Zones
<1>2. \A s \in S : \A k \in 1..N : Op(s, k) \in S
  BY <1>1 DEF ZoneOne, Zones
<1>3. PICK f \in [0..N -> S] : f[0] = Zone0 /\ \A k \in 1..N : f[k] = Op(f[k - 1], k)
  <2> HIDE DEF Op, S, N
  <2>1. g \in [S \X (1..N) -> S]
    BY <1>2
  <2>2. PICK f : ReadBy(f, N, S, Zone0, g)
    <3> HIDE DEF g
    <3> QED
      BY <1>1, <2>1, Reading
  <2>3. \A k \in 1..N : f[k - 1] \in S
    BY <1>1, <2>2 DEF ReadBy
  <2>4. \A k \in 1..N : g[<<f[k - 1], k>>] = Op(f[k - 1], k)
    BY <2>3
  <2> QED
    BY <2>2, <2>4 DEF ReadBy
<1> DEFINE Round(h, k) == IF k = 0 THEN Zone0 ELSE Op(h[k - 1], k)
           st[k \in 0..N] == IF k = 0 THEN Zone0 ELSE ZoneOne(ls, head, st[k - 1], k)
<1>4. Prompts!Strays(ls, head) = st[N].strays
  BY DEF Prompts!Strays, ZoneOne, Zone0
<1>5. st = [k \in 0..N |-> Round(st, k)]
  <2>1. f = [k \in 0..N |-> Round(f, k)]
    <3> HIDE DEF Op, S, N
    <3> QED
      BY <1>1, <1>3
  <2> HIDE DEF N, S
  <2> QED
    BY <2>1
<1> HIDE DEF st, N, S, Op
<1>6. st[0] = Zone0 /\ \A k \in 1..N : st[k] = Op(st[k - 1], k)
  <2> DEFINE h == [k \in 0..N |-> Round(st, k)]
  <2>1. h[0] = Zone0 /\ \A k \in 1..N : h[k] = Op(st[k - 1], k)
    BY <1>1
  <2> HIDE DEF h, Round
  <2> QED
    BY <1>5, <2>1 DEF h
<1>7. 0..N \subseteq {k \in 0..N : st[k] = f[k]}
  <2> DEFINE A == {k \in 0..N : st[k] = f[k]}
  <2>1. 0 \in A
    <3>1. st[0] = f[0]
      BY <1>3, <1>6, Zenon
    <3> QED
      BY <1>1, <3>1
  <2>2. \A k \in 1..N : k - 1 \in A => k \in A
    <3>1. \A k \in 1..N : f[k] = Op(f[k - 1], k) /\ st[k] = Op(st[k - 1], k)
      BY <1>3, <1>6
    <3> QED
      BY <1>1, <3>1
  <2> HIDE DEF A
  <2> QED
    BY <1>1, <2>1, <2>2, EveryRound DEF A
<1>8. st[N] = f[N]
  BY <1>1, <1>7
<1> QED
  BY <1>3, <1>4, <1>8 DEF N, S, Op

\* The characters are summed line by line.
LEMMA CharsRounds ==
  ASSUME NEW ls, Len(ls) \in Nat, \A i \in 1..Len(ls) : ls[i].chars \in Nat
  PROVE  \E f \in [0..Len(ls) -> Nat] : /\ f[0] = 0
                                        /\ \A k \in 1..Len(ls) : f[k] = f[k - 1] + ls[k].chars
                                        /\ Prompts!Chars(ls) = f[Len(ls)]
<1> DEFINE N == Len(ls)
           S == Nat
           Op(s, k) == s + ls[k].chars
           g == [p \in S \X (1..N) |-> Op(p[1], p[2])]
<1>1. N \in Nat /\ 0 \in S
  OBVIOUS
<1>2. \A s \in S : \A k \in 1..N : Op(s, k) \in S
  BY <1>1
<1>3. PICK f \in [0..N -> S] : f[0] = 0 /\ \A k \in 1..N : f[k] = Op(f[k - 1], k)
  <2> HIDE DEF Op, S, N
  <2>1. g \in [S \X (1..N) -> S]
    BY <1>2
  <2>2. PICK f : ReadBy(f, N, S, 0, g)
    <3> HIDE DEF g
    <3> QED
      BY <1>1, <2>1, Reading
  <2>3. \A k \in 1..N : f[k - 1] \in S
    BY <1>1, <2>2 DEF ReadBy
  <2>4. \A k \in 1..N : g[<<f[k - 1], k>>] = Op(f[k - 1], k)
    BY <2>3
  <2> QED
    BY <2>2, <2>4 DEF ReadBy
<1> DEFINE Round(h, k) == IF k = 0 THEN 0 ELSE Op(h[k - 1], k)
           st[k \in 0..N] == IF k = 0 THEN 0 ELSE st[k - 1] + ls[k].chars
<1>4. Prompts!Chars(ls) = st[N]
  BY DEF Prompts!Chars
<1>5. st = [k \in 0..N |-> Round(st, k)]
  <2>1. f = [k \in 0..N |-> Round(f, k)]
    <3> HIDE DEF Op, S, N
    <3> QED
      BY <1>1, <1>3
  <2> HIDE DEF N, S
  <2> QED
    BY <2>1
<1> HIDE DEF st, N, S, Op
<1>6. st[0] = 0 /\ \A k \in 1..N : st[k] = Op(st[k - 1], k)
  <2> DEFINE h == [k \in 0..N |-> Round(st, k)]
  <2>1. h[0] = 0 /\ \A k \in 1..N : h[k] = Op(st[k - 1], k)
    BY <1>1
  <2> HIDE DEF h, Round
  <2> QED
    BY <1>5, <2>1 DEF h
<1>7. 0..N \subseteq {k \in 0..N : st[k] = f[k]}
  <2> DEFINE A == {k \in 0..N : st[k] = f[k]}
  <2>1. 0 \in A
    <3>1. st[0] = f[0]
      BY <1>3, <1>6, Zenon
    <3> QED
      BY <1>1, <3>1
  <2>2. \A k \in 1..N : k - 1 \in A => k \in A
    <3>1. \A k \in 1..N : f[k] = Op(f[k - 1], k) /\ st[k] = Op(st[k - 1], k)
      BY <1>3, <1>6
    <3> QED
      BY <1>1, <3>1
  <2> HIDE DEF A
  <2> QED
    BY <1>1, <2>1, <2>2, EveryRound DEF A
<1>8. st[N] = f[N]
  BY <1>1, <1>7
<1> QED
  BY <1>3, <1>4, <1>8 DEF N, S, Op


\* The marks that open or close, as the gate takes them.
Toggles(ls) == Prompts!Marks(ls) \ Prompts!Unclosed(ls)

\* The mark that opens nothing is the last of an odd number.
LEMMA UnclosedIsLast ==
  ASSUME NEW ls, Len(ls) \in Nat
  PROVE  LET F == Prompts!Marks(ls)
             total == HowMany(F, Len(ls))
         IN  /\ total % 2 = 0 => Prompts!Unclosed(ls) = {}
             /\ total % 2 # 0 => Prompts!Unclosed(ls) = {i \in F : \A j \in F : j <= i}
<1> DEFINE F == Prompts!Marks(ls)
<1>1. {i \in 1..Len(ls) : i \in F} = F
  BY DEF Prompts!Marks
<1>2. Prompts!Cardinality(F) = HowMany(F, Len(ls))
  BY <1>1, PromptCounts DEF HowMany
<1>3. Prompts!Unclosed(ls) = IF Prompts!Cardinality(F) % 2 = 0 THEN {} ELSE {i \in F : \A j \in F : j <= i}
  BY DEF Prompts!Unclosed
<1> HIDE DEF F
<1> QED
  BY <1>2, <1>3 DEF F

\* The marks are paired two by two, and line i stands between the two of a pair.
InPair(ls, i) ==
  LET F == Prompts!Marks(ls)
  IN  \E j, k \in F : j < i /\ i < k /\ HowMany(F, j - 1) % 2 = 0 /\ \A m \in F : m <= j \/ m >= k

\* A line is in a pair of marks if an odd number of those that open or close come
\* before it.
LEMMA PairsAreToggles ==
  ASSUME NEW ls, Len(ls) \in Nat, NEW i \in 1..Len(ls), ls[i].is # "fence"
  PROVE  InPair(ls, i) <=> HowMany(Toggles(ls), i) % 2 = 1
<1> DEFINE N == Len(ls)
           F == Prompts!Marks(ls)
           U == Prompts!Unclosed(ls)
           T == Toggles(ls)
           total == HowMany(F, N)
           here == HowMany(F, i)
<1>1. (\A m : m \in F => m \in 1..N) /\ i \notin F /\ F \subseteq 1..N
  BY DEF Prompts!Marks
<1>2. T = F \ U
  BY DEF Toggles
<1>3. (total % 2 = 0 => U = {}) /\ (total % 2 # 0 => U = {m \in F : \A j \in F : j <= m})
  BY UnclosedIsLast
<1>4. InPair(ls, i)
        <=> \E j, k \in F : j < i /\ i < k /\ HowMany(F, j - 1) % 2 = 0 /\ \A m \in F : m <= j \/ m >= k
  BY DEF InPair
<1> HIDE DEF F, U, T, N
<1>5. N \in Nat /\ i \in 1..N /\ F \subseteq Nat
  BY <1>1 DEF N
<1>6. total \in Nat /\ here \in Nat
  <2>1. \A k \in Nat : HowMany(F, k) \in Nat
    BY OneMore, Zenon
  <2>2. i \in Nat
    BY <1>5
  <2> QED
    BY <1>5, <2>1, <2>2
<1>7. \A j \in F : HowMany(F, j - 1) \in Nat /\ HowMany(F, j) = HowMany(F, j - 1) + 1
  <2>1. \A j \in F : j \in Nat \ {0} /\ j - 1 \in Nat
    BY <1>1, <1>5
  <2> QED
    BY <2>1, OneMore
<1>8. \A j \in F : j < i /\ (\A m \in F : m <= j \/ m > i) => HowMany(F, j) = here
  <2>1. SUFFICES ASSUME NEW j \in F, j < i, \A m \in F : m <= j \/ m > i
        PROVE  HowMany(F, j) = here
    OBVIOUS
  <2>2. j \in Nat /\ i \in Nat /\ j <= i /\ \A m \in (j + 1)..i : m \notin F
    BY <1>5, <2>1
  <2> QED
    BY <2>2, NoneBetween
<1>9. (\A m \in U : m > i) => HowMany(T, i) = here
  <2>1. SUFFICES ASSUME \A m \in U : m > i
        PROVE  {m \in 1..i : m \in T} = {m \in 1..i : m \in F}
    BY DEF HowMany
  <2>2. \A m \in 1..i : m \notin U
    BY <1>5, <2>1
  <2> QED
    BY <1>2, <2>2
<1>10. ASSUME NEW u \in U, ~(u > i)
       PROVE  HowMany(T, i) = total - 1 /\ total % 2 # 0
  <2>1. total % 2 # 0 /\ U = {m \in F : \A j \in F : j <= m}
    BY <1>3, <1>10
  <2>2. u \in F /\ \A j \in F : j <= u
    BY <1>10, <2>1
  <2>3. u \in Nat /\ u <= i /\ \A m \in (i + 1)..N : m \notin F
    BY <1>5, <1>10, <2>2
  <2>4. here = total
    BY <1>5, <2>3, NoneBetween
  <2>5. U = {u}
    <3>1. \A m \in U : m \in Nat /\ m <= u /\ u <= m
      BY <1>5, <1>10, <2>1, <2>2
    <3> QED
      BY <1>10, <2>3, <3>1
  <2> DEFINE S == {m \in 1..i : m \in F}
  <2>6. {m \in 1..i : m \in T} = S \ {u} /\ u \in S
    <3>1. u \in 1..i
      BY <1>1, <1>5, <2>2, <2>3
    <3> QED
      BY <1>2, <2>2, <2>5, <3>1
  <2>7. IsFiniteSet(S)
    <3>1. IsFiniteSet(1..i)
      BY <1>5, 1 \in Int /\ i \in Int, FS_Interval
    <3> QED
      BY <3>1, FS_Subset
  <2>8. Cardinality(S \ {u}) = Cardinality(S) - 1
    <3> HIDE DEF S
    <3> QED
      BY <2>6, <2>7, FS_RemoveElement
  <2> QED
    BY <2>1, <2>4, <2>6, <2>8 DEF HowMany
<1>11. ASSUME InPair(ls, i)
       PROVE  HowMany(T, i) % 2 = 1
  <2>1. PICK j \in F, k \in F : /\ j < i /\ i < k /\ HowMany(F, j - 1) % 2 = 0 /\ \A m \in F : m <= j \/ m >= k
    BY <1>4, <1>11
  <2>2. j \in Nat /\ k \in Nat /\ i \in Nat /\ \A m \in F : m \in Nat /\ (m <= j \/ m > i)
    BY <1>5, <2>1
  <2>3. here = HowMany(F, j - 1) + 1
    BY <1>7, <1>8, <2>1, <2>2
  <2>4. here % 2 = 1
    BY <1>7, <2>1, <2>3
  <2>5. \A m \in U : m > i
    <3>1. U = {} \/ U = {m \in F : \A n \in F : n <= m}
      BY <1>3, Zenon
    <3>2. SUFFICES ASSUME NEW m \in U
          PROVE  m > i
      OBVIOUS
    <3>3. m \in F /\ k <= m
      BY <2>1, <3>1
    <3>4. m \in Nat
      BY <1>5, <3>3
    <3> QED
      BY <2>1, <2>2, <3>3, <3>4
  <2> QED
    BY <1>9, <2>4, <2>5
<1>12. ASSUME HowMany(T, i) % 2 = 1
       PROVE  InPair(ls, i)
  <2>1. \A m \in U : m > i
    <3>1. SUFFICES ASSUME NEW u \in U, ~(u > i)
          PROVE  FALSE
      OBVIOUS
    <3>2. HowMany(T, i) = total - 1 /\ total % 2 # 0
      BY <1>10, <3>1
    <3> QED
      BY <1>6, <1>12, <3>2
  <2>2. here % 2 = 1
    BY <1>9, <1>12, <2>1
  <2>3. \E m \in F : m < i
    <3>1. SUFFICES ASSUME \A m \in F : ~(m < i)
          PROVE  FALSE
      OBVIOUS
    <3>2. 0 <= i /\ i \in Nat /\ \A m \in (0 + 1)..i : m \notin F
      BY <1>1, <1>5, <3>1
    <3>3. here = HowMany(F, 0)
      BY <3>2, NoneBetween
    <3> QED
      BY <2>2, <3>3, OneMore
  <2>4. \E m \in F : m > i
    <3>1. SUFFICES ASSUME \A m \in F : ~(m > i)
          PROVE  FALSE
      OBVIOUS
    <3>2. here = total
      <4>1. \A m \in (i + 1)..N : m \notin F
        BY <1>5, <3>1
      <4> QED
        BY <1>5, <4>1, NoneBetween
    <3>3. U = {m \in F : \A j \in F : j <= m}
      BY <1>3, <2>2, <3>2
    <3>4. F # {} /\ F \subseteq 1..N
      BY <1>1, <2>3 DEF N
    <3>5. PICK x \in F : \A y \in F : y <= x
      BY <1>5, <3>4, Greatest
    <3>6. x \in U
      BY <3>3, <3>5
    <3> QED
      BY <2>1, <3>1, <3>6
  <2> DEFINE L == {m \in F : m < i}
             R == {m \in F : m > i}
  <2>5. PICK j \in L : \A y \in L : y <= j
    <3>1. L \subseteq 1..i /\ L # {}
      BY <1>1, <1>5, <2>3
    <3>2. i \in Nat
      BY <1>5
    <3> HIDE DEF L
    <3> QED
      BY <3>1, <3>2, Greatest
  <2>6. PICK k \in R : \A y \in R : k <= y
    <3>1. R \subseteq Nat /\ R # {}
      BY <1>5, <2>4
    <3> HIDE DEF R
    <3> QED
      BY <3>1, LeastNatural
  <2>7. j \in F /\ k \in F /\ j < i /\ i < k
    BY <1>5, <2>5, <2>6
  <2>8. \A m \in F : m <= j \/ m >= k
    <3>1. \A m \in F : m \in L \/ m \in R
      BY <1>1, <1>5
    <3>2. \A m \in F : m <= j \/ k <= m
      BY <2>5, <2>6, <3>1
    <3> QED
      BY <1>5, <2>7, <3>2
  <2>9. here = HowMany(F, j - 1) + 1
    <3>1. \A m \in F : m <= j \/ m > i
      BY <1>5, <2>7, <2>8
    <3> QED
      BY <1>7, <1>8, <2>7, <3>1
  <2>10. HowMany(F, j - 1) % 2 = 0
    BY <1>7, <2>2, <2>7, <2>9
  <2> QED
    BY <1>4, <2>7, <2>8, <2>10
<1> QED
  BY <1>11, <1>12, OneMore DEF T

\* The directives that the gate finds past the head are those outside of all pairs.
LEMMA StraysAreOutside ==
  ASSUME NEW ls, Len(ls) \in Nat, NEW head
  PROVE  Prompts!Strays(ls, head)
           = {i \in 1..Len(ls) : i > head /\ ls[i].is = "shouts" /\ ~InPair(ls, i)}
<1> DEFINE N == Len(ls)
           T == Toggles(ls)
           stray(i) == i > head /\ ls[i].is = "shouts" /\ HowMany(T, i) % 2 # 1
           Ss(k) == {i \in 1..k : stray(i)}
<1>1. PICK f \in [0..N -> Zones] : /\ f[0] = Zone0
                                   /\ \A k \in 1..N : f[k] = ZoneOne(ls, head, f[k - 1], k)
                                   /\ Prompts!Strays(ls, head) = f[N].strays
  BY ZoneRounds
<1>2. \A i \in 1..N : /\ i \in T <=> i \in Prompts!Marks(ls) /\ i \notin Prompts!Unclosed(ls)
                      /\ i \in Prompts!Marks(ls) => ls[i].is = "fence"
  BY DEF Toggles, Prompts!Marks
<1> DEFINE So(k) == (f[k].fenced <=> HowMany(T, k) % 2 = 1) /\ f[k].strays = Ss(k)
           M == {k \in 0..N : So(k)}
<1>3. 0 \in M
  <2>1. 1..0 = {} /\ HowMany(T, 0) % 2 = 0 /\ 0 \in 0..N
    BY OneMore
  <2>2. f[0].fenced = FALSE /\ f[0].strays = {}
    BY <1>1 DEF Zone0
  <2>3. Ss(0) = {}
    BY <2>1
  <2>4. ~(HowMany(T, 0) % 2 = 1)
    <3> HIDE DEF T
    <3> QED
      BY <2>1
  <2>5. So(0)
    BY <2>2, <2>3, <2>4, Zenon
  <2> HIDE DEF So, N
  <2> QED
    BY <2>1, <2>5
<1>4. ASSUME NEW k \in 1..N, k - 1 \in M
      PROVE  k \in M
  <2> DEFINE s == f[k - 1]
             then == f[k]
             a == HowMany(T, k - 1)
             b == HowMany(T, k)
             line == ls[k]
  <2>1. k \in Nat \ {0} /\ k - 1 \in Nat /\ k - 1 \in 0..N /\ k \in 0..N
    OBVIOUS
  <2>2. s \in Zones /\ then = ZoneOne(ls, head, s, k)
    BY <1>1, <2>1
  <2>3. (s.fenced <=> a % 2 = 1) /\ s.strays = Ss(k - 1)
    BY <1>4
  <2>4. Ss(k) = Ss(k - 1) \cup (IF stray(k) THEN {k} ELSE {})
    <3>1. \A j : j \in 1..k <=> j \in 1..(k - 1) \/ j = k
      BY <2>1
    <3> HIDE DEF stray
    <3> QED
      BY <3>1
  <2>5. /\ k \in T <=> k \in Prompts!Marks(ls) /\ k \notin Prompts!Unclosed(ls)
        /\ k \in Prompts!Marks(ls) => line.is = "fence"
    BY <1>2
  <2> HIDE DEF T
  <2>6. a \in Nat /\ b = a + IF k \in T THEN 1 ELSE 0
    BY <2>1, OneMore
  <2>7. stray(k) <=> k > head /\ line.is = "shouts" /\ b % 2 # 1
    OBVIOUS
  <2>8. /\ k \notin T => b = a
        /\ k \in T => (b % 2 = 1 <=> ~(a % 2 = 1))
    BY <2>6
  <2>9. s.fenced \in BOOLEAN
    BY <2>2 DEF Zones
  <2> HIDE DEF Ss, stray, a, b, line, s, then
  <2>10. (then.fenced <=> b % 2 = 1) /\ then.strays = Ss(k)
    <3>1. CASE k \in Prompts!Marks(ls)
      <4>1. then.fenced = (s.fenced # (k \notin Prompts!Unclosed(ls))) /\ then.strays = s.strays
        BY <2>2, <3>1 DEF ZoneOne, line
      <4>2. ~stray(k)
        BY <2>5, <2>7, <3>1
      <4>3. Ss(k) = Ss(k - 1)
        BY <2>4, <4>2
      <4>4. then.fenced <=> b % 2 = 1
        BY <2>3, <2>5, <2>8, <2>9, <3>1, <4>1
      <4> QED
        BY <2>3, <4>1, <4>3, <4>4
    <3>2. CASE k \notin Prompts!Marks(ls) /\ ~s.fenced /\ k > head /\ line.is = "shouts"
      <4>1. then.fenced = FALSE /\ then.strays = s.strays \cup {k}
        BY <2>2, <3>2 DEF ZoneOne, line
      <4>2. b = a
        BY <2>5, <2>8, <3>2
      <4>3. stray(k)
        BY <2>3, <2>7, <3>2, <4>2
      <4> QED
        BY <2>3, <2>4, <3>2, <4>1, <4>2, <4>3
    <3>3. CASE k \notin Prompts!Marks(ls) /\ ~(~s.fenced /\ k > head /\ line.is = "shouts")
      <4>1. then = s
        BY <2>2, <3>3 DEF ZoneOne, line
      <4>2. b = a
        BY <2>5, <2>8, <3>3
      <4>3. ~stray(k)
        BY <2>3, <2>7, <3>3, <4>2
      <4> QED
        BY <2>3, <2>4, <4>1, <4>2, <4>3
    <3> QED
      BY <3>1, <3>2, <3>3
  <2> QED
    BY <2>1, <2>10 DEF then, b
<1>5. f[N].strays = Ss(N)
  <2>1. 0..N \subseteq M
    <3> HIDE DEF M
    <3> QED
      BY <1>3, <1>4, EveryRound
  <2>2. N \in 0..N
    OBVIOUS
  <2>3. N \in M
    <3> HIDE DEF M, N
    <3> QED
      BY <2>1, <2>2
  <2> QED
    BY <2>3
<1>6. \A i \in 1..N : ls[i].is = "shouts" => (InPair(ls, i) <=> HowMany(T, i) % 2 = 1)
  <2>1. SUFFICES ASSUME NEW i \in 1..Len(ls), ls[i].is = "shouts"
        PROVE  InPair(ls, i) <=> HowMany(Toggles(ls), i) % 2 = 1
    OBVIOUS
  <2>2. ls[i].is # "fence"
    BY <2>1
  <2> QED
    BY <2>2, PairsAreToggles
<1>7. Ss(N) = {i \in 1..N : i > head /\ ls[i].is = "shouts" /\ ~InPair(ls, i)}
  BY <1>6
<1> QED
  BY <1>1, <1>5, <1>7

\* Where fences match, a line between the two of a pair is shown as code, and no
\* other is.
LEMMA PairsAreShown ==
  ASSUME NEW ls, Len(ls) \in Nat, Prompts!ZoneRead(ls), NEW i \in 1..Len(ls), ls[i].is # "fence"
  PROVE  InPair(ls, i) <=> i \in Prompts!ShownAsCode(ls)
<1> DEFINE N == Len(ls)
           F == Prompts!Marks(ls)
           two(j, k) == /\ j \in F /\ k \in F /\ j < k /\ HowMany(F, j - 1) % 2 = 0
                        /\ \A m \in F : m <= j \/ m >= k
<1>1. /\ \A m : m \in F <=> m \in 1..N /\ ls[m].is = "fence"
      /\ F \subseteq 1..N /\ N \in Nat /\ i \notin F /\ i \in 1..N
  BY DEF Prompts!Marks, Prompts!ZoneRead
<1>2. ASSUME NEW j, NEW k, two(j, k)
      PROVE  Prompts!Ends(ls, j, k)
  <2>1. j \in 1..N /\ k \in 1..N /\ ls[j].is = "fence" /\ ls[k].is = "fence" /\ j < k
    BY <1>1, <1>2
  <2>2. \A m \in (j + 1)..(k - 1) : ls[m].is # "fence"
    BY <1>1, <1>2, <2>1
  <2>3. {m \in 1..(j - 1) : ls[m].is = "fence"} = {m \in 1..(j - 1) : m \in F}
    BY <1>1, <2>1
  <2>4. Prompts!Cardinality({m \in 1..(j - 1) : ls[m].is = "fence"}) % 2 = 0
    <3>1. HowMany(F, j - 1) % 2 = 0
      BY <1>2
    <3> HIDE DEF F
    <3> QED
      BY <2>3, <3>1, PromptCounts DEF HowMany
  <2>5. Prompts!Pair(ls, j, k)
    BY <2>1, <2>2, <2>4 DEF Prompts!Pair
  <2> QED
    BY <2>1, <2>5 DEF Prompts!ZoneRead, Prompts!FencesMatch
<1>3. PICK o \in [0..N -> Nat] : /\ o[0] = 0
                                 /\ \A k \in 1..N : o[k] = OpenOne(ls, o[k - 1], k)
                                 /\ Prompts!ShownAsCode(ls) = {j \in 1..N : o[j] # 0 \/ o[j - 1] # 0}
  BY OpenRounds
<1> HIDE DEF F
<1>4. \A j \in F : j \in Nat \ {0} /\ j - 1 \in Nat
  BY <1>1
<1>5. \A j \in F : HowMany(F, j - 1) \in Nat /\ HowMany(F, j) = HowMany(F, j - 1) + 1
  BY <1>4, OneMore
<1>6. ASSUME NEW j \in F, NEW k \in F, j < k, \A m \in F : m <= j \/ m >= k
      PROVE  HowMany(F, k - 1) = HowMany(F, j - 1) + 1
  <2>1. j \in Nat /\ k - 1 \in Nat /\ j <= k - 1 /\ \A m \in (j + 1)..(k - 1) : m \notin F
    BY <1>4, <1>6
  <2>2. HowMany(F, j) = HowMany(F, k - 1)
    BY <2>1, NoneBetween
  <2> QED
    BY <1>5, <2>2
<1> DEFINE So(k) == /\ o[k] # 0 => \E m \in F : two(o[k], m) /\ o[k] <= k /\ k < m
                    /\ \A j, m \in F : two(j, m) /\ j <= k /\ k < m => o[k] = j
           M == {k \in 0..N : So(k)}
<1>7. 0 \in M
  BY <1>1, <1>3
<1>8. ASSUME NEW k \in 1..N, k - 1 \in M
      PROVE  k \in M
  <2> DEFINE p == o[k - 1]
             q == o[k]
  <2>1. k \in Nat /\ k \in 0..N /\ k - 1 \in 0..N /\ p \in Nat /\ q \in Nat
    BY <1>1, <1>3
  <2>2. q = OpenOne(ls, p, k)
    BY <1>3
  <2>3. /\ p # 0 => \E m \in F : two(p, m) /\ p <= k - 1 /\ k - 1 < m
        /\ \A j, m \in F : two(j, m) /\ j <= k - 1 /\ k - 1 < m => p = j
    BY <1>8
  <2>4. k \in F <=> ls[k].is = "fence"
    BY <1>1
  <2> HIDE DEF p, q
  <2>5. CASE k \notin F
    <3>1. q = p
      BY <2>2, <2>4, <2>5 DEF OpenOne, Prompts!Ends
    <3>2. \A j, m \in F : (j <= k <=> j <= k - 1) /\ (k < m <=> k - 1 < m)
      BY <1>4, <2>1, <2>5
    <3>3. /\ q # 0 => \E m \in F : two(q, m) /\ q <= k /\ k < m
          /\ \A j, m \in F : two(j, m) /\ j <= k /\ k < m => q = j
      <4> HIDE DEF two
      <4>1. ASSUME q # 0
            PROVE  \E m \in F : two(q, m) /\ q <= k /\ k < m
        <5>1. PICK m \in F : two(p, m) /\ p <= k - 1 /\ k - 1 < m
          BY <2>3, <3>1, <4>1
        <5>2. p \in F
          BY <5>1 DEF two
        <5> QED
          BY <3>1, <3>2, <5>1, <5>2
      <4> QED
        BY <2>3, <3>1, <3>2, <4>1
    <3> QED
      BY <2>1, <3>3 DEF q
  <2>6. CASE k \in F /\ p # 0
    <3>1. PICK m \in F : two(p, m) /\ p <= k - 1 /\ k - 1 < m
      BY <2>3, <2>6
    <3>2. m = k
      BY <1>4, <2>1, <2>6, <3>1
    <3>3. Prompts!Ends(ls, p, k)
      <4> HIDE DEF two
      <4> QED
        BY <1>2, <3>1, <3>2
    <3>4. q = 0
      BY <2>2, <2>6, <3>3 DEF OpenOne
    <3>5. ASSUME NEW j \in F, NEW n \in F, two(j, n), j <= k, k < n
          PROVE  FALSE
      <4>1. j = k
        BY <1>4, <2>1, <2>6, <3>5
      <4>2. HowMany(F, k - 1) = HowMany(F, p - 1) + 1
        BY <1>6, <3>1, <3>2
      <4>3. p \in F /\ HowMany(F, p - 1) % 2 = 0 /\ HowMany(F, k - 1) % 2 = 0
        BY <3>1, <3>5, <4>1
      <4>4. HowMany(F, p - 1) \in Nat
        BY <1>5, <4>3
      <4> HIDE DEF two
      <4> QED
        BY <4>2, <4>3, <4>4
    <3>6. /\ q # 0 => \E n \in F : two(q, n) /\ q <= k /\ k < n
          /\ \A j, n \in F : two(j, n) /\ j <= k /\ k < n => q = j
      <4> HIDE DEF two
      <4> QED
        BY <3>4, <3>5
    <3> QED
      BY <2>1, <3>6 DEF q
  <2>7. CASE k \in F /\ p = 0
    <3>1. ASSUME NEW j \in F, j < k
          PROVE  HowMany(F, k - 1) % 2 = 0
      <4> DEFINE L == {m \in F : m < k}
      <4>1. L \subseteq 1..k /\ L # {}
        BY <1>1, <2>1, <3>1
      <4>2. PICK x \in L : \A y \in L : y <= x
        <5> HIDE DEF L
        <5> QED
          BY <2>1, <4>1, Greatest
      <4>3. x \in F /\ x < k /\ \A m \in F : m <= x \/ m >= k
        BY <1>4, <2>1, <4>2
      <4>4. HowMany(F, k - 1) = HowMany(F, x - 1) + 1
        BY <1>6, <2>7, <4>3
      <4>5. ~two(x, k)
        <5>1. x <= k - 1 /\ k - 1 < k /\ x # 0
          BY <1>4, <2>1, <4>3
        <5> HIDE DEF two
        <5> QED
          BY <2>3, <2>7, <4>3, <5>1
      <4>6. HowMany(F, x - 1) % 2 # 0
        BY <2>7, <4>3, <4>5
      <4>7. HowMany(F, x - 1) \in Nat
        BY <1>5, <4>3
      <4> QED
        BY <4>4, <4>6, <4>7
    <3>2. HowMany(F, k - 1) % 2 = 0
      <4>1. CASE \E j \in F : j < k
        BY <3>1, <4>1
      <4>2. CASE \A j \in F : ~(j < k)
        <5>1. k - 1 \in Nat /\ 0 <= k - 1 /\ \A m \in (0 + 1)..(k - 1) : m \notin F
          BY <2>1, <4>2
        <5>2. HowMany(F, 0) = HowMany(F, k - 1)
          BY <5>1, NoneBetween
        <5> QED
          BY <5>2, OneMore
      <4> QED
        BY <4>1, <4>2
    <3>3. (\E n \in (k + 1)..N : Prompts!Ends(ls, k, n)) => \E n \in F : two(k, n)
      <4>1. SUFFICES ASSUME NEW c \in (k + 1)..N, Prompts!Ends(ls, k, c)
            PROVE  \E n \in F : two(k, n)
        OBVIOUS
      <4> DEFINE R == {m \in F : m > k}
      <4>2. c \in R
        BY <1>1, <2>1, <4>1 DEF Prompts!Ends
      <4>3. R \subseteq Nat /\ R # {}
        BY <1>4, <4>2
      <4>4. PICK n \in R : \A y \in R : n <= y
        <5> HIDE DEF R
        <5> QED
          BY <4>3, LeastNatural
      <4>5. n \in F /\ k < n /\ \A m \in F : m <= k \/ m >= n
        BY <1>4, <2>1, <4>4
      <4> QED
        BY <2>7, <3>2, <4>5
    <3>4. ASSUME NEW n \in F, two(k, n)
          PROVE  n \in (k + 1)..N /\ Prompts!Ends(ls, k, n)
      <4>1. n \in (k + 1)..N
        BY <1>1, <2>1, <3>4
      <4> HIDE DEF two
      <4> QED
        BY <1>2, <3>4, <4>1
    <3>5. \A j, n \in F : two(j, n) /\ j <= k /\ k < n => j = k
      BY <1>4, <2>1, <2>7
    <3>6. q = IF \E n \in F : two(k, n) THEN k ELSE 0
      <4> HIDE DEF two
      <4>1. q = IF \E n \in (k + 1)..N : Prompts!Ends(ls, k, n) THEN k ELSE 0
        BY <2>2, <2>4, <2>7 DEF OpenOne
      <4> QED
        BY <3>3, <3>4, <4>1
    <3>7. \A n \in F : two(k, n) => k < n
      OBVIOUS
    <3>8. /\ q # 0 => \E n \in F : two(q, n) /\ q <= k /\ k < n
          /\ \A j, n \in F : two(j, n) /\ j <= k /\ k < n => q = j
      <4>1. k <= k
        BY <2>1
      <4> HIDE DEF two
      <4> QED
        BY <3>5, <3>6, <3>7, <4>1
    <3> QED
      BY <2>1, <3>8 DEF q
  <2> QED
    BY <2>5, <2>6, <2>7
<1>9. 0..N \subseteq M
  <2> HIDE DEF M
  <2> QED
    BY <1>1, <1>7, <1>8, EveryRound
<1>10. So(i) /\ So(i - 1)
  <2>1. i \in 0..N /\ i - 1 \in 0..N
    BY <1>1
  <2>2. i \in M /\ i - 1 \in M
    <3> HIDE DEF M
    <3> QED
      BY <1>9, <2>1
  <2> HIDE DEF So
  <2> QED
    BY <2>2
<1>11. InPair(ls, i) <=> \E j, m \in F : two(j, m) /\ j < i /\ i < m
  <2>1. InPair(ls, i) <=> \E j, m \in F : /\ j < i /\ i < m /\ HowMany(F, j - 1) % 2 = 0
                                         /\ \A x \in F : x <= j \/ x >= m
    BY DEF InPair, F
  <2>2. \A j, m \in F : j < i /\ i < m => j < m
    BY <1>1, <1>4
  <2> QED
    BY <2>1, <2>2
<1>12. \A j, m \in F : (j < i <=> j <= i) /\ (j < i <=> j <= i - 1) /\ (i < m <=> i - 1 < m)
  BY <1>1, <1>4
<1>13. o[i] # 0 <=> InPair(ls, i)
  <2>1. ASSUME o[i] # 0
        PROVE  InPair(ls, i)
    <3>1. PICK m \in F : two(o[i], m) /\ o[i] <= i /\ i < m
      BY <1>10, <2>1
    <3>2. o[i] \in F
      BY <3>1
    <3> HIDE DEF two
    <3> QED
      BY <1>11, <1>12, <3>1, <3>2
  <2>2. ASSUME InPair(ls, i)
        PROVE  o[i] # 0
    <3>1. PICK j \in F, m \in F : two(j, m) /\ j < i /\ i < m
      BY <1>11, <2>2
    <3>2. o[i] = j
      <4> HIDE DEF two
      <4> QED
        BY <1>10, <1>12, <3>1
    <3> QED
      BY <1>4, <3>2
  <2> QED
    BY <2>1, <2>2
<1>14. o[i - 1] # 0 => InPair(ls, i)
  <2>1. SUFFICES ASSUME o[i - 1] # 0
        PROVE  InPair(ls, i)
    OBVIOUS
  <2>2. PICK m \in F : two(o[i - 1], m) /\ o[i - 1] <= i - 1 /\ i - 1 < m
    BY <1>10, <2>1
  <2>3. o[i - 1] \in F
    BY <2>2
  <2> HIDE DEF two
  <2> QED
    BY <1>11, <1>12, <2>2, <2>3
<1>15. i \in Prompts!ShownAsCode(ls) <=> o[i] # 0 \/ o[i - 1] # 0
  BY <1>1, <1>3
<1> QED
  BY <1>13, <1>14, <1>15

\* A verdict of zone-lint is that of a reader of the rendered prompt.
LEMMA ZoneReads ==
  ASSUME NEW ls \in Seq(Prompts!ZoneLine), NEW b \in [lines : Nat, tokens : Nat, head : Nat],
         Prompts!ZoneRead(ls)
  PROVE  /\ Prompts!ZoneExit("readable", ls, b) \in {0, 1}
         /\ Prompts!ZoneExit("readable", ls, b) = 0 <=> Prompts!ZonePlaced(ls, b)
<1> DEFINE N == Len(ls)
           chars == Prompts!Chars(ls)
           blank == \A i \in 1..N : ls[i].is = "blank"
           strays == Prompts!Strays(ls, b.head)
           outside == \E i \in 1..N : i > b.head /\ ls[i].is = "shouts" /\ ~InPair(ls, i)
<1>1. N \in Nat /\ \A i \in 1..N : ls[i].chars \in Nat
  <2>1. \A l \in Prompts!ZoneLine : l.chars \in Nat
    BY DEF Prompts!ZoneLine
  <2> QED
    BY <2>1, ElementOfSeq
<1>2. b.lines \in Nat /\ b.tokens \in Nat /\ b.head \in Nat
  OBVIOUS
<1>3. chars \in Nat
  <2>1. PICK f \in [0..N -> Nat] : chars = f[N]
    BY <1>1, CharsRounds
  <2> HIDE DEF chars, N
  <2> QED
    BY <1>1, <2>1
<1>4. strays # {} <=> outside
  BY <1>1, StraysAreOutside
<1>5. Prompts!ZoneExit("readable", ls, b)
        = IF blank \/ N > b.lines \/ (chars + 3) \div 4 > b.tokens \/ strays # {} THEN 1 ELSE 0
  BY DEF Prompts!ZoneExit
<1>6. Prompts!ZonePlaced(ls, b)
        <=> /\ \E i \in 1..N : ls[i].is # "blank"
            /\ N <= b.lines /\ chars <= 4 * b.tokens
            /\ \A i \in (b.head + 1)..N : ls[i].is = "shouts" => InPair(ls, i)
  <2>1. \A i \in 1..N : ls[i].is = "shouts" => (InPair(ls, i) <=> i \in Prompts!ShownAsCode(ls))
    <3>1. SUFFICES ASSUME NEW i \in 1..N, ls[i].is = "shouts"
          PROVE  InPair(ls, i) <=> i \in Prompts!ShownAsCode(ls)
      OBVIOUS
    <3>2. ls[i].is # "fence"
      BY <3>1
    <3> QED
      BY <1>1, <3>2, PairsAreShown
  <2>2. \A i \in (b.head + 1)..N : i \in 1..N
    BY <1>1, <1>2
  <2> QED
    BY <2>1, <2>2 DEF Prompts!ZonePlaced
<1>7. ~outside <=> \A i \in (b.head + 1)..N : ls[i].is = "shouts" => InPair(ls, i)
  BY <1>1, <1>2
<1>8. (chars + 3) \div 4 > b.tokens <=> ~(chars <= 4 * b.tokens)
  <2> DEFINE t == b.tokens
  <2> HIDE DEF chars, t
  <2>1. t \in Nat
    BY <1>2 DEF t
  <2>2. (chars + 3) \div 4 > t <=> ~(chars <= 4 * t)
    BY <1>3, <2>1
  <2> QED
    BY <2>2 DEF t
<1>9. N > b.lines <=> ~(N <= b.lines)
  BY <1>1, <1>2
<1> HIDE DEF chars, strays, outside, N
<1> QED
  BY <1>4, <1>5, <1>6, <1>7, <1>8, <1>9

-----------------------------------------------------------------------------
(* load-ledger *)

\* What is known of a task's loads: the depth at which each body was last taken up.
Depths == UNION {[D -> Nat] : D \in SUBSET Bodies}
Audits == [spec : BOOLEAN, seen : Depths, impl : Nat, total : Nat, findings : SUBSET {"IMPL-FIRST", "UNJUSTIFIED", "RE-READ"}]
LoadOne(ls, t, s, k) == IF k \in Sums!Of(ls, t) THEN Sums!Load(s, ls[k].row) ELSE s

\* A depth is a number.
LEMMA TierIsNumber == \A kind \in Sums!Kinds : Sums!Tier[kind] \in Nat
BY DEF Sums!Kinds, Sums!Tier

\* What is kept of a load.
LEMMA KeptDepths ==
  ASSUME NEW seen \in Depths, NEW key \in Bodies, NEW tier \in Nat
  PROVE  LET kept == Sums!Kept(seen, key, tier)
         IN  /\ kept \in Depths /\ DOMAIN kept = DOMAIN seen \cup {key}
             /\ key \in DOMAIN seen => seen[key] \in Nat
             /\ kept[key] = IF key \in DOMAIN seen /\ tier <= seen[key] THEN seen[key] ELSE tier
             /\ \A b \in DOMAIN seen \ {key} : kept[b] = seen[b]
<1> DEFINE kept == Sums!Kept(seen, key, tier)
           raised == [k \in DOMAIN seen \cup {key} |-> IF k = key THEN tier ELSE seen[k]]
<1>1. PICK D \in SUBSET Bodies : seen \in [D -> Nat]
  BY DEF Depths
<1>2. DOMAIN seen = D /\ \A b \in D : seen[b] \in Nat
  BY <1>1
<1>3. raised \in [D \cup {key} -> Nat] /\ D \cup {key} \in SUBSET Bodies
  BY <1>2
<1>4. raised \in Depths
  <2> HIDE DEF raised
  <2> QED
    BY <1>3 DEF Depths
<1>5. /\ DOMAIN raised = D \cup {key} /\ raised[key] = tier
      /\ \A b \in D \ {key} : raised[b] = seen[b]
  BY <1>2
<1>6. kept = IF key \in DOMAIN seen /\ tier <= seen[key] THEN seen ELSE raised
  BY DEF Sums!Kept
<1> HIDE DEF kept, raised
<1>7. CASE key \in D /\ tier <= seen[key]
  <2>1. kept = seen /\ D \cup {key} = D
    BY <1>2, <1>6, <1>7
  <2> QED
    BY <1>2, <1>7, <2>1 DEF kept
<1>8. CASE ~(key \in D /\ tier <= seen[key])
  <2>1. kept = raised
    BY <1>2, <1>6, <1>8
  <2> QED
    BY <1>2, <1>4, <1>5, <1>8, <2>1 DEF kept
<1> QED
  BY <1>7, <1>8

\* A load's row is one.
LEMMA LoadsAreRows ==
  ASSUME NEW ls \in Seq(Sums!LoadLine), NEW t, NEW k \in Sums!Of(ls, t)
  PROVE  /\ k \in 1..Len(ls) /\ ls[k].row \in Sums!LoadRow
         /\ Sums!NormKey(ls[k].row.path) \in Bodies /\ Sums!Tier[ls[k].row.kind] \in Nat
         /\ ls[k].row.tokens \in Nat /\ ls[k].row.justified \in BOOLEAN
<1>1. k \in 1..Len(ls) /\ ls[k].is = "row" /\ ls[k] \in Sums!LoadLine
  BY ElementOfSeq DEF Sums!Of, Sums!LoadRows
<1>2. ls[k].row \in Sums!LoadRow
  BY <1>1 DEF Sums!LoadLine
<1>3. /\ ls[k].row.path \in Bodies \X {"plain", "respelt"} /\ ls[k].row.kind \in Sums!Kinds
      /\ ls[k].row.tokens \in Nat /\ ls[k].row.justified \in BOOLEAN
  BY <1>2 DEF Sums!LoadRow, Sums!Path
<1>4. Sums!NormKey(ls[k].row.path) \in Bodies
  BY <1>3 DEF Sums!NormKey
<1> QED
  BY <1>1, <1>2, <1>3, <1>4, TierIsNumber

\* A task is audited line by line.
LEMMA AuditRounds ==
  ASSUME NEW ls \in Seq(Sums!LoadLine), NEW t, NEW c
  PROVE  \E f \in [0..Len(ls) -> Audits] : /\ f[0] = Sums!Audit0
                                           /\ \A k \in 1..Len(ls) : f[k] = LoadOne(ls, t, f[k - 1], k)
                                           /\ Sums!AuditTask(ls, t, c)
                                                    = f[Len(ls)].findings
                                                        \cup IF f[Len(ls)].impl * c.d > c.n * f[Len(ls)].total
                                                             THEN {"OVER-BUDGET"} ELSE {}
<1> DEFINE N == Len(ls)
           S == Audits
           Op(s, k) == LoadOne(ls, t, s, k)
           g == [p \in S \X (1..N) |-> Op(p[1], p[2])]
<1>1. N \in Nat /\ Sums!Audit0 \in S
  <2>1. N \in Nat
    BY ElementOfSeq
  <2>2. <<>> \in Depths
    <3>1. <<>> \in [{} -> Nat]
      OBVIOUS
    <3> QED
      BY <3>1 DEF Depths
  <2> QED
    BY <2>1, <2>2 DEF Sums!Audit0, Audits
<1>2. \A s \in S : \A k \in 1..N : Op(s, k) \in S
  <2>1. SUFFICES ASSUME NEW s \in Audits, NEW k \in 1..N, k \in Sums!Of(ls, t)
        PROVE  Sums!Load(s, ls[k].row) \in Audits
    BY DEF LoadOne
  <2> DEFINE row == ls[k].row
             kept == Sums!Kept(s.seen, Sums!NormKey(row.path), Sums!Tier[row.kind])
             fs == s.findings
                     \cup (IF row.kind = "impl" /\ ~s.spec THEN {"IMPL-FIRST"} ELSE {})
                     \cup (IF row.kind = "impl" /\ ~row.justified THEN {"UNJUSTIFIED"} ELSE {})
                     \cup (IF Sums!NormKey(row.path) \in DOMAIN s.seen
                               /\ Sums!Tier[row.kind] <= s.seen[Sums!NormKey(row.path)] THEN {"RE-READ"} ELSE {})
             m == s.impl + IF row.kind = "impl" THEN row.tokens ELSE 0
             n == s.total + row.tokens
             Kinds == {"IMPL-FIRST", "UNJUSTIFIED", "RE-READ"}
  <2>2. s.spec \in BOOLEAN /\ s.seen \in Depths /\ s.impl \in Nat /\ s.total \in Nat /\ s.findings \subseteq Kinds
    BY DEF Audits
  <2>3. kept \in Depths
    BY <2>1, <2>2, LoadsAreRows, KeptDepths
  <2>4. Sums!Load(s, row) = [spec |-> s.spec \/ ~(row.kind = "impl"), seen |-> kept, impl |-> m, total |-> n, findings |-> fs]
    BY DEF Sums!Load
  <2>5. row.tokens \in Nat
    BY <2>1, LoadsAreRows
  <2> HIDE DEF row
  <2>6. m \in Nat /\ n \in Nat
    BY <2>2, <2>5
  <2>7. fs \in SUBSET Kinds
    <3> DEFINE p == row.kind = "impl" /\ ~s.spec
               q == row.kind = "impl" /\ ~row.justified
               r == Sums!NormKey(row.path) \in DOMAIN s.seen /\ Sums!Tier[row.kind] <= s.seen[Sums!NormKey(row.path)]
    <3> HIDE DEF p, q, r
    <3>1. s.findings \cup (IF p THEN {"IMPL-FIRST"} ELSE {}) \cup (IF q THEN {"UNJUSTIFIED"} ELSE {})
            \cup (IF r THEN {"RE-READ"} ELSE {}) \in SUBSET Kinds
      BY <2>2
    <3> QED
      BY <3>1 DEF p, q, r
  <2> HIDE DEF kept, m, n, fs
  <2>8. Sums!Load(s, row) \in Audits
    BY <2>3, <2>4, <2>6, <2>7 DEF Audits
  <2> QED
    BY <2>8 DEF row
<1>3. PICK f \in [0..N -> S] : f[0] = Sums!Audit0 /\ \A k \in 1..N : f[k] = Op(f[k - 1], k)
  <2> HIDE DEF Op, S, N
  <2>1. g \in [S \X (1..N) -> S]
    BY <1>2
  <2>2. PICK f : ReadBy(f, N, S, Sums!Audit0, g)
    <3> HIDE DEF g
    <3> QED
      BY <1>1, <2>1, Reading
  <2>3. \A k \in 1..N : f[k - 1] \in S
    BY <1>1, <2>2 DEF ReadBy
  <2>4. \A k \in 1..N : g[<<f[k - 1], k>>] = Op(f[k - 1], k)
    BY <2>3
  <2> QED
    BY <2>2, <2>4 DEF ReadBy
<1> DEFINE Round(h, k) == IF k = 0 THEN Sums!Audit0 ELSE Op(h[k - 1], k)
           st[k \in 0..N] == IF k = 0 THEN Sums!Audit0 ELSE LoadOne(ls, t, st[k - 1], k)
<1>4. Sums!AuditTask(ls, t, c)
        = st[N].findings \cup IF st[N].impl * c.d > c.n * st[N].total THEN {"OVER-BUDGET"} ELSE {}
  BY DEF Sums!AuditTask, LoadOne
<1>5. st = [k \in 0..N |-> Round(st, k)]
  <2>1. f = [k \in 0..N |-> Round(f, k)]
    <3> HIDE DEF Op, S, N
    <3> QED
      BY <1>1, <1>3
  <2> HIDE DEF N, S
  <2> QED
    BY <2>1
<1> HIDE DEF st, N, S, Op
<1>6. st[0] = Sums!Audit0 /\ \A k \in 1..N : st[k] = Op(st[k - 1], k)
  <2> DEFINE h == [k \in 0..N |-> Round(st, k)]
  <2>1. h[0] = Sums!Audit0 /\ \A k \in 1..N : h[k] = Op(st[k - 1], k)
    BY <1>1
  <2> HIDE DEF h, Round
  <2> QED
    BY <1>5, <2>1 DEF h
<1>7. 0..N \subseteq {k \in 0..N : st[k] = f[k]}
  <2> DEFINE A == {k \in 0..N : st[k] = f[k]}
  <2>1. 0 \in A
    <3>1. st[0] = f[0]
      BY <1>3, <1>6, Zenon
    <3> QED
      BY <1>1, <3>1
  <2>2. \A k \in 1..N : k - 1 \in A => k \in A
    <3>1. \A k \in 1..N : f[k] = Op(f[k - 1], k) /\ st[k] = Op(st[k - 1], k)
      BY <1>3, <1>6
    <3> QED
      BY <1>1, <3>1
  <2> HIDE DEF A
  <2> QED
    BY <1>1, <2>1, <2>2, EveryRound DEF A
<1>8. st[N] = f[N]
  BY <1>1, <1>7
<1> QED
  BY <1>3, <1>4, <1>8 DEF N, S, Op


\* What line k adds to the tokens of S.
TokensAt(ls, S, k) == IF k \in S THEN ls[k].row.tokens ELSE 0

\* The tokens of some of the loads are summed line by line.
LEMMA TokenRounds ==
  ASSUME NEW ls, Len(ls) \in Nat, NEW S, \A i \in S : i \in 1..Len(ls) => ls[i].row.tokens \in Nat
  PROVE  \E f \in [0..Len(ls) -> Nat] : /\ f[0] = 0
                                        /\ \A k \in 1..Len(ls) : f[k] = f[k - 1] + TokensAt(ls, S, k)
                                        /\ Sums!Tokens(ls, S) = f[Len(ls)]
<1> DEFINE N == Len(ls)
           T == Nat
           Op(s, k) == s + TokensAt(ls, S, k)
           g == [p \in T \X (1..N) |-> Op(p[1], p[2])]
<1>1. N \in Nat /\ 0 \in T
  OBVIOUS
<1>2. \A s \in T : \A k \in 1..N : Op(s, k) \in T
  BY <1>1 DEF TokensAt
<1>3. PICK f \in [0..N -> T] : f[0] = 0 /\ \A k \in 1..N : f[k] = Op(f[k - 1], k)
  <2> HIDE DEF Op, T, N
  <2>1. g \in [T \X (1..N) -> T]
    BY <1>2
  <2>2. PICK f : ReadBy(f, N, T, 0, g)
    <3> HIDE DEF g
    <3> QED
      BY <1>1, <2>1, Reading
  <2>3. \A k \in 1..N : f[k - 1] \in T
    BY <1>1, <2>2 DEF ReadBy
  <2>4. \A k \in 1..N : g[<<f[k - 1], k>>] = Op(f[k - 1], k)
    BY <2>3
  <2> QED
    BY <2>2, <2>4 DEF ReadBy
<1> DEFINE Round(h, k) == IF k = 0 THEN 0 ELSE Op(h[k - 1], k)
           st[k \in 0..N] == IF k = 0 THEN 0 ELSE st[k - 1] + TokensAt(ls, S, k)
<1>4. Sums!Tokens(ls, S) = st[N]
  BY DEF Sums!Tokens, TokensAt
<1>5. st = [k \in 0..N |-> Round(st, k)]
  <2>1. f = [k \in 0..N |-> Round(f, k)]
    <3> HIDE DEF Op, T, N
    <3> QED
      BY <1>1, <1>3
  <2> HIDE DEF N, T
  <2> QED
    BY <2>1
<1> HIDE DEF st, N, T, Op
<1>6. st[0] = 0 /\ \A k \in 1..N : st[k] = Op(st[k - 1], k)
  <2> DEFINE h == [k \in 0..N |-> Round(st, k)]
  <2>1. h[0] = 0 /\ \A k \in 1..N : h[k] = Op(st[k - 1], k)
    BY <1>1
  <2> HIDE DEF h, Round
  <2> QED
    BY <1>5, <2>1 DEF h
<1>7. 0..N \subseteq {k \in 0..N : st[k] = f[k]}
  <2> DEFINE A == {k \in 0..N : st[k] = f[k]}
  <2>1. 0 \in A
    <3>1. st[0] = f[0]
      BY <1>3, <1>6, Zenon
    <3> QED
      BY <1>1, <3>1
  <2>2. \A k \in 1..N : k - 1 \in A => k \in A
    <3>1. \A k \in 1..N : f[k] = Op(f[k - 1], k) /\ st[k] = Op(st[k - 1], k)
      BY <1>3, <1>6
    <3> QED
      BY <1>1, <3>1
  <2> HIDE DEF A
  <2> QED
    BY <1>1, <2>1, <2>2, EveryRound DEF A
<1>8. st[N] = f[N]
  BY <1>1, <1>7
<1> QED
  BY <1>3, <1>4, <1>8 DEF N, T, Op

\* A load a reader has nothing to say against: implementation is justified and was
\* read after something else, and its body is deeper than before.
KeyAt(ls, i) == Sums!NormKey(ls[i].row.path)
TierAt(ls, i) == Sums!Tier[ls[i].row.kind]
ImplAt(ls, i) == ls[i].row.kind = "impl"
Sound(ls, t, i) ==
  /\ ImplAt(ls, i) => ls[i].row.justified /\ \E j \in Sums!Of(ls, t) : j < i /\ ~ImplAt(ls, j)
  /\ \A j \in Sums!Of(ls, t) : j < i /\ KeyAt(ls, j) = KeyAt(ls, i) => TierAt(ls, j) < TierAt(ls, i)

\* What was made of the lines up to k.
Audited(ls, t, k, s) ==
  LET of == {i \in Sums!Of(ls, t) : i <= k}
  IN  /\ s.spec <=> \E i \in of : ~ImplAt(ls, i)
      /\ DOMAIN s.seen = {KeyAt(ls, i) : i \in of}
      /\ \A i \in of : /\ TierAt(ls, i) <= s.seen[KeyAt(ls, i)]
                       /\ \E j \in of : KeyAt(ls, j) = KeyAt(ls, i) /\ s.seen[KeyAt(ls, i)] = TierAt(ls, j)
      /\ s.findings = {} <=> \A i \in of : Sound(ls, t, i)

\* Each load is audited after the ones before.
LEMMA AuditsOn ==
  ASSUME NEW ls \in Seq(Sums!LoadLine), NEW t, NEW k \in 1..Len(ls), NEW s \in Audits,
         Audited(ls, t, k - 1, s)
  PROVE  Audited(ls, t, k, LoadOne(ls, t, s, k))
<1> DEFINE Loads == Sums!Of(ls, t)
           of(n) == {i \in Loads : i <= n}
           key(i) == KeyAt(ls, i)
           tier(i) == TierAt(ls, i)
           impl(i) == ImplAt(ls, i)
           sound(i) == Sound(ls, t, i)
           then == LoadOne(ls, t, s, k)
           Spec1(n, r) == r.spec <=> \E i \in of(n) : ~impl(i)
           Domain1(n, r) == DOMAIN r.seen = {key(i) : i \in of(n)}
           Depth(n, r) == \A i \in of(n) : /\ tier(i) <= r.seen[key(i)]
                                           /\ \E j \in of(n) : key(j) = key(i) /\ r.seen[key(i)] = tier(j)
           Clean(n, r) == r.findings = {} <=> \A i \in of(n) : sound(i)
<1>0. SUFFICES Spec1(k, then) /\ Domain1(k, then) /\ Depth(k, then) /\ Clean(k, then)
  BY DEF Audited
<1>1. Spec1(k - 1, s) /\ Domain1(k - 1, s) /\ Depth(k - 1, s) /\ Clean(k - 1, s)
  BY DEF Audited
<1>2. k \in Nat \ {0} /\ Loads \subseteq Nat
  BY ElementOfSeq, LoadsAreRows
<1>3. \A i \in Loads : key(i) \in Bodies /\ tier(i) \in Nat
  BY LoadsAreRows DEF KeyAt, TierAt
<1>4. CASE k \notin Loads
  <2>1. then = s
    BY <1>4 DEF LoadOne
  <2>2. of(k) = of(k - 1)
    BY <1>2, <1>4
  <2> HIDE DEF then, of
  <2> QED
    BY <1>1, <2>1, <2>2
<1>5. CASE k \in Loads
  <2> DEFINE row == ls[k].row
             b == key(k)
             d == tier(k)
             again == b \in DOMAIN s.seen /\ d <= s.seen[b]
             kept == Sums!Kept(s.seen, b, d)
  <2>1. /\ of(k) = of(k - 1) \cup {k} /\ k \notin of(k - 1)
        /\ \A j : j \in of(k - 1) <=> j \in Loads /\ j < k
    BY <1>2, <1>5
  <2>2. /\ then.spec = (s.spec \/ ~impl(k)) /\ then.seen = kept
        /\ then.findings = s.findings
             \cup (IF impl(k) /\ ~s.spec THEN {"IMPL-FIRST"} ELSE {})
             \cup (IF impl(k) /\ ~row.justified THEN {"UNJUSTIFIED"} ELSE {})
             \cup (IF again THEN {"RE-READ"} ELSE {})
    BY <1>5 DEF LoadOne, Sums!Load, KeyAt, TierAt, ImplAt
  <2>3. sound(k) <=> /\ impl(k) => row.justified /\ \E j \in Loads : j < k /\ ~impl(j)
                     /\ \A j \in Loads : j < k /\ key(j) = b => tier(j) < d
    BY DEF Sound
  <2>4. b \in Bodies /\ d \in Nat /\ s.seen \in Depths
    BY <1>3, <1>5 DEF Audits
  <2>5. /\ DOMAIN kept = DOMAIN s.seen \cup {b}
        /\ b \in DOMAIN s.seen => s.seen[b] \in Nat
        /\ kept[b] = IF again THEN s.seen[b] ELSE d
        /\ \A c \in DOMAIN s.seen \ {b} : kept[c] = s.seen[c]
    BY <2>4, KeptDepths
  <2> HIDE DEF Loads, of, key, tier, impl, sound, then, row, b, d, kept, again
  <2>6. then.findings = {} <=> /\ s.findings = {} /\ ~(impl(k) /\ ~s.spec)
                               /\ ~(impl(k) /\ ~row.justified) /\ ~again
    BY <2>2
  <2>7. Spec1(k, then)
    BY <1>1, <2>1, <2>2
  <2>8. Domain1(k, then)
    <3> DEFINE K == {key(i) : i \in of(k - 1)}
    <3>1. DOMAIN s.seen = K
      BY <1>1
    <3>2. {key(i) : i \in of(k)} = K \cup {b}
      BY <2>1 DEF b
    <3> HIDE DEF K
    <3>3. DOMAIN then.seen = K \cup {b}
      BY <2>2, <2>5, <3>1
    <3> QED
      BY <3>2, <3>3
  <2>9. \A i \in of(k - 1) : key(i) \in DOMAIN s.seen
    BY <1>1
  <2>10. again <=> \E j \in of(k - 1) : key(j) = b /\ d <= tier(j)
    <3>1. ASSUME again
          PROVE  \E j \in of(k - 1) : key(j) = b /\ d <= tier(j)
      <4>1. PICK i \in of(k - 1) : key(i) = b
        BY <1>1, <3>1 DEF again
      <4>2. PICK j \in of(k - 1) : key(j) = b /\ s.seen[b] = tier(j)
        BY <1>1, <4>1
      <4> QED
        BY <3>1, <4>2 DEF again
    <3>2. ASSUME NEW j \in of(k - 1), key(j) = b, d <= tier(j)
          PROVE  again
      <4>1. b \in DOMAIN s.seen /\ tier(j) <= s.seen[b]
        BY <1>1, <2>9, <3>2
      <4>2. tier(j) \in Nat
        BY <1>3, <2>1, <3>2
      <4>3. s.seen[b] \in Nat
        BY <2>5, <4>1
      <4> QED
        BY <2>4, <3>2, <4>1, <4>2, <4>3 DEF again
    <3> QED
      BY <3>1, <3>2
  <2>11. Depth(k, then)
    <3>1. SUFFICES ASSUME NEW i \in of(k)
          PROVE  /\ tier(i) <= kept[key(i)]
                 /\ \E j \in of(k) : key(j) = key(i) /\ kept[key(i)] = tier(j)
      BY <2>2
    <3>2. tier(i) \in Nat /\ k \in of(k)
      BY <1>3, <2>1, <3>1, <1>5
    <3>3. CASE key(i) # b
      <4>1. i \in of(k - 1)
        BY <2>1, <3>3 DEF b
      <4>2. kept[key(i)] = s.seen[key(i)]
        BY <2>5, <2>9, <3>3, <4>1
      <4> QED
        BY <1>1, <2>1, <4>1, <4>2
    <3>4. CASE key(i) = b /\ again
      <4>1. kept[b] = s.seen[b]
        BY <2>5, <3>4
      <4>2. PICK m \in of(k - 1) : key(m) = b
        BY <2>10, <3>4
      <4>3. \E j \in of(k - 1) : key(j) = b /\ s.seen[b] = tier(j)
        BY <1>1, <4>2
      <4>4. tier(i) <= s.seen[b]
        <5>1. CASE i = k
          BY <3>4, <5>1 DEF again, d
        <5>2. CASE i # k
          BY <1>1, <2>1, <3>4, <5>2
        <5> QED
          BY <5>1, <5>2
      <4> QED
        BY <2>1, <3>4, <4>1, <4>3, <4>4
    <3>5. CASE key(i) = b /\ ~again
      <4>1. kept[b] = d
        BY <2>5, <3>5
      <4>2. tier(i) <= d
        <5>1. CASE i = k
          BY <2>4, <5>1 DEF d
        <5>2. CASE i # k
          <6>1. i \in of(k - 1) /\ ~(d <= tier(i))
            BY <2>1, <2>10, <3>5, <5>2
          <6> QED
            BY <2>4, <3>2, <6>1
        <5> QED
          BY <5>1, <5>2
      <4> QED
        BY <3>2, <3>5, <4>1, <4>2 DEF b, d
    <3> QED
      BY <3>3, <3>4, <3>5
  <2>12. Clean(k, then)
    <3>1. ~(impl(k) /\ ~s.spec) /\ ~(impl(k) /\ ~row.justified)
            <=> (impl(k) => row.justified /\ \E j \in Loads : j < k /\ ~impl(j))
      BY <1>1, <2>1
    <3>2. ~again <=> \A j \in Loads : j < k /\ key(j) = b => tier(j) < d
      <4>1. \A j \in of(k - 1) : d <= tier(j) <=> ~(tier(j) < d)
        BY <1>3, <2>1, <2>4
      <4> QED
        BY <2>1, <2>10, <4>1
    <3>3. sound(k) <=> ~(impl(k) /\ ~s.spec) /\ ~(impl(k) /\ ~row.justified) /\ ~again
      BY <2>3, <3>1, <3>2
    <3> QED
      BY <1>1, <2>1, <2>6, <3>3
  <2> QED
    BY <2>7, <2>8, <2>11, <2>12
<1> QED
  BY <1>4, <1>5

\* An audit finds nothing in a task whose loads are sound and within the share.
LEMMA AuditFinds ==
  ASSUME NEW ls \in Seq(Sums!LoadLine), NEW t, NEW c \in Sums!Floors
  PROVE  LET of == Sums!Of(ls, t)
             impl == {i \in of : ImplAt(ls, i)}
         IN  Sums!AuditTask(ls, t, c) = {}
               <=> /\ \A i \in of : Sound(ls, t, i)
                   /\ Sums!Tokens(ls, impl) * c.d <= c.n * Sums!Tokens(ls, of)
<1> DEFINE N == Len(ls)
           of == Sums!Of(ls, t)
           impl == {i \in of : ImplAt(ls, i)}
<1>1. N \in Nat
  BY ElementOfSeq
<1>2. \A i \in of : i \in 1..N /\ ls[i].row.tokens \in Nat
  BY LoadsAreRows
<1>3. PICK f \in [0..N -> Audits] :
         /\ f[0] = Sums!Audit0
         /\ \A k \in 1..N : f[k] = LoadOne(ls, t, f[k - 1], k)
         /\ Sums!AuditTask(ls, t, c)
              = f[N].findings \cup IF f[N].impl * c.d > c.n * f[N].total THEN {"OVER-BUDGET"} ELSE {}
  BY AuditRounds
<1>4. PICK m \in [0..N -> Nat] : /\ m[0] = 0
                                 /\ \A k \in 1..N : m[k] = m[k - 1] + TokensAt(ls, impl, k)
                                 /\ Sums!Tokens(ls, impl) = m[N]
  <2>1. \A i \in impl : i \in 1..Len(ls) => ls[i].row.tokens \in Nat
    BY <1>2
  <2> HIDE DEF impl
  <2> QED
    BY <1>1, <2>1, TokenRounds
<1>5. PICK n \in [0..N -> Nat] : /\ n[0] = 0
                                 /\ \A k \in 1..N : n[k] = n[k - 1] + TokensAt(ls, of, k)
                                 /\ Sums!Tokens(ls, of) = n[N]
  <2>1. \A i \in of : i \in 1..Len(ls) => ls[i].row.tokens \in Nat
    BY <1>2
  <2> HIDE DEF of
  <2> QED
    BY <1>1, <2>1, TokenRounds
<1> DEFINE So(k) == Audited(ls, t, k, f[k]) /\ f[k].impl = m[k] /\ f[k].total = n[k]
           M == {k \in 0..N : So(k)}
<1>6. 0 \in M
  <2>1. {i \in of : i <= 0} = {}
    BY <1>2
  <2>2. f[0].spec = FALSE /\ f[0].seen = <<>> /\ f[0].impl = 0 /\ f[0].total = 0 /\ f[0].findings = {}
    BY <1>3 DEF Sums!Audit0
  <2>3. DOMAIN <<>> = {}
    OBVIOUS
  <2>4. Audited(ls, t, 0, f[0])
    <3> HIDE DEF of
    <3> QED
      BY <2>1, <2>2, <2>3 DEF Audited, of
  <2>5. So(0)
    BY <1>4, <1>5, <2>2, <2>4
  <2> HIDE DEF So, N
  <2> QED
    BY <1>1, <2>5
<1>7. ASSUME NEW k \in 1..N, k - 1 \in M
      PROVE  k \in M
  <2> DEFINE s == f[k - 1]
  <2>1. k - 1 \in 0..N /\ k \in 0..N
    BY <1>1
  <2>2. s \in Audits /\ f[k] = LoadOne(ls, t, s, k)
    BY <1>3, <2>1
  <2>3. Audited(ls, t, k - 1, s) /\ s.impl = m[k - 1] /\ s.total = n[k - 1]
    BY <1>7
  <2>4. Audited(ls, t, k, f[k])
    BY <2>2, <2>3, AuditsOn
  <2>5. m[k - 1] \in Nat /\ n[k - 1] \in Nat
    BY <1>4, <1>5, <2>1
  <2>6. f[k].impl = m[k] /\ f[k].total = n[k]
    <3>1. CASE k \notin of
      <4>1. f[k] = s
        BY <2>2, <3>1 DEF LoadOne
      <4>2. TokensAt(ls, impl, k) = 0 /\ TokensAt(ls, of, k) = 0
        BY <3>1 DEF TokensAt
      <4>3. m[k] = m[k - 1] + 0 /\ n[k] = n[k - 1] + 0
        <5> HIDE DEF of, impl
        <5> QED
          BY <1>4, <1>5, <4>2
      <4> QED
        BY <2>3, <2>5, <4>1, <4>3
    <3>2. CASE k \in of
      <4> DEFINE row == ls[k].row
      <4>1. /\ f[k].impl = s.impl + (IF row.kind = "impl" THEN row.tokens ELSE 0)
            /\ f[k].total = s.total + row.tokens
        BY <2>2, <3>2 DEF LoadOne, Sums!Load
      <4>2. /\ TokensAt(ls, impl, k) = (IF row.kind = "impl" THEN row.tokens ELSE 0)
            /\ TokensAt(ls, of, k) = row.tokens
        BY <3>2 DEF TokensAt, ImplAt
      <4> HIDE DEF of, impl, row, s
      <4> QED
        BY <1>4, <1>5, <2>3, <4>1, <4>2
    <3> QED
      BY <3>1, <3>2
  <2> QED
    BY <2>1, <2>4, <2>6
<1>8. So(N)
  <2>1. 0..N \subseteq M
    <3> HIDE DEF M
    <3> QED
      BY <1>1, <1>6, <1>7, EveryRound
  <2>2. N \in M
    <3> HIDE DEF M, N
    <3> QED
      BY <1>1, <2>1
  <2> QED
    BY <2>2
<1>9. f[N].findings = {} <=> \A i \in of : Sound(ls, t, i)
  <2>1. {i \in of : i <= N} = of
    BY <1>1, <1>2
  <2>2. f[N].findings = {} <=> \A i \in {i \in of : i <= N} : Sound(ls, t, i)
    BY <1>8 DEF Audited
  <2> HIDE DEF of
  <2> QED
    BY <2>1, <2>2
<1>10. ~(f[N].impl * c.d > c.n * f[N].total) <=> m[N] * c.d <= c.n * n[N]
  <2>1. m[N] \in Nat /\ n[N] \in Nat /\ c.n \in Nat /\ c.d \in Nat
    BY <1>1, <1>4, <1>5 DEF Sums!Floors
  <2>2. m[N] * c.d \in Nat /\ c.n * n[N] \in Nat
    BY <2>1
  <2>3. f[N].impl = m[N] /\ f[N].total = n[N]
    BY <1>8
  <2> HIDE DEF N
  <2> QED
    BY <2>2, <2>3
<1> HIDE DEF of, impl
<1> QED
  BY <1>3, <1>4, <1>5, <1>9, <1>10 DEF of, impl

\* A verdict of load-ledger is that of a reader of every task.
LEMMA LoadsRead ==
  ASSUME NEW ls \in Seq(Sums!LoadLine), NEW c \in Sums!Floors, Sums!LoadExit(TRUE, ls, c) # 2
  PROVE  Sums!LoadExit(TRUE, ls, c) = 0 <=> Sums!Disciplined(ls, c)
<1> DEFINE of(t) == Sums!Of(ls, t)
           impl(t) == {i \in of(t) : ImplAt(ls, i)}
           within(t) == Sums!Tokens(ls, impl(t)) * c.d <= c.n * Sums!Tokens(ls, of(t))
           justified(t) == \A i \in impl(t) : ls[i].row.justified /\ \E j \in of(t) \ impl(t) : j < i
           deeper(t) == \A i, j \in of(t) : i < j /\ KeyAt(ls, i) = KeyAt(ls, j) => TierAt(ls, i) < TierAt(ls, j)
<1>1. Sums!LoadExit(TRUE, ls, c) = 0 <=> Sums!Findings(ls, c) = {}
  BY DEF Sums!LoadExit
<1>2. Sums!Findings(ls, c) = {} <=> \A t \in Tasks : Sums!AuditTask(ls, t, c) = {}
  BY DEF Sums!Findings
<1>3. \A t \in Tasks : Sums!AuditTask(ls, t, c) = {} <=> (\A i \in of(t) : Sound(ls, t, i)) /\ within(t)
  BY AuditFinds
<1>4. \A t : (\A i \in of(t) : Sound(ls, t, i)) <=> justified(t) /\ deeper(t)
  <2>1. SUFFICES ASSUME NEW t
        PROVE  (\A i \in of(t) : Sound(ls, t, i)) <=> justified(t) /\ deeper(t)
    OBVIOUS
  <2> DEFINE o == of(t)
  <2>2. \A i \in o : Sound(ls, t, i)
           <=> /\ ImplAt(ls, i) => ls[i].row.justified /\ \E j \in o : j < i /\ ~ImplAt(ls, j)
               /\ \A j \in o : j < i /\ KeyAt(ls, j) = KeyAt(ls, i) => TierAt(ls, j) < TierAt(ls, i)
    BY DEF Sound
  <2>3. justified(t) <=> \A i \in o : ImplAt(ls, i) => ls[i].row.justified /\ \E j \in o : j < i /\ ~ImplAt(ls, j)
    <3> HIDE DEF o
    <3> QED
      BY DEF o
  <2> HIDE DEF o, justified
  <2>4. deeper(t) <=> \A i \in o : \A j \in o : j < i /\ KeyAt(ls, j) = KeyAt(ls, i) => TierAt(ls, j) < TierAt(ls, i)
    BY DEF o
  <2> HIDE DEF deeper
  <2> QED
    BY <2>2, <2>3, <2>4 DEF o
<1>5. Sums!Disciplined(ls, c) <=> \A t \in Tasks : justified(t) /\ deeper(t) /\ within(t)
  <2> DEFINE rows(t) == {i \in 1..Len(ls) : ls[i].is = "row" /\ ls[i].row.task[1] = t}
             ends(t) == {i \in rows(t) : ls[i].row.kind = "impl"}
  <2>1. Sums!Disciplined(ls, c)
          <=> \A t \in Tasks :
                /\ \A i \in ends(t) : ls[i].row.justified /\ \E j \in rows(t) \ ends(t) : j < i
                /\ \A i, j \in rows(t) : i < j /\ ls[i].row.path[1] = ls[j].row.path[1]
                                           => Sums!Tier[ls[i].row.kind] < Sums!Tier[ls[j].row.kind]
                /\ Sums!Tokens(ls, ends(t)) * c.d <= c.n * Sums!Tokens(ls, rows(t))
    BY DEF Sums!Disciplined
  <2>2. \A t : rows(t) = of(t)
    BY DEF Sums!Of, Sums!LoadRows, Sums!TaskKey
  <2>3. \A t : ends(t) = impl(t)
    BY <2>2 DEF ImplAt
  <2>4. \A i : KeyAt(ls, i) = ls[i].row.path[1] /\ TierAt(ls, i) = Sums!Tier[ls[i].row.kind]
    BY DEF KeyAt, TierAt, Sums!NormKey
  <2> HIDE DEF rows, ends, of, impl
  <2> QED
    BY <2>1, <2>2, <2>3, <2>4
<1> HIDE DEF of, within, justified, deeper
<1> QED
  BY <1>1, <1>2, <1>3, <1>4, <1>5

-----------------------------------------------------------------------------
(* rule-inventory *)

\* How far the peeling is.
Peels == [at : Nat, peeled : Nat, stop : BOOLEAN]
Peel0 == [at |-> 1, peeled |-> 0, stop |-> FALSE]
PeelOne(s, token) ==
  IF s.stop THEN s
  ELSE IF token.is = "wrapper" /\ s.peeled < 8
  THEN [at |-> s.at + 1, peeled |-> s.peeled + 1, stop |-> FALSE]
  ELSE IF s.peeled > 0 /\ token.is \in Tools!Dashed \cup {"argument"}
  THEN [at |-> s.at + 1, peeled |-> s.peeled, stop |-> FALSE]
  ELSE [at |-> s.at, peeled |-> s.peeled, stop |-> TRUE]

\* A measure is peeled word by word.
LEMMA PeelRounds ==
  ASSUME NEW words, Len(words) \in Nat
  PROVE  \E f \in [0..Len(words) -> Peels] : /\ f[0] = Peel0
                                             /\ \A k \in 1..Len(words) : f[k] = PeelOne(f[k - 1], words[k])
                                             /\ Tools!Unwrap(words) = SubSeq(words, f[Len(words)].at, Len(words))
<1> DEFINE N == Len(words)
           S == Peels
           Op(s, k) == PeelOne(s, words[k])
           g == [p \in S \X (1..N) |-> Op(p[1], p[2])]
<1>1. N \in Nat /\ Peel0 \in S
  BY DEF Peel0, Peels
<1>2. \A s \in S : \A k \in 1..N : Op(s, k) \in S
  BY <1>1 DEF PeelOne, Peels
<1>3. PICK f \in [0..N -> S] : f[0] = Peel0 /\ \A k \in 1..N : f[k] = Op(f[k - 1], k)
  <2> HIDE DEF Op, S, N
  <2>1. g \in [S \X (1..N) -> S]
    BY <1>2
  <2>2. PICK f : ReadBy(f, N, S, Peel0, g)
    <3> HIDE DEF g
    <3> QED
      BY <1>1, <2>1, Reading
  <2>3. \A k \in 1..N : f[k - 1] \in S
    BY <1>1, <2>2 DEF ReadBy
  <2>4. \A k \in 1..N : g[<<f[k - 1], k>>] = Op(f[k - 1], k)
    BY <2>3
  <2> QED
    BY <2>2, <2>4 DEF ReadBy
<1> DEFINE Round(h, k) == IF k = 0 THEN Peel0 ELSE Op(h[k - 1], k)
           st[k \in 0..N] == IF k = 0 THEN Peel0 ELSE PeelOne(st[k - 1], words[k])
<1>4. Tools!Unwrap(words) = SubSeq(words, st[N].at, N)
  BY DEF Tools!Unwrap, PeelOne, Peel0
<1>5. st = [k \in 0..N |-> Round(st, k)]
  <2>1. f = [k \in 0..N |-> Round(f, k)]
    <3> HIDE DEF Op, S, N
    <3> QED
      BY <1>1, <1>3
  <2> HIDE DEF N, S
  <2> QED
    BY <2>1
<1> HIDE DEF st, N, S, Op
<1>6. st[0] = Peel0 /\ \A k \in 1..N : st[k] = Op(st[k - 1], k)
  <2> DEFINE h == [k \in 0..N |-> Round(st, k)]
  <2>1. h[0] = Peel0 /\ \A k \in 1..N : h[k] = Op(st[k - 1], k)
    BY <1>1
  <2> HIDE DEF h, Round
  <2> QED
    BY <1>5, <2>1 DEF h
<1>7. 0..N \subseteq {k \in 0..N : st[k] = f[k]}
  <2> DEFINE A == {k \in 0..N : st[k] = f[k]}
  <2>1. 0 \in A
    <3>1. st[0] = f[0]
      BY <1>3, <1>6, Zenon
    <3> QED
      BY <1>1, <3>1
  <2>2. \A k \in 1..N : k - 1 \in A => k \in A
    <3>1. \A k \in 1..N : f[k] = Op(f[k - 1], k) /\ st[k] = Op(st[k - 1], k)
      BY <1>3, <1>6
    <3> QED
      BY <1>1, <3>1
  <2> HIDE DEF A
  <2> QED
    BY <1>1, <2>1, <2>2, EveryRound DEF A
<1>8. st[N] = f[N]
  BY <1>1, <1>7
<1> QED
  BY <1>3, <1>4, <1>8 DEF N, S, Op


\* What is peeled off is a wrapper or what one takes.
LEMMA PeelsWrappers ==
  ASSUME NEW words, Len(words) \in Nat
  PROVE  \E at \in 1..(Len(words) + 1) :
           /\ Tools!Unwrap(words) = SubSeq(words, at, Len(words))
           /\ \A j \in 1..(at - 1) : words[j].is \in Tools!Dashed \cup {"wrapper", "argument"}
<1> DEFINE N == Len(words)
           Off(n) == \A j \in 1..(n - 1) : words[j].is \in Tools!Dashed \cup {"wrapper", "argument"}
<1>1. PICK f \in [0..N -> Peels] : /\ f[0] = Peel0
                                   /\ \A k \in 1..N : f[k] = PeelOne(f[k - 1], words[k])
                                   /\ Tools!Unwrap(words) = SubSeq(words, f[N].at, N)
  BY PeelRounds
<1> DEFINE So(k) == /\ f[k].at \in 1..(k + 1) /\ Off(f[k].at)
                    /\ ~f[k].stop => f[k].at = k + 1
           M == {k \in 0..N : So(k)}
<1>2. 0 \in M
  BY <1>1 DEF Peel0
<1>3. ASSUME NEW k \in 1..N, k - 1 \in M
      PROVE  k \in M
  <2> DEFINE s == f[k - 1]
             then == f[k]
             token == words[k]
  <2>1. k \in Nat \ {0} /\ k - 1 \in 0..N /\ k \in 0..N
    OBVIOUS
  <2>2. /\ s.at \in 1..k /\ Off(s.at)
        /\ ~s.stop => s.at = k
    BY <1>3, <2>1
  <2>3. then = PeelOne(s, token) /\ s \in Peels
    BY <1>1, <2>1
  <2>4. CASE s.stop
    <3>1. then = s
      BY <2>3, <2>4 DEF PeelOne
    <3> QED
      BY <2>1, <2>2, <2>4, <3>1
  <2>5. CASE ~s.stop /\ token.is \in Tools!Dashed \cup {"wrapper", "argument"}
    <3>1. then.at = s.at + 1 \/ (then.at = s.at /\ then.stop = TRUE)
      BY <2>3, <2>5 DEF PeelOne
    <3>2. CASE then.at = s.at + 1
      <4>1. then.at = k + 1 /\ then.at - 1 = k /\ s.at - 1 = k - 1
        BY <2>1, <2>2, <2>5, <3>2
      <4>2. \A j \in 1..k : j \in 1..(k - 1) \/ j = k
        BY <2>1
      <4>3. Off(then.at)
        BY <2>2, <2>5, <4>1, <4>2
      <4> QED
        BY <2>1, <4>1, <4>3
    <3>3. CASE then.at = s.at /\ then.stop = TRUE
      BY <2>1, <2>2, <3>3
    <3> QED
      BY <3>1, <3>2, <3>3
  <2>6. CASE ~s.stop /\ token.is \notin Tools!Dashed \cup {"wrapper", "argument"}
    <3>1. then.at = s.at /\ then.stop = TRUE
      BY <2>3, <2>6 DEF PeelOne
    <3> QED
      BY <2>1, <2>2, <3>1
  <2> QED
    BY <2>4, <2>5, <2>6
<1>4. N \in M
  <2>1. 0..N \subseteq M
    <3> HIDE DEF M
    <3> QED
      BY <1>2, <1>3, EveryRound
  <2>2. N \in 0..N
    OBVIOUS
  <2> HIDE DEF M, N
  <2> QED
    BY <2>1, <2>2
<1>5. f[N].at \in 1..(N + 1) /\ Off(f[N].at)
  BY <1>4
<1> QED
  BY <1>1, <1>5

\* A measure that passes names a program a shell would run, which is there and can
\* give two answers.
LEMMA MeasuredRuns ==
  ASSUME NEW words \in Seq(Tools!Token), NEW w, Tools!OptionsStandAlone(words), Tools!AllListed(words),
         Tools!Measured(words, w)
  PROVE  \E run \in Tools!Runner(words) :
           LET there(j) == run[j].is = "path" /\ w.leads[run[j].name] \in {"text", "run"}
           IN  /\ run[1].is \in {"path", "word", "interpreter"}
               /\ run[1].is = "path" => w.leads[run[1].name] = "run"
               /\ run[1].is = "word" => run[1].name \in w.commands
               /\ \A j \in 2..Len(run) : run[j].is = "path" => there(j)
               /\ run[1].is = "interpreter" =>
                    \E j \in 2..Len(run) :
                      \/ there(j)
                      \/ run[j - 1].is = "-m" /\ run[j].is = "word" /\ run[j].name \in w.modules
                      \/ run[j].is = "-mod" /\ run[j].name \in w.modules
<1> DEFINE N == Len(words)
           run == Tools!Unwrap(words)
           module == Tools!Module(run)
           there(j) == run[j].is = "path" /\ w.leads[run[j].name] \in {"text", "run"}
<1>1. N \in Nat
  BY ElementOfSeq
<1>2. PICK at \in 1..(N + 1) : /\ run = SubSeq(words, at, N)
                               /\ \A j \in 1..(at - 1) : words[j].is \in Tools!Dashed \cup {"wrapper", "argument"}
  BY <1>1, PeelsWrappers
<1>3. /\ run # <<>> /\ Tools!Runs(run, w)
      /\ module # <<>> => Tools!ModuleIs(module[1], w)
      /\ \A i \in Tools!PathWords(run) : Tools!Resolves(run[i], w)
      /\ run[1].is = "interpreter" /\ run[1].listed => Tools!PathWords(run) # {} \/ module # <<>>
  BY DEF Tools!Measured
<1>4. /\ run[1].is \in {"path", "word", "interpreter"}
      /\ run[1].is = "path" => w.leads[run[1].name] = "run"
      /\ run[1].is = "word" => run[1].name \in w.commands
  <2>1. Tools!Runs(run, w)
    BY <1>3
  <2> HIDE DEF run
  <2> QED
    BY <2>1 DEF Tools!Runs
<1>5. at \in 1..N /\ run[1] = words[at] /\ Len(run) \in Nat
  <2>1. at # N + 1
    <3>1. SubSeq(words, N + 1, N) = <<>>
      BY <1>1
    <3> HIDE DEF run
    <3> QED
      BY <1>2, <1>3, <3>1
  <2>2. at \in 1..N
    BY <1>1, <2>1
  <2>3. SubSeq(words, at, N)[1] = words[at] /\ Len(SubSeq(words, at, N)) = N - at + 1
    BY <1>1, <2>2
  <2> HIDE DEF run, N
  <2> QED
    BY <1>1, <1>2, <2>2, <2>3
<1>6. run \in Tools!Runner(words)
  <2> DEFINE taken(i) == \/ words[i].is \in Tools!Dashed \cup {"wrapper", "argument"}
                         \/ i > 1 /\ words[i - 1].is = "option" /\ words[i - 1].takes
             first == {i \in 1..N : ~taken(i) /\ \A j \in 1..(i - 1) : taken(j)}
  <2>1. Tools!Runner(words) = {SubSeq(words, i, N) : i \in first}
    BY DEF Tools!Runner
  <2>2. ~taken(at)
    <3>1. ~(at > 1 /\ words[at - 1].is = "option" /\ words[at - 1].takes)
      BY <1>1, <1>5 DEF Tools!OptionsStandAlone
    <3>2. words[at].is \notin Tools!Dashed \cup {"wrapper", "argument"}
      <4> HIDE DEF run
      <4> QED
        BY <1>4, <1>5 DEF Tools!Dashed
    <3> QED
      BY <3>1, <3>2
  <2>3. at \in first
    BY <1>2, <1>5, <2>2
  <2> HIDE DEF first, run
  <2> QED
    BY <1>2, <2>1, <2>3
<1>7. \A j \in 2..Len(run) : run[j].is = "path" => there(j)
  <2> HIDE DEF run
  <2>1. \A j \in 2..Len(run) : run[j].is = "path" => j \in Tools!PathWords(run)
    BY DEF Tools!PathWords, Tools!Operands, Tools!Dashed
  <2> QED
    BY <1>3, <2>1 DEF Tools!Resolves
<1>8. ASSUME run[1].is = "interpreter"
      PROVE  \E j \in 2..Len(run) :
               \/ there(j)
               \/ run[j - 1].is = "-m" /\ run[j].is = "word" /\ run[j].name \in w.modules
               \/ run[j].is = "-mod" /\ run[j].name \in w.modules
  <2>1. CASE Tools!PathWords(run) # {}
    <3> HIDE DEF run
    <3>1. PICK j \in Tools!PathWords(run) : TRUE
      BY <2>1
    <3>2. j \in 2..Len(run) /\ run[j].is = "path"
      BY DEF Tools!PathWords, Tools!Operands
    <3> QED
      BY <1>7, <3>2
  <2>2. CASE module # <<>>
    <3> DEFINE ms == {i \in 2..Len(run) : run[i].is = "-mod" \/ (run[i].is = "-m" /\ i < Len(run))}
               first == CHOOSE i \in ms : \A j \in ms : i <= j
    <3>1. module = IF run[1].is = "interpreter" /\ run[1].python /\ ms # {}
                   THEN IF run[first].is = "-m" THEN <<run[first + 1]>>
                        ELSE <<[is |-> "word", name |-> run[first].name]>>
                   ELSE <<>>
      BY DEF Tools!Module
    <3> HIDE DEF run, module
    <3>2. ms \subseteq Nat
      BY <1>5
    <3>3. /\ ms # {}
          /\ module = IF run[first].is = "-m" THEN <<run[first + 1]>>
                      ELSE <<[is |-> "word", name |-> run[first].name]>>
      BY <2>2, <3>1
    <3>4. first \in ms
      <4> HIDE DEF ms
      <4>1. \E i \in ms : \A j \in ms : i <= j
        BY <3>2, <3>3, LeastNatural
      <4> QED
        BY <4>1
    <3>5. /\ first \in 2..Len(run)
          /\ run[first].is = "-mod" \/ (run[first].is = "-m" /\ first < Len(run))
      BY <3>4
    <3> HIDE DEF first
    <3>6. CASE run[first].is = "-m"
      <4> DEFINE j == first + 1
      <4>1. j \in 2..Len(run) /\ j - 1 = first
        BY <1>5, <3>5, <3>6
      <4>2. module[1] = run[j]
        BY <3>3, <3>6
      <4>3. run[j].is \in {"word", "path"} /\ run[j].name \in w.modules
        BY <1>3, <2>2, <4>2 DEF Tools!ModuleIs
      <4>4. run[j - 1].is = "-m"
        BY <3>6, <4>1
      <4> HIDE DEF j
      <4> QED
        BY <1>7, <4>1, <4>3, <4>4
    <3>7. CASE run[first].is # "-m"
      <4>1. module[1].name = run[first].name /\ run[first].is = "-mod"
        BY <3>3, <3>5, <3>7
      <4>2. run[first].name \in w.modules
        BY <1>3, <2>2, <4>1 DEF Tools!ModuleIs
      <4> QED
        BY <3>5, <4>1, <4>2
    <3> QED
      BY <3>6, <3>7
  <2>3. run[1].listed
    <3> HIDE DEF run
    <3> QED
      BY <1>5, <1>8 DEF Tools!AllListed
  <2> QED
    BY <1>3, <1>8, <2>1, <2>2, <2>3
<1> HIDE DEF run
<1> QED
  BY <1>4, <1>6, <1>7, <1>8

\* An inventory that passes is measured, if its commands are read as they are meant.
LEMMA RulesRead ==
  ASSUME NEW ls \in Seq(Tools!Line), NEW w, Tools!RulesExit(ls, w) = 0, Tools!CommandsRead(ls)
  PROVE  Tools!IsMeasured(ls, w)
<1>1. SUFFICES ASSUME NEW i \in 1..Len(ls), ls[i].is = "row", ls[i].says # "advisory"
      PROVE  ls[i].says = "command" /\ ls[i].words \in Seq(Tools!Token) /\ Tools!Measured(ls[i].words, w)
  <2>1. ASSUME NEW i \in 1..Len(ls), ls[i].is = "row", ls[i].says # "advisory"
        PROVE  /\ ls[i].says = "command"
               /\ \E run \in Tools!Runner(ls[i].words) :
                    LET there(j) == run[j].is = "path" /\ w.leads[run[j].name] \in {"text", "run"}
                    IN  /\ run[1].is \in {"path", "word", "interpreter"}
                        /\ run[1].is = "path" => w.leads[run[1].name] = "run"
                        /\ run[1].is = "word" => run[1].name \in w.commands
                        /\ \A j \in 2..Len(run) : run[j].is = "path" => there(j)
                        /\ run[1].is = "interpreter" =>
                             \E j \in 2..Len(run) :
                               \/ there(j)
                               \/ run[j - 1].is = "-m" /\ run[j].is = "word" /\ run[j].name \in w.modules
                               \/ run[j].is = "-mod" /\ run[j].name \in w.modules
    <3> DEFINE words == ls[i].words
    <3>1. ls[i].says = "command" /\ words \in Seq(Tools!Token) /\ Tools!Measured(words, w)
      BY <1>1, <2>1
    <3>2. Tools!OptionsStandAlone(words) /\ Tools!AllListed(words)
      BY <2>1, <3>1 DEF Tools!CommandsRead
    <3> HIDE DEF words
    <3> QED
      BY <3>1, <3>2, MeasuredRuns DEF words
  <2> QED
    BY <2>1 DEF Tools!IsMeasured
<1>2. Tools!Passes(ls[i], w)
  BY <1>1 DEF Tools!RulesExit, Tools!Rows
<1>3. ls[i] \in Tools!Line
  BY ElementOfSeq
<1>4. ls[i].says \in {"nothing", "advisory", "command"} /\ (ls[i].says = "command" => ls[i].words \in Seq(Tools!Token))
  BY <1>1, <1>3 DEF Tools!Line
<1> QED
  BY <1>1, <1>2, <1>4 DEF Tools!Passes

-----------------------------------------------------------------------------
(* What the run checks *)

\* The file is a list of lines its gate tells apart.
LEMMA LinesOfTheGate ==
  ASSUME GateInv, NEW S, \A line : IsLine(gate, line) => line \in S
  PROVE  lines \in Seq(S)
<1>1. \A i \in 1..Len(lines) : lines[i] \in S
  BY LinesAreTyped
<1>2. lines = [i \in 1..Len(lines) |-> lines[i]] /\ Len(lines) \in Nat
  BY DEF GateInv
<1> QED
  BY <1>1, <1>2, IsASeq

\* check-surface, plan-decay and the pilot gate pass what is so on the disk, and
\* nothing else, however the file names it.
THEOREM OnDisk == Spec => []VerdictIsTheDisks
<1>1. ASSUME GateInv
      PROVE  VerdictIsTheDisks
  <2>1. SUFFICES ASSUME Ruled, gate \in {"pilot", "plan", "surface"}
                 PROVE  (exit = 0) <=> IsSoOnDisk
    BY DEF VerdictIsTheDisks
  <2>2. exit # 2 /\ exit = RunGate(gate, lines, world)
    BY <1>1, <2>1 DEF Ruled, GateInv
  <2>3. CASE gate = "pilot"
    <3>1. lines \in Seq(Pilot!Line)
      BY <1>1, <2>3, LinesOfTheGate DEF IsLine
    <3>2. exit = Pilot!Exit(lines, world) /\ (IsSoOnDisk <=> Pilot!Evidenced(lines, world))
      BY <2>2, <2>3 DEF RunGate, IsSoOnDisk
    <3> QED
      BY <2>2, <3>1, <3>2, PilotHolds
  <2>4. CASE gate = "plan"
    <3>1. \A i \in 1..Len(lines) : lines[i].row \in Plan!Row /\ Plan!IsTree(lines[i].tree)
      BY <1>1, <2>4, LinesAreTyped DEF IsLine
    <3>2. exit = Plan!Exit(lines)
      BY <2>2, <2>4 DEF RunGate
    <3>3. IsSoOnDisk <=> \A i \in 1..Len(lines) : Plan!True(lines[i].row, lines[i].tree)
      BY <2>4 DEF IsSoOnDisk
    <3> QED
      BY <2>2, <3>1, <3>2, <3>3, PlanHolds
  <2>5. CASE gate = "surface"
    <3>1. lines \in Seq(Surface!Line)
      BY <1>1, <2>5, LinesOfTheGate DEF IsLine
    <3>2. Surface!IsSite(world.site) /\ world.cap \in Nat /\ world.bytes \in Nat
      BY <1>1, <2>5 DEF GateInv, IsWorld
    <3>3. exit = Surface!Exit(TRUE, <<lines>>, world.site, world.roots, world.cap, world.bytes)
      BY <2>2, <2>5 DEF RunGate
    <3>4. IsSoOnDisk <=> Surface!Reviewable(lines, world.site, world.roots, world.cap, world.bytes)
      BY <2>5 DEF IsSoOnDisk
    <3> QED
      BY <2>2, <3>1, <3>2, <3>3, <3>4, SurfaceHolds
  <2> QED
    BY <2>1, <2>3, <2>4, <2>5
<1> QED
  BY <1>1, AnswersWhatItReads, PTL

\* A file that says two things where its gate asks for one gets no verdict, and a
\* ledger of excusals is refused for nothing else.
THEOREM NoTwoReadings == Spec => []TwoReadingsNoVerdict
<1>1. ASSUME GateInv
      PROVE  TwoReadingsNoVerdict
  <2>1. exit = RunGate(gate, lines, world)
    BY <1>1 DEF GateInv
  <2>2. CASE gate = "excusals"
    <3>1. lines \in Seq(Excusals!Line)
      BY <1>1, <2>2, LinesOfTheGate DEF IsLine
    <3>2. exit = Excusals!Exit(world, lines)
      BY <2>1, <2>2 DEF RunGate
    <3>3. TwoReadingsNoVerdict
            <=> /\ exit = 2 => Excusals!Ambiguous(lines)
                /\ Excusals!Ambiguous(lines) /\ ~Excusals!Orphaned(lines) => exit = 2
      BY <2>2 DEF TwoReadingsNoVerdict
    <3> QED
      BY <3>1, <3>2, <3>3, ExcusalsHold DEF Excusals!Ambiguous
  <2>3. CASE gate = "pilot"
    <3>1. lines \in Seq(Pilot!Line)
      BY <1>1, <2>3, LinesOfTheGate DEF IsLine
    <3>2. exit = Pilot!Exit(lines, world)
      BY <2>1, <2>3 DEF RunGate
    <3>3. (\E s \in Pilot!Declared(lines) : Cardinality(Pilot!Walks(lines, s)) > 1) => exit = 2
      BY <3>1, <3>2, PilotHolds
    <3> QED
      BY <2>3, <3>3 DEF TwoReadingsNoVerdict
  <2>4. CASE gate = "surface"
    <3>1. lines \in Seq(Surface!Line)
      BY <1>1, <2>4, LinesOfTheGate DEF IsLine
    <3>2. Surface!IsSite(world.site) /\ world.cap \in Nat /\ world.bytes \in Nat
      BY <1>1, <2>4 DEF GateInv, IsWorld
    <3>3. exit = Surface!Exit(TRUE, <<lines>>, world.site, world.roots, world.cap, world.bytes)
      BY <2>1, <2>4 DEF RunGate
    <3>4. exit # 2 => Cardinality(Surface!At(lines, "tier")) = 1
      BY <3>1, <3>2, <3>3, SurfaceHolds
    <3> QED
      BY <2>4, <3>4 DEF TwoReadingsNoVerdict
  <2>5. CASE gate = "plan"
    <3>1. \A i \in 1..Len(lines) : lines[i].row \in Plan!Row /\ Plan!IsTree(lines[i].tree)
      BY <1>1, <2>5, LinesAreTyped DEF IsLine
    <3>2. exit = Plan!Exit(lines)
      BY <2>1, <2>5 DEF RunGate
    <3>3. (\E i \in 1..Len(lines) :
             /\ lines[i].row.kind # "malformed"
             /\ \E p, q \in Plan!Meant(lines[i].tree, lines[i].row.path) : p # q) => exit = 2
      BY <3>1, <3>2, PlanHolds
    <3> QED
      BY <2>5, <3>3 DEF TwoReadingsNoVerdict
  <2>6. CASE gate \notin {"excusals", "pilot", "surface", "plan"}
    BY <2>6 DEF TwoReadingsNoVerdict
  <2> QED
    BY <2>2, <2>3, <2>4, <2>5, <2>6
<1> QED
  BY <1>1, AnswersWhatItReads, PTL

\* What a gate answers to a file that it rules on is what a reader of the whole
\* file would say, if the file reads one way.
THEOREM ReadAsWritten == Spec => []VerdictIsTheReaders
<1>1. ASSUME GateInv, ReadsOneWay, Ruled
      PROVE  /\ exit = 0 => SaysWhatItShould
             /\ SaysWhatItShould /\ gate \notin {"toolchain", "rules", "pilot", "plan", "surface"}
                  => exit = 0
  <2>1. exit \in {0, 1} /\ exit # 2 /\ exit = RunGate(gate, lines, world) /\ gate \in GateNames
    BY <1>1 DEF Ruled, GateInv
  <2>2. IsWorld(gate, world)
    BY <1>1 DEF GateInv
  <2>3. CASE gate = "review"
    <3>1. lines \in Seq(Review!Line)
      BY <1>1, <2>3, LinesOfTheGate DEF IsLine
    <3>2. world.argv \in Seq(Review!Word) /\ ~Review!ParseArgs(world.argv).help
      BY <1>1, <2>2, <2>3 DEF IsWorld, Ruled
    <3>3. exit = Review!Exit(world.argv, [refusal |-> world.refusal, lines |-> lines])
      BY <2>1, <2>3 DEF RunGate
    <3>4. SaysWhatItShould <=> Review!IsReview(lines, Review!ParseArgs(world.argv).min)
      BY <2>3 DEF SaysWhatItShould
    <3>5. exit = 0 <=> Review!IsReview(lines, Review!ParseArgs(world.argv).min)
      BY <2>1, <3>1, <3>2, <3>3, ReviewReads
    <3> QED
      BY <3>4, <3>5
  <2>4. CASE gate = "margins"
    <3>1. lines \in Seq(Sums!MarginRow \cup {Sums!Bad}) /\ world \in Sums!Floors
      BY <1>1, <2>2, <2>4, LinesOfTheGate DEF IsLine, IsWorld
    <3>2. exit = Sums!MarginExit([readable |-> TRUE, rows |-> lines], world)
      BY <2>1, <2>4 DEF RunGate
    <3>3. SaysWhatItShould <=> \A i \in 1..Len(lines) : ~Sums!Below(lines[i].human, lines[i].gated, world)
      BY <2>4 DEF SaysWhatItShould
    <3> QED
      BY <2>1, <3>1, <3>2, <3>3, MarginsRead
  <2>5. CASE gate = "toolchain"
    <3>1. exit = Tools!ToolchainExit(TRUE, lines)
      BY <2>1, <2>5 DEF RunGate
    <3>2. SaysWhatItShould <=> \A i \in 1..Len(lines) : Tools!RunsScoped(lines[i])
      BY <2>5 DEF SaysWhatItShould
    <3> QED
      BY <2>5, <3>1, <3>2, ToolchainReads
  <2>6. CASE gate = "register"
    <3>1. lines \in Seq(Register!Line) /\ world \in Nat
      BY <1>1, <2>2, <2>6, LinesOfTheGate DEF IsLine, IsWorld
    <3>2. exit = Register!Exit(lines, world)
      BY <2>1, <2>6 DEF RunGate
    <3>3. SaysWhatItShould <=> Register!Reviewed(lines, world)
      BY <2>6 DEF SaysWhatItShould
    <3> QED
      BY <2>1, <3>1, <3>2, <3>3, RegisterReads
  <2>7. CASE gate = "loads"
    <3>1. lines \in Seq(Sums!LoadLine) /\ world \in Sums!Floors
      BY <1>1, <2>2, <2>7, LinesOfTheGate DEF IsLine, IsWorld
    <3>2. exit = Sums!LoadExit(TRUE, lines, world)
      BY <2>1, <2>7 DEF RunGate
    <3>3. SaysWhatItShould <=> Sums!Disciplined(lines, world)
      BY <2>7 DEF SaysWhatItShould
    <3> QED
      BY <2>1, <3>1, <3>2, <3>3, LoadsRead
  <2>8. CASE gate = "share"
    <3>1. lines \in Seq(Sums!ShareLine) /\ world.floor \in Int
      BY <1>1, <2>2, <2>8, LinesOfTheGate DEF IsLine, IsWorld
    <3>2. exit = Sums!ShareExit(lines, world)
      BY <2>1, <2>8 DEF RunGate
    <3>3. SaysWhatItShould <=> Sums!IsInvested(lines, world)
      BY <2>8 DEF SaysWhatItShould
    <3> QED
      BY <2>1, <3>1, <3>2, <3>3, ShareReads
  <2>9. CASE gate = "secrets"
    <3>1. lines \in Seq(Secrets!Line) /\ world \in Nat
      BY <1>1, <2>2, <2>9, LinesOfTheGate DEF IsLine, IsWorld
    <3>2. exit = Secrets!Exit(lines, world)
      BY <2>1, <2>9 DEF RunGate
    <3>3. SaysWhatItShould <=> Secrets!Declared(lines, world)
      BY <2>9 DEF SaysWhatItShould
    <3> QED
      BY <2>1, <3>1, <3>2, <3>3, SecretsRead
  <2>10. CASE gate = "rules"
    <3>1. lines \in Seq(Tools!Line)
      BY <1>1, <2>10, LinesOfTheGate DEF IsLine
    <3>2. exit = Tools!RulesExit(lines, world)
      BY <2>1, <2>10 DEF RunGate
    <3>3. SaysWhatItShould <=> Tools!IsMeasured(lines, world)
      BY <2>10 DEF SaysWhatItShould
    <3>4. exit = 0 => Tools!IsMeasured(lines, world)
      BY <1>1, <2>10, <3>1, <3>2, RulesRead DEF ReadsOneWay
    <3> QED
      BY <2>10, <3>3, <3>4
  <2>11. CASE gate = "density"
    <3>1. Len(lines) \in Nat /\ world \in Nat
      BY <1>1, <2>2, <2>11 DEF GateInv, IsWorld
    <3>2. exit = Prompts!DensityExit(TRUE, lines, world)
      BY <2>1, <2>11 DEF RunGate
    <3>3. SaysWhatItShould <=> Cardinality(Prompts!Directives(lines)) <= world
      BY <2>11 DEF SaysWhatItShould
    <3> QED
      BY <2>1, <3>1, <3>2, <3>3, DensityReads
  <2>12. CASE gate = "zone"
    <3>1. lines \in Seq(Prompts!ZoneLine) /\ world \in [lines : Nat, tokens : Nat, head : Nat]
      BY <1>1, <2>2, <2>12, LinesOfTheGate DEF IsLine, IsWorld
    <3>2. exit = Prompts!ZoneExit("readable", lines, world)
      BY <2>1, <2>12 DEF RunGate
    <3>3. SaysWhatItShould <=> Prompts!ZonePlaced(lines, world)
      BY <2>12 DEF SaysWhatItShould
    <3>4. Prompts!ZoneRead(lines)
      BY <1>1, <2>12 DEF ReadsOneWay
    <3> QED
      BY <3>1, <3>2, <3>3, <3>4, ZoneReads
  <2>13. CASE gate = "audit"
    <3>1. lines \in Seq(Prompts!PromptLine) /\ world.mode = "check"
      BY <1>1, <2>13, LinesOfTheGate DEF IsLine, Ruled
    <3>2. exit = Prompts!AuditExit(lines, world)
      BY <2>1, <2>13 DEF RunGate
    <3>3. SaysWhatItShould <=> Prompts!AuditPlaced(lines, world)
      BY <2>13 DEF SaysWhatItShould
    <3>4. Prompts!FencesMatch(lines)
      BY <1>1, <2>13 DEF ReadsOneWay
    <3> QED
      BY <2>1, <3>1, <3>2, <3>3, <3>4, AuditReads
  <2>14. CASE gate \in {"pilot", "plan", "surface"}
    BY <2>14 DEF SaysWhatItShould
  <2>15. CASE gate = "excusals"
    <3>1. lines \in Seq(Excusals!Line)
      BY <1>1, <2>15, LinesOfTheGate DEF IsLine
    <3>2. exit = Excusals!Exit(world, lines)
      BY <2>1, <2>15 DEF RunGate
    <3>3. SaysWhatItShould <=> \A m \in world : Excusals!Excused(lines, m)
      BY <2>15 DEF SaysWhatItShould
    <3> QED
      BY <2>1, <3>1, <3>2, <3>3, ExcusalsRead
  <2> QED
    BY <1>1, <2>1, <2>3, <2>4, <2>5, <2>6, <2>7, <2>8, <2>9, <2>10, <2>11, <2>12, <2>13, <2>14, <2>15 DEF GateNames
<1>2. GateInv => VerdictIsTheReaders
  BY <1>1 DEF VerdictIsTheReaders
<1> QED
  BY <1>2, AnswersWhatItReads, PTL

=============================================================================
