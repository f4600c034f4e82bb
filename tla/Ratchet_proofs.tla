----------------------------- MODULE Ratchet_proofs -----------------------------
(***************************************************************************)
(* For every set of files, every content of the two records and every      *)
(* number of runs and adoptions, the baseline is a ratchet.                *)
(***************************************************************************)
EXTENDS Ratchet, SequenceTheorems, FiniteSetTheorems, TLAPS

USE DEF Unset

\* A verdict is pending or given, and stands for these two records.
Judged == pc = "verdict" \/ (pc = "done" /\ exit \in {0, 1})
Green == (pc = "verdict" /\ ~fails) \/ (pc = "done" /\ exit = 0)

\* The baseline is what the run read, or what was adopted after it.
Known(rows) == Parses(baseline) /\ ParseRecords(baseline) = rows

JudgedInv ==
  /\ pc \in {"current", "verdict"} => Known(base)
  /\ Green => Known(base) \/ Known(Merged(base, cur))
  /\ Judged => ~KeyVariants(base, cur)
  /\ pc = "verdict" => (fails <=> Fails(base, cur))
  /\ pc = "done" /\ exit = 0 => ~Fails(base, cur)
  /\ pc = "done" /\ exit = 1 => Fails(base, cur)

FiniteInv == IsFiniteSet(DOMAIN base) /\ IsFiniteSet(DOMAIN cur)

IInv == TypeOK /\ JudgedInv /\ FiniteInv

\* The parse of a content that is not refused gives each row under its key.
LEMMA ParseGives ==
  ASSUME NEW lines \in Seq(Row), Parses(lines)
  PROVE  LET rows == ParseRecords(lines) IN
         /\ Parsed(rows)
         /\ \A i \in 1..Len(lines) : /\ KeyOf(lines[i]) \in DOMAIN rows
                                     /\ rows[KeyOf(lines[i])] = lines[i].metrics
         /\ \A k \in DOMAIN rows : \E i \in 1..Len(lines) : KeyOf(lines[i]) = k
<1> DEFINE rows == ParseRecords(lines)
<1>1. \A i \in 1..Len(lines) : lines[i] \in Row
  BY ElementOfSeq
<1>2. DOMAIN rows = {KeyOf(lines[i]) : i \in 1..Len(lines)}
  BY DEF ParseRecords
<1>3. rows = [k \in DOMAIN rows |-> rows[k]]
  BY DEF ParseRecords
<1>4. ASSUME NEW i \in 1..Len(lines)
      PROVE  /\ KeyOf(lines[i]) \in DOMAIN rows /\ KeyOf(lines[i]) \in Files \X Forms
             /\ rows[KeyOf(lines[i])] = lines[i].metrics
  <2>1. KeyOf(lines[i]) \in DOMAIN rows
    BY <1>2
  <2>2. KeyOf(lines[i]) \in Files \X Forms
    BY <1>1 DEF KeyOf, Row, Forms
  <2>3. (CHOOSE j \in 1..Len(lines) : KeyOf(lines[j]) = KeyOf(lines[i])) = i
    BY DEF Parses
  <2>4. rows[KeyOf(lines[i])] = lines[i].metrics
    BY <2>1, <2>3, <1>2 DEF ParseRecords
  <2> QED
    BY <2>1, <2>2, <2>4
<1>5. \A k \in DOMAIN rows : \E i \in 1..Len(lines) : KeyOf(lines[i]) = k
  BY <1>2
<1>6. \A k \in DOMAIN rows : rows[k] \in Metrics /\ k \in Files \X Forms
  BY <1>1, <1>4, <1>5 DEF Row
<1> HIDE DEF rows
<1>7. Parsed(rows)
  BY <1>3, <1>6 DEF Parsed
<1> QED
  BY <1>4, <1>5, <1>7 DEF rows

\* A file has finitely many lines.
LEMMA ParseFinite ==
  ASSUME NEW lines \in Seq(Row)
  PROVE  IsFiniteSet(DOMAIN ParseRecords(lines))
<1> DEFINE lineNumbers == 1..Len(lines)
           keys == {KeyOf(lines[i]) : i \in lineNumbers}
           key == [i \in lineNumbers |-> KeyOf(lines[i])]
<1>1. IsFiniteSet(lineNumbers)
  BY FS_Interval, LenProperties
<1>2. key \in Surjection(lineNumbers, keys)
  BY DEF Surjection
<1>3. DOMAIN ParseRecords(lines) = keys
  BY DEF ParseRecords
<1> HIDE DEF lineNumbers, keys, key
<1>4. IsFiniteSet(keys)
  BY <1>1, <1>2, FS_Surjection
<1> QED
  BY <1>3, <1>4

\* Keys that no file system confuses are as many as the files they name.
LEMMA FoldCounts ==
  ASSUME NEW S, IsFiniteSet(S), \A j, k \in S : FoldKey(j) = FoldKey(k) => j = k
  PROVE  Cardinality({FoldKey(k) : k \in S}) = Cardinality(S)
<1> DEFINE T == {FoldKey(k) : k \in S}
           fold == [k \in S |-> FoldKey(k)]
<1>1. fold \in Bijection(S, T)
  BY DEF Bijection, Injection, Surjection, IsInjective
<1>2. ExistsBijection(S, T)
  BY <1>1 DEF ExistsBijection
<1> HIDE DEF T, fold
<1>3. Cardinality(T) = Cardinality(S)
  BY <1>2, FS_Bijection
<1> QED
  BY <1>3 DEF T

\* One key for each file: what is recorded of a file is what its key holds.
LEMMA RecordedIsParsed ==
  ASSUME NEW lines \in Seq(Row), Parses(lines),
         ~KeyVariants(ParseRecords(lines), ParseRecords(lines))
  PROVE  /\ Listed(lines) = FilesOf(ParseRecords(lines))
         /\ Listed(lines) = DOMAIN Recorded(lines)
         /\ \A k \in DOMAIN ParseRecords(lines) :
              Recorded(lines)[FoldKey(k)] = ParseRecords(lines)[k]
<1> DEFINE rows == ParseRecords(lines)
<1>1. /\ \A i \in 1..Len(lines) : /\ KeyOf(lines[i]) \in DOMAIN rows
                                  /\ rows[KeyOf(lines[i])] = lines[i].metrics
      /\ \A k \in DOMAIN rows : \E i \in 1..Len(lines) : KeyOf(lines[i]) = k
  BY ParseGives
<1>2. \A i \in 1..Len(lines) : FoldKey(KeyOf(lines[i])) = lines[i].file
  BY DEF FoldKey, KeyOf
<1>3. \A j, k \in DOMAIN rows : FoldKey(j) = FoldKey(k) => j = k
  BY DEF KeyVariants
<1> HIDE DEF rows
<1>4. Listed(lines) = FilesOf(rows)
  <2>1. \A x \in Listed(lines) : x \in FilesOf(rows)
    BY <1>1, <1>2 DEF Listed, FilesOf
  <2>2. \A x \in FilesOf(rows) : x \in Listed(lines)
    BY <1>1, <1>2 DEF Listed, FilesOf
  <2> QED
    BY <2>1, <2>2
<1>5. ASSUME NEW k \in DOMAIN rows
      PROVE  Recorded(lines)[FoldKey(k)] = rows[k]
  <2> DEFINE i == CHOOSE i \in 1..Len(lines) : lines[i].file = FoldKey(k)
  <2>1. \E j \in 1..Len(lines) : lines[j].file = FoldKey(k)
    BY <1>1, <1>2
  <2>2. i \in 1..Len(lines) /\ lines[i].file = FoldKey(k)
    BY <2>1
  <2>3. FoldKey(k) \in Listed(lines)
    BY <2>2 DEF Listed
  <2>4. Recorded(lines)[FoldKey(k)] = lines[i].metrics
    BY <2>3 DEF Recorded
  <2> HIDE DEF i
  <2>5. KeyOf(lines[i]) = k
    BY <1>1, <1>2, <1>3, <2>2
  <2> QED
    BY <1>1, <2>2, <2>4, <2>5
<1> QED
  BY <1>4, <1>5 DEF rows, Recorded

\* Merging adds the touched keys and no other.
LEMMA MergedType ==
  ASSUME NEW b, NEW c, Parsed(b), Parsed(c)
  PROVE  /\ Parsed(Merged(b, c)) /\ DOMAIN Merged(b, c) = DOMAIN b \cup DOMAIN c
         /\ \A k \in DOMAIN c : Merged(b, c)[k] = c[k]
         /\ \A k \in DOMAIN b \ DOMAIN c : Merged(b, c)[k] = b[k]
  BY DEF Merged, Parsed

\* Initially nothing is read.
LEMMA InitIInv == Init => IInv
<1> SUFFICES ASSUME Init PROVE IInv
  OBVIOUS
<1>1. Parsed(Nothing)
  BY DEF Parsed, Nothing
<1>2. TypeOK
  BY <1>1 DEF Init, TypeOK
<1>3. FiniteInv
  BY FS_EmptySet DEF Init, FiniteInv, Nothing
<1> QED
  BY <1>2, <1>3 DEF Init, IInv, JudgedInv, Judged, Green

\* Every step of the gate and every adoption keeps the invariant.
LEMMA NextTyped == IInv /\ [Next]_vars => TypeOK' /\ JudgedInv'
<1> SUFFICES ASSUME IInv, [Next]_vars PROVE TypeOK' /\ JudgedInv'
  OBVIOUS
<1>0. TypeOK /\ JudgedInv
  BY DEF IInv
<1>1. Parsed(Nothing)
  BY DEF Parsed, Nothing
<1>2. CASE Invoke
  <2>1. TypeOK'
    BY <1>0, <1>1, <1>2 DEF Invoke, TypeOK
  <2> QED
    BY <1>2, <2>1 DEF Invoke, JudgedInv, Judged, Green
<1>3. CASE ReadBaseline
  <2>1. Parses(baseline) => Parsed(ParseRecords(baseline))
    BY <1>0, ParseGives, RecordsAssumption DEF TypeOK
  <2>2. CASE Parses(baseline)
    <3>1. /\ pc' = "current" /\ base' = ParseRecords(baseline)
          /\ UNCHANGED <<baseline, cur, fails, exit>>
      BY <1>3, <2>2 DEF ReadBaseline
    <3>2. TypeOK'
      BY <1>0, <2>1, <2>2, <3>1 DEF TypeOK
    <3> QED
      BY <2>2, <3>1, <3>2 DEF JudgedInv, Judged, Green, Known
  <2>3. CASE ~Parses(baseline)
    <3>1. pc' = "done" /\ exit' = 2 /\ UNCHANGED <<baseline, base, cur, fails>>
      BY <1>3, <2>3 DEF ReadBaseline, End
    <3>2. TypeOK'
      BY <1>0, <3>1 DEF TypeOK
    <3> QED
      BY <3>1, <3>2 DEF JudgedInv, Judged, Green
  <2> QED
    BY <2>2, <2>3
<1>4. ASSUME NEW touched \in Records, ReadCurrent(touched) PROVE TypeOK' /\ JudgedInv'
  <2>1. CASE Parses(touched) /\ ~KeyVariants(base, ParseRecords(touched))
    <3>1. /\ pc = "current" /\ pc' = "verdict" /\ cur' = ParseRecords(touched)
          /\ fails' = Fails(base, cur') /\ UNCHANGED <<baseline, base, exit>>
      BY <1>4, <2>1 DEF ReadCurrent
    <3>2. Parsed(cur')
      BY <1>4, <2>1, <3>1, ParseGives, RecordsAssumption
    <3>3. Fails(base, cur') \in BOOLEAN
      BY DEF Fails
    <3>4. TypeOK'
      BY <1>0, <3>1, <3>2, <3>3 DEF TypeOK
    <3>5. Known(base) /\ Known(base)'
      BY <1>0, <3>1 DEF JudgedInv, Known
    <3>6. JudgedInv'
      BY <2>1, <3>1, <3>5 DEF JudgedInv, Judged, Green
    <3> QED
      BY <3>4, <3>6
  <2>2. CASE ~(Parses(touched) /\ ~KeyVariants(base, ParseRecords(touched)))
    <3>1. pc' = "done" /\ exit' = 2 /\ UNCHANGED <<baseline, base, cur, fails>>
      BY <1>4, <2>2 DEF ReadCurrent, End
    <3>2. TypeOK'
      BY <1>0, <3>1 DEF TypeOK
    <3> QED
      BY <3>1, <3>2 DEF JudgedInv, Judged, Green
  <2> QED
    BY <2>1, <2>2
<1>5. CASE Deliver
  <2>1. /\ pc = "verdict" /\ pc' = "done" /\ exit' = IF fails THEN 1 ELSE 0
        /\ UNCHANGED <<baseline, base, cur, fails>>
    BY <1>5 DEF Deliver, End
  <2>2. TypeOK'
    BY <1>0, <2>1 DEF TypeOK
  <2>3. exit' = 0 => ~fails
    BY <1>0, <2>1 DEF TypeOK
  <2>4. JudgedInv'
    BY <1>0, <2>1, <2>3 DEF JudgedInv, Judged, Green, Known
  <2> QED
    BY <2>2, <2>4
<1>6. CASE Fault
  <2>1. pc' = "done" /\ exit' = 2 /\ UNCHANGED <<baseline, base, cur, fails>>
    BY <1>6 DEF Fault, End
  <2>2. TypeOK'
    BY <1>0, <2>1 DEF TypeOK
  <2> QED
    BY <2>1, <2>2 DEF JudgedInv, Judged, Green
<1>7. ASSUME NEW lines \in Records, Adopt(lines) PROVE TypeOK' /\ JudgedInv'
  <2>1. /\ pc = "done" /\ exit = 0 /\ baseline' = lines
        /\ Parses(lines) /\ ParseRecords(lines) = Merged(base, cur)
        /\ UNCHANGED <<pc, base, cur, fails, exit>>
    BY <1>7 DEF Adopt
  <2>2. TypeOK'
    BY <1>0, <1>7, <2>1 DEF TypeOK
  <2>3. Known(Merged(base, cur))'
    BY <2>1 DEF Known
  <2>4. JudgedInv'
    BY <1>0, <2>1, <2>3 DEF JudgedInv, Judged, Green
  <2> QED
    BY <2>2, <2>4
<1>8. CASE UNCHANGED vars
  <2>1. TypeOK'
    BY <1>0, <1>8 DEF TypeOK, vars
  <2>2. JudgedInv'
    BY <1>0, <1>8 DEF JudgedInv, Judged, Green, Known, vars
  <2> QED
    BY <2>1, <2>2
<1> QED
  BY <1>2, <1>3, <1>4, <1>5, <1>6, <1>7, <1>8 DEF Next

\* What is read is finite, as no more than the lines of a file.
LEMMA NextFinite == IInv /\ [Next]_vars => FiniteInv'
<1> SUFFICES ASSUME IInv, [Next]_vars PROVE FiniteInv'
  OBVIOUS
<1>0. FiniteInv /\ baseline \in Seq(Row)
  BY RecordsAssumption DEF IInv, TypeOK
<1>1. CASE Invoke
  BY <1>1, FS_EmptySet DEF Invoke, FiniteInv, Nothing
<1>2. CASE ReadBaseline
  <2>1. base' \in {base, ParseRecords(baseline)} /\ cur' = cur
    BY <1>2 DEF ReadBaseline
  <2> QED
    BY <1>0, <2>1, ParseFinite DEF FiniteInv
<1>3. ASSUME NEW touched \in Records, ReadCurrent(touched) PROVE FiniteInv'
  <2>1. cur' \in {cur, ParseRecords(touched)} /\ base' = base
    BY <1>3 DEF ReadCurrent
  <2>2. touched \in Seq(Row)
    BY RecordsAssumption
  <2> QED
    BY <1>0, <2>1, <2>2, ParseFinite DEF FiniteInv
<1>4. CASE UNCHANGED <<base, cur>>
  BY <1>0, <1>4 DEF FiniteInv
<1> QED
  BY <1>1, <1>2, <1>3, <1>4 DEF Next, Deliver, Fault, Adopt, vars

\* Every step keeps the whole invariant.
LEMMA NextIInv == IInv /\ [Next]_vars => IInv'
  BY NextTyped, NextFinite DEF IInv

\* Every reachable state satisfies the inductive invariant.
THEOREM Invariance == Spec => []IInv
  BY InitIInv, NextIInv, PTL DEF Spec

\* Baseline, records and verdict stay well typed.
THEOREM TypeCorrect == Spec => []TypeOK
<1>1. IInv => TypeOK
  BY DEF IInv
<1> QED
  BY Invariance, <1>1, PTL

\* What is recorded of a file is a measurement.
LEMMA RecordedType ==
  ASSUME NEW lines \in Seq(Row)
  PROVE  /\ DOMAIN Recorded(lines) = Listed(lines)
         /\ \A f \in Listed(lines) : Recorded(lines)[f].crap \in Nat
<1>1. DOMAIN Recorded(lines) = Listed(lines)
  BY DEF Recorded
<1>2. ASSUME NEW f \in Listed(lines)
      PROVE  Recorded(lines)[f].crap \in Nat
  <2> DEFINE i == CHOOSE i \in 1..Len(lines) : lines[i].file = f
  <2>1. i \in 1..Len(lines)
    BY DEF Listed
  <2>2. Recorded(lines)[f] = lines[i].metrics
    BY DEF Recorded
  <2> HIDE DEF i
  <2>3. lines[i] \in Row
    BY <2>1, ElementOfSeq
  <2> QED
    BY <2>2, <2>3 DEF Row, Metrics
<1> QED
  BY <1>1, <1>2

\* Numbers do not get worse than themselves.
LEMMA NotWorseThanItself ==
  ASSUME NEW m \in Metrics
  PROVE  ~Store!Worse(m, m)
  BY DEF Metrics, Store!Worse

\* The baseline changes by adoption alone, and an adoption is a turn of the
\* ratchet or changes nothing.
LEMMA StepTurns == IInv /\ [Next]_vars => [Store!Turn]_(Recorded(baseline))
<1> SUFFICES ASSUME IInv, [Next]_vars PROVE [Store!Turn]_(Recorded(baseline))
  OBVIOUS
<1>1. CASE UNCHANGED baseline
  BY <1>1
<1>2. ASSUME NEW lines \in Records, Adopt(lines)
      PROVE  [Store!Turn]_(Recorded(baseline))
  <2> DEFINE merged == Merged(base, cur)
             old == Recorded(baseline)
             new == Recorded(lines)
  <2>1. /\ baseline' = lines /\ Parses(lines) /\ ParseRecords(lines) = merged
        /\ lines \in Seq(Row) /\ baseline \in Seq(Row)
    BY <1>2, RecordsAssumption DEF Adopt, IInv, TypeOK
  <2>2. /\ Known(base) \/ Known(merged)
        /\ ~KeyVariants(base, cur) /\ ~Fails(base, cur)
        /\ Parsed(base) /\ Parsed(cur)
    BY <1>2 DEF Adopt, IInv, TypeOK, JudgedInv, Judged, Green
  <2>3. /\ Parsed(merged) /\ DOMAIN merged = DOMAIN base \cup DOMAIN cur
        /\ \A k \in DOMAIN cur : merged[k] = cur[k]
        /\ \A k \in DOMAIN base \ DOMAIN cur : merged[k] = base[k]
    BY <2>2, MergedType
  <2>4. ~KeyVariants(merged, merged) /\ ~KeyVariants(base, base)
    BY <2>2, <2>3 DEF KeyVariants
  <2> HIDE DEF merged
  <2>5. /\ DOMAIN new = FilesOf(merged)
        /\ \A k \in DOMAIN merged : new[FoldKey(k)] = merged[k]
    BY <2>1, <2>4, RecordedIsParsed
  <2>6. CASE Known(base)
    <3>1. /\ DOMAIN old = FilesOf(base)
          /\ \A k \in DOMAIN base : old[FoldKey(k)] = base[k]
      BY <2>1, <2>4, <2>6, RecordedIsParsed DEF Known
    <3>2. \A k \in DOMAIN cur \cap DOMAIN base : ~Store!Worse(cur[k], base[k])
      BY <2>2 DEF Fails, Regressions, Worse, Store!Worse
    <3>3. \A k \in DOMAIN cur \ DOMAIN base : cur[k].crap <= Ceiling
      <4>1. \A k \in DOMAIN cur \ DOMAIN base : ~(cur[k].crap > Ceiling)
        BY <2>2 DEF Fails, NewOver
      <4>2. \A k \in DOMAIN cur : cur[k].crap \in Nat
        BY <2>2 DEF Parsed, Metrics
      <4> QED
        BY <4>1, <4>2, LimitsAssumption
    <3>4. \A k \in DOMAIN base : ~Store!Worse(merged[k], base[k])
      <4>1. \A k \in DOMAIN base : ~Store!Worse(base[k], base[k])
        BY <2>2, NotWorseThanItself DEF Parsed
      <4> QED
        BY <2>3, <3>2, <4>1
    <3> HIDE DEF old, new
    <3>5. DOMAIN old \subseteq DOMAIN new
      BY <2>3, <2>5, <3>1 DEF FilesOf
    <3>6. \A f \in DOMAIN old : ~Store!Worse(new[f], old[f])
      <4> SUFFICES ASSUME NEW f \in DOMAIN old PROVE ~Store!Worse(new[f], old[f])
        OBVIOUS
      <4>1. PICK k \in DOMAIN base : f = FoldKey(k)
        BY <3>1 DEF FilesOf
      <4>2. new[f] = merged[k] /\ old[f] = base[k]
        BY <2>3, <2>5, <3>1, <4>1
      <4> QED
        BY <3>4, <4>2
    <3>7. \A f \in DOMAIN new \ DOMAIN old : new[f].crap <= Ceiling
      <4> SUFFICES ASSUME NEW f \in DOMAIN new \ DOMAIN old PROVE new[f].crap <= Ceiling
        OBVIOUS
      <4>1. PICK k \in DOMAIN merged : f = FoldKey(k)
        BY <2>5 DEF FilesOf
      <4>2. k \in DOMAIN cur \ DOMAIN base
        BY <2>3, <3>1, <4>1 DEF FilesOf
      <4>3. new[f] = cur[k]
        BY <2>3, <2>5, <4>1, <4>2
      <4> QED
        BY <3>3, <4>2, <4>3
    <3>8. Recorded(baseline) = old /\ Recorded(baseline)' = new
      BY <2>1 DEF old, new
    <3> QED
      BY <3>5, <3>6, <3>7, <3>8 DEF Store!Turn
  <2>7. CASE Known(merged)
    <3>1. /\ DOMAIN old = FilesOf(merged)
          /\ \A k \in DOMAIN merged : old[FoldKey(k)] = merged[k]
      BY <2>1, <2>4, <2>7, RecordedIsParsed DEF Known
    <3>2. \A f \in DOMAIN old : new[f] = old[f]
      BY <2>5, <3>1 DEF FilesOf
    <3>3. /\ old = [f \in DOMAIN old |-> old[f]]
          /\ new = [f \in DOMAIN new |-> new[f]]
      BY DEF Recorded
    <3> HIDE DEF old, new
    <3>4. old = new
      BY <2>5, <3>1, <3>2, <3>3
    <3> QED
      BY <2>1, <3>4 DEF old, new
  <2> QED
    BY <2>2, <2>6, <2>7
<1> QED
  BY <1>1, <1>2 DEF Next, Invoke, ReadBaseline, ReadCurrent, Deliver, Fault, vars

\* The baseline is a ratchet, whatever is measured and however often.
THEOREM Refinement == Spec => BaselineIsARatchet
<1>1. Init => Store!Init
  <2>1. ASSUME Init PROVE Store!Init
    <3>1. baseline \in Seq(Row)
      BY <2>1, RecordsAssumption DEF Init
    <3>2. \A i \in 1..Len(baseline) : baseline[i] \in Row
      BY <3>1, ElementOfSeq
    <3>3. \A i \in 1..Len(baseline) : baseline[i].file \in Files
      BY <3>2 DEF Row
    <3> QED
      BY <3>3 DEF Store!Init, Recorded, Listed
  <2> QED
    BY <2>1
<1> QED
  BY <1>1, Invariance, StepTurns, PTL DEF Spec, BaselineIsARatchet, Store!Spec

\* A turn of the ratchet puts no file over the ceiling.
LEMMA TurnShrinks ==
  ASSUME TypeOK, TypeOK', [Store!Turn]_(Recorded(baseline)),
         NEW f \in Listed(baseline'), Recorded(baseline')[f].crap > Ceiling
  PROVE  f \in Listed(baseline) /\ Recorded(baseline)[f].crap > Ceiling
<1> DEFINE old == Recorded(baseline)
           new == Recorded(baseline')
<1>1. baseline \in Seq(Row) /\ baseline' \in Seq(Row)
  BY RecordsAssumption DEF TypeOK
<1>2. /\ DOMAIN old = Listed(baseline) /\ DOMAIN new = Listed(baseline')
      /\ \A g \in DOMAIN old : old[g].crap \in Nat
      /\ \A g \in DOMAIN new : new[g].crap \in Nat
  BY <1>1, RecordedType
<1>3. CASE new = old
  BY <1>2, <1>3
<1>4. CASE Store!Turn
  <2>1. /\ \A g \in DOMAIN old : ~Store!Worse(new[g], old[g])
        /\ \A g \in DOMAIN new \ DOMAIN old : new[g].crap <= Ceiling
    BY <1>4 DEF Store!Turn
  <2> HIDE DEF old, new
  <2>2. f \in DOMAIN new /\ new[f].crap > Ceiling
    BY <1>2 DEF new
  <2>3. f \in DOMAIN old
    BY <1>2, <2>1, <2>2, LimitsAssumption
  <2>4. ~(new[f].crap > old[f].crap)
    BY <2>1, <2>3 DEF Store!Worse
  <2>5. old[f].crap > Ceiling
    BY <1>2, <2>2, <2>3, <2>4, LimitsAssumption
  <2> QED
    BY <1>2, <2>3, <2>5 DEF old
<1> QED
  BY <1>3, <1>4

\* The files over the ceiling can only become fewer.
THEOREM PocketShrinks == Spec => OverCeilingShrinks
<1>1. IInv /\ IInv' /\ [Next]_vars =>
        [\A f \in Listed(baseline') :
           Recorded(baseline')[f].crap > Ceiling =>
             f \in Listed(baseline) /\ Recorded(baseline)[f].crap > Ceiling]_baseline
  BY StepTurns, TurnShrinks DEF IInv
<1> QED
  BY <1>1, Invariance, PTL DEF Spec, OverCeilingShrinks

\* Counting keys is counting files.
LEMMA BustIsAboutFiles ==
  ASSUME Parsed(base), Parsed(cur), FiniteInv, ~KeyVariants(base, cur)
  PROVE  ~Bust(Merged(base, cur)) <=>
           100 * Cardinality(OverFiles(cur) \cup (OverFiles(base) \ FilesOf(cur)))
             <= Budget * Cardinality(FilesOf(base) \cup FilesOf(cur))
<1> DEFINE merged == Merged(base, cur)
           keys == DOMAIN merged
           over == {k \in keys : merged[k].crap > Ceiling}
<1>1. /\ keys = DOMAIN base \cup DOMAIN cur
      /\ \A k \in DOMAIN cur : merged[k] = cur[k]
      /\ \A k \in DOMAIN base \ DOMAIN cur : merged[k] = base[k]
  BY MergedType
<1>2. \A j, k \in keys : FoldKey(j) = FoldKey(k) => j = k
  BY <1>1 DEF KeyVariants
<1>3. Bust(merged) <=> 100 * Cardinality(over) > Budget * Cardinality(keys)
  BY DEF Bust
<1>4. \A k \in keys : k \in over <=> merged[k].crap > Ceiling
  OBVIOUS
<1>5. over \subseteq keys
  OBVIOUS
<1> HIDE DEF merged, keys, over
<1>6. IsFiniteSet(keys) /\ IsFiniteSet(over)
  BY <1>1, <1>5, FS_Union, FS_Subset DEF FiniteInv
<1>7. Cardinality(keys) = Cardinality({FoldKey(k) : k \in keys})
  BY <1>2, <1>6, FoldCounts
<1>8. Cardinality(over) = Cardinality({FoldKey(k) : k \in over})
  BY <1>2, <1>5, <1>6, FoldCounts
<1>9. {FoldKey(k) : k \in keys} = FilesOf(base) \cup FilesOf(cur)
  BY <1>1 DEF FilesOf
<1>10. {FoldKey(k) : k \in over} = OverFiles(cur) \cup (OverFiles(base) \ FilesOf(cur))
  <2>1. ASSUME NEW k \in over
        PROVE  FoldKey(k) \in OverFiles(cur) \cup (OverFiles(base) \ FilesOf(cur))
    <3>1. CASE k \in DOMAIN cur
      BY <1>1, <1>4, <1>5, <3>1 DEF OverFiles
    <3>2. CASE k \notin DOMAIN cur
      <4>1. FoldKey(k) \in OverFiles(base)
        BY <1>1, <1>4, <1>5, <3>2 DEF OverFiles
      <4>2. FoldKey(k) \notin FilesOf(cur)
        BY <1>1, <1>2, <1>5, <3>2 DEF FilesOf
      <4> QED
        BY <4>1, <4>2
    <3> QED
      BY <3>1, <3>2
  <2>2. ASSUME NEW f \in OverFiles(cur) PROVE \E k \in over : f = FoldKey(k)
    BY <1>1, <1>4 DEF OverFiles
  <2>3. ASSUME NEW f \in OverFiles(base) \ FilesOf(cur) PROVE \E k \in over : f = FoldKey(k)
    BY <1>1, <1>4 DEF OverFiles, FilesOf
  <2> QED
    BY <2>1, <2>2, <2>3
<1>11. Cardinality(keys) \in Nat /\ Cardinality(over) \in Nat
  BY <1>6, FS_CardinalityType
<1>12. ~Bust(merged) <=> 100 * Cardinality(over) <= Budget * Cardinality(keys)
  BY <1>3, <1>11, LimitsAssumption
<1> QED
  BY <1>7, <1>8, <1>9, <1>10, <1>12 DEF merged

\* The comparison by keys is the comparison by files.
LEMMA FailsIsAboutFiles ==
  ASSUME Parsed(base), Parsed(cur), FiniteInv, ~KeyVariants(base, cur)
  PROVE  ~Fails(base, cur) <=>
           /\ \A k \in DOMAIN cur, j \in DOMAIN base :
                FoldKey(k) = FoldKey(j) => ~Store!Worse(cur[k], base[j])
           /\ OverFiles(cur) \subseteq FilesOf(base)
           /\ 100 * Cardinality(OverFiles(cur) \cup (OverFiles(base) \ FilesOf(cur)))
                <= Budget * Cardinality(FilesOf(base) \cup FilesOf(cur))
<1>1. \A k \in DOMAIN cur, j \in DOMAIN base : FoldKey(k) = FoldKey(j) <=> k = j
  BY DEF KeyVariants
<1>2. Regressions(base, cur) = {} <=>
        \A k \in DOMAIN cur, j \in DOMAIN base :
          FoldKey(k) = FoldKey(j) => ~Store!Worse(cur[k], base[j])
  <2>1. Regressions(base, cur) = {} <=>
          \A k \in DOMAIN cur \cap DOMAIN base : ~Store!Worse(cur[k], base[k])
    BY DEF Regressions, Worse, Store!Worse
  <2> QED
    BY <1>1, <2>1
<1>3. NewOver(base, cur) = {} <=> OverFiles(cur) \subseteq FilesOf(base)
  BY <1>1 DEF NewOver, OverFiles, FilesOf
<1> QED
  BY <1>2, <1>3, BustIsAboutFiles DEF Fails

\* For every spelling of every path: both verdicts are about files.
THEOREM FilesNotSpellings == Spec => []VerdictIsAboutFiles
<1>1. IInv => VerdictIsAboutFiles
  <2> SUFFICES ASSUME IInv, pc = "done", exit \in {0, 1} PROVE VerdictIsAboutFiles
    BY DEF VerdictIsAboutFiles
  <2>1. Parsed(base) /\ Parsed(cur) /\ FiniteInv /\ ~KeyVariants(base, cur)
    BY DEF IInv, TypeOK, JudgedInv, Judged
  <2>2. exit = 0 <=> ~Fails(base, cur)
    BY DEF IInv, JudgedInv
  <2> QED
    BY <2>1, <2>2, FailsIsAboutFiles DEF VerdictIsAboutFiles
<1> QED
  BY <1>1, Invariance, PTL

=============================================================================
