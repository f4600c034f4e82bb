--------------------------- MODULE GherkinGate_proofs ---------------------------
(***************************************************************************)
(* What a consent of gherkin-gate.py is worth, for every sequence of       *)
(* texts, every ledger and every order of edits, records and runs.         *)
(***************************************************************************)
EXTENDS GherkinGate, SequenceTheorems, TLAPS

USE DEF Unset

\* The bar, of the text captured and the lines read.
Bar ==
  /\ captured.declared # <<>> /\ ToSet(captured.declared) = {story}
  /\ \A k \in 1..Len(captured.scenarios) : Proved(captured.scenarios[k])
  /\ \A k \in Evidence :
       \E name \in ToSet(captured.scenarios), phase \in {"red", "green"} : Proof(k, name, phase)

\* The gate holds a verdict, written or not.
Judged == pc = "write" \/ (pc = "done" /\ exit \in {0, 1})
Consenting == (pc = "write" /\ ~refuses) \/ (pc = "done" /\ exit = 0)

JudgedInv ==
  /\ pc = "ledger" => captured.scenarios # <<>>
  /\ Judged => /\ captured.scenarios # <<>>
               /\ upto > 0 /\ \A k \in 1..upto : ledger[k] # Malformed
  /\ Consenting => Bar

\* Every consent left a record in the ledger, and a run that reads the ledger
\* later reads it too.
Backed(c, n) ==
  \E k \in 1..n : ledger[k] # Malformed /\ ledger[k].story = c.story /\ ledger[k].sha = c.sha
BackedInv ==
  \A c \in consents : /\ Backed(c, Len(ledger))
                      /\ pc = "write" => Backed(c, upto)

\* A text passed for the one story it declares.
DeclaredInv ==
  \A c \in consents : \A f \in Features : f.sha = c.sha => ToSet(f.declared) = {c.story}

IInv == TypeOK /\ JudgedInv /\ BackedInv /\ DeclaredInv /\ OneTextOneStory

\* What the types say of a line and of the text.
LEMMA LineType ==
  ASSUME TypeOK
  PROVE  /\ captured \in Feature /\ Len(ledger) \in Nat /\ upto \in 0..Len(ledger)
         /\ \A k \in 1..Len(ledger) : ledger[k] \in Record \cup {Malformed}
  BY FeaturesAssumption, ReportsAssumption, ElementOfSeq, LenProperties DEF TypeOK

\* Reading a ledger of records, all of it, without refusing is meeting the bar.
LEMMA NotRefusedIsBar ==
  ASSUME TypeOK, upto' = Len(ledger), \A k \in 1..Len(ledger) : ledger[k] # Malformed,
         UNCHANGED <<ledger, captured, story>>, ~Refuses(captured, ledger, story)
  PROVE  Bar'
<1> DEFINE mine == Mine(ledger, story)
<1>0. Len(ledger) \in Nat
  BY LineType
<1>1. captured \in Feature /\ \A k \in mine : k \in 1..Len(ledger) /\ ledger[k] \in Record
  BY LineType DEF Mine
<1>2. Evidence' = mine
  BY DEF Evidence, Mine
<1>3. /\ Bound(captured, story) /\ Bindable(captured)
      /\ \A k \in mine : ~Faulty(ledger[k], captured)
      /\ \A name \in Seen(captured) : RedToGreen(ledger, Runs(ledger, story, captured, name))
  BY Zenon DEF Refuses
<1>4. ToSet(captured.declared) = {story} /\ captured.declared # <<>>
  <2>1. ToSet(captured.declared) = {story}
    BY <1>3 DEF Bound
  <2>2. ToSet(<<>>) = {}
    BY DEF ToSet
  <2> QED
    BY <2>1, <2>2
<1>5. Seen(captured) = ToSet(captured.scenarios)
  BY <1>3 DEF Seen, Bindable
<1>6. \A k \in mine : /\ ledger[k].phase \in {"red", "green"}
                      /\ ledger[k].scenario \in Seen(captured) /\ ledger[k].sha = captured.sha
                      /\ ledger[k].zero <=> ledger[k].phase = "green"
  <2> SUFFICES ASSUME NEW k \in mine
               PROVE  /\ ledger[k].phase \in {"red", "green"}
                      /\ ledger[k].scenario \in Seen(captured) /\ ledger[k].sha = captured.sha
                      /\ ledger[k].zero <=> ledger[k].phase = "green"
    OBVIOUS
  <2>1. ledger[k].phase \in {"red", "green"} /\ ledger[k].zero \in BOOLEAN
    BY <1>1 DEF Record
  <2>2. ledger[k].scenario \in Seen(captured) /\ ledger[k].sha = captured.sha
        /\ ~((ledger[k].phase = "red") = ledger[k].zero)
    BY <1>3, Zenon DEF Faulty
  <2>3. ledger[k].zero <=> ledger[k].phase = "green"
    <3>1. CASE ledger[k].phase = "red"
      BY <2>1, <2>2, <3>1
    <3>2. CASE ledger[k].phase = "green"
      BY <2>1, <2>2, <3>2
    <3> QED
      BY <2>1, <3>1, <3>2
  <2> QED
    BY <2>1, <2>2, <2>3
<1>7. ASSUME NEW name \in Seen(captured) PROVE Proved(name)'
  <2> DEFINE runs == Runs(ledger, story, captured, name)
  <2>1. runs = {k \in mine : ledger[k].scenario = name}
    BY <1>3 DEF Runs
  <2>2. RedToGreen(ledger, runs)
    BY <1>3
  <2> HIDE DEF runs
  <2>3. PICK i \in runs, j \in runs :
          /\ \A k \in runs : i <= k /\ k <= j
          /\ ledger[i].phase = "red" /\ ledger[j].phase = "green"
    BY <2>2 DEF RedToGreen
  <2>4. i \in mine /\ j \in mine /\ i \in Nat /\ j \in Nat /\ i <= j /\ i # j
    BY <1>0, <1>1, <2>1, <2>3
  <2> HIDE DEF mine
  <2>5. i < j /\ Proof(i, name, "red")' /\ Proof(j, name, "green")'
    BY <1>6, <2>1, <2>3, <2>4 DEF Proof
  <2>6. \A k \in mine : ledger'[k].scenario = name => k \in i..j
    BY <1>0, <1>1, <2>1, <2>3, <2>4
  <2> QED
    BY <1>2, <2>4, <2>5, <2>6 DEF Proved
<1>8. \A k \in 1..Len(captured.scenarios) : captured.scenarios[k] \in Seen(captured)
  BY <1>1, <1>5 DEF ToSet, Feature
<1> HIDE DEF mine
<1>9. \A k \in Evidence' : Proof(k, ledger[k].scenario, ledger[k].phase)'
  BY <1>2, <1>6 DEF Proof
<1> QED
  BY <1>2, <1>4, <1>5, <1>6, <1>7, <1>8, <1>9 DEF Bar

\* The bar is about the lines read: what is appended later does not matter.
LEMMA BarStands ==
  ASSUME TypeOK, NEW line \in Reports, ledger' = Append(ledger, line),
         UNCHANGED <<story, captured, upto>>
  PROVE  /\ \A k \in 1..upto : ledger'[k] = ledger[k]
         /\ Bar => Bar'
<1>1. \A k \in 1..Len(ledger) : ledger'[k] = ledger[k]
  BY AppendProperties DEF TypeOK
<1>2. Len(ledger) \in Nat /\ upto \in 0..Len(ledger)
  BY LineType
<1>3. \A k \in 1..upto : ledger'[k] = ledger[k]
  BY <1>1, <1>2
<1>4. Evidence' = Evidence
  BY <1>3 DEF Evidence
<1>5. ASSUME NEW k \in Evidence, NEW name, NEW phase
      PROVE  Proof(k, name, phase)' <=> Proof(k, name, phase)
  BY <1>3 DEF Evidence, Proof
<1>6. \A name : Proved(name) => Proved(name)'
  BY <1>3, <1>4, <1>5 DEF Proved, Evidence
<1> QED
  BY <1>3, <1>4, <1>5, <1>6 DEF Bar

\* Nothing is consented to, captured or read before the first run.
LEMMA InitIInv == Init => IInv
<1> SUFFICES ASSUME Init PROVE IInv
  OBVIOUS
<1>1. ledger \in Seq(Reports) /\ Len(ledger) = 0
  BY DEF Init
<1>2. TypeOK
  <2>1. consents \subseteq [story : Stories, sha : {f.sha : f \in Features}]
    BY DEF Init
  <2>2. ledger \in Seq(Reports) /\ upto \in 0..Len(ledger)
    BY <1>1 DEF Init
  <2>3. /\ feature \in Features /\ captured \in Features /\ story \in Stories
        /\ pc \in {"idle", "feature", "ledger", "write", "done"}
        /\ refuses \in BOOLEAN /\ exit \in {0, 1, 2, Unset}
    BY DEF Init
  <2> QED
    BY <2>1, <2>2, <2>3 DEF TypeOK
<1>3. JudgedInv /\ BackedInv /\ DeclaredInv /\ OneTextOneStory
  BY DEF Init, JudgedInv, BackedInv, DeclaredInv, OneTextOneStory, Judged, Consenting
<1> QED
  BY <1>2, <1>3 DEF IInv

\* The team's edits and records leave every verdict as it was.
LEMMA TeamIInv ==
  ASSUME IInv, (\E f \in Features : Edit(f)) \/ (\E line \in Reports : Report(line))
  PROVE  IInv'
<1>0. TypeOK
  BY DEF IInv
<1>1. CASE \E f \in Features : Edit(f)
  <2>1. feature' \in Features /\ UNCHANGED <<ledger, gateVars>>
    BY <1>1 DEF Edit
  <2>2. TypeOK'
    BY <1>0, <2>1 DEF TypeOK, gateVars
  <2>3. Bar' <=> Bar
    BY <2>1 DEF Bar, Proved, Proof, Evidence, gateVars
  <2>4. JudgedInv'
    BY <2>1, <2>3 DEF IInv, JudgedInv, Judged, Consenting, gateVars
  <2>5. BackedInv'
    BY <2>1 DEF IInv, BackedInv, Backed, gateVars
  <2>6. DeclaredInv' /\ OneTextOneStory'
    BY <2>1 DEF IInv, DeclaredInv, OneTextOneStory, gateVars
  <2> QED
    BY <2>2, <2>4, <2>5, <2>6 DEF IInv
<1>2. CASE \E line \in Reports : Report(line)
  <2>1. PICK line \in Reports : ledger' = Append(ledger, line)
    BY <1>2 DEF Report
  <2>2. UNCHANGED <<feature, gateVars>>
    BY <1>2 DEF Report
  <2>3. (\A k \in 1..upto : ledger'[k] = ledger[k]) /\ (Bar => Bar')
    BY <1>0, <2>1, <2>2, BarStands DEF gateVars
  <2>4. /\ ledger' \in Seq(Reports) /\ Len(ledger') = Len(ledger) + 1
        /\ \A k \in 1..Len(ledger) : ledger'[k] = ledger[k]
    BY <1>0, <2>1, AppendProperties DEF TypeOK
  <2>5. TypeOK'
    BY <1>0, <2>2, <2>4 DEF TypeOK, gateVars
  <2>6. JudgedInv'
    BY <2>2, <2>3 DEF IInv, JudgedInv, Judged, Consenting, gateVars
  <2>7. Len(ledger) \in Nat /\ upto \in 0..Len(ledger)
    BY <1>0, LineType
  <2>8. BackedInv'
    BY <2>2, <2>4, <2>7 DEF IInv, BackedInv, Backed, gateVars
  <2> QED
    BY <2>2, <2>5, <2>6, <2>8 DEF IInv, DeclaredInv, OneTextOneStory, gateVars
<1> QED
  BY <1>1, <1>2

\* A run that ends without consent adds nothing to what was consented to.
LEMMA EndIInv ==
  ASSUME IInv, NEW code \in {1, 2}, End(code), UNCHANGED <<feature, ledger, story>>,
         captured' \in Features, upto' \in 0..Len(ledger), refuses' \in BOOLEAN,
         code = 1 => pc = "write" /\ UNCHANGED <<captured, upto>>
  PROVE  IInv'
<1>1. pc' = "done" /\ exit' = code /\ consents' = consents
  BY DEF End
<1>2. TypeOK'
  BY <1>1 DEF IInv, TypeOK
<1>3. JudgedInv'
  BY <1>1 DEF IInv, JudgedInv, Judged, Consenting
<1>4. BackedInv' /\ DeclaredInv' /\ OneTextOneStory'
  BY <1>1 DEF IInv, BackedInv, Backed, DeclaredInv, OneTextOneStory
<1> QED
  BY <1>2, <1>3, <1>4 DEF IInv

\* A consent is backed by the lines read; a story that passed before passed on
\* this text, and this text passed for this story.
LEMMA ConsentIInv ==
  ASSUME IInv, WriteVerdict, ~refuses
  PROVE  IInv'
<1> DEFINE new == [story |-> story, sha |-> captured.sha]
<1>0. TypeOK /\ pc = "write" /\ Bar /\ Judged /\ captured.scenarios # <<>>
  BY DEF IInv, WriteVerdict, JudgedInv, Judged, Consenting
<1>1. /\ pc' = "done" /\ exit' = 0 /\ consents' = consents \cup {new}
      /\ UNCHANGED <<feature, ledger, story, captured, upto, refuses>>
  BY DEF WriteVerdict, End
<1>2. TypeOK'
  BY <1>0, <1>1 DEF TypeOK
<1>3. JudgedInv'
  <2>1. Bar'
    BY <1>0, <1>1 DEF Bar, Proved, Proof, Evidence
  <2> QED
    BY <1>0, <1>1, <2>1 DEF IInv, JudgedInv, Judged
<1>4. Backed(new, upto) /\ Backed(new, Len(ledger))
  <2>1. 1 \in 1..Len(captured.scenarios)
    BY <1>0, LineType, EmptySeq, LenProperties DEF Feature
  <2>2. Proved(captured.scenarios[1])
    BY <1>0, <2>1 DEF Bar
  <2>3. PICK i \in Evidence : Proof(i, captured.scenarios[1], "red")
    BY <2>2 DEF Proved
  <2>4. i \in 1..upto /\ i \in 1..Len(ledger)
    BY <1>0, LineType DEF Evidence
  <2> QED
    BY <2>3, <2>4 DEF Evidence, Proof, Backed
<1>5. BackedInv'
  BY <1>1, <1>4 DEF IInv, BackedInv, Backed
<1>6. DeclaredInv'
  <2>1. \A f \in Features : f.sha = captured.sha => f = captured
    BY <1>0, FeaturesAssumption DEF TypeOK
  <2>2. ToSet(captured.declared) = {story} /\ new.story = story /\ new.sha = captured.sha
    BY <1>0 DEF Bar
  <2>3. \A f \in Features : f.sha = new.sha => ToSet(f.declared) = {new.story}
    BY <2>1, <2>2
  <2> HIDE DEF new
  <2> QED
    BY <1>1, <2>3 DEF IInv, DeclaredInv
<1>7. ASSUME NEW d \in consents PROVE d.sha = captured.sha <=> d.story = story
  <2>1. d.sha = captured.sha => d.story = story
    <3>1. ToSet(captured.declared) = {story} /\ captured \in Features
      BY <1>0 DEF Bar, TypeOK
    <3>2. d.sha = captured.sha => ToSet(captured.declared) = {d.story}
      BY <3>1 DEF IInv, DeclaredInv
    <3> QED
      BY <3>1, <3>2
  <2>2. ASSUME d.story = story PROVE d.sha = captured.sha
    <3>1. PICK k \in 1..upto :
            ledger[k] # Malformed /\ ledger[k].story = d.story /\ ledger[k].sha = d.sha
      BY <1>0 DEF IInv, BackedInv, Backed
    <3>2. k \in Evidence
      BY <2>2, <3>1 DEF Evidence
    <3> QED
      BY <1>0, <3>1, <3>2 DEF Bar, Proof
  <2> QED
    BY <2>1, <2>2
<1>8. OneTextOneStory'
  BY <1>1, <1>7 DEF IInv, OneTextOneStory
<1> QED
  BY <1>2, <1>3, <1>5, <1>6, <1>8 DEF IInv

\* The ledger is read in full or there is no verdict.
LEMMA ReadLedgerIInv ==
  ASSUME IInv, ReadLedger
  PROVE  IInv'
<1>0. TypeOK /\ Len(ledger) \in Nat /\ captured \in Features
  BY LineType DEF IInv, TypeOK
<1>1. CASE ledger = <<>> \/ Malformed \in ToSet(ledger)
  BY <1>0, <1>1, EndIInv DEF ReadLedger, IInv, TypeOK
<1>2. CASE ~(ledger = <<>> \/ Malformed \in ToSet(ledger))
  <2>1. /\ pc' = "write" /\ upto' = Len(ledger) /\ refuses' = Refuses(captured, ledger, story)
        /\ UNCHANGED <<feature, ledger, story, captured, exit, consents>>
    BY <1>2 DEF ReadLedger
  <2>2. \A k \in 1..Len(ledger) : ledger[k] # Malformed
    BY <1>2 DEF ToSet
  <2>3. Len(ledger) > 0
    BY <1>0, <1>2, EmptySeq, LenProperties DEF TypeOK
  <2>4. Refuses(captured, ledger, story) \in BOOLEAN
    BY DEF Refuses
  <2>5. TypeOK'
    BY <1>0, <2>1, <2>4 DEF TypeOK
  <2>6. pc = "ledger" /\ captured.scenarios # <<>>
    BY DEF IInv, JudgedInv, ReadLedger
  <2>7. ~refuses' => Bar'
    BY <1>0, <2>1, <2>2, NotRefusedIsBar
  <2>8. JudgedInv'
    BY <2>1, <2>2, <2>3, <2>6, <2>7 DEF JudgedInv, Judged, Consenting
  <2>9. BackedInv' /\ DeclaredInv' /\ OneTextOneStory'
    BY <2>1 DEF IInv, BackedInv, Backed, DeclaredInv, OneTextOneStory
  <2> QED
    BY <2>5, <2>8, <2>9 DEF IInv
<1> QED
  BY <1>1, <1>2

\* The other steps of a run bring no verdict nearer to consent.
LEMMA RunIInv ==
  ASSUME IInv, (\E s \in Stories : Invoke(s)) \/ ReadFeature \/ (WriteVerdict /\ refuses) \/ Fault
  PROVE  IInv'
<1>0. TypeOK /\ Len(ledger) \in Nat
  BY LineType DEF IInv
<1>1. CASE \E s \in Stories : Invoke(s)
  <2>1. /\ pc' = "feature" /\ story' \in Stories /\ captured' = feature
        /\ upto' = 0 /\ refuses' = FALSE /\ exit' = 99
        /\ UNCHANGED <<feature, ledger, consents>>
    BY <1>1 DEF Invoke
  <2>2. TypeOK'
    <3>1. upto' \in 0..Len(ledger') /\ captured' \in Features
      BY <1>0, <2>1 DEF TypeOK
    <3> QED
      BY <1>0, <2>1, <3>1 DEF TypeOK
  <2>3. JudgedInv' /\ BackedInv'
    BY <2>1 DEF IInv, JudgedInv, Judged, Consenting, BackedInv, Backed
  <2>4. DeclaredInv' /\ OneTextOneStory'
    BY <2>1 DEF IInv, DeclaredInv, OneTextOneStory
  <2> QED
    BY <2>2, <2>3, <2>4 DEF IInv
<1>2. CASE ReadFeature
  <2>1. CASE feature.scenarios = <<>>
    BY <1>0, <1>2, <2>1, EndIInv DEF ReadFeature, TypeOK
  <2>2. CASE feature.scenarios # <<>>
    <3>1. /\ pc' = "ledger" /\ captured' = feature
          /\ UNCHANGED <<feature, ledger, story, upto, refuses, exit, consents>>
      BY <1>2, <2>2 DEF ReadFeature
    <3>2. TypeOK'
      BY <1>0, <3>1 DEF TypeOK
    <3>3. JudgedInv' /\ BackedInv' /\ DeclaredInv' /\ OneTextOneStory'
      BY <2>2, <3>1 DEF IInv, JudgedInv, Judged, Consenting, BackedInv, Backed, DeclaredInv,
        OneTextOneStory
    <3> QED
      BY <3>2, <3>3 DEF IInv
  <2> QED
    BY <2>1, <2>2
<1>3. CASE WriteVerdict /\ refuses
  BY <1>0, <1>3, EndIInv DEF WriteVerdict, TypeOK
<1>4. CASE Fault
  BY <1>0, <1>4, EndIInv DEF Fault, TypeOK
<1> QED
  BY <1>1, <1>2, <1>3, <1>4

\* Every step of the team and of the gate keeps the invariant.
LEMMA NextIInv == IInv /\ [Next]_vars => IInv'
<1> SUFFICES ASSUME IInv, [Next]_vars PROVE IInv'
  OBVIOUS
<1>1. CASE Next
  <2>1. refuses \in BOOLEAN
    BY DEF IInv, TypeOK
  <2> QED
    BY <1>1, <2>1, TeamIInv, ReadLedgerIInv, ConsentIInv, RunIInv DEF Next
<1>2. CASE UNCHANGED vars
  <2>1. TypeOK'
    BY <1>2 DEF IInv, TypeOK, vars
  <2>2. Bar' <=> Bar
    BY <1>2 DEF Bar, Proved, Proof, Evidence, vars
  <2>3. JudgedInv'
    BY <1>2, <2>2 DEF IInv, JudgedInv, Judged, Consenting, vars
  <2>4. BackedInv' /\ DeclaredInv' /\ OneTextOneStory'
    BY <1>2 DEF IInv, BackedInv, Backed, DeclaredInv, OneTextOneStory, vars
  <2> QED
    BY <2>1, <2>3, <2>4 DEF IInv
<1> QED
  BY <1>1, <1>2

\* Every reachable state satisfies the inductive invariant.
THEOREM Invariance == Spec => []IInv
  BY InitIInv, NextIInv, PTL DEF Spec

\* Texts, ledger and gate stay well typed.
THEOREM TypeCorrect == Spec => []TypeOK
<1>1. IInv => TypeOK
  BY DEF IInv
<1> QED
  BY Invariance, <1>1, PTL

\* For every sequence of texts and every ledger: a consent is the acceptance bar
\* of the text captured.
THEOREM ConsentMeetsBar == Spec => []ConsentIsTheBar
<1>1. IInv => ConsentIsTheBar
  BY DEF IInv, JudgedInv, Consenting, Bar, ConsentIsTheBar
<1> QED
  BY Invariance, <1>1, PTL

\* For every number of runs on a growing ledger: one text for a story, one story
\* for a text.
THEOREM NoLaundering == Spec => []OneTextOneStory
<1>1. IInv => OneTextOneStory
  BY DEF IInv
<1> QED
  BY Invariance, <1>1, PTL

\* For every ledger: neither verdict is given over input not read in full.
THEOREM NoVerdictFromErrors == Spec => []ErrorsAreNoVerdict
<1>1. IInv => ErrorsAreNoVerdict
  BY DEF IInv, JudgedInv, Judged, ErrorsAreNoVerdict
<1> QED
  BY Invariance, <1>1, PTL

=============================================================================
