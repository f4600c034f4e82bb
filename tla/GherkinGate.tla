------------------------------ MODULE GherkinGate ------------------------------
(***************************************************************************)
(* skills/gherkin-gate/scripts/gherkin-gate.py: join a story's feature     *)
(* file with the ledger of its acceptance runs.  One run of the gate after *)
(* the other, for any story, while a team edits the feature and appends    *)
(* records; the gate reads the feature first and the ledger later.         *)
(* `consents` remembers what the gate consented to; it is not in the       *)
(* program.  Names and stories are what `key` makes of them.               *)
(***************************************************************************)
EXTENDS Naturals, Sequences, SequencesExt

CONSTANTS Stories, Names,
          NoName,       \* a scenario head, or a record, with an empty name
          Features,     \* the texts the feature file goes through
          Reports,      \* the lines a team may append to the ledger
          Malformed,    \* a ledger line that is no record and no comment
          MaxLines      \* bound on the ledger

VARIABLES feature,    \* the feature file
          ledger,     \* the ledger's lines, comments left out
          pc,         \* idle, feature, ledger, write, done
          story,      \* STORY-ID of the run
          captured,   \* the text read_feature returned
          upto,       \* length of the ledger read_ledger saw
          refuses,    \* `refusals` is not empty
          exit,
          consents

vars == <<feature, ledger, pc, story, captured, upto, refuses, exit, consents>>
gateVars == <<pc, story, captured, upto, refuses, exit, consents>>

Unset == 99

\* `odd`: a foreign dialect is declared, or a head has a prefix to normalise.
Feature == [sha : Nat, scenarios : Seq(Names \cup {NoName}), declared : Seq(Stories),
            odd : BOOLEAN]
Record == [phase : {"red", "green"}, zero : BOOLEAN, story : Stories, sha : Nat,
           scenario : Names \cup {NoName}]

\* The digest is over the raw bytes: texts with one digest are one text.
ASSUME FeaturesAssumption ==
  /\ Features \subseteq Feature
  /\ \A f, g \in Features : f.sha = g.sha => f = g
ASSUME ReportsAssumption == Reports \subseteq Record \cup {Malformed} /\ Malformed \notin Record
ASSUME NoNameAssumption == NoName \notin Names

Init ==
  /\ feature \in Features /\ captured = feature
  /\ ledger = <<>>
  /\ story \in Stories
  /\ pc = "idle" /\ upto = 0 /\ refuses = FALSE /\ exit = Unset
  /\ consents = {}

-----------------------------------------------------------------------------
(* The team. *)

Edit(f) == feature' = f /\ UNCHANGED <<ledger, gateVars>>

Report(line) ==
  /\ Len(ledger) < MaxLines
  /\ ledger' = Append(ledger, line)
  /\ UNCHANGED <<feature, gateVars>>

(* The verdict.  Records are named by their line numbers. *)

Seen(f) == ToSet(f.scenarios) \ {NoName}

\* Records of other stories are filtered out, never judged.
Mine(lines, s) == {k \in 1..Len(lines) : lines[k].story = s}

\* Mutant of Faulty: the digest of a record is not compared.
FaultyAnyText(r, f) == r.scenario \notin Seen(f) \/ (r.phase = "red") = r.zero

\* An orphan, stale evidence, or a record that contradicts its own phase.
Faulty(r, f) ==
  \/ r.scenario \notin Seen(f)
  \/ r.sha # f.sha
  \/ (r.phase = "red") = r.zero

\* Mutant of Bound: any header will do.
BoundAnyhow(f, s) == f.declared # <<>>

\* The feature declares one story, the one the gate is asked about.
Bound(f, s) == ToSet(f.declared) = {s}

Bindable(f) == NoName \notin ToSet(f.scenarios) /\ IsInjective(f.scenarios)

\* The runs that count for a scenario, in ledger order.
Runs(lines, s, f, name) ==
  {k \in Mine(lines, s) : lines[k].scenario = name /\ ~Faulty(lines[k], f)}

RedToGreen(lines, runs) ==
  \E first, last \in runs :
    /\ \A k \in runs : first <= k /\ k <= last
    /\ lines[first].phase = "red" /\ lines[last].phase = "green"

Refuses(f, lines, s) ==
  \/ f.odd \/ ~Bound(f, s) \/ ~Bindable(f)
  \/ Mine(lines, s) = {}
  \/ \E k \in Mine(lines, s) : Faulty(lines[k], f)
  \/ \E name \in Seen(f) : ~RedToGreen(lines, Runs(lines, s, f, name))

(* The gate. *)

Invoke(s) ==
  /\ pc \in {"idle", "done"}
  /\ pc' = "feature" /\ story' = s
  /\ captured' = feature /\ upto' = 0 /\ refuses' = FALSE /\ exit' = Unset
  /\ UNCHANGED <<feature, ledger, consents>>

End(code) ==
  /\ pc' = "done" /\ exit' = code
  /\ consents' = IF code = 0 THEN consents \cup {[story |-> story, sha |-> captured.sha]}
                             ELSE consents

\* One read gives the digest, the heads and the headers.
ReadFeature ==
  /\ pc = "feature"
  /\ captured' = feature
  /\ IF feature.scenarios = <<>>
     THEN End(2)
     ELSE pc' = "ledger" /\ UNCHANGED <<exit, consents>>
  /\ UNCHANGED <<feature, ledger, story, upto, refuses>>

\* A line that is not a record, or an empty ledger, is no verdict.
ReadLedger ==
  /\ pc = "ledger"
  /\ upto' = Len(ledger)
  /\ IF ledger = <<>> \/ Malformed \in ToSet(ledger)
     THEN End(2) /\ UNCHANGED refuses
     ELSE /\ refuses' = Refuses(captured, ledger, story)
          /\ pc' = "write" /\ UNCHANGED <<exit, consents>>
  /\ UNCHANGED <<feature, ledger, story, captured>>

\* Every line is written under one guard with the flush.
WriteVerdict ==
  /\ pc = "write"
  /\ End(IF refuses THEN 1 ELSE 0)
  /\ UNCHANGED <<feature, ledger, story, captured, upto, refuses>>

\* Mutant of Fault: the streams are not sealed and CPython has the last word.
FaultUnsealed ==
  /\ pc \notin {"idle", "done"}
  /\ End(120)
  /\ UNCHANGED <<feature, ledger, story, captured, upto, refuses>>

\* A usage error, an unreadable or undecodable file, a dead stdout, any
\* exception.
Fault ==
  /\ pc \notin {"idle", "done"}
  /\ End(2)
  /\ UNCHANGED <<feature, ledger, story, captured, upto, refuses>>

Next ==
  \/ \E f \in Features : Edit(f)
  \/ \E line \in Reports : Report(line)
  \/ \E s \in Stories : Invoke(s)
  \/ ReadFeature \/ ReadLedger \/ WriteVerdict \/ Fault

Spec == Init /\ [][Next]_vars

-----------------------------------------------------------------------------
TypeOK ==
  /\ feature \in Features /\ captured \in Features
  /\ ledger \in Seq(Reports)
  /\ pc \in {"idle", "feature", "ledger", "write", "done"}
  /\ story \in Stories /\ upto \in 0..Len(ledger)
  /\ refuses \in BOOLEAN /\ exit \in {0, 1, 2, Unset}
  /\ consents \subseteq [story : Stories, sha : {f.sha : f \in Features}]

\* The lines the gate read that name its story, by line number.
Evidence == {k \in 1..upto : ledger[k] # Malformed /\ ledger[k].story = story}

Proof(k, name, phase) ==
  /\ ledger[k].scenario = name /\ ledger[k].phase = phase
  /\ ledger[k].sha = captured.sha
  /\ ledger[k].zero <=> phase = "green"

\* Between a failing run and a later passing one of this very text lie all of
\* the scenario's runs ("first run red, last run green, per scenario").
Proved(name) ==
  \E i, j \in Evidence :
    /\ i < j /\ Proof(i, name, "red") /\ Proof(j, name, "green")
    /\ \A k \in Evidence : ledger[k].scenario = name => k \in i..j

\* Consent is the acceptance bar, however the two files moved while the gate
\* read one and then the other: every scenario of the captured text was red
\* first and is green last on that text, and nothing recorded for the story is
\* about another text, another scenario, or contradicts itself.
ConsentIsTheBar ==
  pc = "done" /\ exit = 0 =>
    /\ captured.declared # <<>> /\ ToSet(captured.declared) = {story}
    /\ \A k \in 1..Len(captured.scenarios) : Proved(captured.scenarios[k])
    /\ \A k \in Evidence :
         \E name \in ToSet(captured.scenarios), phase \in {"red", "green"} : Proof(k, name, phase)

\* Over all runs of the gate on one growing ledger, a story passes on one text
\* only and a text passes for one story only: evidence is never laundered into
\* the pass of another text or another story.
OneTextOneStory == \A c, d \in consents : c.sha = d.sha <=> c.story = d.story

\* Neither verdict is given over a ledger or a feature that could not be read
\* in full.
ErrorsAreNoVerdict ==
  pc = "done" /\ exit \in {0, 1} =>
    /\ captured.scenarios # <<>>
    /\ upto > 0 /\ \A k \in 1..upto : ledger[k] # Malformed

\* "An evidence refusal (no red, still red, stale sha) has exactly three honest
\* repairs: run the missing phase, re-run against the current feature bytes, or
\* fix the code": when the story's records contradict nothing, and every scenario
\* of a well-formed feature has run red and, to the end, green on the captured
\* text, a run of the gate does not refuse.
Rerun(name) ==
  \E i, j \in Evidence :
    /\ i < j /\ Proof(i, name, "red") /\ Proof(j, name, "green")
    /\ \A k \in Evidence : ledger[k].scenario = name => k <= j

RerunRepairs ==
  pc = "done" /\ exit = 1 =>
    ~ /\ ~captured.odd /\ ToSet(captured.declared) = {story} /\ Bindable(captured)
      /\ \A k \in Evidence : ledger[k].scenario \in Seen(captured)
                             /\ (ledger[k].zero <=> ledger[k].phase = "green")
      /\ \A name \in Seen(captured) : Rerun(name)

=============================================================================
