-------------------------- MODULE ReleaseDigest_proofs --------------------------
(***************************************************************************)
(* What verify-release.py guarantees for any number of overlapping runs,   *)
(* commits, resets, failures and kills.                                    *)
(***************************************************************************)
EXTENDS ReleaseDigest, SequenceTheorems, TLAPS

USE RunsAssumption, DigestAssumption

\* Steps taken once the object store of the captured commit was found whole.
Checked == {"published", "parse", "manifest", "compare", "mkstemp", "write", "replace", "report"}
WriterSteps == {"mkstemp", "write", "replace", "report"}
Verdicts == {0, 1, 3}

\* Where a run stands says what it knows, all of it about the captured commit.
RunOK(r) ==
  /\ pc[r] \in {"fsck"} \cup Checked \/ exit[r] \in Verdicts => seen[r] \in 1..Len(commits)
  /\ pc[r] \in Checked \/ exit[r] \in Verdicts => commits[seen[r]].intact
  /\ pc[r] \in {"published", "parse", "compare"} => r \in Verifiers
  /\ pc[r] \in WriterSteps => r \in Writers
  /\ pc[r] \in {"parse", "manifest", "compare"} /\ r \in Verifiers =>
       text[r] = commits[seen[r]].digest /\ text[r] # Absent
  /\ pc[r] \in {"manifest", "compare"} /\ r \in Verifiers => text[r] # Malformed
  /\ pc[r] \in {"compare"} \cup WriterSteps => manifest[r] = commits[seen[r]].content
  /\ pc[r] = "replace" => temp[r] = "complete"
  /\ exit[r] # Unset => pc[r] = "done"

Idle(w) == pc[w] \in {"identity", "fsck"}

\* A writer that replaced the file, alone so far, still finds its own digest.
Stands(r) ==
  r \in Writers /\ (pc[r] = "report" \/ exit[r] = 0) =>
    /\ manifest[r] = commits[seen[r]].content
    /\ (\A w \in Writers \ {r} : Idle(w)) => worktree = manifest[r]

Verdict(r) ==
  r \in Verifiers =>
    /\ exit[r] = 0 => commits[seen[r]].digest = commits[seen[r]].content
    /\ exit[r] = 1 => /\ commits[seen[r]].digest # commits[seen[r]].content
                      /\ commits[seen[r]].digest \notin {Absent, Malformed}
    /\ exit[r] = 3 => commits[seen[r]].digest = Absent

IInv == TypeOK /\ \A r \in Runs : RunOK(r) /\ Stands(r) /\ Verdict(r)

\* An appended commit disturbs no commit a run has captured.
LEMMA Appended ==
  ASSUME NEW m \in Manifests, NEW d \in Manifests \cup {Absent, Malformed},
         NEW whole \in BOOLEAN, TypeOK, Commit(m, d, whole)
  PROVE  /\ commits' \in Seq(Commits) /\ Len(commits') = Len(commits) + 1
         /\ \A c \in 1..Len(commits) : commits'[c] = commits[c]
         /\ commits'[Len(commits) + 1].content = m
         /\ head' = Len(commits')
<1>1. [content |-> m, digest |-> d, intact |-> whole] \in Commits
  BY DEF Commits
<1>2. commits \in Seq(Commits) /\ head \in Nat
  BY DEF TypeOK
<1> QED
  BY <1>1, <1>2, AppendProperties DEF Commit

\* The first commit, no run started: nothing is captured or written yet.
LEMMA InitIInv == Init => IInv
<1> SUFFICES ASSUME Init PROVE IInv
  OBVIOUS
<1>1. PICK m \in Manifests : commits = <<[content |-> m, digest |-> Absent, intact |-> TRUE]>>
  BY DEF Init
<1>2. commits \in Seq(Commits) /\ Len(commits) = 1
  BY <1>1 DEF Commits
<1>3. TypeOK
  BY <1>2 DEF Init, TypeOK, None, Unset
<1>4. ASSUME NEW r \in Runs PROVE RunOK(r) /\ Stands(r) /\ Verdict(r)
  BY DEF Init, RunOK, Stands, Verdict, Checked, WriterSteps, Verdicts, Unset
<1> QED
  BY <1>3, <1>4 DEF IInv

\* A step of one run changes what that run knows and, when it replaces the
\* file, the worktree.
Moves(r) ==
  /\ commits' = commits /\ head' = head
  /\ \A q \in Runs \ {r} : /\ pc'[q] = pc[q] /\ seen'[q] = seen[q] /\ text'[q] = text[q]
                           /\ manifest'[q] = manifest[q] /\ temp'[q] = temp[q]
                           /\ exit'[q] = exit[q]

Step(r) == Advance(r) \/ Fail(r) \/ Kill(r)

\* Whatever one run does, its variables stay well typed.
LEMMA StepType ==
  ASSUME IInv, NEW r \in Runs, Step(r)
  PROVE  TypeOK' /\ Moves(r)
<1> USE DEF IInv, TypeOK, Runs, Moves
<1>0. RunOK(r) /\ (seen[r] \in 1..Len(commits) => commits[seen[r]] \in Commits)
  BY DEF IInv, TypeOK
<1>a. CASE CapturedIdentity(r)
  BY <1>a DEF CapturedIdentity, Goto
<1>b. CASE VerifyObjectStore(r)
  BY <1>b DEF VerifyObjectStore
<1>c. CASE PublishedDigest(r)
  <2>1. commits[seen[r]].digest \in Manifests \cup {Absent, Malformed}
    BY <1>0, <1>c DEF PublishedDigest, RunOK, Checked, Commits
  <2>2. CASE commits[seen[r]].digest = Absent
    BY <2>1, <2>2, <1>c DEF PublishedDigest
  <2>3. CASE commits[seen[r]].digest # Absent
    BY <2>1, <2>3, <1>c DEF PublishedDigest
  <2> QED
    BY <2>2, <2>3
<1>d. CASE ParseDigest(r)
  BY <1>d DEF ParseDigest, Goto
<1>e. CASE ManifestSha(r)
  BY <1>0, <1>e DEF ManifestSha, RunOK, Checked, Commits
<1>f. CASE Compare(r)
  BY <1>f DEF Compare, Goto
<1>g. CASE MakeTemp(r)
  BY <1>g DEF MakeTemp, Goto
<1>h. CASE WriteTemp(r)
  BY <1>h DEF WriteTemp, Goto
<1>i. CASE Replace(r)
  BY <1>0, <1>i DEF Replace, Goto, RunOK
<1>j. CASE IdentityReport(r)
  BY <1>j DEF IdentityReport, Goto
<1>k. CASE Fail(r)
  BY <1>k DEF Fail
<1>l. CASE Kill(r)
  BY <1>l DEF Kill
<1> QED
  BY <1>a, <1>b, <1>c, <1>d, <1>e, <1>f, <1>g, <1>h, <1>i, <1>j, <1>k, <1>l DEF Step, Advance

\* The run that moves keeps what it knows true, and its verdict.
LEMMA StepRun ==
  ASSUME IInv, NEW r \in Runs, Step(r)
  PROVE  RunOK(r)' /\ Verdict(r)'
<1> USE DEF RunOK, Verdict, Checked, WriterSteps, Verdicts, Unset
<1>0. TypeOK /\ RunOK(r) /\ Verdict(r)
  BY DEF IInv
<1> USE <1>0 DEF TypeOK, Runs
<1>a. CASE CapturedIdentity(r)
  BY <1>a DEF CapturedIdentity, Goto
<1>b. CASE VerifyObjectStore(r)
  BY <1>b DEF VerifyObjectStore
<1>c. CASE PublishedDigest(r)
  BY <1>c DEF PublishedDigest
<1>d. CASE ParseDigest(r)
  BY <1>d DEF ParseDigest, Goto
<1>e. CASE ManifestSha(r)
  BY <1>e DEF ManifestSha
<1>f. CASE Compare(r)
  BY <1>f DEF Compare, Goto
<1>g. CASE MakeTemp(r)
  BY <1>g DEF MakeTemp, Goto
<1>h. CASE WriteTemp(r)
  BY <1>h DEF WriteTemp, Goto
<1>i. CASE Replace(r)
  BY <1>i DEF Replace, Goto
<1>j. CASE IdentityReport(r)
  BY <1>j DEF IdentityReport, Goto
<1>k. CASE Fail(r)
  BY <1>k DEF Fail
<1>l. CASE Kill(r)
  BY <1>l DEF Kill
<1> QED
  BY <1>a, <1>b, <1>c, <1>d, <1>e, <1>f, <1>g, <1>h, <1>i, <1>j, <1>k, <1>l DEF Step, Advance

\* A writer whose file stands, stands still when another run moves: the file is
\* only replaced by a writer that is past its check of the object store.
LEMMA StepStands ==
  ASSUME IInv, NEW r \in Runs, Step(r)
  PROVE  \A q \in Runs : Stands(q)'
<1>0. TypeOK /\ RunOK(r) /\ TypeOK' /\ Moves(r) /\ RunOK(r)'
  BY StepType, StepRun DEF IInv
<1> SUFFICES ASSUME NEW q \in Writers, pc'[q] = "report" \/ exit'[q] = 0
             PROVE  /\ manifest'[q] = commits'[seen'[q]].content
                    /\ (\A w \in Writers \ {q} : Idle(w)') => worktree' = manifest'[q]
  BY Zenon DEF Stands
<1>1. q \in Runs /\ Stands(q) /\ RunOK(q)
  BY DEF Runs, IInv
<1>2. CASE Replace(r)
  <2>1. r \in Writers /\ pc'[r] = "report" /\ worktree' = manifest[r]
        /\ manifest' = manifest /\ seen' = seen /\ exit' = exit
    BY <1>0, <1>2 DEF Replace, Goto, RunOK, WriterSteps, TypeOK
  <2>2. CASE q = r
    BY <1>0, <1>2, <2>1, <2>2 DEF Moves, RunOK, WriterSteps, TypeOK, Replace, Goto
  <2>3. CASE q # r
    BY <1>0, <1>1, <2>1, <2>3 DEF Moves, Stands, Idle
  <2> QED
    BY <2>2, <2>3
<1>3. CASE ~Replace(r)
  <2>1. worktree' = worktree
    BY <1>3 DEF Step, Advance, CapturedIdentity, VerifyObjectStore, PublishedDigest,
      ParseDigest, ManifestSha, Compare, MakeTemp, WriteTemp, IdentityReport, Fail, Kill
  <2>2. CASE q # r
    <3>1. Idle(r)' => Idle(r)
      BY <1>0, <1>3 DEF Step, Advance, CapturedIdentity, VerifyObjectStore, PublishedDigest,
        ParseDigest, ManifestSha, Compare, MakeTemp, WriteTemp, IdentityReport, Fail, Kill,
        Goto, Idle, TypeOK
    <3>2. /\ commits' = commits /\ pc'[q] = pc[q] /\ exit'[q] = exit[q]
          /\ manifest'[q] = manifest[q] /\ seen'[q] = seen[q]
      BY <1>0, <1>1, <2>2 DEF Moves
    <3>3. \A w \in Writers \ {q} : Idle(w)' => Idle(w)
      BY <1>0, <3>1 DEF Moves, Idle, Runs
    <3> QED
      BY <1>1, <2>1, <3>2, <3>3 DEF Stands
  <2>3. CASE q = r
    <3>1. IdentityReport(r) /\ pc[r] = "report"
      BY <1>0, <1>1, <1>3, <2>3 DEF Step, Advance, CapturedIdentity, VerifyObjectStore,
        PublishedDigest, ParseDigest, ManifestSha, Compare, MakeTemp, WriteTemp, IdentityReport,
        Fail, Kill, Goto, TypeOK, RunOK, Runs, Unset
    <3> QED
      BY <1>0, <1>1, <2>3, <3>1 DEF IdentityReport, Goto, Moves, Stands, Idle
  <2> QED
    BY <2>2, <2>3
<1> QED
  BY <1>2, <1>3

\* A commit, a reset and a step of any run keep the invariant.
LEMMA NextIInv == IInv /\ [Next]_vars => IInv'
<1> SUFFICES ASSUME IInv, [Next]_vars PROVE IInv'
  OBVIOUS
<1>0. TypeOK
  BY DEF IInv
<1>1. ASSUME NEW m \in Manifests, NEW d \in Manifests \cup {Absent, Malformed},
             NEW whole \in BOOLEAN, Commit(m, d, whole)
      PROVE  IInv'
  <2>1. /\ commits' \in Seq(Commits) /\ Len(commits') = Len(commits) + 1
        /\ \A c \in 1..Len(commits) : commits'[c] = commits[c]
        /\ head' = Len(commits')
    BY <1>0, <1>1, Appended
  <2>2. UNCHANGED <<worktree, pc, seen, text, manifest, temp, exit>>
    BY <1>1 DEF Commit
  <2>3. TypeOK'
    BY <1>0, <2>1, <2>2 DEF TypeOK
  <2>4. ASSUME NEW r \in Runs PROVE RunOK(r)' /\ Stands(r)' /\ Verdict(r)'
    <3>1. RunOK(r) /\ Stands(r) /\ Verdict(r)
      BY DEF IInv
    <3>2. seen[r] \in 1..Len(commits) => commits'[seen[r]] = commits[seen[r]]
      BY <2>1
    <3>3. RunOK(r)'
      BY <1>0, <2>1, <2>2, <3>1, <3>2 DEF RunOK, Checked, WriterSteps, TypeOK
    <3>4. Verdict(r)'
      BY <2>2, <3>1, <3>2 DEF Verdict, RunOK, Verdicts
    <3>5. Stands(r)'
      BY <2>2, <3>1, <3>2 DEF Stands, RunOK, Verdicts, Checked, Idle
    <3> QED
      BY <3>3, <3>4, <3>5
  <2> QED
    BY <2>3, <2>4 DEF IInv
<1>2. ASSUME NEW c \in 1..MaxCommits, Reset(c)
      PROVE  IInv'
  <2>1. c \in 1..Len(commits) /\ head' = c
        /\ UNCHANGED <<commits, worktree, pc, seen, text, manifest, temp, exit>>
    BY <1>2 DEF Reset
  <2>2. TypeOK'
    BY <1>0, <2>1 DEF TypeOK
  <2>3. ASSUME NEW r \in Runs PROVE RunOK(r)' /\ Stands(r)' /\ Verdict(r)'
    BY <2>1 DEF IInv, RunOK, Stands, Verdict, Idle
  <2> QED
    BY <2>2, <2>3 DEF IInv
<1>3. ASSUME NEW r \in Runs, Step(r)
      PROVE  IInv'
  <2>1. TypeOK' /\ Moves(r) /\ RunOK(r)' /\ Verdict(r)' /\ \A q \in Runs : Stands(q)'
    BY <1>3, StepType, StepRun, StepStands
  <2>2. ASSUME NEW q \in Runs \ {r} PROVE RunOK(q)' /\ Verdict(q)'
    BY <2>1, <2>2 DEF IInv, RunOK, Verdict, Moves
  <2> QED
    BY <2>1, <2>2 DEF IInv
<1>4. ASSUME UNCHANGED vars PROVE IInv'
  <2>1. TypeOK'
    BY <1>0, <1>4 DEF TypeOK, vars
  <2>2. ASSUME NEW r \in Runs PROVE RunOK(r)' /\ Stands(r)' /\ Verdict(r)'
    BY <1>4 DEF IInv, RunOK, Stands, Verdict, Idle, vars
  <2> QED
    BY <2>1, <2>2 DEF IInv
<1> QED
  BY <1>1, <1>2, <1>3, <1>4, Zenon DEF Next, Step

\* Every reachable state satisfies the inductive invariant.
THEOREM Invariance == Spec => []IInv
  BY InitIInv, NextIInv, PTL DEF Spec

\* The repository and the runs stay well typed.
THEOREM TypeCorrect == Spec => []TypeOK
<1>1. IInv => TypeOK
  BY DEF IInv
<1> QED
  BY Invariance, <1>1, PTL

\* For any number of runs: a verdict is about the one commit HEAD named when the
\* run began.
THEOREM OneCommit == Spec => []VerdictIsAboutOneCommit
<1>1. IInv => VerdictIsAboutOneCommit
  BY DEF IInv, Verdict, VerdictIsAboutOneCommit, Runs
<1> QED
  BY Invariance, <1>1, PTL

\* For any number of runs: no verdict is read out of a damaged object store.
THEOREM Undamaged == Spec => []NoVerdictFromDamage
<1>1. IInv => NoVerdictFromDamage
  BY DEF IInv, RunOK, Verdicts, NoVerdictFromDamage
<1> QED
  BY Invariance, <1>1, PTL

\* For any number of overlapping writers: what a writer reports as written is
\* the digest of the commit it captured, and stands until another intervenes.
THEOREM Wrote == Spec => []WroteWhatItCaptured
<1>1. IInv => WroteWhatItCaptured
  BY DEF IInv, Stands, Idle, WroteWhatItCaptured, Runs
<1> QED
  BY Invariance, <1>1, PTL

\* The file starts as the register does.
LEMMA InitRegister == Init => Register!Init
<1> SUFFICES ASSUME Init PROVE Register!Init
  OBVIOUS
<1>1. PICK m \in Manifests : commits = <<[content |-> m, digest |-> Absent, intact |-> TRUE]>>
  BY DEF Init
<1>2. {commits[c].content : c \in 1..Len(commits)} \subseteq Manifests
  BY <1>1
<1> QED
  BY <1>2 DEF Init, Register!Init

\* A commit adds to what may be written, a rename writes it, and nothing else
\* touches the file.
LEMMA NextRegister ==
  IInv /\ [Next]_vars => [Register!Next]_<<{commits[c].content : c \in 1..Len(commits)}, worktree>>
<1> DEFINE Committed == {commits[c].content : c \in 1..Len(commits)}
<1> SUFFICES ASSUME IInv, [Next]_vars
             PROVE  [Register!Next]_<<Committed, worktree>>
  OBVIOUS
<1>0. TypeOK
  BY DEF IInv
<1>1. ASSUME NEW m \in Manifests, NEW d \in Manifests \cup {Absent, Malformed},
             NEW whole \in BOOLEAN, Commit(m, d, whole)
      PROVE  Register!Commit(m)
  <2>0. Len(commits) \in Nat
    BY <1>0 DEF TypeOK
  <2>1. /\ Len(commits') = Len(commits) + 1
        /\ \A c \in 1..Len(commits) : commits'[c] = commits[c]
        /\ commits'[Len(commits) + 1].content = m
    BY <1>0, <1>1, Appended
  <2>2. 1..Len(commits') = 1..Len(commits) \cup {Len(commits) + 1}
    BY <2>0, <2>1
  <2>3. Committed' = {commits'[c].content : c \in 1..Len(commits) \cup {Len(commits) + 1}}
    BY <2>2
  <2>4. Committed \cup {m} \subseteq Committed'
    BY <2>0, <2>1, <2>3
  <2>5. Committed' \subseteq Committed \cup {m}
    <3> SUFFICES ASSUME NEW c \in 1..Len(commits) \cup {Len(commits) + 1}
                 PROVE  commits'[c].content \in Committed \cup {m}
      BY <2>3
    <3>1. CASE c \in 1..Len(commits)
      BY <2>1, <3>1
    <3>2. CASE c = Len(commits) + 1
      BY <2>0, <2>1, <3>2
    <3> QED
      BY <3>1, <3>2
  <2>6. Committed' = Committed \cup {m}
    BY <2>4, <2>5
  <2> QED
    BY <1>1, <2>6 DEF Commit, Register!Commit
<1>2. ASSUME NEW c \in 1..MaxCommits, Reset(c)
      PROVE  UNCHANGED <<Committed, worktree>>
  BY <1>2 DEF Reset
<1>3. ASSUME NEW r \in Runs, Replace(r)
      PROVE  Register!Write(manifest[r]) /\ manifest[r] \in Manifests
  <2>1. /\ worktree' = manifest[r] /\ commits' = commits
        /\ seen[r] \in 1..Len(commits) /\ manifest[r] = commits[seen[r]].content
    BY <1>3 DEF IInv, RunOK, Replace, Goto, Checked, WriterSteps
  <2>2. commits[seen[r]] \in Commits
    BY <1>0, <2>1 DEF TypeOK
  <2> QED
    BY <2>1, <2>2 DEF Commits, Register!Write
<1>4. ASSUME NEW r \in Runs, Step(r), ~Replace(r)
      PROVE  UNCHANGED <<Committed, worktree>>
  BY <1>4 DEF Step, Advance, CapturedIdentity, VerifyObjectStore, PublishedDigest, ParseDigest,
    ManifestSha, Compare, MakeTemp, WriteTemp, IdentityReport, Fail, Kill
<1>5. ASSUME UNCHANGED vars PROVE UNCHANGED <<Committed, worktree>>
  BY <1>5 DEF vars
<1>6. CASE \E m \in Manifests, d \in Manifests \cup {Absent, Malformed}, whole \in BOOLEAN :
             Commit(m, d, whole)
  BY <1>1, <1>6 DEF Register!Next
<1>7. CASE \E r \in Runs : Step(r)
  BY <1>3, <1>4, <1>7 DEF Register!Next
<1> QED
  BY <1>2, <1>5, <1>6, <1>7, Zenon DEF Next, Step

\* RELEASE-DIGEST.txt is a register, for any number of runs, commits and kills.
THEOREM Refinement == Spec => DigestIsARegister
  BY Invariance, InitRegister, NextRegister, PTL DEF Spec, DigestIsARegister, Register!Spec

=============================================================================
