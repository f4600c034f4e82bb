----------------------------- MODULE ReleaseDigest -----------------------------
(***************************************************************************)
(* scripts/verify-release.py against a repository that keeps moving: runs  *)
(* of `--write` and of the verifier overlap with each other and with new   *)
(* commits, and may fail or be killed at any step.  A commit is the        *)
(* manifest of its tracked content without the digest, and the digest it   *)
(* publishes; two contents have the same SHA-256 only when they are equal. *)
(***************************************************************************)
EXTENDS Naturals, Sequences

CONSTANTS Writers, Verifiers,   \* runs of the tool, with and without --write
          Manifests,            \* committed content, digest excluded
          Absent, Malformed,    \* no digest; a digest parse_digest rejects
          MaxCommits            \* bound on the commits of the repository

ASSUME RunsAssumption == Writers \cap Verifiers = {}
ASSUME DigestAssumption == {Absent, Malformed} \cap Manifests = {} /\ Absent # Malformed

Runs == Writers \cup Verifiers

VARIABLES commits,   \* the commits, oldest first
          head,      \* the commit HEAD names
          worktree,  \* RELEASE-DIGEST.txt in the worktree
          pc,        \* where each run is
          seen,      \* the commit the run captured (0: none yet)
          text,      \* the published digest a verifier read
          manifest,  \* what manifest_sha returned
          temp,      \* the run's temporary file: none, started or complete
          exit       \* exit codes

vars == <<commits, head, worktree, pc, seen, text, manifest, temp, exit>>

None == 0
Unset == 99
Commits == [content : Manifests, digest : Manifests \cup {Absent, Malformed}, intact : BOOLEAN]

Init ==
  /\ \E m \in Manifests : commits = <<[content |-> m, digest |-> Absent, intact |-> TRUE]>>
  /\ head = 1 /\ worktree = Absent
  /\ pc = [r \in Runs |-> "identity"]
  /\ seen = [r \in Runs |-> None]
  /\ text = [r \in Runs |-> Absent]
  /\ manifest = [r \in Runs |-> Absent]
  /\ temp = [r \in Runs |-> "none"]
  /\ exit = [r \in Runs |-> Unset]

-----------------------------------------------------------------------------
(* The repository. *)

\* A commit publishes the worktree's digest, or whatever was put there by hand.
Commit(m, d, whole) ==
  /\ Len(commits) < MaxCommits
  /\ d \in {worktree, commits[head].digest, Malformed}
  /\ commits' = Append(commits, [content |-> m, digest |-> d, intact |-> whole])
  /\ head' = Len(commits) + 1
  /\ UNCHANGED <<worktree, pc, seen, text, manifest, temp, exit>>

\* HEAD is moved back to an earlier commit; the worktree copy stays as it is.
Reset(c) ==
  /\ c \in 1..Len(commits) /\ c # head
  /\ head' = c
  /\ UNCHANGED <<commits, worktree, pc, seen, text, manifest, temp, exit>>

(* The tool. *)

Goto(r, from, to) == pc[r] = from /\ pc' = [pc EXCEPT ![r] = to]

\* Resolve HEAD once; everything below reads the captured commit.
CapturedIdentity(r) ==
  /\ Goto(r, "identity", "fsck")
  /\ seen' = [seen EXCEPT ![r] = head]
  /\ UNCHANGED <<commits, head, worktree, text, manifest, temp, exit>>

\* Mutant of VerifyObjectStore: a damaged object store is no obstacle.
SkipObjectStore(r) ==
  /\ pc[r] = "fsck"
  /\ pc' = [pc EXCEPT ![r] = IF r \in Writers THEN "manifest" ELSE "published"]
  /\ UNCHANGED <<commits, head, worktree, seen, text, manifest, temp, exit>>

VerifyObjectStore(r) ==
  /\ pc[r] = "fsck"
  /\ commits[seen[r]].intact
  /\ pc' = [pc EXCEPT ![r] = IF r \in Writers THEN "manifest" ELSE "published"]
  /\ UNCHANGED <<commits, head, worktree, seen, text, manifest, temp, exit>>

\* Mutant of PublishedDigest: read from whatever HEAD names by now.
PublishedDigestOfHead(r) ==
  /\ pc[r] = "published"
  /\ text' = [text EXCEPT ![r] = commits[head].digest]
  /\ IF commits[head].digest = Absent
     THEN pc' = [pc EXCEPT ![r] = "done"] /\ exit' = [exit EXCEPT ![r] = 3]
     ELSE pc' = [pc EXCEPT ![r] = "parse"] /\ UNCHANGED exit
  /\ UNCHANGED <<commits, head, worktree, seen, manifest, temp>>

\* Mutant of PublishedDigest: read from the worktree.
PublishedDigestOfWorktree(r) ==
  /\ pc[r] = "published"
  /\ text' = [text EXCEPT ![r] = worktree]
  /\ IF worktree = Absent
     THEN pc' = [pc EXCEPT ![r] = "done"] /\ exit' = [exit EXCEPT ![r] = 3]
     ELSE pc' = [pc EXCEPT ![r] = "parse"] /\ UNCHANGED exit
  /\ UNCHANGED <<commits, head, worktree, seen, manifest, temp>>

\* The digest of the captured commit, never the worktree copy.
PublishedDigest(r) ==
  LET published == commits[seen[r]].digest
  IN  /\ pc[r] = "published"
      /\ text' = [text EXCEPT ![r] = published]
      /\ IF published = Absent
         THEN pc' = [pc EXCEPT ![r] = "done"] /\ exit' = [exit EXCEPT ![r] = 3]
         ELSE pc' = [pc EXCEPT ![r] = "parse"] /\ UNCHANGED exit
      /\ UNCHANGED <<commits, head, worktree, seen, manifest, temp>>

ParseDigest(r) ==
  /\ text[r] # Malformed
  /\ Goto(r, "parse", "manifest")
  /\ UNCHANGED <<commits, head, worktree, seen, text, manifest, temp, exit>>

\* Mutant of ManifestSha: hash the commit HEAD names by now.
ManifestShaOfHead(r) ==
  /\ pc[r] = "manifest"
  /\ manifest' = [manifest EXCEPT ![r] = commits[head].content]
  /\ pc' = [pc EXCEPT ![r] = IF r \in Writers THEN "mkstemp" ELSE "compare"]
  /\ UNCHANGED <<commits, head, worktree, seen, text, temp, exit>>

ManifestSha(r) ==
  /\ pc[r] = "manifest"
  /\ manifest' = [manifest EXCEPT ![r] = commits[seen[r]].content]
  /\ pc' = [pc EXCEPT ![r] = IF r \in Writers THEN "mkstemp" ELSE "compare"]
  /\ UNCHANGED <<commits, head, worktree, seen, text, temp, exit>>

Compare(r) ==
  /\ Goto(r, "compare", "done")
  /\ exit' = [exit EXCEPT ![r] = IF manifest[r] = text[r] THEN 0 ELSE 1]
  /\ UNCHANGED <<commits, head, worktree, seen, text, manifest, temp>>

\* Mutant of MakeTemp: the digest itself is opened for writing.
TruncateDigest(r) ==
  /\ Goto(r, "mkstemp", "write")
  /\ temp' = [temp EXCEPT ![r] = "started"]
  /\ worktree' = Malformed
  /\ UNCHANGED <<commits, head, seen, text, manifest, exit>>

\* mkstemp in the root, then the content, then fsync, then one rename.
MakeTemp(r) ==
  /\ Goto(r, "mkstemp", "write")
  /\ temp' = [temp EXCEPT ![r] = "started"]
  /\ UNCHANGED <<commits, head, worktree, seen, text, manifest, exit>>

WriteTemp(r) ==
  /\ Goto(r, "write", "replace")
  /\ temp' = [temp EXCEPT ![r] = "complete"]
  /\ UNCHANGED <<commits, head, worktree, seen, text, manifest, exit>>

Replace(r) ==
  /\ Goto(r, "replace", "report")
  /\ worktree' = IF temp[r] = "complete" THEN manifest[r] ELSE Malformed
  /\ temp' = [temp EXCEPT ![r] = "none"]
  /\ UNCHANGED <<commits, head, seen, text, manifest, exit>>

IdentityReport(r) ==
  /\ Goto(r, "report", "done")
  /\ exit' = [exit EXCEPT ![r] = 0]
  /\ UNCHANGED <<commits, head, worktree, seen, text, manifest, temp>>

\* Git or the file system fails, or the digest is malformed: no verdict.  The
\* `finally` removes the temporary file unless unlink fails too.
Fail(r) ==
  /\ pc[r] \notin {"done", "killed"}
  /\ pc' = [pc EXCEPT ![r] = "done"]
  /\ exit' = [exit EXCEPT ![r] = 2]
  /\ \E left \in {"none", temp[r]} : temp' = [temp EXCEPT ![r] = left]
  /\ UNCHANGED <<commits, head, worktree, seen, text, manifest>>

\* SIGKILL or power loss: nothing is cleaned up.
Kill(r) ==
  /\ pc[r] \notin {"done", "killed"}
  /\ pc' = [pc EXCEPT ![r] = "killed"]
  /\ UNCHANGED <<commits, head, worktree, seen, text, manifest, temp, exit>>

Advance(r) ==
  \/ CapturedIdentity(r) \/ VerifyObjectStore(r) \/ PublishedDigest(r) \/ ParseDigest(r)
  \/ ManifestSha(r) \/ Compare(r) \/ MakeTemp(r) \/ WriteTemp(r) \/ Replace(r)
  \/ IdentityReport(r)

Next ==
  \/ \E m \in Manifests, d \in Manifests \cup {Absent, Malformed}, whole \in BOOLEAN :
       Commit(m, d, whole)
  \/ \E c \in 1..MaxCommits : Reset(c)
  \/ \E r \in Runs : Advance(r) \/ Fail(r) \/ Kill(r)

Spec == Init /\ [][Next]_vars

-----------------------------------------------------------------------------
TypeOK ==
  /\ commits \in Seq(Commits)
  /\ head \in 1..Len(commits)
  /\ worktree \in Manifests \cup {Absent}
  /\ pc \in [Runs -> {"identity", "fsck", "published", "parse", "manifest", "compare",
                      "mkstemp", "write", "replace", "report", "done", "killed"}]
  /\ seen \in [Runs -> 0..Len(commits)]
  /\ text \in [Runs -> Manifests \cup {Absent, Malformed}]
  /\ manifest \in [Runs -> Manifests \cup {Absent}]
  /\ temp \in [Runs -> {"none", "started", "complete"}]
  /\ exit \in [Runs -> {0, 1, 2, 3, Unset}]

\* A verdict is about one commit, the one HEAD named when the run began, however
\* HEAD moved while it ran: what it published against what it contains.
VerdictIsAboutOneCommit ==
  \A r \in Verifiers :
    LET c == commits[seen[r]]
    IN  /\ exit[r] = 0 => c.digest = c.content
        /\ exit[r] = 1 => c.digest # c.content /\ c.digest \notin {Absent, Malformed}
        /\ exit[r] = 3 => c.digest = Absent

\* No verdict about content is read out of a damaged object store.
NoVerdictFromDamage ==
  \A r \in Runs : exit[r] \in {0, 1, 3} => commits[seen[r]].intact

\* A run that reports having written the digest wrote that of the commit it
\* captured, and until another run or a later edit intervened it is what stands.
WroteWhatItCaptured ==
  \A r \in Writers : exit[r] = 0 =>
    /\ manifest[r] = commits[seen[r]].content
    /\ (\A w \in Writers \ {r} : pc[w] \in {"identity", "fsck"}) => worktree = manifest[r]

\* RELEASE-DIGEST.txt behaves as the register of DigestRegister: no reader of
\* the worktree, at any step or after any crash, finds a partial digest.
Register == INSTANCE DigestRegister
              WITH Digests <- Manifests, file <- worktree,
                   committed <- {commits[c].content : c \in 1..Len(commits)}

DigestIsARegister == Register!Spec

=============================================================================
