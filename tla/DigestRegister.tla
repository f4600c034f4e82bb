---------------------------- MODULE DigestRegister ----------------------------
(***************************************************************************)
(* What `verify-release.py --write` promises of RELEASE-DIGEST.txt: it is  *)
(* a register.  Whatever runs, overlap, failures and kills there are, it   *)
(* holds nothing or one complete digest, and it changes in one step to the *)
(* digest of a state that was committed by then.                           *)
(***************************************************************************)
CONSTANTS Absent,      \* there is no such file
          Digests      \* complete digests

VARIABLES committed,   \* the digests of the content committed so far
          file         \* RELEASE-DIGEST.txt in the worktree

Init == committed \in SUBSET Digests /\ file = Absent

Commit(d) == committed' = committed \cup {d} /\ UNCHANGED file

Write(d) == d \in committed /\ file' = d /\ UNCHANGED committed

Next == \E d \in Digests : Commit(d) \/ Write(d)

Spec == Init /\ [][Next]_<<committed, file>>

=============================================================================
