------------------------------- MODULE Certifiers -------------------------------
(***************************************************************************)
(* Both certifiers over the same document: verify-proofs.py, then          *)
(* closed-stream-check.py, which imports the grammar of the first and      *)
(* promises to probe exactly what the first would count.  They share       *)
(* nothing but the document, so their order does not matter.               *)
(***************************************************************************)
EXTENDS ClosedStream

VARIABLES vblk, vrow, vsetup, vgap, vout, strict, vn, running, orphan, vlog, vexit

V == INSTANCE ProofVerify
       WITH blk <- vblk, row <- vrow, setup <- vsetup, gap <- vgap, out <- vout,
            n <- vn, log <- vlog, exit <- vexit

\* Both kill a proof at its limit; verify-proofs tells that from every code too.
ASSUME BothTimeoutAssumption == Timeout \notin {NoCode, Refuse}

verifyVars == <<vblk, vrow, vsetup, vgap, vout, strict, vn, running, orphan, vlog, vexit>>
closedVars == <<blk, row, setup, gap, out, mainVars>>
bothVars == <<doc, verifyVars, closedVars>>

BothInit == V!Init /\ Init

RunVerify == V!Next /\ UNCHANGED closedVars
RunClosed == vexit # V!Unset /\ Next /\ UNCHANGED verifyVars

BothNext == RunVerify \/ RunClosed

BothSpec == BothInit /\ [][BothNext]_bothVars

\* Both sweeps reached the end of the document.
BothSwept == V!WalkDone /\ WalkDone /\ vexit # V!Unset /\ exit # Unset

Places(entries, classes) == {e.at : e \in {x \in entries : x.class \in classes}}

\* The proofs that are probed are those verify-proofs runs in a whole scenario,
\* each with the same replayed steps, less the islands' own stream probes.
ProbesWhatVerifyCounts ==
  BothSwept =>
    /\ Places(log, {"probed"}) =
         Places({e \in vlog : e.gap = {}}, V!Executed) \ SelfProbes
    /\ \A e \in log, f \in vlog :
         e.class = "probed" /\ e.at = f.at => e.setup = f.setup /\ e.expected = f.expected

\* The two refuse the same setup states, and whatever closed-stream-check
\* refuses for a primitive verify-proofs refuses too.
RefusalsAgree ==
  BothSwept =>
    /\ Places(log, {"refused"}) = Places(vlog, {"refused"})
    /\ Places(log, {"forbidden"}) \subseteq Places(vlog, {"forbidden"})

=============================================================================
