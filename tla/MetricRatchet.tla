----------------------------- MODULE MetricRatchet -----------------------------
(***************************************************************************)
(* What boyscout-ratchet promises of a repository's record: a file that is *)
(* in it never gets worse on any axis, and a file enters it at or under    *)
(* the ceiling.  (src/skills/boyscout-ratchet/SKILL.md, "The mechanic".)   *)
(***************************************************************************)
EXTENDS Naturals

CONSTANTS Files, Ceiling
VARIABLE recorded      \* the files on record, each with its metrics

Worse(new, old) ==
  \/ new.crap > old.crap
  \/ new.complexity > old.complexity
  \/ new.coverage < old.coverage

Init == DOMAIN recorded \subseteq Files

Turn ==
  /\ DOMAIN recorded \subseteq DOMAIN recorded'
  /\ \A f \in DOMAIN recorded : ~Worse(recorded'[f], recorded[f])
  /\ \A f \in DOMAIN recorded' \ DOMAIN recorded : recorded'[f].crap <= Ceiling

Spec == Init /\ [][Turn]_recorded
=============================================================================
