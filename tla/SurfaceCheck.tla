------------------------------ MODULE SurfaceCheck ------------------------------
(***************************************************************************)
(* skills/acceptance-surface-review/scripts/surface-check.py: the human    *)
(* surface of a change is complete for its tier: a spec and a QA script    *)
(* short enough to read, and code only where the tier asks for it.         *)
(***************************************************************************)
EXTENDS Naturals, Sequences, FiniteSets

CONSTANTS Values,   \* the paths a manifest may declare, as written
          Places    \* where they resolve to

\* What stands at a resolved place: nothing (or a directory), an error, or a file
\* by its lines and bytes and whether any of it is visible.
Artifact == [is : {"absent", "error"}] \cup [is : {"file"}, lines : Nat, bytes : Nat, visible : BOOLEAN]

\* How a value resolves against the manifest's directory: `resolve` follows
\* symbolic links and `..`.  "absolute" and "unusable" values are refused.
Refused == {"absolute", "unusable"}

\* within: the tree a place is in; textual: the one its value spells.
IsSite(site) ==
  site.resolve \in [Values -> Places \cup Refused] /\ site.disk \in [Places -> Artifact]

\* A line of a manifest: a comment, a key with its value, or one with a control
\* character or no key.
Tiers == {"routine", "elevated", "critical"}
Line ==
  [key : {"comment", "garbled"}] \cup [key : {"tier"}, value : Tiers \cup {"unknown"}]
    \cup [key : {"spec", "qa", "code"}, value : Values]

\* The lines that declare the key.
At(lines, key) == {i \in 1..Len(lines) : lines[i].key = key}

\* `parse` raises Malformed: a key other than `code` is declared once, and the tier
\* is a known one.
Malformed(lines) ==
  \/ At(lines, "garbled") # {}
  \/ \E i, j \in 1..Len(lines) :
       i # j /\ lines[i].key = lines[j].key /\ lines[i].key \in {"tier", "spec", "qa"}
  \/ \A i \in At(lines, "tier") : lines[i].value \notin Tiers

\* Mutant of DeclaredPath: containment is judged on the text.
DeclaredPathTextual(site, roots, value) ==
  IF site.resolve[value] \in Refused \/ site.textual[value] \notin roots THEN "malformed"
  ELSE site.resolve[value]

\* The place a declared value names; a place outside the review roots is refused.
DeclaredPath(site, roots, value) ==
  IF site.resolve[value] \in Refused \/ site.within[site.resolve[value]] \notin roots
  THEN "malformed" ELSE site.resolve[value]

Hollow(artifact) ==
  artifact.is = "absent" \/ (artifact.is = "file" /\ ~artifact.visible)

\* The verdict on one declared artifact: malformed, error, breach or ok.
Substance(site, roots, value) ==
  LET place == DeclaredPath(site, roots, value)
  IN  CASE place = "malformed" -> "malformed"
        [] place # "malformed" /\ site.disk[place].is = "error" -> "error"
        [] OTHER -> IF Hollow(site.disk[place]) THEN "breach" ELSE "ok"

\* The verdict on the spec, or the QA script, which stands at most once.
Prose(lines, key, site, roots, cap, byteCap) ==
  IF At(lines, key) = {} THEN "breach"
  ELSE LET value == lines[CHOOSE i \in At(lines, key) : TRUE].value
           found == Substance(site, roots, value)
       IN  IF found # "ok" THEN found
           ELSE LET artifact == site.disk[DeclaredPath(site, roots, value)]
                IN  IF artifact.lines > cap \/ artifact.bytes > byteCap THEN "breach" ELSE "ok"

\* `judge` on one manifest.
Judge(lines, site, roots, cap, byteCap) ==
  LET tier(t) == \E i \in At(lines, "tier") : lines[i].value = t
      found == {Prose(lines, key, site, roots, cap, byteCap) : key \in {"spec", "qa"}}
               \cup {Substance(site, roots, lines[i].value) : i \in At(lines, "code")}
  IN  IF Malformed(lines) \/ found \cap {"malformed", "error"} # {} THEN "malformed"
      ELSE IF \/ "breach" \in found
              \/ tier("routine") /\ At(lines, "code") # {}
              \/ tier("critical") /\ At(lines, "code") = {}
      THEN "breach" ELSE "ok"

\* A run over some manifests; a --root that is no directory, a missing manifest
\* and a flag without its value are refused before any is judged.
Exit(usable, manifests, site, roots, cap, byteCap) ==
  LET found == {Judge(manifests[i], site, roots, cap, byteCap) : i \in 1..Len(manifests)}
  IN  IF ~usable \/ manifests = <<>> \/ "malformed" \in found THEN 2
      ELSE IF "breach" \in found THEN 1 ELSE 0

-----------------------------------------------------------------------------
\* A surface a person can review: everything it names is in the trees put in
\* scope and has something to read, and the prose is within both budgets.
Reviewable(lines, site, roots, cap, byteCap) ==
  LET named == {lines[i].value : i \in {j \in 1..Len(lines) : lines[j].key \in {"spec", "qa", "code"}}}
      prose == {lines[i].value : i \in {j \in 1..Len(lines) : lines[j].key \in {"spec", "qa"}}}
      has(key) == \E i \in 1..Len(lines) : lines[i].key = key
  IN  /\ has("spec") /\ has("qa")
      /\ \A v \in named :
           /\ site.resolve[v] \in Places
           /\ site.within[site.resolve[v]] \in roots
           /\ site.disk[site.resolve[v]].is = "file" /\ site.disk[site.resolve[v]].visible
      /\ \A v \in prose :
           /\ site.disk[site.resolve[v]].lines <= cap
           /\ site.disk[site.resolve[v]].bytes <= byteCap
      /\ \A i \in 1..Len(lines) :
           lines[i].key = "tier" =>
             CASE lines[i].value = "routine" -> ~has("code")
               [] lines[i].value = "critical" -> has("code")
               [] OTHER -> TRUE

=============================================================================
