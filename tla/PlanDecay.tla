------------------------------- MODULE PlanDecay -------------------------------
(***************************************************************************)
(* skills/plan-decay-detector/scripts/plan-decay.py: does the tree still   *)
(* match what a plan assumed?  Each row is checked at its own moment, so   *)
(* it comes with the tree it sees.                                         *)
(***************************************************************************)
EXTENDS Naturals, Sequences

CONSTANTS Bases,      \* names up to case and composition
          Literals, Digests

\* A directory entry or a path component.  NFC removes the composition; case it
\* does not remove.
Name == [base : Bases, case : {"lower", "upper"}, form : {"NFC", "NFD"}]
Nfc(name) == <<name.base, name.case>>
Casefold(name) == name.base

\* A tree maps the paths that are there to what is there: a directory, one that
\* cannot be listed, a file that cannot be read as text, or its text.
Text == [digest : Digests, literals : SUBSET Literals]
Dir == [is |-> "dir"]
Locked == [is |-> "locked"]
Opaque == [is |-> "opaque"]
File(text) == [is |-> "file", text |-> text]
Nodes == {Dir, Locked, Opaque} \cup {File(text) : text \in Text}

\* The directory a path lies in, and its own name there.
Parent(p) == SubSeq(p, 1, Len(p) - 1)
Own(p) == p[Len(p)]

IsTree(tree) ==
  /\ DOMAIN tree \subseteq Seq(Name)
  /\ \A p \in DOMAIN tree :
       /\ tree[p] \in Nodes
       /\ p # <<>> => Parent(p) \in DOMAIN tree /\ tree[Parent(p)].is \in {"dir", "locked"}

\* A row of the assumption file; "malformed" is any line `load` or `split_path`
\* refuses.  Its path is the components that are left of "./a//b", of which there
\* is one at least.
Path == Seq(Name) \ {<<>>}
Row ==
  [kind : {"exists", "absent"}, path : Path]
    \cup [kind : {"contains", "lacks"}, path : Path, arg : Literals]
    \cup [kind : {"unchanged"}, path : Path, arg : Digests]
    \cup [kind : {"malformed"}]

\* Mutant of Entries: a name may match in another case.
EntriesFolded(tree, dir, want) ==
  {p \in DOMAIN tree :
     p # <<>> /\ Parent(p) = dir /\ Casefold(Own(p)) = Casefold(want)}

\* The entries of a directory that are the wanted name.
Entries(tree, dir, want) ==
  {p \in DOMAIN tree : p # <<>> /\ Parent(p) = dir /\ Nfc(Own(p)) = Nfc(want)}

Variants(tree, dir, want) ==
  {p \in DOMAIN tree :
     p # <<>> /\ Parent(p) = dir /\ Casefold(Own(p)) = Casefold(want)}

Step(tree, st, want) ==
  LET exact == Entries(tree, st.at, want)
  IN  CASE st.status # "exact" -> st
        [] st.status = "exact" /\ st.at \notin DOMAIN tree -> [st EXCEPT !.status = "missing"]
        [] OTHER ->
             CASE tree[st.at].is = "locked" -> [st EXCEPT !.status = "fault"]
               [] tree[st.at].is \in {"file", "opaque"} -> [st EXCEPT !.status = "missing"]
               [] OTHER ->
                    IF \E p, q \in exact : p # q THEN [st EXCEPT !.status = "fault"]
                    ELSE IF exact # {} THEN [st EXCEPT !.at = CHOOSE p \in exact : TRUE]
                    ELSE IF Variants(tree, st.at, want) # {} THEN [st EXCEPT !.status = "variant"]
                    ELSE [st EXCEPT !.status = "missing"]

Locate(tree, path) ==
  LET st[k \in 0..Len(path)] ==
        IF k = 0 THEN [status |-> "exact", at |-> <<>>] ELSE Step(tree, st[k - 1], path[k])
  IN  st[Len(path)]

\* hold, diverge or fault.
Check(row, tree) ==
  LET found == Locate(tree, row.path)
      holds(b) == IF b THEN "hold" ELSE "diverge"
  IN  CASE found.status = "fault" -> "fault"
        [] found.status # "fault" /\ row.kind = "exists" -> holds(found.status = "exact")
        [] found.status # "fault" /\ row.kind = "absent" -> holds(found.status = "missing")
        [] found.status \in {"missing", "variant"} /\ row.kind \notin {"exists", "absent"} -> "diverge"
        [] found.status = "exact" /\ row.kind \notin {"exists", "absent"} ->
             IF tree[found.at].is # "file" THEN "fault"
             ELSE LET text == tree[found.at].text
                  IN  CASE row.kind = "unchanged" -> holds(text.digest = row.arg)
                        [] row.kind = "contains" -> holds(row.arg \in text.literals)
                        [] row.kind = "lacks" -> holds(row.arg \notin text.literals)

\* A run over an assumption file: all rows are read before the first is checked.
Exit(lines) ==
  LET results == {Check(lines[i].row, lines[i].tree) : i \in 1..Len(lines)}
  IN  IF lines = <<>> \/ \E i \in 1..Len(lines) : lines[i].row.kind = "malformed" THEN 2
      ELSE IF "fault" \in results THEN 2
      ELSE IF "diverge" \in results THEN 1 ELSE 0

\* --digest PATH: prints a digest and gives no verdict.
DigestExit(path, tree) ==
  LET found == Locate(tree, path)
  IN  IF path # <<>> /\ found.status = "exact" /\ tree[found.at].is = "file" THEN 3 ELSE 2

-----------------------------------------------------------------------------
\* The paths of a tree that a plan's path means.
Meant(tree, path) ==
  {p \in DOMAIN tree : Len(p) = Len(path) /\ \A i \in 1..Len(p) : Nfc(p[i]) = Nfc(path[i])}

\* The tree spells a part of the path otherwise.
Misspelt(tree, path) ==
  \E n \in 1..Len(path) :
    /\ Meant(tree, SubSeq(path, 1, n)) = {}
    /\ \E p \in Meant(tree, SubSeq(path, 1, n - 1)) : Variants(tree, p, path[n]) # {}

\* What an assumption says of one tree.
True(row, tree) ==
  LET texts == {tree[p].text : p \in {q \in Meant(tree, row.path) : tree[q].is = "file"}}
  IN  CASE row.kind = "exists" -> Meant(tree, row.path) # {}
        [] row.kind = "absent" -> Meant(tree, row.path) = {} /\ ~Misspelt(tree, row.path)
        [] row.kind = "unchanged" -> \E t \in texts : t.digest = row.arg
        [] row.kind = "contains" -> \E t \in texts : row.arg \in t.literals
        [] row.kind = "lacks" -> \E t \in texts : row.arg \notin t.literals

=============================================================================
