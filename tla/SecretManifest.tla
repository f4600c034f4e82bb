----------------------------- MODULE SecretManifest -----------------------------
(***************************************************************************)
(* skills/parnas-partition/scripts/secret-manifest.py: every module of a   *)
(* list declares the one decision it hides.                                *)
(***************************************************************************)
EXTENDS Naturals, Sequences

CONSTANTS Hidden   \* the modules

\* A path as written: `dotted` is the same path with . and // in it, `cased` is
\* another one, `nothing` is . and leads nowhere.
Spelled == Hidden \X {"plain", "dotted", "cased"} \cup {<<"nothing">>}
NormKey(path) == <<path[1], path[2] = "cased">>

\* A decision with its letters and digits, and whether it opens as a stub, or none.
Declaration ==
  [chars : Nat, stub : BOOLEAN, empty : {FALSE}] \cup [chars : {0}, stub : {FALSE}, empty : {TRUE}]

\* A row of the manifest, or of the module list.
Line ==
  [of : {"manifest"}, is : {"skipped", "malformed"}]
    \cup [of : {"manifest"}, is : {"row"}, path : Spelled, says : Declaration]
    \cup [of : {"list"}, is : {"blank"}] \cup [of : {"list"}, is : {"row"}, path : Spelled]

Rows(lines, of) == {i \in 1..Len(lines) : lines[i].of = of /\ lines[i].is = "row"}

Leads(row) == row.path # <<"nothing">>

\* `load_modules`: two spellings of one module are not guessed about, a repeat is
\* harmless.
BadList(lines) ==
  LET rows == Rows(lines, "list")
  IN  \/ rows = {}
      \/ \E i \in rows : ~Leads(lines[i])
      \/ \E i, j \in rows :
           lines[i].path # lines[j].path /\ NormKey(lines[i].path) = NormKey(lines[j].path)

\* `load_manifest`
BadManifest(lines) ==
  \/ \E i \in 1..Len(lines) : lines[i].of = "manifest" /\ lines[i].is = "malformed"
  \/ \E i \in Rows(lines, "manifest") : ~Leads(lines[i])

Declares(row, path) == NormKey(row.path) = NormKey(path)

\* Mutant of Hides: the last declaration counts.
HidesLast(lines, path, min) ==
  LET said == {i \in Rows(lines, "manifest") : Declares(lines[i], path)}
      says == lines[CHOOSE i \in said : \A j \in said : j <= i].says
  IN  said # {} /\ ~says.empty /\ ~says.stub /\ says.chars > 0 /\ says.chars >= min

\* No violation is recorded for the module.
Hides(lines, path, min) ==
  \E i \in Rows(lines, "manifest") :
    /\ {j \in Rows(lines, "manifest") : Declares(lines[j], path)} = {i}
    /\ LET says == lines[i].says
       IN  ~says.empty /\ ~says.stub /\ says.chars > 0 /\ says.chars >= min

Exit(lines, min) ==
  IF BadList(lines) \/ BadManifest(lines) THEN 2
  ELSE IF \A i \in Rows(lines, "list") : Hides(lines, lines[i].path, min) THEN 0 ELSE 1

-----------------------------------------------------------------------------
\* Each listed module, under any of its spellings, has one row, and that row says
\* something of substance.
Declared(lines, min) ==
  LET same(p, q) == p[1] = q[1] /\ ((p[2] = "cased") <=> (q[2] = "cased"))
  IN  \A i \in 1..Len(lines) : lines[i].of = "list" /\ lines[i].is = "row" =>
        \E j \in 1..Len(lines) :
          /\ lines[j].of = "manifest" /\ lines[j].is = "row"
          /\ same(lines[j].path, lines[i].path)
          /\ lines[j].says.chars >= min /\ lines[j].says.chars > 0 /\ ~lines[j].says.stub
          /\ \A k \in 1..Len(lines) :
               lines[k].of = "manifest" /\ lines[k].is = "row" /\ same(lines[k].path, lines[i].path)
                 => k = j

=============================================================================
