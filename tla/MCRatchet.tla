------------------------------- MODULE MCRatchet -------------------------------
(***************************************************************************)
(* Three files, five measurements, and every way to spell a path.          *)
(***************************************************************************)
EXTENDS Ratchet

CONSTANTS f, g, h

M(crap, complexity, coverage) ==
  [crap |-> crap, complexity |-> complexity, coverage |-> coverage]

Fair == M(6, 4, 80)
Levels == {Fair, M(5, 4, 90), M(7, 4, 80), M(6, 5, 80), M(6, 4, 70)}

MCRow(file, form, m) == [file |-> file, form |-> form, metrics |-> m]
Plain(file, levels) == {MCRow(file, "plain", m) : m \in levels}
Spelled(file) == {MCRow(file, form, m) : form \in {"reducible", "folded"}, m \in {Fair, M(7, 4, 80)}}
Refused == {MCRow(f, form, Fair) : form \in {"unjoinable", "damaged"}}
Others == Plain(g, {Fair, M(7, 4, 80)})
Thirds == Plain(h, {Fair, M(7, 4, 80)})

Rows == Plain(f, Levels) \cup Spelled(f) \cup Refused \cup Others \cup Thirds

MCRecords ==
  {<<>>} \cup {<<x>> : x \in Rows} \cup {<<x, y>> : x, y \in Rows}
    \cup {<<x, y, z>> : x \in Plain(f, Levels) \cup Spelled(f), y \in Others, z \in Thirds}

=============================================================================
