------------------------------ MODULE MCGherkinGate ------------------------------
(***************************************************************************)
(* A feature that goes through a few texts and the ledger of two stories.  *)
(***************************************************************************)
EXTENDS GherkinGate

CONSTANTS s1, s2, a, b

Text(sha, scenarios, declared) ==
  [sha |-> sha, scenarios |-> scenarios, declared |-> declared, odd |-> FALSE]

MCFeatures ==
  {Text(1, <<a>>, <<s1>>), Text(2, <<a, b>>, <<s1>>), Text(3, <<>>, <<s1>>),
   [Text(4, <<a, NoName>>, <<s1, s2>>) EXCEPT !.odd = TRUE]}

Line(phase, zero, s, sha, name) ==
  [phase |-> phase, zero |-> zero, story |-> s, sha |-> sha, scenario |-> name]

MCReports ==
  {Line("red", FALSE, s1, 1, a), Line("green", TRUE, s1, 1, a),
   Line("red", FALSE, s1, 2, a), Line("green", TRUE, s1, 2, a),
   Line("red", FALSE, s1, 2, b), Line("green", TRUE, s1, 2, b),
   Line("red", FALSE, s2, 1, a), Line("green", TRUE, s2, 1, a),
   Line("green", FALSE, s2, 1, a), Malformed}

=============================================================================
