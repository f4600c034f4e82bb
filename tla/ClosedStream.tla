------------------------------ MODULE ClosedStream ------------------------------
(***************************************************************************)
(* scripts/closed-stream-check.py: run every documented proof twice, once  *)
(* with a dead stdout and once with a dead stderr, and accept only the     *)
(* code the command documents or the pack-wide seal 2.  It walks the       *)
(* blocks with the generator of ProofExtract.  `log` remembers what became *)
(* of each item and `answers` what each probe answered; neither is in the  *)
(* program.                                                                *)
(***************************************************************************)
EXTENDS ProofExtract

CONSTANTS SelfProbes,   \* places whose command closes a stream, or acts on its
                        \* own status, on purpose (`self_probe`)
          Timeout,      \* a probe that did not end in time
          Strays        \* codes a gate with a dead stream may leak: CPython's
                        \* 120, a shell's 141, another verdict of its own

VARIABLES n,            \* the counters
          stream,       \* the stream the next probe closes; 0: no probe is on
          log, answers,
          exit

vars == <<walkVars, n, stream, log, answers, exit>>
mainVars == <<n, stream, log, answers, exit>>

Unset == 99
Seal == 2   \* ALWAYS_FAIL_CLOSED
Counters == {"probed", "leaks", "refused", "refusalGapped", "unsequenced",
             "ownProbes", "sealed"}
Classes == {"refused", "passed", "refusalGapped", "unsequenced", "ownProbe",
            "forbidden", "probed"}
Outcomes == Codes \cup Strays \cup {Seal, Timeout}
Entry == [at : Place, class : Classes, expected : Expected, setup : Seq(Place)]
Answer == [at : Place, stream : {1, 2}, rc : Outcomes, expected : Codes]

ASSUME TimeoutAssumption == Timeout \notin Codes \cup Strays \cup {Seal}
ASSUME PlacesAssumption == SelfProbes \subseteq Place

Init ==
  /\ WalkInit
  /\ n = [c \in Counters |-> 0]
  /\ stream = 0
  /\ log = {} /\ answers = {} /\ exit = Unset

-----------------------------------------------------------------------------
Live == exit = Unset
Got == Live /\ out # NoItem /\ stream = 0

Candidate(item) ==
  /\ item.expected \in Codes
  /\ CommandAt(item.at).kind = "step" /\ ~CommandAt(item.at).template

\* The whole script that would run is searched, not only the annotated command.
ForbiddenScript(item) ==
  CommandAt(item.at).forbidden \/ \E k \in 1..Len(item.setup) : FoundInSetup(item.setup[k])

Bump(c) == n' = [n EXCEPT ![c] = @ + 1]

Consume(class) ==
  /\ log' = log \cup {[at |-> out.at, class |-> class, expected |-> out.expected,
                       setup |-> out.setup]}
  /\ out' = NoItem
  /\ UNCHANGED <<doc, blk, row, setup, gap, stream, answers, exit>>

CountRefused == Got /\ out.expected = Refuse /\ Bump("refused") /\ Consume("refused")

\* No code, off the allowlist, or a usage template: nothing to probe.
PassBy ==
  /\ Got /\ out.expected # Refuse /\ ~Candidate(out)
  /\ UNCHANGED n /\ Consume("passed")

\* A proof verify-proofs would not count is not probed as a different script.
ExcludeGapped ==
  /\ Got /\ Candidate(out) /\ out.gap # {}
  /\ IF "refused" \in out.gap
     THEN Bump("refusalGapped") /\ Consume("refusalGapped")
     ELSE Bump("unsequenced") /\ Consume("unsequenced")

LeaveOwnProbe ==
  /\ Got /\ Candidate(out) /\ out.gap = {} /\ out.at \in SelfProbes
  /\ Bump("ownProbes") /\ Consume("ownProbe")

\* Mutant of IsProbe: a proof with a gap is probed as the shorter script.
IsProbeGapped == Got /\ Candidate(out) /\ out.at \notin SelfProbes

IsProbe == Got /\ Candidate(out) /\ out.gap = {} /\ out.at \notin SelfProbes

RefuseForbidden ==
  /\ IsProbe /\ ForbiddenScript(out)
  /\ Bump("refused") /\ Consume("forbidden")

StartProbes ==
  /\ IsProbe /\ ~ForbiddenScript(out)
  /\ stream' = 1
  /\ UNCHANGED <<walkVars, n, log, answers, exit>>

\* Mutant of Leaked: any code some command of the pack documents is accepted.
LeakedOutsideVocabulary(rc, expected) == rc \notin Codes \cup {Seal}

Leaked(rc, expected) == rc \notin {expected, Seal}

\* One probe: stream 1, then stream 2, then on to the next item.
Probe(rc) ==
  /\ Live /\ stream # 0
  /\ answers' = answers \cup {[at |-> out.at, stream |-> stream, rc |-> rc,
                               expected |-> out.expected]}
  /\ n' = [n EXCEPT !["probed"] = @ + 1,
                    !["leaks"] = IF Leaked(rc, out.expected) THEN @ + 1 ELSE @,
                    !["sealed"] = IF ~Leaked(rc, out.expected) /\ rc # out.expected
                                  THEN @ + 1 ELSE @]
  /\ IF stream = 1
     THEN stream' = 2 /\ UNCHANGED <<log, out>>
     ELSE /\ stream' = 0
          /\ log' = log \cup {[at |-> out.at, class |-> "probed",
                               expected |-> out.expected, setup |-> out.setup]}
          /\ out' = NoItem
  /\ UNCHANGED <<doc, blk, row, setup, gap, exit>>

Resume == Live /\ Walk /\ UNCHANGED mainVars

\* A usage error, or an island that cannot be read when its turn comes.
GiveUp ==
  /\ Live /\ out = NoItem /\ row = 1 /\ blk <= Len(doc)
  /\ exit' = 2
  /\ UNCHANGED <<walkVars, n, stream, log, answers>>

\* Mutant of Verdict: the number of leaks is the exit code.
VerdictLeakCount ==
  IF n["leaks"] > 0 THEN n["leaks"]
  ELSE IF n["refused"] > 0 \/ n["refusalGapped"] > 0 THEN 2
  ELSE IF n["probed"] = 0 THEN 3
  ELSE 0

\* Mutant of Verdict: the proofs downstream of a refusal are only excluded.
VerdictIgnoringDownstream ==
  IF n["leaks"] > 0 THEN 1 ELSE IF n["probed"] = 0 THEN 3 ELSE 0

Verdict ==
  IF n["leaks"] > 0 THEN 1
  ELSE IF n["refused"] > 0 \/ n["refusalGapped"] > 0 THEN 2
  ELSE IF n["probed"] = 0 THEN 3
  ELSE 0

Conclude ==
  /\ Live /\ WalkDone
  /\ exit' = Verdict
  /\ UNCHANGED <<walkVars, n, stream, log, answers>>

Consumer == \/ CountRefused \/ PassBy \/ ExcludeGapped \/ LeaveOwnProbe
            \/ RefuseForbidden \/ StartProbes
            \/ \E rc \in Outcomes : Probe(rc)

Next == Resume \/ Consumer \/ GiveUp \/ Conclude

Spec == Init /\ [][Next]_vars

-----------------------------------------------------------------------------
TypeOK ==
  /\ WalkTypeOK
  /\ n \in [Counters -> Nat]
  /\ stream \in {0, 1, 2}
  /\ log \subseteq Entry /\ answers \subseteq Answer
  /\ exit \in {0, 1, 2, 3, Unset}

\* Exit 0 says that there was a probe, that every proof that was probed was probed
\* on both streams and answered on each the code its own command documents, or the
\* seal, and that no step was refused nor a proof withheld below one.
CleanMeansEveryProbeHeld ==
  exit = 0 => /\ answers # {}
              /\ \A a \in answers : a.rc = a.expected \/ a.rc = Seal
              /\ \A e \in log : e.class = "probed" =>
                   {a.stream : a \in {x \in answers : x.at = e.at}} = {1, 2}
              /\ \A e \in log : e.class \notin {"refused", "forbidden", "refusalGapped"}

=============================================================================
