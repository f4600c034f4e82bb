-------------------------------- MODULE MCRows --------------------------------
(***************************************************************************)
(* Small documents for the models that read proof blocks: an alphabet in   *)
(* which each branch of `commands` has a row, and the blocks over it.      *)
(***************************************************************************)
EXTENDS ProofRows

CONSTANTS MaxRows,   \* rows of a single block over the core rows
          MaxOdd,    \* rows of a single block over all the rows, two of them odd
          MaxPair    \* rows of each block of a two-block document

Simple == [kind |-> "step", prompt |-> FALSE, cont |-> FALSE, code |-> NoCode,
           arrow |-> FALSE, template |-> FALSE, unsafe |-> FALSE, whole |-> TRUE,
           forbidden |-> FALSE, plain |-> FALSE]

Of(kind) == [Simple EXCEPT !.kind = kind]
Stating(r, c) == [r EXCEPT !.code = c]

TopCode == CHOOSE c \in Codes : \A d \in Codes : d <= c

Core ==
  {Stating(Simple, c) : c \in Codes} \cup
  {Simple, Stating(Of("report"), TopCode), Of("assign"), Of("foreign"),
   [Simple EXCEPT !.unsafe = TRUE],
   [Simple EXCEPT !.forbidden = TRUE, !.plain = TRUE],
   [Of("foreign") EXCEPT !.template = TRUE]}

Odd ==
  {Of("blank"), Stating(Of("comment"), 0), Stating(Of("output"), TopCode),
   [Of("empty") EXCEPT !.prompt = TRUE], Of("report"),
   Of("export"), [Of("export") EXCEPT !.unsafe = TRUE],
   Stating(Of("assign"), 0), [Of("assign") EXCEPT !.unsafe = TRUE],
   Stating(Of("mixed"), TopCode), Stating(Of("foreign"), 0),
   [Of("comment") EXCEPT !.prompt = TRUE],
   [Of("report") EXCEPT !.code = TopCode, !.arrow = TRUE],
   [Simple EXCEPT !.forbidden = TRUE],
   [Simple EXCEPT !.whole = FALSE], [Simple EXCEPT !.cont = TRUE],
   [Of("foreign") EXCEPT !.cont = TRUE], [Simple EXCEPT !.template = TRUE],
   [Of("foreign") EXCEPT !.template = TRUE, !.prompt = TRUE],
   [Of("foreign") EXCEPT !.template = TRUE, !.code = 0],
   [Of("assign") EXCEPT !.forbidden = TRUE],
   [Simple EXCEPT !.unsafe = TRUE, !.code = 0]}

Blocks(rows, len) == UNION {[1..k -> rows] : k \in 1..len}

FewOdd(b) == Cardinality({i \in DOMAIN b : b[i] \in Odd}) <= 2

MCDocuments ==
  {<<b>> : b \in Blocks(Core, MaxRows) \cup {c \in Blocks(Core \cup Odd, MaxOdd) : FewOdd(c)}}
    \cup {<<b, c>> : b, c \in Blocks(Core, MaxPair)}

=============================================================================
