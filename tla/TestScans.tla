------------------------------- MODULE TestScans -------------------------------
(* Two gates over a file of tests: what the tests are called and what they
   assert. *)
EXTENDS Naturals, FiniteSets, Sequences

CONSTANTS Bindable, Classes
CONSTANTS Locals

(***************************************************************************)
(* skills/tests-as-spec/scripts/test-name-lint.py: every test a file binds *)
(* states a behaviour and none is shadowed by a later one.                 *)
(***************************************************************************)
\* A binding of a name: by its own `def` or by a statement's header (assignment,
\* walrus, for target, with, import, except, match capture), or declared global.
\* The blocks it stands in, from the outside: a compound statement, a class, a def.
Block == [is : {"compound", "def"}] \cup [is : {"class"}, name : Classes]
TestsLine == [is : {"binds", "global"}, name : Bindable, blocks : Seq(Block)]
          \cup [is : {"broken"}]

\* Mutant of Walked: only the statements directly in a module or a class are met.
WalkedTop(blocks) == \A i \in 1..Len(blocks) : blocks[i].is = "class"

\* `walk` goes into compound statements and classes and not into a def.
Walked(blocks) == \A i \in 1..Len(blocks) : blocks[i].is # "def"

\* The innermost class is the scope, "" the module.
Scope(blocks) ==
  LET at == {i \in 1..Len(blocks) : blocks[i].is = "class"}
  IN  IF at = {} THEN "" ELSE blocks[CHOOSE i \in at : \A j \in at : j <= i].name

\* A def that `walk` meets is searched for global declarations, however deep; with
\* several defs around one, the outermost is the one it meets.
GlobalIsSeen(blocks) ==
  \E i \in 1..Len(blocks) : blocks[i].is = "def" /\ Walked(SubSeq(blocks, 1, i - 1))

\* `collect_tests`: what a name is here is a record of its text's traits; test:
\* it begins with `test`.  A declared global counts once, and only if the module
\* binds no such name itself.
Found(lines) ==
  {i \in 1..Len(lines) :
     lines[i].is = "binds" /\ lines[i].name.test /\ Walked(lines[i].blocks)}

Declared(lines) ==
  {lines[i].name : i \in {j \in 1..Len(lines) :
     lines[j].is = "global" /\ lines[j].name.test /\ GlobalIsSeen(lines[j].blocks)}}
    \ {lines[i].name : i \in {j \in Found(lines) : Scope(lines[j].blocks) = ""}}

\* The first ground of four on which a name is unreadable.
Unreadable(name, min) ==
  name.stray \/ name.words < min \/ name.filler \/ name.mirrors

TestsExit(lines, min) ==
  LET found == Found(lines)
      key(i) == <<Scope(lines[i].blocks), lines[i].name>>
  IN  IF min < 1 \/ \E i \in 1..Len(lines) : lines[i].is = "broken" THEN 2
      ELSE IF \/ found = {} /\ Declared(lines) = {}
              \/ \E i, j \in found : i # j /\ key(i) = key(j)
              \/ \E i \in found : Unreadable(lines[i].name, min)
              \/ \E name \in Declared(lines) : Unreadable(name, min)
           THEN 1 ELSE 0

-----------------------------------------------------------------------------
\* What pytest can collect once the file ran: a name is bound in the namespace of
\* the module or of a class unless it is local to a function, and a global
\* declaration inside a function binds it in the module.
Collectable(lines) ==
  LET tests(is) == {i \in 1..Len(lines) : lines[i].is = is /\ lines[i].name.test}
      local(i) == \E j \in 1..Len(lines[i].blocks) : lines[i].blocks[j].is = "def"
  IN  {<<Scope(lines[i].blocks), lines[i].name>> : i \in {j \in tests("binds") : ~local(j)}}
        \cup {<<"", lines[i].name>> : i \in {j \in tests("global") : local(j)}}

\* Every test that is collected reads as a sentence.
ReadsAsSpec(lines, min) ==
  /\ Collectable(lines) # {}
  /\ \A t \in Collectable(lines) :
       ~t[2].stray /\ t[2].words >= min /\ ~t[2].filler /\ ~t[2].mirrors

\* No test is lost: what is bound can be collected, each under a name of its own.
NoneShadowed(lines) ==
  LET bound == {i \in 1..Len(lines) :
        lines[i].is = "binds" /\ lines[i].name.test
          /\ ~\E j \in 1..Len(lines[i].blocks) : lines[i].blocks[j].is = "def"}
  IN  \A i, j \in bound :
        i # j => <<Scope(lines[i].blocks), lines[i].name>> # <<Scope(lines[j].blocks), lines[j].name>>

-----------------------------------------------------------------------------
(***************************************************************************)
(* skills/coverage-gaming-audit/scripts/assertless-scan.py: no test runs   *)
(* code without asserting on what it did.  The lines are the statements of *)
(* one test function and the entries that stand around it.                 *)
(***************************************************************************)
\* An expression by what it is built from: a literal true or false, an observation
\* of a double, a value of the code under test (an attribute), a call of it, a name.
Value ==
  [is : {"true", "false", "observed", "real", "call"}] \cup [is : {"name"}, name : Locals]

\* nested: in a function inside the test.  A handler is a broad one or another, and
\* its body may raise, assert on an expression, call a declared helper or do none.
AssertlessLine ==
  [is : {"binds"}, name : Locals, value : Value, where : {"test", "module"}]
    \cup [is : {"rebinds"}, name : Locals]        \* for, with, augmented assignment
    \cup [is : {"asserts"}, values : SUBSET Value, nested : BOOLEAN]
    \cup [is : {"handler"}, broad : BOOLEAN, body : {"raise", "helper", "pass"}]
    \cup [is : {"handler"}, broad : BOOLEAN, body : {"assert"}, value : Value]
    \cup [is : {"suppress"}, broad : BOOLEAN]
    \cup [is : {"raises", "helper", "mock assert"}] \cup [is : {"broken"}]

Literals == {"true", "false"}

\* The names a statement reads.
Mentioned(line) ==
  LET values == CASE line.is = "asserts" -> line.values
                  [] line.is = "binds" -> {line.value}
                  [] line.is = "handler" /\ line.body = "assert" -> {line.value}
                  [] OTHER -> {}
  IN  {v.name : v \in {u \in values : u.is = "name"}}

\* The values a name is bound to in the test; "rebound" for one that is no
\* expression.
Bound(lines, name) ==
  {lines[i].value : i \in {j \in 1..Len(lines) :
     lines[j].is = "binds" /\ lines[j].where = "test" /\ lines[j].name = name}}
  \cup {[is |-> "rebound"] : i \in {j \in 1..Len(lines) :
     lines[j].is = "rebinds" /\ lines[j].name = name}}

AtModule(lines, name) ==
  {lines[i].value : i \in {j \in 1..Len(lines) :
     lines[j].is = "binds" /\ lines[j].where = "module" /\ lines[j].name = name}}

OnlyLiterals(values) == values # {} /\ \A v \in values : v.is \in Literals

\* `constant_bindings`: what is bound in the test hides what the module binds.
Constant(lines, name) ==
  \/ OnlyLiterals(Bound(lines, name))
  \/ Bound(lines, name) = {} /\ OnlyLiterals(AtModule(lines, name))

\* The literal a constant name stands for: its first binding's, since `own_scope`
\* goes through the statements from the last one.
Literal(lines, name) ==
  LET where == IF Bound(lines, name) = {} THEN "module" ELSE "test"
      at == {j \in 1..Len(lines) :
               lines[j].is = "binds" /\ lines[j].where = where /\ lines[j].name = name}
  IN  lines[CHOOSE j \in at : \A k \in at : j <= k].value.is

\* `hoisted_mock_tips`: the name, and all it is bound to, only ever observed.
Observes(lines, value) ==
  LET looks[q \in Value \X SUBSET Locals] ==
        LET v == q[1]
            seen == q[2]
        IN  \/ v.is = "observed"
            \/ /\ v.is = "name" /\ v.name \notin seen /\ Bound(lines, v.name) # {}
               /\ \A u \in Bound(lines, v.name) :
                    u.is # "rebound" /\ looks[<<u, seen \cup {v.name}>>]
  IN  looks[<<value, {}>>]

\* Mutant of Tips: a name counts as looked at whatever it is bound to.
TipsOfNames(lines, values) == {v \in values : v.is \notin Literals \cup {"call"}}

\* `observation_tips`: what of an expression counts as looked at.  A literal does
\* not, nor a call, whose arguments alone do.
Tips(lines, values) ==
  {v \in values :
     /\ v.is \notin Literals \cup {"call"}
     /\ v.is = "name" => Observes(lines, v) \/ ~Constant(lines, v.name)}

MockOnly(lines, values) ==
  LET tips == Tips(lines, values)
  IN  tips # {} /\ \A v \in tips : Observes(lines, v)

\* `can_propagate`: an assertion that is always true cannot fail.
CanPropagate(lines, handler) ==
  CASE handler.body \in {"raise", "helper"} -> TRUE
    [] handler.body = "pass" -> FALSE
    [] handler.body = "assert" ->
         ~\/ handler.value.is = "true"
          \/ /\ handler.value.is = "name" /\ Constant(lines, handler.value.name)
             /\ Literal(lines, handler.value.name) = "true"

\* `classify`
Real(lines) ==
  {i \in 1..Len(lines) :
     \/ lines[i].is \in {"raises", "helper"}
     \/ lines[i].is = "asserts" /\ ~lines[i].nested /\ ~MockOnly(lines, lines[i].values)}

Swallowed(lines) ==
  \E i \in 1..Len(lines) :
    \/ lines[i].is = "suppress" /\ lines[i].broad
    \/ lines[i].is = "handler" /\ lines[i].broad /\ ~CanPropagate(lines, lines[i])

\* found: the file holds the test at all.
AssertlessExit(found, lines) ==
  IF \E i \in 1..Len(lines) : lines[i].is = "broken" THEN 2
  ELSE IF ~found THEN 3
  ELSE IF Real(lines) = {} \/ Swallowed(lines) THEN 1 ELSE 0

=============================================================================
