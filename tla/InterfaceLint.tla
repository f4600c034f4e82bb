------------------------------ MODULE InterfaceLint ------------------------------
(***************************************************************************)
(* skills/comment-as-spec/scripts/interface-comment-lint.py: every name a  *)
(* Python module exports, and every public attribute of an exported class, *)
(* carries a comment its callers can use.  A module is the sequence of its *)
(* statements, each in the body `at` where it binds a name: the module's   *)
(* or a class's.  `maybe` marks a statement in a branch that may not run.  *)
(***************************************************************************)
EXTENDS Naturals, Sequences, SequencesExt, FiniteSets

CONSTANTS Symbols,    \* the names modules bind
          Hidden,     \* those that begin with an underscore
          Bodies      \* the bodies of classes

Scopes == {"module"} \cup Bodies

\* `doc` is the set of words of a comment: names of symbols, "more" for what no name
\* says, "leak" for a phrase of the leak vocabulary.
Statement ==
  [is : {"def"}, at : Scopes, name : Symbols, doc : SUBSET (Symbols \cup {"more", "leak"}), maybe : BOOLEAN]
    \cup [is : {"class"}, at : Scopes, name : Symbols, doc : SUBSET (Symbols \cup {"more", "leak"}),
          maybe : BOOLEAN, body : Bodies, bases : Seq(Symbols)]
    \cup [is : {"alias"}, at : Scopes, name : Symbols, of : Symbols, maybe : BOOLEAN]
    \cup [is : {"other"}, at : Scopes, name : Symbols, maybe : BOOLEAN]
    \cup [is : {"all"}, how : {"=", "+=", "irreducible"}, names : Seq(Symbols)]

Public == Symbols \ Hidden
IsDef(s) == s.is \in {"def", "class"}
Declarations(ls) == SelectSeq(ls, LAMBDA s : s.is = "all")

\* `judge`: a comment that is there, names nothing private and says more than the name.
Usable(doc, name) == doc # {} /\ "leak" \notin doc /\ ~(doc \subseteq {name})

\* `collect_bindings`: every statement that binds the name in the body, branch or not.
Chain(ls, at, n) ==
  SelectSeq([i \in 1..Len(ls) |-> i],
            LAMBDA i : ls[i].is # "all" /\ ls[i].at = at /\ ls[i].name = n)

FirstOf(a, b) == IF a # <<>> THEN a ELSE b

\* A body's names hide the same names of the scope around it.
Scope(ls, outer, at) == [n \in Symbols |-> FirstOf(Chain(ls, at, n), outer[n])]
ModuleScope(ls) == [n \in Symbols |-> Chain(ls, "module", n)]

\* Mutant of Resolve: the last binding of a name decides what it stands for.
ResolveLast(ls, n, scope) ==
  LET walk[m \in Symbols, left \in SUBSET Symbols] ==
        IF m \notin left \/ scope[m] = <<>> THEN <<>>
        ELSE IF IsDef(ls[Last(scope[m])]) THEN <<Last(scope[m])>>
        ELSE IF ls[Last(scope[m])].is = "alias" THEN walk[ls[Last(scope[m])].of, left \ {m}]
        ELSE <<>>
  IN  walk[n, Symbols]

\* `resolve`: every definition the name can hold, all aliases followed.
Resolve(ls, n, scope) ==
  LET walk[queue \in Seq(Symbols), seen \in SUBSET Symbols] ==
        IF queue = <<>> THEN <<>>
        ELSE IF Head(queue) \in seen THEN walk[Tail(queue), seen]
        ELSE LET chain == scope[Head(queue)]
                 aliases == SelectSeq(chain, LAMBDA i : ls[i].is = "alias")
             IN  SelectSeq(chain, LAMBDA i : IsDef(ls[i]))
                   \o walk[Tail(queue) \o [k \in 1..Len(aliases) |-> ls[aliases[k]].of],
                           seen \cup {Head(queue)}]
  IN  walk[<<n>>, {}]

\* `public_members`: what the body of class i binds n to, if it binds it.
MemberDefs(ls, i, n, outer) ==
  IF n \in Hidden \/ Chain(ls, ls[i].body, n) = <<>> THEN <<>>
  ELSE Resolve(ls, n, Scope(ls, outer, ls[i].body))

\* Mutant of InheritedDefs: only the bases themselves are asked.
InheritedFromParents(ls, c, n, outer, seen) ==
  FoldLeft(LAMBDA found, b : IF ls[b].is = "class" THEN FirstOf(found, MemberDefs(ls, b, n, outer)) ELSE found,
           <<>>, FlattenSeq([k \in 1..Len(ls[c].bases) |-> Resolve(ls, ls[c].bases[k], outer)]))

\* `inherited_members`: the definitions of n in the first base that has it, each base
\* before its own bases and no class twice on the way up.
InheritedDefs(ls, c, n, outer, seen) ==
  LET up[i \in 1..Len(ls), open \in SUBSET (1..Len(ls))] ==
        FoldLeft(LAMBDA found, b :
                   IF found # <<>> \/ ls[b].is # "class" \/ b \in open THEN found
                   ELSE FirstOf(MemberDefs(ls, b, n, outer), up[b, open \cup {b}]),
                 <<>>, FlattenSeq([k \in 1..Len(ls[i].bases) |-> Resolve(ls, ls[i].bases[k], outer)]))
  IN  up[c, seen]

\* `judge_tree`: the definitions judged for an exported name and below it, each with
\* the dotted name it is judged under; an inherited name judged before is left out.
Judged(ls, name) ==
  LET tree[i \in 1..Len(ls), q \in Seq(Symbols), outer \in [Symbols -> Seq(Nat)],
           open \in SUBSET (1..Len(ls)), done \in SUBSET (Seq(Symbols) \X Nat)] ==
        LET inherited(n) == IF \E j \in done : j[1] = Append(q, n) THEN <<>>
                            ELSE InheritedDefs(ls, i, n, outer, open \cup {i})
            all(n, scope) ==
              FoldLeft(LAMBDA acc, d : acc \cup tree[d, Append(q, n), scope, open \cup {i}, acc],
                       done, FirstOf(MemberDefs(ls, i, n, outer), inherited(n)))
        IN  {<<q, i>>} \cup (IF ls[i].is = "def" \/ i \in open THEN {}
                             ELSE UNION {all(n, Scope(ls, outer, ls[i].body)) : n \in Public})
  IN  FoldLeft(LAMBDA acc, d : acc \cup tree[d, <<name>>, ModuleScope(ls), {}, acc],
               {}, Resolve(ls, name, ModuleScope(ls)))

\* `declared_all`: "=" begins the list again, "+=" extends it.
DeclaredNames(ls) ==
  FoldLeft(LAMBDA names, s : (IF s.how = "=" THEN {} ELSE names) \cup ToSet(s.names), {}, Declarations(ls))

\* `check_file`: the names __all__ declares or, without one, every public name that is
\* bound to a definition or an alias somewhere.
Surface(ls) ==
  IF Declarations(ls) # <<>> THEN DeclaredNames(ls)
  ELSE {n \in Public : \E i \in ToSet(ModuleScope(ls)[n]) : IsDef(ls[i]) \/ ls[i].is = "alias"}

\* `account`: a name that reaches no definition is a finding of its own.
Finding(ls, n) ==
  \/ Resolve(ls, n, ModuleScope(ls)) = <<>>
  \/ \E j \in Judged(ls, n) : ~Usable(ls[j[2]].doc, Last(j[1]))

\* `main`
Exit(ls, readable) ==
  IF ~readable \/ (\E s \in ToSet(Declarations(ls)) : s.how = "irreducible") \/ Surface(ls) = {} THEN 2
  ELSE IF \E n \in Surface(ls) : Finding(ls, n) THEN 1 ELSE 0

-----------------------------------------------------------------------------
(* What a caller sees once the module is imported and the statements `ran` of its
   branches were executed. An object is the path of the statements that made it,
   through the bodies of classes; <<0>> is an object that is no definition. *)

Nothing == <<>>
Foreign == <<0>>
BodyOf(ls, p) == IF p = <<>> THEN "module" ELSE ls[Last(p)].body
End(ls) == Len(ls) + 1

\* The statement that bound n last in a body before statement k; 0: none did.
LastBinding(ls, ran, at, n, k) ==
  LET bound == SelectSeq(Chain(ls, at, n), LAMBDA i : i < k /\ (ls[i].maybe => i \in ran))
  IN  IF bound = <<>> THEN 0 ELSE Last(bound)

\* What a name holds before statement k of the body of p. A class's body sees its own
\* names and the module's, never those of a class around it.
Holds(ls, ran, path, name, at) ==
  LET holds[p \in Seq(Nat), n \in Symbols, k \in Nat] ==
        LET i == LastBinding(ls, ran, BodyOf(ls, p), n, k)
        IN  IF i = 0 THEN IF p = <<>> THEN Nothing ELSE holds[<<>>, n, p[1]]
            ELSE IF IsDef(ls[i]) THEN Append(p, i)
            ELSE IF ls[i].is = "alias" THEN holds[p, ls[i].of, i] ELSE Foreign
  IN  holds[path, name, at]

Bases(ls, ran, c) ==
  [k \in 1..Len(ls[Last(c)].bases) |-> Holds(ls, ran, Front(c), ls[Last(c)].bases[k], Last(c))]

\* The attribute of a class: its own or, in the order of its bases, an inherited one.
Attribute(ls, ran, class, n) ==
  LET attr[c \in Seq(Nat)] ==
        IF LastBinding(ls, ran, BodyOf(ls, c), n, End(ls)) # 0 THEN Holds(ls, ran, c, n, End(ls))
        ELSE FoldLeft(LAMBDA found, b : FirstOf(found, attr[b]), Nothing, Bases(ls, ran, c))
  IN  attr[class]

IsObject(o) == o \notin {Nothing, Foreign}
IsClass(ls, o) == IsObject(o) /\ ls[Last(o)].is = "class"

\* The classes that are created, wherever they stand.
Created(ls, ran) ==
  LET classes == {i \in 1..Len(ls) : ls[i].is = "class" /\ (ls[i].maybe => i \in ran)}
  IN  {p \in UNION {[1..d -> classes] : d \in 0..Cardinality(Bodies)} :
         \A k \in 1..Len(p) : ls[p[k]].at = BodyOf(ls, SubSeq(p, 1, k - 1))}

\* No statement that runs raises: aliases name something, bases are classes, and
\* __all__ exists before it is extended.
Imports(ls, ran) ==
  /\ \A p \in Created(ls, ran) : \A i \in 1..Len(ls) :
       ls[i].is # "all" /\ ls[i].at = BodyOf(ls, p) /\ (ls[i].maybe => i \in ran) =>
         /\ ls[i].is = "alias" => Holds(ls, ran, p, ls[i].of, i) # Nothing
         /\ ls[i].is = "class" => \A k \in 1..Len(ls[i].bases) :
                                    IsClass(ls, Holds(ls, ran, p, ls[i].bases[k], i))
  /\ Declarations(ls) # <<>> => Head(Declarations(ls)).how = "="

\* Every definition a caller reaches from the name by attributes explains itself.
Explained(ls, ran, name) ==
  LET fine[o \in Seq(Nat), n \in Symbols] ==
        IsObject(o) => /\ Usable(ls[Last(o)].doc, n)
                       /\ IsClass(ls, o) => \A m \in Public : fine[Attribute(ls, ran, o, m), m]
  IN  fine[Holds(ls, ran, <<>>, name, End(ls)), name]

Exported(ls) == IF Declarations(ls) = <<>> THEN Public ELSE DeclaredNames(ls)
Branches(ls) == {i \in 1..Len(ls) : ls[i].is # "all" /\ ls[i].maybe}
ExplainedWhateverRuns(ls) ==
  \A ran \in SUBSET Branches(ls) : Imports(ls, ran) => \A n \in Exported(ls) : Explained(ls, ran, n)

Inherits(ls) == \E i \in 1..Len(ls) : ls[i].is = "class" /\ ls[i].bases # <<>>

\* What static reading does not follow: a name in a class's body that refers to one of
\* two scopes and, where classes inherit, names bound twice, members in branches
\* and an ancestor reached on two ways.
BoundOnce(ls) == \A n \in Symbols, at \in Scopes : Len(Chain(ls, at, n)) <= 1
Followed(ls) ==
  LET classes == {i \in 1..Len(ls) : ls[i].is = "class"}
      referred == {ls[i].of : i \in {j \in 1..Len(ls) : ls[j].is = "alias" /\ ls[j].at # "module"}}
                    \cup UNION {ToSet(ls[i].bases) : i \in classes}
      ancestors[i \in classes] ==
        UNION {{j} \cup ancestors[j] : j \in {k \in classes : k < i /\ ls[k].name \in ToSet(ls[i].bases)}}
  IN  /\ \A n \in referred : Cardinality({at \in Scopes : Chain(ls, at, n) # <<>>}) <= 1
      /\ \A i, j \in classes : i # j => ls[i].body # ls[j].body
      /\ (\E i \in classes : ls[i].bases # <<>>) =>
           /\ BoundOnce(ls)
           /\ \A i \in Branches(ls) : ls[i].at = "module"
           /\ \A i \in classes : Cardinality(ToSet(ls[i].bases)) = Len(ls[i].bases)
           /\ \A i \in classes : \A j, k \in classes :
                j < k /\ {ls[j].name, ls[k].name} \subseteq ToSet(ls[i].bases) =>
                  ({j} \cup ancestors[j]) \cap ({k} \cup ancestors[k]) = {}

\* A module without findings explains everything a caller can reach, whichever
\* branches ran. One that runs straight through is refused for nothing else, but for
\* an inherited definition behind an attribute that is none.
ReadsWhatCallersSee(ls, exit) ==
  /\ exit = 0 /\ Followed(ls) => ExplainedWhateverRuns(ls)
  /\ exit = 1 /\ Branches(ls) = {} /\ BoundOnce(ls) /\ Imports(ls, {}) /\ Followed(ls) =>
       \/ \E n \in Surface(ls) : ~IsObject(Holds(ls, {}, <<>>, n, End(ls)))
       \/ \E i, c \in 1..Len(ls) :
            /\ ls[c].is = "class" /\ ls[c].bases # <<>>
            /\ ls[i].is \in {"other", "alias"} /\ ls[i].at # "module"
       \/ ~ExplainedWhateverRuns(ls)

=============================================================================
