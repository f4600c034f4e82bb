---------------------------- MODULE CodeGates_proofs ----------------------------
(***************************************************************************)
(* For every tree, graph and history of edits: what the gates over code    *)
(* find in single lines holds of whole walks, paths and chains.            *)
(***************************************************************************)
EXTENDS CodeGates, SequenceTheorems, FiniteSetTheorems, WellFoundedInduction, TLAPS

-----------------------------------------------------------------------------
(* Rounds: what is computed step by step, a bounded number of times. *)

\* A nonempty set of naturals has a least member.
LEMMA LeastNatural ==
  ASSUME NEW T, T \subseteq Nat, T # {}
  PROVE  \E x \in T : \A y \in T : x <= y
<1> DEFINE Below == {1..x : x \in T}
<1>1. Below \subseteq FiniteSubsetsOf(Nat) /\ Below # {}
  <2>1. ASSUME NEW x \in T
        PROVE  1..x \in FiniteSubsetsOf(Nat)
    <3>1. 1..x \subseteq Nat /\ x \in Int /\ 1 \in Int
      OBVIOUS
    <3>2. IsFiniteSet(1..x)
      BY <3>1, FS_Interval
    <3> QED
      BY <3>1, <3>2 DEF FiniteSubsetsOf
  <2> QED
    BY <2>1
<1>2. IsWellFoundedOn(StrictSubsetOrdering(Nat), FiniteSubsetsOf(Nat))
  BY FS_StrictSubsetOrderingWellFounded
<1>3. PICK I \in Below : \A J \in Below : ~(<<J, I>> \in StrictSubsetOrdering(Nat))
  BY <1>1, <1>2, WFMin
<1>4. PICK x \in T : I = 1..x
  OBVIOUS
<1>5. ASSUME NEW y \in T, ~(x <= y)
      PROVE  FALSE
  <2>1. 1..y \in Below /\ 1..y \in SUBSET Nat /\ 1..x \in SUBSET Nat
    OBVIOUS
  <2>2. 1..y \subseteq 1..x /\ x \in 1..x /\ x \notin 1..y
    BY <1>5
  <2>3. <<1..y, 1..x>> \in StrictSubsetOrdering(Nat)
    BY <2>1, <2>2 DEF StrictSubsetOrdering
  <2> QED
    BY <1>3, <1>4, <2>1, <2>3
<1> QED
  BY <1>5

\* What holds before the first round and is kept by each holds after all of them.
LEMMA EveryRound ==
  ASSUME NEW N \in Nat, NEW S, 0 \in S, \A k \in 1..N : k - 1 \in S => k \in S
  PROVE  0..N \subseteq S
<1> DEFINE T == (0..N) \ S
<1>1. SUFFICES ASSUME T # {} PROVE FALSE
  OBVIOUS
<1>2. PICK k \in T : \A j \in T : k <= j
  <2>1. T \subseteq Nat
    OBVIOUS
  <2> QED
    BY <1>1, <2>1, LeastNatural, Zenon
<1>3. k \in 1..N /\ k \notin S
  BY <1>2
<1> QED
  BY <1>2, <1>3

\* What holds of a member if it holds of all with a smaller measure holds of all.
LEMMA ByMeasure ==
  ASSUME NEW D, NEW m \in [D -> Nat], NEW T,
         \A d \in D : (\A e \in D : m[e] < m[d] => e \in T) => d \in T
  PROVE  \A d \in D : d \in T
<1> DEFINE Missed == {m[d] : d \in D \ T}
<1>1. SUFFICES ASSUME D \ T # {} PROVE FALSE
  OBVIOUS
<1>2. Missed \subseteq Nat /\ Missed # {}
  BY <1>1
<1>3. PICK x \in Missed : \A y \in Missed : x <= y
  <2> HIDE DEF Missed
  <2> QED
    BY <1>2, LeastNatural, Zenon
<1>4. PICK d \in D \ T : x = m[d]
  OBVIOUS
<1>5. ASSUME NEW e \in D, m[e] < m[d]
      PROVE  e \in T
  <2>1. ~(x <= m[e])
    BY <1>4, <1>5
  <2> QED
    BY <1>3, <2>1
<1> QED
  BY <1>4, <1>5

\* H makes values in V, for each member of D from those of members with a smaller measure.
GoesBack(H, D, V, m) ==
  /\ m \in [D -> Nat] /\ V # {} /\ H \in [[D -> V] -> [D -> V]]
  /\ \A f, g \in [D -> V], d \in D :
       (\A e \in D : m[e] < m[d] => f[e] = g[e]) => H[f][d] = H[g][d]

Solves(f, H, D, V) == f \in [D -> V] /\ f = H[f]

\* A definition that goes back only to smaller members defines a function.
LEMMA Recursion ==
  ASSUME NEW D, NEW V, NEW m, NEW H, GoesBack(H, D, V, m)
  PROVE  \E f : Solves(f, H, D, V)
<1> USE DEF GoesBack
<1> DEFINE S == [D -> V]
           Good(f, n) == f \in S /\ \A d \in D : m[d] < n => f[d] = H[f][d]
           Some(n) == CHOOSE f : Good(f, n)
           F == [d \in D |-> Some(m[d] + 1)[d]]
<1>1. ASSUME NEW n \in Nat
      PROVE  \E f : Good(f, n)
  <2> DEFINE K == {k \in 0..n : \E f : Good(f, k)}
  <2>1. 0 \in K
    <3>1. PICK v \in V : TRUE
      OBVIOUS
    <3> DEFINE f == [d \in D |-> v]
    <3>2. f \in S /\ 0 \in 0..n
      OBVIOUS
    <3>3. \A d \in D : ~(m[d] < 0)
      OBVIOUS
    <3> HIDE DEF f, S
    <3> QED
      BY <3>2, <3>3
  <2>2. ASSUME NEW k \in 1..n, k - 1 \in K
        PROVE  k \in K
    <3>1. PICK f : Good(f, k - 1)
      BY <2>2
    <3> DEFINE g == H[f]
    <3>2. f \in S /\ g \in S
      BY <3>1
    <3>3. ASSUME NEW d \in D, m[d] < k
          PROVE  g[d] = H[g][d]
      <4>1. ASSUME NEW e \in D, m[e] < m[d]
            PROVE  f[e] = g[e]
        <5>1. m[e] < k - 1
          BY <3>3, <4>1
        <5> QED
          BY <3>1, <5>1
      <4> HIDE DEF g
      <4>2. H[f][d] = H[g][d]
        BY <3>2, <4>1
      <4> QED
        BY <4>2 DEF g
    <3> HIDE DEF g, S
    <3>4. Good(g, k)
      BY <3>2, <3>3
    <3> HIDE DEF Good
    <3> QED
      BY <3>4
  <2> HIDE DEF K
  <2>3. 0..n \subseteq K
    BY <2>1, <2>2, EveryRound
  <2>4. n \in K
    BY <2>3
  <2> HIDE DEF Good
  <2> QED
    BY <2>4 DEF K
<1>2. ASSUME NEW n \in Nat
      PROVE  Good(Some(n), n)
  <2> HIDE DEF Good
  <2> QED
    BY <1>1
<1>3. ASSUME NEW f, NEW g, NEW n \in Nat, NEW k \in Nat, Good(f, n), Good(g, k)
      PROVE  \A d \in D : m[d] < n /\ m[d] < k => f[d] = g[d]
  <2> DEFINE T == {d \in D : m[d] < n /\ m[d] < k => f[d] = g[d]}
  <2>1. ASSUME NEW d \in D, \A e \in D : m[e] < m[d] => e \in T
        PROVE  d \in T
    <3>1. SUFFICES ASSUME m[d] < n, m[d] < k PROVE f[d] = g[d]
      OBVIOUS
    <3>2. \A e \in D : m[e] < m[d] => m[e] < n /\ m[e] < k
      BY <3>1
    <3>3. \A e \in D : m[e] < m[d] => f[e] = g[e]
      BY <2>1, <3>2
    <3>4. H[f][d] = H[g][d]
      BY <1>3, <3>3
    <3> QED
      BY <1>3, <3>1, <3>4
  <2>2. \A d \in D : d \in T
    <3> HIDE DEF T
    <3> QED
      BY <2>1, ByMeasure
  <2> QED
    BY <2>2
<1> HIDE DEF Some, Good, S
<1>4. ASSUME NEW d \in D
      PROVE  F[d] \in V /\ Some(m[d] + 1) \in S /\ F[d] = Some(m[d] + 1)[d]
             /\ Some(m[d] + 1)[d] = H[Some(m[d] + 1)][d]
  <2>1. m[d] + 1 \in Nat /\ m[d] < m[d] + 1
    OBVIOUS
  <2>2. Good(Some(m[d] + 1), m[d] + 1)
    BY <1>2, <2>1
  <2> QED
    BY <2>1, <2>2 DEF Good, S
<1>5. F \in S
  BY <1>4 DEF S
<1>6. ASSUME NEW d \in D
      PROVE  F[d] = H[F][d]
  <2> DEFINE f == Some(m[d] + 1)
  <2>1. ASSUME NEW e \in D, m[e] < m[d]
        PROVE  f[e] = F[e]
    <3>1. /\ m[d] + 1 \in Nat /\ m[e] + 1 \in Nat /\ m[e] < m[d] + 1 /\ m[e] < m[e] + 1
      BY <2>1
    <3>2. Good(Some(m[d] + 1), m[d] + 1) /\ Good(Some(m[e] + 1), m[e] + 1)
      BY <1>2, <3>1
    <3>3. Some(m[d] + 1)[e] = Some(m[e] + 1)[e]
      BY <1>3, <3>1, <3>2
    <3> QED
      BY <3>3
  <2> HIDE DEF f, F
  <2>2. f \in S
    BY <1>4 DEF f
  <2>3. H[f][d] = H[F][d]
    BY <1>5, <2>1, <2>2 DEF S
  <2> QED
    BY <1>4, <2>3 DEF f
<1>7. H[F] \in S
  <2> HIDE DEF F
  <2> QED
    BY <1>5 DEF S
<1>8. F = H[F]
  <2> HIDE DEF F
  <2> QED
    BY <1>5, <1>6, <1>7 DEF S
<1> HIDE DEF F
<1> QED
  BY <1>5, <1>8 DEF S, Solves

\* f is the course of N rounds from x by G, from the number of the round and the
\* result of the one before.
Course(f, N, S, x, G) ==
  /\ f \in [0..N -> S]
  /\ f[0] = x
  /\ \A k \in 1..N : f[k] = G[<<k, f[k - 1]>>]

\* Rounds can be made.
LEMMA Rounds ==
  ASSUME NEW N \in Nat, NEW S, NEW x \in S, NEW G \in [(1..N) \X S -> S]
  PROVE  \E f : Course(f, N, S, x, G)
<1> DEFINE Made(f, n) == f[0] = x /\ \A k \in 1..n : f[k] = G[<<k, f[k - 1]>>]
           M == {n \in 0..N : \E f \in [0..n -> S] : Made(f, n)}
<1>1. 0 \in M
  <2> DEFINE g == [k \in 0..0 |-> x]
  <2>1. g \in [0..0 -> S] /\ g[0] = x /\ 1..0 = {}
    OBVIOUS
  <2>2. Made(g, 0)
    BY <2>1
  <2>3. 0 \in 0..N
    OBVIOUS
  <2> HIDE DEF g, Made
  <2> QED
    BY <2>1, <2>2, <2>3
<1>2. ASSUME NEW n \in 1..N, n - 1 \in M
      PROVE  n \in M
  <2>1. PICK f \in [0..(n - 1) -> S] : Made(f, n - 1)
    BY <1>2
  <2> DEFINE g == [k \in 0..n |-> IF k = n THEN G[<<n, f[n - 1]>>] ELSE f[k]]
  <2>2. f[n - 1] \in S /\ <<n, f[n - 1]>> \in (1..N) \X S
    BY <2>1
  <2>3. g \in [0..n -> S]
    BY <2>1, <2>2
  <2>4. ASSUME NEW k \in 1..n
        PROVE  g[k] = G[<<k, g[k - 1]>>]
    <3>1. k - 1 \in 0..(n - 1) /\ g[k - 1] = f[k - 1]
      OBVIOUS
    <3>2. k # n => k \in 1..(n - 1) /\ g[k] = f[k]
      OBVIOUS
    <3>3. CASE k = n
      <4>1. g[n] = G[<<n, f[n - 1]>>]
        OBVIOUS
      <4> HIDE DEF g
      <4> QED
        BY <3>1, <3>3, <4>1
    <3>4. CASE k # n
      BY <2>1, <3>1, <3>2, <3>4
    <3> QED
      BY <3>3, <3>4
  <2>5. g[0] = x
    BY <2>1
  <2> HIDE DEF g
  <2> QED
    BY <2>3, <2>4, <2>5
<1>3. 0..N \subseteq M
  <2> HIDE DEF M
  <2> QED
    BY <1>1, <1>2, EveryRound
<1>4. \E f \in [0..N -> S] : Made(f, N)
  BY <1>3
<1> QED
  BY <1>4 DEF Course

-----------------------------------------------------------------------------
(* The extract, its world and the answer. *)

\* An extract has finitely many rows of a kind.
LEMMA FinitelyMany ==
  ASSUME NEW T, NEW ls \in Seq(T), NEW kind
  PROVE  IsFiniteSet({ls[i] : i \in {j \in 1..Len(ls) : ls[j].of = kind}})
<1> DEFINE at == {j \in 1..Len(ls) : ls[j].of = kind}
           rows == {ls[i] : i \in at}
           line == [i \in at |-> ls[i]]
<1>1. IsFiniteSet(at)
  <2>1. at \in SUBSET (1..Len(ls)) /\ Len(ls) \in Int /\ 1 \in Int
    OBVIOUS
  <2>2. IsFiniteSet(1..Len(ls))
    BY <2>1, FS_Interval
  <2> HIDE DEF at
  <2> QED
    BY <2>1, <2>2, FS_Subset
<1>2. line \in Surjection(at, rows)
  BY DEF Surjection
<1> QED
  BY <1>1, <1>2, FS_Surjection

\* An extract stays one when a line is added or dropped.
LEMMA EditedLines ==
  ASSUME NEW S, NEW s \in Seq(S)
  PROVE  /\ \A i \in 1..(Len(s) + 1), e \in S : InsertAt(s, i, e) \in Seq(S)
         /\ \A i \in 1..Len(s) : RemoveAt(s, i) \in Seq(S)
<1>1. Len(s) \in Nat /\ \A i \in 1..Len(s) : s[i] \in S
  BY ElementOfSeq
<1>2. ASSUME NEW i \in 1..(Len(s) + 1)
      PROVE  SubSeq(s, 1, i - 1) \in Seq(S) /\ SubSeq(s, i, Len(s)) \in Seq(S)
  <2>1. i \in Int /\ i - 1 \in Int /\ Len(s) \in Int /\ \A j \in 1..(i - 1) : j \in 1..Len(s)
    BY <1>1
  <2>2. \A j \in i..Len(s) : s[j] \in S
    BY <1>1
  <2> QED
    BY <1>1, <2>1, <2>2, SubSeqProperties
<1>3. ASSUME NEW i \in 1..(Len(s) + 1), NEW e \in S
      PROVE  InsertAt(s, i, e) \in Seq(S)
  <2>1. <<e>> \in Seq(S)
    OBVIOUS
  <2> QED
    BY <1>2, <2>1, ConcatProperties DEF InsertAt
<1>4. ASSUME NEW i \in 1..Len(s)
      PROVE  RemoveAt(s, i) \in Seq(S)
  <2>1. i \in 1..(Len(s) + 1) /\ i + 1 \in 1..(Len(s) + 1)
    BY <1>1
  <2> QED
    BY <1>2, <2>1, ConcatProperties DEF RemoveAt
<1> QED
  BY <1>3, <1>4

\* A history read from its other end.
LEMMA Reversed ==
  ASSUME NEW S, NEW s \in Seq(S)
  PROVE  /\ Reverse(s) \in Seq(S) /\ Len(Reverse(s)) = Len(s)
         /\ \A i \in 1..Len(s) : Reverse(s)[i] = s[Len(s) - i + 1]
<1>1. Len(s) \in Nat /\ \A i \in 1..Len(s) : s[i] \in S /\ Len(s) - i + 1 \in 1..Len(s)
  BY ElementOfSeq
<1> QED
  BY <1>1 DEF Reverse

\* The lines of a test once a value an assertion is about has got a name.
Named(ls, i, n, v) ==
  <<[is |-> "binds", name |-> n, value |-> v, where |-> "test"]>>
    \o [ls EXCEPT ![i].values = (@ \ {v}) \cup {[is |-> "name", name |-> n]}]

\* What asserts is an assertion.
LEMMA AnAssertion ==
  ASSUME NEW ls \in Seq(Scans!AssertlessLine), NEW i \in 1..Len(ls), ls[i].is = "asserts"
  PROVE  ls[i] \in [is : {"asserts"}, values : SUBSET Scans!Value, nested : BOOLEAN]
<1>1. ls[i] \in Scans!AssertlessLine
  BY ElementOfSeq
<1> QED
  BY <1>1, Zenon DEF Scans!AssertlessLine

\* Only what it is about changes.
LEMMA AboutElse ==
  ASSUME NEW T, NEW line \in [is : {"asserts"}, values : T, nested : BOOLEAN], NEW values
  PROVE  [line EXCEPT !.values = values]
           = [is |-> "asserts", values |-> values, nested |-> line.nested]
  OBVIOUS

\* A line put before the others moves each by one.
LEMMA Preceded ==
  ASSUME NEW S, NEW s \in Seq(S), NEW e \in S
  PROVE  /\ <<e>> \o s \in Seq(S) /\ Len(<<e>> \o s) = Len(s) + 1 /\ (<<e>> \o s)[1] = e
         /\ \A j \in 1..Len(s) : (<<e>> \o s)[j + 1] = s[j]
<1>1. <<e>> \in Seq(S) /\ Len(<<e>>) = 1 /\ <<e>>[1] = e /\ Len(s) \in Nat
  OBVIOUS
<1>2. /\ <<e>> \o s \in Seq(S) /\ Len(<<e>> \o s) = 1 + Len(s)
      /\ \A j \in 1..(1 + Len(s)) : (<<e>> \o s)[j] = IF j <= 1 THEN <<e>>[j] ELSE s[j - 1]
  BY <1>1, ConcatProperties
<1>3. ASSUME NEW j \in 1..Len(s)
      PROVE  (<<e>> \o s)[j + 1] = s[j]
  <2>1. j + 1 \in 1..(1 + Len(s)) /\ ~(j + 1 <= 1) /\ (j + 1) - 1 = j
    BY <1>1
  <2> QED
    BY <1>2, <2>1
<1>4. 1 \in 1..(1 + Len(s)) /\ 1 + Len(s) = Len(s) + 1
  BY <1>1
<1> QED
  BY <1>1, <1>2, <1>3, <1>4

\* They are lines of a test again: the binding, and the others in their order.
LEMMA NamedLines ==
  ASSUME NEW ls \in Seq(Scans!AssertlessLine), NEW i \in 1..Len(ls), ls[i].is = "asserts",
         NEW n \in Locals, NEW v \in Scans!Value
  PROVE  /\ Named(ls, i, n, v) \in Seq(Scans!AssertlessLine) /\ Len(Named(ls, i, n, v)) = Len(ls) + 1
         /\ Named(ls, i, n, v)[1] = [is |-> "binds", name |-> n, value |-> v, where |-> "test"]
         /\ \A j \in 1..Len(ls) : j # i => Named(ls, i, n, v)[j + 1] = ls[j]
         /\ Named(ls, i, n, v)[i + 1]
              = [is |-> "asserts", values |-> (ls[i].values \ {v}) \cup {[is |-> "name", name |-> n]},
                 nested |-> ls[i].nested]
<1> DEFINE binding == [is |-> "binds", name |-> n, value |-> v, where |-> "test"]
           about == (ls[i].values \ {v}) \cup {[is |-> "name", name |-> n]}
           assertion == [is |-> "asserts", values |-> about, nested |-> ls[i].nested]
           then == [ls EXCEPT ![i] = assertion]
           new == Named(ls, i, n, v)
           N == Len(ls)
<1>1. N \in Nat /\ DOMAIN ls = 1..N
  BY ElementOfSeq
<1>2. binding \in Scans!AssertlessLine
  BY Zenon DEF Scans!AssertlessLine
<1>3. ls[i] \in [is : {"asserts"}, values : SUBSET Scans!Value, nested : BOOLEAN]
  BY AnAssertion
<1>4. [ls[i] EXCEPT !.values = about] = assertion
  <2> HIDE DEF about
  <2> QED
    BY <1>3, AboutElse
<1>5. assertion \in Scans!AssertlessLine
  <2>1. [is |-> "name", name |-> n] \in Scans!Value
    BY DEF Scans!Value
  <2>2. assertion \in [is : {"asserts"}, values : SUBSET Scans!Value, nested : BOOLEAN]
    BY <1>3, <2>1
  <2> HIDE DEF assertion
  <2> QED
    BY <2>2, Zenon DEF Scans!AssertlessLine
<1>6. [ls EXCEPT ![i].values = (@ \ {v}) \cup {[is |-> "name", name |-> n]}] = then
  <2>1. [ls EXCEPT ![i].values = (@ \ {v}) \cup {[is |-> "name", name |-> n]}]
          = [ls EXCEPT ![i] = [ls[i] EXCEPT !.values = about]]
    OBVIOUS
  <2> HIDE DEF assertion, about
  <2> QED
    BY <1>4, <2>1
<1>7. then \in Seq(Scans!AssertlessLine) /\ Len(then) = N /\ then[i] = assertion
      /\ \A j \in 1..N : j # i => then[j] = ls[j]
  <2> HIDE DEF assertion
  <2> QED
    BY <1>5, ExceptSeq
<1>8. new = <<binding>> \o then
  BY <1>6 DEF Named
<1>9. i \in 1..N
  OBVIOUS
<1> HIDE DEF binding, assertion, then, new, N
<1>10. /\ new \in Seq(Scans!AssertlessLine) /\ Len(new) = N + 1 /\ new[1] = binding
       /\ \A j \in 1..N : new[j + 1] = then[j]
  <2>1. /\ <<binding>> \o then \in Seq(Scans!AssertlessLine)
        /\ Len(<<binding>> \o then) = Len(then) + 1 /\ (<<binding>> \o then)[1] = binding
        /\ \A j \in 1..Len(then) : (<<binding>> \o then)[j + 1] = then[j]
    <3>1. then \in Seq(Scans!AssertlessLine)
      BY <1>7
    <3> QED
      BY <1>2, <3>1, Preceded
  <2>2. Len(then) = N
    BY <1>7
  <2> QED
    BY <1>8, <2>1, <2>2, Zenon
<1>11. new[i + 1] = assertion /\ \A j \in 1..N : j # i => new[j + 1] = ls[j]
  BY <1>7, <1>9, <1>10
<1> QED
  BY <1>10, <1>11, Zenon DEF binding, assertion, new, N

\* Words after words.
LEMMA JoinedWords ==
  ASSUME NEW a \in Seq(STRING), NEW b \in Seq(STRING)
  PROVE  /\ a \o b \in Seq(STRING) /\ Len(a \o b) = Len(a) + Len(b)
         /\ Len(a) \in Nat /\ Len(b) \in Nat
         /\ \A i \in 1..Len(a) : (a \o b)[i] = a[i]
         /\ \A i \in 1..Len(b) : (a \o b)[Len(a) + i] = b[i]
<1>1. Len(a) \in Nat /\ Len(b) \in Nat
  OBVIOUS
<1>2. \A S : \A s \in Seq(S), t \in Seq(S) : s \o t \in Seq(S)
  BY ConcatProperties
<1>3. a \o b \in Seq(STRING)
  BY <1>2
<1> QED
  BY <1>1, <1>3

\* What comes before a command.
Heads == {<<"nohup">>, <<"timeout", "-k", "5", "9">>, <<"env", "-u", "x", "A=1">>}

\* Those are words.
LEMMA HeadWords ==
  /\ \A head \in Heads : head \in Seq(STRING)
  /\ <<"find", "-exec">> \in Seq(STRING) /\ <<";">> \in Seq(STRING) /\ "sh" \in STRING /\ "-c" \in STRING
<1>1. \A S : \A a, b, c, d \in S : <<a>> \in Seq(S) /\ <<a, b>> \in Seq(S) /\ <<a, b, c, d>> \in Seq(S)
  OBVIOUS
<1>2. /\ "nohup" \in STRING /\ "timeout" \in STRING /\ "-k" \in STRING /\ "5" \in STRING /\ "9" \in STRING
      /\ "env" \in STRING /\ "-u" \in STRING /\ "x" \in STRING /\ "A=1" \in STRING /\ "sh" \in STRING
      /\ "-c" \in STRING /\ "find" \in STRING /\ "-exec" \in STRING /\ ";" \in STRING
  BY WordsAssumption, Zenon
<1>3. <<"nohup">> \in Seq(STRING) /\ <<"find", "-exec">> \in Seq(STRING) /\ <<";">> \in Seq(STRING)
  BY <1>1, <1>2, Zenon
<1>4. <<"timeout", "-k", "5", "9">> \in Seq(STRING)
  BY <1>1, <1>2, Zenon
<1>5. <<"env", "-u", "x", "A=1">> \in Seq(STRING)
  BY <1>1, <1>2, Zenon
<1> QED
  BY <1>2, <1>3, <1>4, <1>5, Zenon DEF Heads

\* Another way to run a command is words as well.
LEMMA RespelledWords ==
  ASSUME NEW words \in Seq(STRING), NEW statement, NEW argv \in Lanes!Respelled(words, statement)
  PROVE  argv \in Seq(STRING)
<1>1. ASSUME NEW head \in Heads, argv = head \o words
      PROVE  argv \in Seq(STRING)
  BY <1>1, HeadWords, JoinedWords, Zenon
<1>2. ASSUME NEW w \in DOMAIN Body, argv = <<"sh", "-c", w>>
      PROVE  argv \in Seq(STRING)
  <2>1. w \in STRING
    BY TextsAssumption, Zenon
  <2>2. \A S : \A a, b, c \in S : <<a, b, c>> \in Seq(S)
    OBVIOUS
  <2> QED
    BY <1>2, <2>1, <2>2, HeadWords, Zenon
<1>3. CASE argv = <<"find", "-exec">> \o words \o <<";">>
  <2>1. <<"find", "-exec">> \in Seq(STRING) /\ <<";">> \in Seq(STRING)
    BY HeadWords, Zenon
  <2>2. <<"find", "-exec">> \o words \in Seq(STRING)
    BY <2>1, JoinedWords, Zenon
  <2>3. <<"find", "-exec">> \o words \o <<";">> \in Seq(STRING)
    BY <2>1, <2>2, JoinedWords, Zenon
  <2> QED
    BY <1>3, <2>3, Zenon
<1> QED
  BY <1>1, <1>2, <1>3, Zenon DEF Lanes!Respelled, Heads

\* A line whose command is run in another way stays a line of its gate.
LEMMA RespelledLine ==
  ASSUME NEW g \in LaneGates, NEW line \in LineOf(g), line.of \in {"command", "call"},
         NEW statement, NEW argv \in Lanes!Respelled(line.argv, statement)
  PROVE  [line EXCEPT !.argv = argv] \in LineOf(g)
<1>1. CASE g = "launchers"
  <2>1. line \in [of : {"call"}, argv : Seq(STRING), shell : BOOLEAN]
    BY <1>1 DEF LineOf, Lanes!LauncherLine
  <2>2. argv \in Seq(STRING)
    BY <2>1, RespelledWords
  <2> QED
    BY <1>1, <2>1, <2>2 DEF LineOf, Lanes!LauncherLine
<1>2. CASE g \in {"commands", "pipes"}
  <2>1. line \in Lanes!CommandLine /\ (g = "commands" => line.redirs = <<>>)
    BY <1>2 DEF LineOf
  <2>2. argv \in Seq(STRING)
    BY <2>1, RespelledWords, Zenon DEF Lanes!CommandLine
  <2>3. [line EXCEPT !.argv = argv] \in Lanes!CommandLine /\ [line EXCEPT !.argv = argv].redirs = line.redirs
    BY <2>1, <2>2, Zenon DEF Lanes!CommandLine
  <2> QED
    BY <1>2, <2>1, <2>3 DEF LineOf
<1> QED
  BY <1>1, <1>2 DEF LaneGates

\* The answer is always about the extract and the world as they are, and those are
\* of the kind the gate reads.
GateInv ==
  /\ gate \in GateNames
  /\ edits \in 0..MaxEdits[gate]
  /\ exit = RunGate(gate, lines, world)
  /\ gate \in TypedGates => lines \in Seq(LineOf(gate))
  /\ gate \in TypedGates \ {"coupling", "tornado", "cost"} => world \in Worlds[gate]
  /\ gate = "coupling" => {"baseline", "budget", "adopted"} \subseteq DOMAIN world /\ world.budget \in Nat
  /\ gate \in {"tornado", "cost"} => {"order", "budget"} \subseteq DOMAIN world

\* The first answer is about the draft.
LEMMA FirstRun ==
  ASSUME Init
  PROVE  GateInv
<1>1. MaxEdits[gate] \in Nat
  BY EditsAssumption DEF Init
<1>2. gate \in TypedGates => lines \in Seq(LineOf(gate))
  BY LinesAssumption DEF Init
<1>3. gate = "coupling" => {"baseline", "budget", "adopted"} \subseteq DOMAIN world /\ world.budget \in Nat
  BY WorldsAssumption DEF Init
<1>4. gate \in {"tornado", "cost"} => {"order", "budget"} \subseteq DOMAIN world
  BY WorldsAssumption DEF Init
<1> QED
  BY <1>1, <1>2, <1>3, <1>4 DEF Init, GateInv

\* A step keeps what is kept if it runs the gate again.
LEMMA RunAgain ==
  ASSUME GateInv, Edits, Reruns, gate' = gate,
         gate \in TypedGates => lines' \in Seq(LineOf(gate)),
         gate \in TypedGates \ {"coupling", "tornado", "cost"} => world' = world,
         gate = "coupling" => {"baseline", "budget", "adopted"} \subseteq DOMAIN world' /\ world'.budget \in Nat,
         gate \in {"tornado", "cost"} => {"order", "budget"} \subseteq DOMAIN world'
  PROVE  GateInv'
<1>1. MaxEdits[gate] \in Nat
  BY EditsAssumption DEF GateInv
<1>2. edits' \in 0..MaxEdits[gate]
  BY <1>1 DEF GateInv, Edits
<1>3. gate \in TypedGates \ {"coupling", "tornado", "cost"} => world' \in Worlds[gate]
  BY DEF GateInv
<1> QED
  BY <1>2, <1>3 DEF GateInv, Reruns

\* Every edit, adoption or export is answered anew.
LEMMA NextRun ==
  ASSUME GateInv, [Next]_vars
  PROVE  GateInv'
<1> DEFINE Typed == gate \in TypedGates => lines' \in Seq(LineOf(gate))
<1>1. CASE AddLine
  <2>1. Typed
    <3>1. SUFFICES ASSUME gate \in TypedGates PROVE lines' \in Seq(LineOf(gate))
      BY <1>1 DEF AddLine
    <3>2. PICK i \in 1..(Len(lines) + 1), line \in LinesOf[gate] : lines' = InsertAt(lines, i, line)
      BY <1>1 DEF AddLine
    <3>3. lines \in Seq(LineOf(gate)) /\ line \in LineOf(gate)
      BY <3>1, LinesAssumption DEF GateInv
    <3> QED
      BY <3>2, <3>3, EditedLines
  <2> QED
    BY <1>1, <2>1, RunAgain DEF AddLine, GateInv
<1>2. CASE DropLine
  <2>1. Typed
    <3>1. SUFFICES ASSUME gate \in TypedGates PROVE lines' \in Seq(LineOf(gate))
      BY <1>2 DEF DropLine
    <3>2. PICK i \in 1..Len(lines) : lines' = RemoveAt(lines, i)
      BY <1>2 DEF DropLine
    <3>3. lines \in Seq(LineOf(gate))
      BY <3>1 DEF GateInv
    <3> QED
      BY <3>2, <3>3, EditedLines
  <2> QED
    BY <1>2, <2>1, RunAgain DEF DropLine, GateInv
<1>3. CASE Adopt
  <2>1. Edits /\ Reruns /\ gate' = gate /\ gate = "coupling" /\ lines' = lines
        /\ world' = [world EXCEPT !.baseline = Edges!Current(lines), !.adopted = @ + 1]
    BY <1>3 DEF Adopt
  <2>2. DOMAIN world' = DOMAIN world /\ world'.budget = world.budget
    BY <2>1
  <2> QED
    BY <2>1, <2>2, RunAgain DEF GateInv, TypedGates
<1>4. CASE Turn
  <2>1. Edits /\ Reruns /\ gate' = gate /\ gate \in {"tornado", "cost"} /\ lines' = Reverse(lines)
        /\ world' = [world EXCEPT !.order = IF @ = "newest-first" THEN "oldest-first" ELSE "newest-first"]
    BY <1>4 DEF Turn
  <2>2. lines \in Seq(LineOf(gate)) /\ {"order", "budget"} \subseteq DOMAIN world'
    BY <2>1 DEF GateInv, TypedGates
  <2>3. lines' \in Seq(LineOf(gate))
    BY <2>1, <2>2, Reversed
  <2> QED
    BY <2>1, <2>2, <2>3, RunAgain
<1>5. CASE \E v \in Scans!Value : Hoist(v)
  <2> PICK v \in Scans!Value : Hoist(v)
    BY <1>5
  <2>1. gate = "assertless" /\ lines \in Seq(Scans!AssertlessLine)
    BY DEF Hoist, GateInv, TypedGates, LineOf
  <2>2. lines' \in Seq(Scans!AssertlessLine)
    <3>1. PICK i \in 1..Len(lines), n \in Locals :
            /\ lines[i].is = "asserts"
            /\ lines' = Named(lines, i, n, v)
      BY DEF Hoist, Named
    <3>2. lines[i] \in [is : {"asserts"}, values : SUBSET Scans!Value, nested : BOOLEAN]
      BY <2>1, <3>1, AnAssertion
    <3> QED
      BY <2>1, <3>1, <3>2, NamedLines
  <2> QED
    BY <2>1, <2>2, RunAgain DEF Hoist, LineOf
<1>6. CASE Hire
  <2>1. gate = "fleet" /\ lines \in Seq(LineOf(gate)) /\ gate \in TypedGates
    BY <1>6 DEF Hire, GateInv, TypedGates
  <2>2. PICK i \in 1..Len(lines) : /\ lines[i].is = "field" /\ lines[i].value < MaxFleet
                                   /\ lines' = [lines EXCEPT ![i].value = @ + 1]
    BY <1>6 DEF Hire
  <2> DEFINE more == [lines[i] EXCEPT !.value = @ + 1]
  <2>3. more \in LineOf("fleet") /\ lines' = [lines EXCEPT ![i] = more]
    <3>1. lines[i] \in Scores!FleetLine
      BY <2>1, ElementOfSeq DEF LineOf
    <3>2. lines[i] \in [is : {"field"}, key : Scores!Keys \cup {"unknown"}, value : Nat, point : BOOLEAN]
      BY <2>2, <3>1 DEF Scores!FleetLine
    <3>3. more \in Scores!FleetLine
      BY <3>2 DEF Scores!FleetLine
    <3> QED
      BY <2>2, <3>3 DEF LineOf
  <2>4. lines' \in Seq(LineOf(gate))
    <3> HIDE DEF more
    <3> QED
      BY <2>1, <2>3, ExceptSeq
  <2> QED
    BY <1>6, <2>1, <2>4, RunAgain DEF Hire
<1>7. CASE Improve
  <2>1. gate = "crap" /\ lines \in Seq(LineOf(gate)) /\ gate \in TypedGates
    BY <1>7 DEF Improve, GateInv, TypedGates
  <2>2. PICK i \in 1..Len(lines), better \in LinesOf["crap"] : lines' = [lines EXCEPT ![i] = better]
    BY <1>7 DEF Improve
  <2>3. better \in LineOf(gate)
    BY <2>1, LinesAssumption
  <2>4. lines' \in Seq(LineOf(gate))
    BY <2>1, <2>2, <2>3, ExceptSeq
  <2> QED
    BY <1>7, <2>1, <2>4, RunAgain DEF Improve
<1>8. CASE Respell
  <2>1. gate \in LaneGates /\ gate \in TypedGates /\ lines \in Seq(LineOf(gate))
    BY <1>8 DEF Respell, GateInv, TypedGates, LaneGates
  <2>2. PICK i \in 1..Len(lines) :
          /\ lines[i].of \in {"command", "call"}
          /\ \E argv \in Lanes!Respelled(lines[i].argv, gate = "pipes") : lines' = [lines EXCEPT ![i].argv = argv]
    BY <1>8 DEF Respell
  <2>3. PICK argv \in Lanes!Respelled(lines[i].argv, gate = "pipes") : lines' = [lines EXCEPT ![i].argv = argv]
    BY <2>2
  <2> DEFINE other == [lines[i] EXCEPT !.argv = argv]
  <2>4. lines[i] \in LineOf(gate) /\ lines' = [lines EXCEPT ![i] = other]
    BY <2>1, <2>3, ElementOfSeq
  <2>5. other \in LineOf(gate)
    BY <2>1, <2>2, <2>3, <2>4, RespelledLine
  <2>6. lines' \in Seq(LineOf(gate))
    <3> HIDE DEF other
    <3> QED
      BY <2>1, <2>4, <2>5, ExceptSeq
  <2> QED
    BY <1>8, <2>1, <2>6, RunAgain DEF Respell, LaneGates
<1>9. CASE Regate
  BY <1>9, RunAgain DEF Regate, TypedGates
<1>10. CASE UNCHANGED vars
  BY <1>10 DEF vars, GateInv
<1> QED
  BY <1>1, <1>2, <1>3, <1>4, <1>5, <1>6, <1>7, <1>8, <1>9, <1>10 DEF Next

\* However the extract changes, the gate's answer is about what it reads.
THEOREM AnswersWhatItReads == Spec => []GateInv
  BY FirstRun, NextRun, PTL DEF Spec

\* Each gate has its own codes: 3 is for two of them and for the lanes.
LEMMA GateCodes ==
  ASSUME NEW g \in GateNames, NEW ls, NEW w
  PROVE  RunGate(g, ls, w) \in 0..(IF g \in {"leaks", "assertless"} \cup LaneGates THEN 3 ELSE 2)
<1>1. CASE g = "leaks"
  BY <1>1 DEF RunGate, LaneGates, Leaks!Exit
<1>2. CASE g = "coupling"
  BY <1>2 DEF RunGate, LaneGates, Edges!CouplingExit
<1>3. CASE g = "cohesion"
  BY <1>3 DEF RunGate, LaneGates, Parts!CohesionExit
<1>4. CASE g = "stability"
  BY <1>4 DEF RunGate, LaneGates, Parts!StabilityExit
<1>5. CASE g = "fence"
  BY <1>5 DEF RunGate, LaneGates, Edges!FenceExit
<1>6. CASE g = "graph"
  BY <1>6 DEF RunGate, LaneGates, Edges!GraphExit
<1>7. CASE g = "destination"
  BY <1>7 DEF RunGate, LaneGates, Edges!DestinationExit
<1>8. CASE g = "tornado"
  BY <1>8 DEF RunGate, LaneGates, Compared!TornadoExit
<1>9. CASE g = "cost"
  BY <1>9 DEF RunGate, LaneGates, Compared!CostExit
<1>10. CASE g = "crap"
  BY <1>10 DEF RunGate, LaneGates, Scores!CrapExit
<1>11. CASE g = "fleet"
  BY <1>11 DEF RunGate, LaneGates, Scores!FleetExit
<1>12. CASE g = "tests"
  BY <1>12 DEF RunGate, LaneGates, Scans!TestsExit
<1>13. CASE g = "assertless"
  BY <1>13 DEF RunGate, LaneGates, Scans!AssertlessExit
<1>14. CASE g = "errors"
  BY <1>14 DEF RunGate, LaneGates, Compared!ErrorsExit
<1>15. CASE g = "probe"
  BY <1>15 DEF RunGate, LaneGates, Compared!ProbeExit
<1>16. CASE g = "interface"
  BY <1>16 DEF RunGate, LaneGates, Comments!Exit
<1>17. CASE g \in LaneGates
  BY <1>17 DEF RunGate, LaneGates, Lanes!Exit
<1> QED
  BY <1>1, <1>2, <1>3, <1>4, <1>5, <1>6, <1>7, <1>8, <1>9,
     <1>10, <1>11, <1>12, <1>13, <1>14, <1>15, <1>16, <1>17 DEF GateNames, LaneGates

\* Whatever a gate reads it answers with one of its own codes.
THEOREM TypeCorrect == Spec => []TypeOK
<1>1. GateInv => TypeOK
  BY GateCodes DEF GateInv, TypeOK
<1> QED
  BY AnswersWhatItReads, <1>1, PTL

-----------------------------------------------------------------------------
(* coupling-budget *)

\* The gates count and compare as this module does.
LEMMA CountsAlike == \A S : Edges!Cardinality(S) = Cardinality(S)
  BY DEF Edges!Cardinality, Cardinality

\* And takes the same for a prefix.
LEMMA PrefixesAlike ==
  \A s, t : Edges!IsPrefix(s, t) <=> IsPrefix(s, t)
  BY DEF Edges!IsPrefix, IsPrefix

\* What the gate answers, and what its green says.
LEMMA CouplingAnswers ==
  ASSUME NEW ls, NEW w
  PROVE  RunGate("coupling", ls, w) = Edges!CouplingExit(ls, w.baseline, w.budget, w.reason)
  BY DEF RunGate, LaneGates

\* A green coupling-budget is within the budget and justified.
LEMMA CouplingGreen ==
  ASSUME NEW ls, NEW baseline, NEW budget, NEW reason,
         Edges!CouplingExit(ls, baseline, budget, reason) = 0
  PROVE  /\ ~(Cardinality(Edges!Added(ls, baseline)) > budget)
         /\ Edges!Added(ls, baseline) \subseteq Edges!Justified(ls, reason)
<1> DEFINE Over == \/ Cardinality(Edges!Added(ls, baseline)) > budget
                   \/ ~(Edges!Added(ls, baseline) \subseteq Edges!Justified(ls, reason))
<1>1. Edges!CouplingExit(ls, baseline, budget, reason)
        = IF Edges!SpecError(ls, baseline) THEN 2 ELSE IF Over THEN 1 ELSE 0
  BY CountsAlike, Zenon DEF Edges!CouplingExit
<1>2. ~Over
  <2> HIDE DEF Over
  <2> QED
    BY <1>1
<1> QED
  BY <1>2, Zenon

\* An extract has finitely many edges.
LEMMA AddedIsFinite ==
  ASSUME NEW S, NEW ls \in Seq(S), NEW baseline
  PROVE  Cardinality(Edges!Added(ls, baseline)) \in Nat
<1> DEFINE rows == Edges!Items(ls, "edge")
           edges == {Edges!Edge(ls[i]) : i \in rows}
<1>1. IsFiniteSet(rows)
  <2>1. rows \in SUBSET (1..Len(ls)) /\ Len(ls) \in Int /\ 1 \in Int
    BY DEF Edges!Items
  <2>2. IsFiniteSet(1..Len(ls))
    BY <2>1, FS_Interval
  <2> HIDE DEF rows
  <2> QED
    BY <2>1, <2>2, FS_Subset
<1>2. IsFiniteSet(edges)
  <2> DEFINE f == [i \in rows |-> Edges!Edge(ls[i])]
  <2>1. f \in Surjection(rows, edges)
    BY DEF Surjection
  <2> QED
    BY <1>1, <2>1, FS_Surjection
<1>3. Edges!Added(ls, baseline) \in SUBSET edges
  BY DEF Edges!Added, Edges!Current, Edges!Cross
<1>4. IsFiniteSet(Edges!Added(ls, baseline))
  BY <1>2, <1>3, FS_Subset
<1> QED
  BY <1>4, FS_CardinalityType

\* What an adopted pass adds to the baseline is what the gate saw added.
LEMMA AdoptedEdges ==
  ASSUME GateInv, Adopt
  PROVE  LET new == world'.baseline \ world.baseline IN
         /\ new = Edges!Added(lines, world.baseline)
         /\ Edges!Cross(new) = new
         /\ new \subseteq Edges!Justified(lines, world.reason)
         /\ Cardinality(new) <= world.budget
<1> DEFINE new == world'.baseline \ world.baseline
<1>1. gate = "coupling" /\ exit = 0 /\ {"baseline", "budget", "adopted"} \subseteq DOMAIN world
      /\ world' = [world EXCEPT !.baseline = Edges!Current(lines), !.adopted = @ + 1]
  BY DEF GateInv, Adopt
<1>2. world'.baseline = Edges!Current(lines)
  BY <1>1
<1>3. new = Edges!Added(lines, world.baseline) /\ Edges!Cross(new) = new
  BY <1>2 DEF Edges!Added, Edges!Current, Edges!Cross
<1>4. exit = Edges!CouplingExit(lines, world.baseline, world.budget, world.reason)
  BY <1>1, CouplingAnswers DEF GateInv
<1>5. /\ ~(Cardinality(Edges!Added(lines, world.baseline)) > world.budget)
      /\ Edges!Added(lines, world.baseline) \subseteq Edges!Justified(lines, world.reason)
  BY <1>1, <1>4, CouplingGreen
<1>6. Cardinality(Edges!Added(lines, world.baseline)) \in Nat /\ world.budget \in Nat
  BY <1>1, AddedIsFinite DEF GateInv, TypedGates, LineOf
<1> QED
  BY <1>3, <1>5, <1>6

\* For every extract and every number of adoptions: what enters the baseline was
\* justified and within the budget.
THEOREM BaselinePaid == Spec => BaselineIsPaidFor
<1> DEFINE Paid ==
      gate = "coupling" /\ world' # world =>
        LET new == world'.baseline \ world.baseline
        IN  /\ \A e \in new : e[1] # e[2] => e \in Edges!Justified(lines, world.reason)
            /\ Cardinality(Edges!Cross(new)) <= world.budget
<1>1. ASSUME GateInv, [Next]_vars
      PROVE  [Paid]_vars
  <2>1. SUFFICES ASSUME gate = "coupling", world' # world, Next
                 PROVE  Paid
    BY <1>1 DEF vars
  <2>2. Adopt
    BY <2>1 DEF Next, AddLine, DropLine, Turn, Hoist, Hire, Improve, Respell, Regate
  <2> QED
    BY <1>1, <2>2, AdoptedEdges
<1> QED
  BY <1>1, AnswersWhatItReads, PTL DEF Spec, BaselineIsPaidFor

-----------------------------------------------------------------------------
(* fence-check *)

\* Two prefixes of one path: the shorter one is a prefix of the longer.
LEMMA Nested ==
  ASSUME NEW S, NEW s \in Seq(S), NEW t \in Seq(S), NEW p \in Seq(S),
         IsPrefix(s, p), IsPrefix(t, p), Len(s) <= Len(t)
  PROVE  IsPrefix(s, t)
<1>1. Len(s) \in Nat /\ Len(t) \in Nat /\ Len(p) \in Nat /\ Len(t) <= Len(p)
  BY DEF IsPrefix
<1>2. ASSUME NEW q \in Seq(S), Len(s) <= Len(q)
      PROVE  /\ SubSeq(q, 1, Len(s)) \in Seq(S) /\ Len(SubSeq(q, 1, Len(s))) = Len(s)
             /\ \A i \in 1..Len(s) : SubSeq(q, 1, Len(s))[i] = q[i]
  <2>1. \A i \in 1..Len(s) : q[i] \in S
    BY <1>1, <1>2, ElementOfSeq
  <2> QED
    BY <1>1, <2>1, SubSeqProperties
<1>3. \A i \in 1..Len(s) : t[i] = p[i]
  <2>1. \A i \in 1..Len(t) : t[i] \in S /\ p[i] \in S
    BY <1>1, ElementOfSeq
  <2>2. \A i \in 1..Len(t) : SubSeq(t, 1, Len(t))[i] = t[i] /\ SubSeq(p, 1, Len(t))[i] = p[i]
    BY <1>1, <2>1, SubSeqProperties
  <2>3. \A i \in 1..Len(t) : t[i] = p[i]
    BY <2>2 DEF IsPrefix
  <2> QED
    BY <1>1, <2>3
<1>4. SubSeq(t, 1, Len(s)) = SubSeq(p, 1, Len(s))
  BY <1>1, <1>2, <1>3, SeqEqual
<1> QED
  BY <1>4 DEF IsPrefix

\* A line of an extract that covers a path has a prefix of it.
LEMMA CoveringLines ==
  ASSUME NEW ls \in Seq(Edges!FenceLine), NEW path \in Seq(Segments), NEW m \in Edges!Covering(ls, path)
  PROVE  m \in Edges!Mappings(ls) /\ m.prefix \in Seq(Segments) /\ IsPrefix(m.prefix, path)
<1>1. m \in Edges!Mappings(ls) /\ IsPrefix(m.prefix, path)
  BY PrefixesAlike DEF Edges!Covering
<1>2. PICK i \in 1..Len(ls) : ls[i] = m /\ m.of = "module"
  BY <1>1 DEF Edges!Mappings, Edges!Listed
<1>3. m \in Edges!FenceLine
  BY <1>2, ElementOfSeq
<1> QED
  BY <1>1, <1>2, <1>3 DEF Edges!FenceLine, Edges!Path

\* The mapping that decides about a path is there, and it is the deepest.
Deepest(ls, path) ==
  CHOOSE m \in Edges!Covering(ls, path) :
    \A n \in Edges!Covering(ls, path) : Len(n.prefix) <= Len(m.prefix)

\* Of finitely many mappings that cover a path one is the deepest.
LEMMA DeepestCovers ==
  ASSUME NEW ls \in Seq(Edges!FenceLine), NEW path \in Seq(Segments), Edges!Covering(ls, path) # {}
  PROVE  /\ Deepest(ls, path) \in Edges!Covering(ls, path)
         /\ \A n \in Edges!Covering(ls, path) : Len(n.prefix) <= Len(Deepest(ls, path).prefix)
         /\ Edges!LayerOf(ls, path) = Deepest(ls, path).layer
<1> DEFINE C == Edges!Covering(ls, path)
           T == {Len(path) - Len(m.prefix) : m \in C}
<1>1. \A m \in C : Len(m.prefix) \in Nat /\ Len(m.prefix) <= Len(path) /\ Len(path) \in Nat
  BY CoveringLines DEF IsPrefix
<1>2. PICK d \in T : \A e \in T : d <= e
  <2>1. T \subseteq Nat /\ T # {}
    BY <1>1
  <2> HIDE DEF T
  <2> QED
    BY <2>1, LeastNatural
<1>3. PICK m \in C : d = Len(path) - Len(m.prefix)
  BY <1>2
<1>4. \A n \in C : Len(n.prefix) <= Len(m.prefix)
  <2> SUFFICES ASSUME NEW n \in C PROVE Len(n.prefix) <= Len(m.prefix)
    OBVIOUS
  <2>1. Len(path) - Len(m.prefix) <= Len(path) - Len(n.prefix)
    BY <1>2, <1>3
  <2> HIDE DEF C
  <2> QED
    BY <1>1, <1>3, <2>1
<1>5. Edges!LayerOf(ls, path) = Deepest(ls, path).layer
  BY DEF Edges!LayerOf, Deepest
<1> QED
  BY <1>3, <1>4, <1>5 DEF Deepest

\* The reader's owner of a path is the mapping the gate takes.
LEMMA OwnerDecides ==
  ASSUME NEW ls \in Seq(Edges!FenceLine), NEW path \in Seq(Segments), NEW m \in Edges!Owner(ls, path)
  PROVE  m \in Edges!Mappings(ls) /\ Edges!LayerOf(ls, path) = m.layer
<1>1. /\ m \in Edges!Mappings(ls) /\ IsPrefix(m.prefix, path)
      /\ \A n \in Edges!Mappings(ls) : n # m /\ IsPrefix(n.prefix, path) => ~IsPrefix(m.prefix, n.prefix)
  BY PrefixesAlike DEF Edges!Owner
<1>2. m \in Edges!Covering(ls, path)
  BY <1>1, PrefixesAlike DEF Edges!Covering
<1> DEFINE d == Deepest(ls, path)
<1>3. /\ d \in Edges!Covering(ls, path) /\ Len(m.prefix) <= Len(d.prefix)
      /\ Edges!LayerOf(ls, path) = d.layer
  BY <1>2, DeepestCovers
<1>4. d \in Edges!Mappings(ls) /\ IsPrefix(d.prefix, path) /\ IsPrefix(m.prefix, d.prefix)
  BY <1>1, <1>2, <1>3, CoveringLines, Nested
<1> QED
  BY <1>1, <1>3, <1>4

\* Whatever holds a file and all that its own files depend on holds all the file
\* depends on at any distance.
LEMMA DependsWithin ==
  ASSUME NEW ls \in Seq(Edges!FenceLine), NEW path, NEW S, path \in S,
         \A e \in Edges!Rows(ls, "edge") : e.from \in S => e.to \in S
  PROVE  Edges!DependsOn(ls, path) \subseteq S
<1> DEFINE edges == Edges!Rows(ls, "edge")
           N == Edges!Cardinality(edges)
           Onward(r) == r \cup {e.to : e \in {x \in edges : x.from \in r}}
           round[k \in 0..N] ==
             IF k = 0 THEN {path} ELSE round[k - 1] \cup {e.to : e \in {x \in edges : x.from \in round[k - 1]}}
           G == [a \in (1..N) \X SUBSET S |-> Onward(a[2])]
<1>1. N \in Nat
  BY FinitelyMany, FS_CardinalityType, CountsAlike DEF Edges!Rows
<1>2. G \in [(1..N) \X SUBSET S -> SUBSET S] /\ {path} \in SUBSET S
  OBVIOUS
<1>3. PICK f : Course(f, N, SUBSET S, {path}, G)
  <2> HIDE DEF G, N
  <2> QED
    BY <1>1, <1>2, Rounds
<1>4. f = [k \in 0..N |-> IF k = 0 THEN {path} ELSE Onward(f[k - 1])]
  <2>1. \A k \in 1..N : f[k] = Onward(f[k - 1])
    <3> SUFFICES ASSUME NEW k \in 1..N PROVE f[k] = Onward(f[k - 1])
      OBVIOUS
    <3>1. f[k - 1] \in SUBSET S
      <4> HIDE DEF N
      <4>1. k - 1 \in 0..N
        BY <1>1
      <4> QED
        BY <1>3, <4>1 DEF Course
    <3>2. G[<<k, f[k - 1]>>] = Onward(f[k - 1])
      <4> HIDE DEF N, Onward
      <4> QED
        BY <3>1
    <3> QED
      BY <1>3, <3>2 DEF Course
  <2> HIDE DEF N, Onward
  <2> QED
    BY <1>1, <1>3, <2>1 DEF Course
<1>5. round = [k \in 0..N |-> IF k = 0 THEN {path} ELSE Onward(round[k - 1])]
  <2> HIDE DEF N, edges
  <2> QED
    BY <1>4
<1>6. Edges!DependsOn(ls, path) = round[N]
  BY DEF Edges!DependsOn
<1>7. round[N] \in SUBSET S
  <2> DEFINE K == {k \in 0..N : round[k] \in SUBSET S}
           h == [k \in 0..N |-> IF k = 0 THEN {path} ELSE Onward(round[k - 1])]
  <2>1. round[0] = {path} /\ \A k \in 1..N : round[k] = Onward(round[k - 1])
    <3>1. h[0] = {path} /\ \A k \in 1..N : h[k] = Onward(round[k - 1])
      <4> HIDE DEF round, N, Onward
      <4> QED
        BY <1>1
    <3>2. round = h
      BY <1>5
    <3> HIDE DEF h, round, N, Onward
    <3> QED
      BY <3>1, <3>2
  <2>2. 0 \in K
    <3> HIDE DEF round, N
    <3> QED
      BY <1>1, <1>2, <2>1
  <2>3. ASSUME NEW k \in 1..N, k - 1 \in K
        PROVE  k \in K
    <3>1. Onward(round[k - 1]) \in SUBSET S
      <4> HIDE DEF round
      <4> QED
        BY <2>3
    <3> HIDE DEF round, Onward, N
    <3> QED
      BY <2>1, <2>3, <3>1
  <2>4. 0..N \subseteq K
    <3> HIDE DEF K, N
    <3> QED
      BY <1>1, <2>2, <2>3, EveryRound
  <2> QED
    BY <1>1, <2>4
<1> QED
  BY <1>6, <1>7

\* A green fence-check: each dependency ends no further out than it begins, in a
\* layer that is mapped.
LEMMA FenceGreen ==
  ASSUME NEW ls, NEW layers, Edges!FenceExit(ls, layers) = 0
  PROVE  /\ \A m \in Edges!Mappings(ls) : m.layer \in ToSet(layers)
         /\ \A e \in Edges!Rows(ls, "edge") :
              /\ Edges!LayerOf(ls, e.from) # "none" /\ Edges!LayerOf(ls, e.to) # "none"
              /\ ~(Edges!Rank(layers, Edges!LayerOf(ls, e.to)) < Edges!Rank(layers, Edges!LayerOf(ls, e.from)))
<1>1. /\ \A m \in Edges!Mappings(ls) : m.layer \in Edges!ToSet(layers)
      /\ \A e \in Edges!Rows(ls, "edge") : ~Edges!Red(ls, layers, e)
  BY DEF Edges!FenceExit, Edges!Mappings
<1>2. Edges!ToSet(layers) = ToSet(layers)
  BY DEF Edges!ToSet, ToSet
<1> QED
  BY <1>1, <1>2 DEF Edges!Red

\* The gate looks at one edge at a time: what it passes points inward over every
\* chain of dependencies.
LEMMA FenceHolds ==
  ASSUME NEW ls \in Seq(Edges!FenceLine), NEW layers \in Seq(Layers),
         Edges!FenceExit(ls, layers) = 0
  PROVE  Edges!PointsInward(ls, layers)
<1> DEFINE L(p) == Edges!LayerOf(ls, p)
           R(p) == Edges!Rank(layers, L(p))
<1>1. \A m \in Edges!Mappings(ls) : m.layer \in ToSet(layers)
  BY FenceGreen
<1>2. \A e \in Edges!Rows(ls, "edge") :
        e.from \in Seq(Segments) /\ e.to \in Seq(Segments)
  <2> SUFFICES ASSUME NEW i \in 1..Len(ls), ls[i].of = "edge"
               PROVE  ls[i].from \in Seq(Segments) /\ ls[i].to \in Seq(Segments)
    BY DEF Edges!Rows
  <2>1. ls[i] \in Edges!FenceLine
    BY ElementOfSeq
  <2> QED
    BY <2>1 DEF Edges!FenceLine, Edges!Path
<1>3. ASSUME NEW p \in Seq(Segments), L(p) # "none"
      PROVE  R(p) \in 1..Len(layers) /\ layers[R(p)] = L(p)
  <2>1. Edges!Covering(ls, p) # {}
    BY <1>3 DEF Edges!LayerOf
  <2>2. Deepest(ls, p) \in Edges!Mappings(ls) /\ L(p) = Deepest(ls, p).layer
    BY <2>1, DeepestCovers, CoveringLines
  <2>3. \E i \in 1..Len(layers) : layers[i] = L(p)
    BY <1>1, <2>2 DEF ToSet
  <2> QED
    BY <2>3 DEF Edges!Rank
<1>4. SUFFICES ASSUME NEW e \in Edges!Rows(ls, "edge"), NEW to \in Edges!DependsOn(ls, e.from),
                      NEW m \in Edges!Owner(ls, e.from), NEW n \in Edges!Owner(ls, to)
               PROVE  \E i, j \in 1..Len(layers) : i <= j /\ layers[i] = m.layer /\ layers[j] = n.layer
  BY DEF Edges!PointsInward
<1> DEFINE S == {p \in Seq(Segments) : L(p) # "none" /\ R(e.from) <= R(p)}
<1>5. e.from \in S /\ R(e.from) \in Nat
  BY <1>2, <1>3, FenceGreen
<1>6. ASSUME NEW d \in Edges!Rows(ls, "edge"), d.from \in S
      PROVE  d.to \in S
  <2>1. L(d.from) # "none" /\ L(d.to) # "none" /\ ~(R(d.to) < R(d.from))
    BY FenceGreen
  <2>2. d.from \in Seq(Segments) /\ d.to \in Seq(Segments)
    BY <1>2
  <2>3. R(d.from) \in Nat /\ R(d.to) \in Nat /\ R(e.from) <= R(d.from)
    BY <1>3, <1>6, <2>1, <2>2
  <2>4. R(e.from) <= R(d.to)
    <3> HIDE DEF R
    <3> QED
      BY <1>5, <2>1, <2>3
  <2> QED
    BY <2>1, <2>2, <2>4
<1>7. to \in S
  <2> HIDE DEF S
  <2> QED
    BY <1>4, <1>5, <1>6, DependsWithin
<1>8. m.layer = L(e.from) /\ n.layer = L(to)
  BY <1>2, <1>7, OwnerDecides
<1>9. /\ R(e.from) \in 1..Len(layers) /\ R(to) \in 1..Len(layers) /\ R(e.from) <= R(to)
      /\ layers[R(e.from)] = L(e.from) /\ layers[R(to)] = L(to)
  BY <1>3, <1>5, <1>7
<1> HIDE DEF L, R
<1> QED
  BY <1>8, <1>9

-----------------------------------------------------------------------------
(* stability-check *)

\* stability-check counts as this module does.
LEMMA PartsCount ==
  \A S : Parts!Cardinality(S) = Cardinality(S)
  BY DEF Parts!Cardinality, Cardinality

\* Fan-out and fan-in are numbers, and not both zero at the ends of an edge.
LEMMA Fans ==
  ASSUME NEW T, NEW ls \in Seq(T)
  PROVE  /\ \A n : Parts!Ce(ls, n) \in Nat /\ Parts!Ca(ls, n) \in Nat
         /\ \A e \in Parts!Edges(ls) : Parts!Ce(ls, e[1]) > 0 /\ Parts!Ca(ls, e[2]) > 0
<1> DEFINE rows == Parts!StabilityRows(ls, "edge")
           edges == Parts!Edges(ls)
           arrow == [r \in rows |-> <<r.from, r.to>>]
<1>1. IsFiniteSet(rows)
  BY FinitelyMany DEF Parts!StabilityRows
<1>2. arrow \in Surjection(rows, edges)
  BY DEF Surjection, Parts!Edges
<1>3. IsFiniteSet(edges)
  BY <1>1, <1>2, FS_Surjection
<1>4. ASSUME NEW n
      PROVE  /\ IsFiniteSet({e \in edges : e[1] = n}) /\ Parts!Ce(ls, n) \in Nat
             /\ IsFiniteSet({e \in edges : e[2] = n}) /\ Parts!Ca(ls, n) \in Nat
  <2> HIDE DEF edges
  <2>1. {e \in edges : e[1] = n} \in SUBSET edges /\ {e \in edges : e[2] = n} \in SUBSET edges
    OBVIOUS
  <2>2. IsFiniteSet({e \in edges : e[1] = n}) /\ IsFiniteSet({e \in edges : e[2] = n})
    BY <1>3, <2>1, FS_Subset
  <2> QED
    BY <2>2, FS_CardinalityType, PartsCount DEF Parts!Ce, Parts!Ca, edges
<1>5. ASSUME NEW e \in edges
      PROVE  Parts!Ce(ls, e[1]) > 0 /\ Parts!Ca(ls, e[2]) > 0
  <2> DEFINE out == {x \in edges : x[1] = e[1]}
             in == {x \in edges : x[2] = e[2]}
  <2>1. e \in out /\ e \in in
    OBVIOUS
  <2>2. Cardinality(out) # 0 /\ Cardinality(in) # 0
    <3>1. IsFiniteSet(out) /\ IsFiniteSet(in)
      BY <1>4
    <3> HIDE DEF out, in
    <3> QED
      BY <2>1, <3>1, FS_EmptySet
  <2>3. Parts!Ce(ls, e[1]) = Cardinality(out) /\ Parts!Ca(ls, e[2]) = Cardinality(in)
    BY PartsCount DEF Parts!Ce, Parts!Ca
  <2>4. Parts!Ce(ls, e[1]) \in Nat /\ Parts!Ca(ls, e[2]) \in Nat
    BY <1>4
  <2> HIDE DEF out, in
  <2> QED
    BY <2>2, <2>3, <2>4
<1> QED
  BY <1>4, <1>5

\* Not being less is transitive among fractions.
LEMMA FractionsOrdered ==
  ASSUME NEW a \in Nat, NEW b \in Nat, NEW c \in Nat, NEW p \in Nat, NEW q \in Nat, NEW r \in Nat,
         p > 0, q > 0, r > 0, b * p <= a * q, c * q <= b * r
  PROVE  c * p <= a * r
<1>1. b * p * r <= a * q * r
  OBVIOUS
<1>2. c * q * p <= b * r * p
  OBVIOUS
<1>3. (c * p) * q <= (a * r) * q
  BY <1>1, <1>2
<1>4. c * p \in Nat /\ a * r \in Nat
  OBVIOUS
<1>5. \A x, y \in Nat : x * q <= y * q => x <= y
  OBVIOUS
<1> QED
  BY <1>3, <1>4, <1>5

\* Whatever holds what a component depends on, and all that its own members depend
\* on, holds what the component depends on at any distance.
LEMMA RestsWithin ==
  ASSUME NEW ls, NEW n, NEW S,
         \A e \in Parts!Edges(ls) : e[1] = n \/ e[1] \in S => e[2] \in S
  PROVE  Parts!DependsOn(ls, n) \subseteq S
<1> DEFINE edges == Parts!Edges(ls)
           N == Parts!Cardinality(Components)
           near == {e[2] : e \in {x \in edges : x[1] = n}}
           Onward(r) == r \cup {e[2] : e \in {x \in edges : x[1] \in r}}
           round[k \in 0..N] ==
             IF k = 0 THEN {e[2] : e \in {x \in edges : x[1] = n}}
             ELSE round[k - 1] \cup {e[2] : e \in {x \in edges : x[1] \in round[k - 1]}}
           G == [a \in (1..N) \X SUBSET S |-> Onward(a[2])]
           h == [k \in 0..N |-> IF k = 0 THEN near ELSE Onward(round[k - 1])]
           K == {k \in 0..N : round[k] \in SUBSET S}
<1>1. N \in Nat
  BY IdentitiesAssumption, FS_CardinalityType, PartsCount
<1>2. G \in [(1..N) \X SUBSET S -> SUBSET S] /\ near \in SUBSET S
  OBVIOUS
<1>3. PICK f : Course(f, N, SUBSET S, near, G)
  <2> HIDE DEF G, N, near
  <2> QED
    BY <1>1, <1>2, Rounds
<1>4. f = [k \in 0..N |-> IF k = 0 THEN near ELSE Onward(f[k - 1])]
  <2>1. \A k \in 1..N : f[k] = Onward(f[k - 1])
    <3> SUFFICES ASSUME NEW k \in 1..N PROVE f[k] = Onward(f[k - 1])
      OBVIOUS
    <3>1. f[k - 1] \in SUBSET S
      <4> HIDE DEF N
      <4>1. k - 1 \in 0..N
        BY <1>1
      <4> QED
        BY <1>3, <4>1 DEF Course
    <3>2. G[<<k, f[k - 1]>>] = Onward(f[k - 1])
      <4> HIDE DEF N, Onward
      <4> QED
        BY <3>1
    <3> QED
      BY <1>3, <3>2 DEF Course
  <2> HIDE DEF N, Onward, near
  <2> QED
    BY <1>1, <1>3, <2>1 DEF Course
<1>5. round = h
  <2> HIDE DEF N, edges
  <2> QED
    BY <1>4
<1>6. Parts!DependsOn(ls, n) = round[N]
  BY DEF Parts!DependsOn
<1>7. round[0] = near /\ \A k \in 1..N : round[k] = Onward(round[k - 1])
  <2>1. h[0] = near /\ \A k \in 1..N : h[k] = Onward(round[k - 1])
    <3> HIDE DEF round, N, Onward, near
    <3> QED
      BY <1>1
  <2> HIDE DEF h, round, N, Onward, near
  <2> QED
    BY <1>5, <2>1
<1>8. 0 \in K
  <2> HIDE DEF round, N, near
  <2> QED
    BY <1>1, <1>2, <1>7
<1>9. ASSUME NEW k \in 1..N, k - 1 \in K
      PROVE  k \in K
  <2>1. Onward(round[k - 1]) \in SUBSET S
    <3> HIDE DEF round
    <3> QED
      BY <1>9
  <2> HIDE DEF round, Onward, N
  <2> QED
    BY <1>7, <1>9, <2>1
<1>10. 0..N \subseteq K
  <2> HIDE DEF K, N
  <2> QED
    BY <1>1, <1>8, <1>9, EveryRound
<1> QED
  BY <1>1, <1>6, <1>10

\* Each edge of a green stability-check goes to what is at least as stable, so does
\* each path.
LEMMA StabilityHolds ==
  ASSUME NEW T, NEW ls \in Seq(T), NEW max, Parts!StabilityExit(ls, max) = 0
  PROVE  Parts!RestsOnStable(ls)
<1> DEFINE Ce(n) == Parts!Ce(ls, n)
           Ca(n) == Parts!Ca(ls, n)
           Rests(n, m) == Ce(m) * (Ce(n) + Ca(n)) <= Ce(n) * (Ce(m) + Ca(m))
           S(n) == {m \in Parts!Names(ls) : Ce(m) + Ca(m) > 0 /\ Rests(n, m)}
<1>1. /\ \A e \in Parts!Edges(ls) : ~Parts!Breaches(ls, e) /\ {e[1], e[2]} \subseteq Parts!Names(ls)
  BY DEF Parts!StabilityExit, Parts!Errors
<1>2. \A n : Ce(n) \in Nat /\ Ca(n) \in Nat
  BY Fans
<1>3. \A n, m : ~Parts!Less(Parts!Instability(ls, n), Parts!Instability(ls, m)) <=> Rests(n, m)
  <2> SUFFICES ASSUME NEW n, NEW m
               PROVE  ~Parts!Less(Parts!Instability(ls, n), Parts!Instability(ls, m)) <=> Rests(n, m)
    OBVIOUS
  <2>1. Parts!Less(Parts!Instability(ls, n), Parts!Instability(ls, m))
          <=> Ce(n) * (Ce(m) + Ca(m)) < Ce(m) * (Ce(n) + Ca(n))
    BY DEF Parts!Less, Parts!Instability
  <2>2. Ce(n) * (Ce(m) + Ca(m)) \in Nat /\ Ce(m) * (Ce(n) + Ca(n)) \in Nat
    <3>1. \A a, b, c \in Nat : a * (b + c) \in Nat
      OBVIOUS
    <3> QED
      BY <1>2, <3>1
  <2> HIDE DEF Ce, Ca
  <2> QED
    BY <2>1, <2>2
<1>4. \A e \in Parts!Edges(ls) : Rests(e[1], e[2]) /\ Ce(e[1]) > 0 /\ Ca(e[2]) > 0
  BY <1>1, <1>3, Fans DEF Parts!Breaches
<1>5. ASSUME NEW n \in Parts!Names(ls)
      PROVE  Parts!DependsOn(ls, n) \subseteq S(n)
  <2>1. ASSUME NEW e \in Parts!Edges(ls), e[1] = n \/ e[1] \in S(n)
        PROVE  e[2] \in S(n)
    <3>1. e[2] \in Parts!Names(ls) /\ Rests(e[1], e[2]) /\ Ce(e[1]) > 0 /\ Ca(e[2]) > 0
      BY <1>1, <1>4
    <3>2. Ce(e[2]) + Ca(e[2]) > 0
      <4> HIDE DEF Ce, Ca
      <4> QED
        BY <1>2, <3>1
    <3>3. CASE e[1] = n
      BY <3>1, <3>2, <3>3
    <3>4. CASE e[1] # n
      <4>1. Rests(n, e[1]) /\ Ce(e[1]) + Ca(e[1]) > 0
        BY <2>1, <3>4
      <4>2. CASE Ce(n) + Ca(n) = 0
        <5>1. Ce(n) = 0 /\ Ce(n) + Ca(n) = 0
          <6> HIDE DEF Ce, Ca
          <6> QED
            BY <1>2, <4>2
        <5>2. \A x, y \in Nat : x * 0 <= 0 * (x + y)
          OBVIOUS
        <5>3. Rests(n, e[2])
          <6> HIDE DEF Ce, Ca
          <6> QED
            BY <1>2, <5>1, <5>2
        <5> QED
          BY <3>1, <3>2, <5>3
      <4>3. CASE Ce(n) + Ca(n) # 0
        <5>1. Rests(n, e[2])
          <6> DEFINE p == Ce(n) + Ca(n)
                     q == Ce(e[1]) + Ca(e[1])
                     r == Ce(e[2]) + Ca(e[2])
          <6>1. p \in Nat /\ q \in Nat /\ r \in Nat /\ p > 0 /\ q > 0 /\ r > 0
            <7> HIDE DEF Ce, Ca
            <7> QED
              BY <1>2, <3>2, <4>1, <4>3
          <6>2. Ce(e[1]) * p <= Ce(n) * q /\ Ce(e[2]) * q <= Ce(e[1]) * r
            BY <3>1, <4>1
          <6>3. Ce(e[2]) * p <= Ce(n) * r
            <7> DEFINE a == Ce(n)
                       b == Ce(e[1])
                       c == Ce(e[2])
            <7>1. a \in Nat /\ b \in Nat /\ c \in Nat
              BY <1>2
            <7>2. b * p <= a * q /\ c * q <= b * r
              BY <6>2
            <7>3. c * p <= a * r
              <8> HIDE DEF a, b, c, p, q, r
              <8> QED
                BY <6>1, <7>1, <7>2, FractionsOrdered
            <7> QED
              BY <7>3
          <6> QED
            BY <6>3
        <5> QED
          BY <3>1, <3>2, <5>1
      <4> QED
        BY <4>2, <4>3
    <3> QED
      BY <3>3, <3>4
  <2> HIDE DEF S
  <2> QED
    BY <2>1, RestsWithin
<1>6. ASSUME NEW n \in Parts!Names(ls), NEW m \in Parts!DependsOn(ls, n)
      PROVE  /\ ~Parts!Less(Parts!Instability(ls, n), Parts!Instability(ls, m))
             /\ n \in Parts!DependsOn(ls, m) => ~Parts!Less(Parts!Instability(ls, m), Parts!Instability(ls, n))
  <2>1. m \in Parts!Names(ls) /\ Rests(n, m)
    BY <1>5, <1>6
  <2>2. n \in Parts!DependsOn(ls, m) => Rests(m, n)
    BY <1>5, <2>1
  <2> HIDE DEF Rests
  <2> QED
    BY <1>3, <2>1, <2>2
<1> QED
  BY <1>6 DEF Parts!RestsOnStable

-----------------------------------------------------------------------------
(* check-graph *)

\* A module's identifier is one of the graph's, and its parent is what G3 takes it for.
LEMMA ModuleLines ==
  ASSUME NEW ls \in Seq(Edges!GraphLine), Edges!G2(ls)
  PROVE  /\ Edges!IdSet(ls) \subseteq Ids
         /\ \A i \in Edges!ModuleRows(ls) : Edges!Parent(ls, ls[i].id) = ls[i].parent
         /\ \A id \in Edges!IdSet(ls) : Edges!Parent(ls, id) \in Ids \cup {"null"}
<1>1. ASSUME NEW i \in Edges!ModuleRows(ls)
      PROVE  /\ ls[i].id \in Ids /\ ls[i].parent \in Ids \cup {"null"}
             /\ Edges!Parent(ls, ls[i].id) = ls[i].parent
  <2>1. i \in 1..Len(ls) /\ ls[i].of = "module"
    BY DEF Edges!ModuleRows
  <2>2. ls[i] \in Edges!GraphLine
    BY <2>1, ElementOfSeq
  <2>3. ls[i].id \in Ids \cup {""} /\ ls[i].parent \in Ids \cup {"null"}
    BY <2>1, <2>2, Zenon DEF Edges!GraphLine
  <2>4. ls[i].id # "" /\ \A j \in Edges!ModuleRows(ls) : j # i => ls[j].id # ls[i].id
    BY Zenon DEF Edges!G2, Edges!IdSet
  <2> DEFINE Latest(j) == /\ ls[j].id = ls[i].id
                        /\ \A k \in Edges!ModuleRows(ls) : k > j => ls[k].id # ls[i].id
  <2>5. Latest(i) /\ \A j \in Edges!ModuleRows(ls) : Latest(j) => j = i
    <3>1. \A k \in Edges!ModuleRows(ls) : k > i => k # i
      BY <2>1 DEF Edges!ModuleRows
    <3>2. \A k \in Edges!ModuleRows(ls) : ls[k].id = ls[i].id => k = i
      BY <2>4, Zenon
    <3> HIDE DEF Edges!ModuleRows
    <3> QED
      BY <3>1, <3>2, Zenon
  <2>6. (CHOOSE j \in Edges!ModuleRows(ls) : Latest(j)) = i
    <3> HIDE DEF Latest
    <3> QED
      BY <2>5
  <2>7. Edges!Parent(ls, ls[i].id) = ls[i].parent
    BY <2>6 DEF Edges!Parent
  <2> QED
    BY <2>3, <2>4, <2>7, Zenon
<1> QED
  BY <1>1 DEF Edges!IdSet

\* The steps of one chain.
LastStep == Cardinality(Ids) + 2

Chase(ls, id) ==
  LET chase[k \in 0..LastStep] ==
        IF k = 0 THEN [at |-> Edges!Parent(ls, id), seen |-> {}, bad |-> FALSE]
        ELSE Edges!Chain(ls, chase[k - 1])
  IN  chase

ChainState(ls) == [at : Ids \cup {"null"}, seen : SUBSET Edges!IdSet(ls), bad : BOOLEAN]

\* G3 follows a chain step by step.
LEMMA Chases ==
  ASSUME NEW ls \in Seq(Edges!GraphLine), Edges!G2(ls), NEW id \in Edges!IdSet(ls)
  PROVE  LET c == Chase(ls, id) IN
         /\ Edges!Chased(ls, id) = c[LastStep]
         /\ c[0] = [at |-> Edges!Parent(ls, id), seen |-> {}, bad |-> FALSE]
         /\ \A k \in 1..LastStep : c[k] = Edges!Chain(ls, c[k - 1])
         /\ \A k \in 0..LastStep : c[k] \in ChainState(ls)
<1> DEFINE S == ChainState(ls)
           first == [at |-> Edges!Parent(ls, id), seen |-> {}, bad |-> FALSE]
           Onward(st) == Edges!Chain(ls, st)
           N == LastStep
           c == Chase(ls, id)
           G == [a \in (1..N) \X S |-> Onward(a[2])]
           h == [k \in 0..N |-> IF k = 0 THEN first ELSE Onward(c[k - 1])]
           K == {k \in 0..N : c[k] \in S}
<1>1. N \in Nat
  BY IdentitiesAssumption, FS_CardinalityType DEF LastStep
<1>2. first \in S
  BY ModuleLines DEF ChainState
<1>3. ASSUME NEW st \in S
      PROVE  Onward(st) \in S
  <2>1. \A i \in Edges!IdSet(ls) : Edges!Parent(ls, i) \in Ids \cup {"null"}
    BY ModuleLines
  <2> QED
    BY <2>1 DEF Edges!Chain, ChainState
<1>4. G \in [(1..N) \X S -> S]
  <2> HIDE DEF S, N, Onward
  <2> QED
    BY <1>3
<1>5. PICK f : Course(f, N, S, first, G)
  <2> HIDE DEF G, N, S, first
  <2> QED
    BY <1>1, <1>2, <1>4, Rounds
<1>6. f = [k \in 0..N |-> IF k = 0 THEN first ELSE Onward(f[k - 1])]
  <2>1. \A k \in 1..N : f[k] = Onward(f[k - 1])
    <3> SUFFICES ASSUME NEW k \in 1..N PROVE f[k] = Onward(f[k - 1])
      OBVIOUS
    <3>1. f[k - 1] \in S
      <4> HIDE DEF N, S
      <4>1. k - 1 \in 0..N
        BY <1>1
      <4> QED
        BY <1>5, <4>1 DEF Course
    <3>2. G[<<k, f[k - 1]>>] = Onward(f[k - 1])
      <4> HIDE DEF N, Onward, S
      <4> QED
        BY <3>1
    <3> HIDE DEF G, Onward
    <3> QED
      BY <1>5, <3>2 DEF Course
  <2> HIDE DEF N, Onward, first
  <2> QED
    BY <1>1, <1>5, <2>1 DEF Course
<1>7. c = h
  <2> DEFINE chase[k \in 0..N] == IF k = 0 THEN first ELSE Onward(chase[k - 1])
  <2>1. chase = [k \in 0..N |-> IF k = 0 THEN first ELSE Onward(chase[k - 1])]
    <3> HIDE DEF N, Onward, first
    <3> QED
      BY <1>6
  <2>2. c = chase
    BY DEF Chase
  <2> HIDE DEF c, chase, N, Onward, first
  <2> QED
    BY <2>1, <2>2 DEF h
<1>8. c[0] = first /\ \A k \in 1..N : c[k] = Onward(c[k - 1])
  <2>1. h[0] = first /\ \A k \in 1..N : h[k] = Onward(c[k - 1])
    <3> HIDE DEF c, N, Onward, first
    <3> QED
      BY <1>1
  <2> HIDE DEF h, c, N, Onward, first
  <2> QED
    BY <1>7, <2>1
<1>9. 0 \in K
  <2> HIDE DEF c, N, first
  <2> QED
    BY <1>1, <1>2, <1>8
<1>10. ASSUME NEW k \in 1..N, k - 1 \in K
       PROVE  k \in K
  <2>1. Onward(c[k - 1]) \in S
    <3> HIDE DEF c, S, Onward
    <3> QED
      BY <1>3, <1>10
  <2> HIDE DEF c, Onward, N, S
  <2> QED
    BY <1>8, <1>10, <2>1
<1>11. 0..N \subseteq K
  <2> HIDE DEF K, N
  <2> QED
    BY <1>1, <1>9, <1>10, EveryRound
<1>12. Edges!Chased(ls, id) = c[N]
  BY CountsAlike DEF Edges!Chased, Chase, LastStep
<1> HIDE DEF c, N, Onward, first
<1> QED
  BY <1>8, <1>11, <1>12 DEF c, N, Onward, first

\* A step up that finds nothing wrong ends the chain or goes on with the parent of
\* what it has not seen.
LEMMA StepUp ==
  ASSUME NEW ls, NEW st \in ChainState(ls), ~Edges!Chain(ls, st).bad
  PROVE  /\ ~st.bad
         /\ st.at = "null" => Edges!Chain(ls, st) = st
         /\ st.at # "null" => /\ st.at \in Edges!IdSet(ls) \ st.seen
                              /\ Edges!Chain(ls, st).at = Edges!Parent(ls, st.at)
                              /\ Edges!Chain(ls, st).seen = st.seen \cup {st.at}
<1>1. CASE st.at = "null" \/ st.bad
  BY <1>1 DEF Edges!Chain
<1>2. CASE ~(st.at = "null" \/ st.bad)
  <2>1. st.at \in Edges!IdSet(ls) /\ st.at \notin st.seen
    BY <1>2 DEF Edges!Chain, ChainState
  <2>2. Edges!Chain(ls, st) = [st EXCEPT !.seen = @ \cup {st.at}, !.at = Edges!Parent(ls, st.at)]
    BY <1>2, <2>1 DEF Edges!Chain
  <2> QED
    BY <1>2, <2>1, <2>2 DEF ChainState
<1> QED
  BY <1>1, <1>2

\* A chain in which G3 finds nothing has no bad state, and each of its steps is a
\* step up.
LEMMA GoodChain ==
  ASSUME NEW ls \in Seq(Edges!GraphLine), Edges!G2(ls), NEW id \in Edges!IdSet(ls),
         ~Edges!Chased(ls, id).bad
  PROVE  /\ Chase(ls, id)[0].at = Edges!Parent(ls, id) /\ Chase(ls, id)[0].seen = {}
         /\ \A k \in 1..LastStep : Chase(ls, id)[k] = Edges!Chain(ls, Chase(ls, id)[k - 1])
         /\ \A k \in 0..LastStep : Chase(ls, id)[k] \in ChainState(ls) /\ ~Chase(ls, id)[k].bad
<1> DEFINE c == Chase(ls, id)
           N == LastStep
           K == {k \in 0..N : ~c[N - k].bad}
<1>1. N \in Nat
  BY IdentitiesAssumption, FS_CardinalityType DEF LastStep
<1>2. /\ ~c[N].bad
      /\ \A k \in 1..N : c[k] = Edges!Chain(ls, c[k - 1])
      /\ \A k \in 0..N : c[k] \in ChainState(ls)
  BY Chases
<1>0. c[0].at = Edges!Parent(ls, id) /\ c[0].seen = {}
  <2>1. c[0] = [at |-> Edges!Parent(ls, id), seen |-> {}, bad |-> FALSE]
    BY Chases
  <2> HIDE DEF c
  <2> QED
    BY <2>1
<1> HIDE DEF c, N
<1>3. 0 \in K
  <2>1. N - 0 = N /\ 0 \in 0..N
    BY <1>1
  <2> QED
    BY <1>2, <2>1
<1>4. ASSUME NEW k \in 1..N, k - 1 \in K
      PROVE  k \in K
  <2>1. /\ N - k \in 0..N /\ N - (k - 1) \in 1..N /\ (N - (k - 1)) - 1 = N - k /\ k \in 0..N
    BY <1>1
  <2>2. c[N - (k - 1)] = Edges!Chain(ls, c[N - k]) /\ c[N - k] \in ChainState(ls)
    BY <1>2, <2>1
  <2>3. ~Edges!Chain(ls, c[N - k]).bad
    BY <1>4, <2>2
  <2> QED
    BY <2>1, <2>2, <2>3, StepUp
<1>5. 0..N \subseteq K
  <2> HIDE DEF K
  <2> QED
    BY <1>1, <1>3, <1>4, EveryRound
<1>6. ASSUME NEW k \in 0..N
      PROVE  ~c[k].bad
  <2>1. N - k \in 0..N /\ N - (N - k) = k
    BY <1>1
  <2> QED
    BY <1>5, <2>1
<1> QED
  BY <1>0, <1>2, <1>6 DEF c, N

\* Such a chain ends: it sees one more module with each step, and there are only so
\* many.
LEMMA ChainEnds ==
  ASSUME NEW ls \in Seq(Edges!GraphLine), Edges!G2(ls), NEW id \in Edges!IdSet(ls),
         ~Edges!Chased(ls, id).bad
  PROVE  \E k \in 0..Cardinality(Ids) : Chase(ls, id)[k].at = "null"
<1> DEFINE c == Chase(ls, id)
           N == Cardinality(Ids)
           K == {k \in 0..(N + 1) : IsFiniteSet(c[k].seen) /\ Cardinality(c[k].seen) = k}
<1>1. N \in Nat /\ LastStep = N + 2 /\ IsFiniteSet(Ids)
  BY IdentitiesAssumption, FS_CardinalityType DEF LastStep
<1>2. /\ c[0].seen = {}
      /\ \A k \in 1..LastStep : c[k] = Edges!Chain(ls, c[k - 1])
      /\ \A k \in 0..LastStep : c[k] \in ChainState(ls) /\ ~c[k].bad
  BY GoodChain
<1>3. SUFFICES ASSUME \A k \in 0..N : c[k].at # "null"
               PROVE  FALSE
  OBVIOUS
<1> HIDE DEF c, N
<1>4. 0 \in K
  <2>1. 0 \in 0..(N + 1) /\ IsFiniteSet(c[0].seen) /\ Cardinality(c[0].seen) = 0
    BY <1>1, <1>2, FS_EmptySet
  <2> QED
    BY <2>1
<1>5. ASSUME NEW k \in 1..(N + 1), k - 1 \in K
      PROVE  k \in K
  <2>1. k \in 1..LastStep /\ k - 1 \in 0..LastStep /\ k - 1 \in 0..N /\ k \in 0..LastStep /\ k \in 0..(N + 1)
    BY <1>1
  <2>2. c[k] = Edges!Chain(ls, c[k - 1]) /\ c[k - 1] \in ChainState(ls) /\ ~c[k].bad /\ c[k - 1].at # "null"
    BY <1>2, <1>3, <2>1
  <2>3. c[k].seen = c[k - 1].seen \cup {c[k - 1].at} /\ c[k - 1].at \notin c[k - 1].seen
    BY <2>2, StepUp
  <2>4. IsFiniteSet(c[k - 1].seen) /\ Cardinality(c[k - 1].seen) = k - 1
    BY <1>5
  <2>5. IsFiniteSet(c[k].seen) /\ Cardinality(c[k].seen) = Cardinality(c[k - 1].seen) + 1
    BY <2>3, <2>4, FS_AddElement, Zenon
  <2>6. Cardinality(c[k].seen) = k
    BY <2>4, <2>5
  <2> QED
    BY <2>1, <2>5, <2>6
<1>6. N + 1 \in K
  <2>1. 0..(N + 1) \subseteq K
    <3> HIDE DEF K
    <3> QED
      BY <1>1, <1>4, <1>5, EveryRound
  <2> QED
    BY <1>1, <2>1
<1>7. c[N + 1].seen \in SUBSET Ids
  <2>1. N + 1 \in 0..LastStep
    BY <1>1
  <2>2. c[N + 1].seen \in SUBSET Edges!IdSet(ls)
    BY <1>2, <2>1 DEF ChainState
  <2> QED
    BY <2>2, ModuleLines
<1>8. Cardinality(c[N + 1].seen) <= N
  BY <1>1, <1>7, FS_Subset DEF N
<1> QED
  BY <1>1, <1>6, <1>8

\* The chain of a module is, after its first step, the chain of its parent.
LEMMA ParentsChain ==
  ASSUME NEW ls \in Seq(Edges!GraphLine), Edges!G2(ls), Edges!G3(ls),
         NEW id \in Edges!IdSet(ls), Edges!Parent(ls, id) # "null"
  PROVE  /\ Edges!Parent(ls, id) \in Edges!IdSet(ls)
         /\ \A k \in 0..(LastStep - 1) :
              Chase(ls, Edges!Parent(ls, id))[k].at = Chase(ls, id)[k + 1].at
<1> DEFINE p == Edges!Parent(ls, id)
           c == Chase(ls, id)
           d == Chase(ls, p)
           N == LastStep - 1
           K == {k \in 0..N : d[k].at = c[k + 1].at}
<1>1. N \in Nat /\ LastStep = N + 1
  BY IdentitiesAssumption, FS_CardinalityType DEF LastStep
<1>2. /\ c[0].at = p
      /\ \A k \in 1..LastStep : c[k] = Edges!Chain(ls, c[k - 1])
      /\ \A k \in 0..LastStep : c[k] \in ChainState(ls) /\ ~c[k].bad
  BY GoodChain DEF Edges!G3
<1>3. p \in Edges!IdSet(ls) /\ c[1].at = Edges!Parent(ls, p)
  <2>1. 1 \in 1..LastStep /\ 0 \in 0..LastStep /\ 1 \in 0..LastStep /\ 1 - 1 = 0
    BY <1>1
  <2>2. c[1] = Edges!Chain(ls, c[0]) /\ c[0] \in ChainState(ls) /\ ~c[1].bad
    BY <1>2, <2>1
  <2> HIDE DEF c
  <2> QED
    BY <1>2, <2>2, StepUp
<1>4. /\ d[0].at = Edges!Parent(ls, p)
      /\ \A k \in 1..LastStep : d[k] = Edges!Chain(ls, d[k - 1])
      /\ \A k \in 0..LastStep : d[k] \in ChainState(ls) /\ ~d[k].bad
  BY <1>3, GoodChain DEF Edges!G3
<1> HIDE DEF c, d, N
<1>5. 0 \in K
  BY <1>1, <1>3, <1>4
<1>6. ASSUME NEW k \in 1..N, k - 1 \in K
      PROVE  k \in K
  <2>1. /\ k \in 1..LastStep /\ k - 1 \in 0..LastStep /\ k \in 0..LastStep
        /\ k + 1 \in 1..LastStep /\ k + 1 \in 0..LastStep /\ (k + 1) - 1 = k /\ (k - 1) + 1 = k
        /\ k \in 0..N
    BY <1>1
  <2>2. d[k - 1].at = c[k].at
    BY <1>6, <2>1
  <2>3. d[k] = Edges!Chain(ls, d[k - 1]) /\ d[k - 1] \in ChainState(ls) /\ ~d[k].bad
    BY <1>4, <2>1
  <2>4. c[k + 1] = Edges!Chain(ls, c[k]) /\ c[k] \in ChainState(ls) /\ ~c[k + 1].bad
    BY <1>2, <2>1
  <2>5. d[k].at = c[k + 1].at
    BY <2>2, <2>3, <2>4, StepUp
  <2> QED
    BY <2>1, <2>5
<1>7. 0..N \subseteq K
  <2> HIDE DEF K
  <2> QED
    BY <1>1, <1>5, <1>6, EveryRound
<1> QED
  BY <1>3, <1>7 DEF c, d, N

\* What check-graph passes is a forest: the depth of a module is the length of its
\* chain.
LEMMA GraphHolds ==
  ASSUME NEW ls \in Seq(Edges!GraphLine), NEW withRoot, Edges!GraphExit(ls, withRoot) = 0
  PROVE  Edges!IsForest(ls)
<1>1. Edges!G2(ls) /\ Edges!G3(ls)
  BY DEF Edges!GraphExit
<1> DEFINE N == Cardinality(Ids)
           Ends(id) == {k \in 0..N : Chase(ls, id)[k].at = "null"}
           Least(id) == CHOOSE k \in Ends(id) : \A j \in Ends(id) : k <= j
           depth == [id \in Edges!IdSet(ls) |-> Least(id)]
<1>2. N \in Nat /\ LastStep = N + 2
  BY IdentitiesAssumption, FS_CardinalityType DEF LastStep
<1>3. ASSUME NEW id \in Edges!IdSet(ls)
      PROVE  Least(id) \in Ends(id) /\ \A j \in Ends(id) : Least(id) <= j
  <2>1. Ends(id) # {} /\ Ends(id) \subseteq Nat
    BY <1>1, ChainEnds DEF Edges!G3
  <2>2. \E k \in Ends(id) : \A j \in Ends(id) : k <= j
    <3> HIDE DEF Ends
    <3> QED
      BY <2>1, LeastNatural
  <2> HIDE DEF Ends
  <2> QED
    BY <2>2
<1>4. depth \in [Edges!IdSet(ls) -> 0..N]
  <2> HIDE DEF Least, N
  <2>1. \A id \in Edges!IdSet(ls) : Least(id) \in 0..N
    BY <1>3
  <2> QED
    BY <2>1
<1>5. ASSUME NEW i \in Edges!ModuleRows(ls), ls[i].parent # "null"
      PROVE  ls[i].parent \in Edges!IdSet(ls) /\ depth[ls[i].id] > depth[ls[i].parent]
  <2> DEFINE id == ls[i].id
             p == ls[i].parent
             k == Least(id)
  <2>1. id \in Edges!IdSet(ls) /\ Edges!Parent(ls, id) = p
    BY <1>1, ModuleLines DEF Edges!IdSet
  <2>2. p \in Edges!IdSet(ls) /\ \A j \in 0..(LastStep - 1) : Chase(ls, p)[j].at = Chase(ls, id)[j + 1].at
    BY <1>1, <1>5, <2>1, ParentsChain
  <2>3. k \in 0..N /\ Chase(ls, id)[k].at = "null"
    BY <1>3, <2>1
  <2>4. Chase(ls, id)[0].at = p
    BY <1>1, <2>1, GoodChain DEF Edges!G3
  <2>5. k # 0
    BY <1>5, <2>3, <2>4
  <2>6. k - 1 \in 0..(LastStep - 1) /\ (k - 1) + 1 = k /\ k - 1 \in 0..N
    <3> HIDE DEF k, N
    <3> QED
      BY <1>2, <2>3, <2>5
  <2>7. Chase(ls, p)[k - 1].at = "null"
    <3> HIDE DEF k
    <3> QED
      BY <2>2, <2>3, <2>6
  <2>8. Least(p) <= k - 1 /\ Least(p) \in Nat
    <3>1. k - 1 \in Ends(p)
      BY <2>6, <2>7, Zenon
    <3>2. Ends(p) \subseteq Nat
      BY <1>2
    <3> HIDE DEF Ends, k
    <3> QED
      BY <1>3, <2>2, <3>1, <3>2
  <2>9. depth[id] = k /\ depth[p] = Least(p)
    <3> HIDE DEF Least
    <3> QED
      BY <2>1, <2>2
  <2>10. k \in Nat
    BY <1>2, <2>3
  <2>11. depth[id] > depth[p]
    <3> HIDE DEF Least, depth, k
    <3> QED
      BY <2>8, <2>9, <2>10
  <2> QED
    BY <2>2, <2>11
<1>6. Edges!Cardinality(Ids) = N
  BY CountsAlike
<1> HIDE DEF depth, N
<1> QED
  BY <1>4, <1>5, <1>6 DEF Edges!IsForest

\* From single edges to all paths: no component rests at any distance on a less
\* stable one, no file reaches a layer further out, and the parents make a forest.
THEOREM OneWay == Spec => []FlowsOneWay
<1>1. ASSUME GateInv
      PROVE  FlowsOneWay
  <2>1. SUFFICES ASSUME exit = 0 PROVE FlowsOneWay
    BY DEF FlowsOneWay
  <2>2. gate = "stability" => Parts!RestsOnStable(lines)
    <3>1. SUFFICES ASSUME gate = "stability" PROVE Parts!RestsOnStable(lines)
      OBVIOUS
    <3>2. Parts!StabilityExit(lines, world) = 0
      BY <1>1, <2>1, <3>1 DEF GateInv, RunGate, LaneGates
    <3>3. lines \in Seq(Parts!StabilityLine)
      BY <1>1, <3>1 DEF GateInv, LineOf, TypedGates
    <3> QED
      BY <3>2, <3>3, StabilityHolds
  <2>3. gate = "fence" => Edges!PointsInward(lines, world)
    <3>1. SUFFICES ASSUME gate = "fence" PROVE Edges!PointsInward(lines, world)
      OBVIOUS
    <3>2. Edges!FenceExit(lines, world) = 0
      BY <1>1, <2>1, <3>1 DEF GateInv, RunGate, LaneGates
    <3>3. lines \in Seq(Edges!FenceLine) /\ world \in Seq(Layers)
      BY <1>1, <3>1, WorldsAssumption DEF GateInv, LineOf, TypedGates
    <3> QED
      BY <3>2, <3>3, FenceHolds
  <2>4. gate = "graph" => Edges!IsForest(lines)
    <3>1. SUFFICES ASSUME gate = "graph" PROVE Edges!IsForest(lines)
      OBVIOUS
    <3>2. Edges!GraphExit(lines, world) = 0
      BY <1>1, <2>1, <3>1 DEF GateInv, RunGate, LaneGates
    <3>3. lines \in Seq(Edges!GraphLine)
      BY <1>1, <3>1 DEF GateInv, LineOf, TypedGates
    <3> QED
      BY <3>2, <3>3, GraphHolds
  <2> QED
    BY <2>2, <2>3, <2>4 DEF FlowsOneWay
<1> QED
  BY <1>1, AnswersWhatItReads, PTL

-----------------------------------------------------------------------------
(* check-destination and readonly-probe *)

\* Where check-destination lets a lens be drawn, the renderer changes what it may
\* and no more.
LEMMA DestinationHolds ==
  ASSUME NEW ls, NEW w, Edges!DestinationExit(ls, w) = 0
  PROVE  Edges!Renders(ls, w)
<1> DEFINE R == Edges!Reserved(ls)
<1>1. w.mode \in {"look", "instrument"} /\ Edges!Lane(w.mode, w.place) /\ w.dest # "file"
  BY DEF Edges!DestinationExit
<1>2. ASSUME w.dest = "directory"
      PROVE  /\ \A e \in R : e.is = "file"
             /\ R # {} => w.overwrite
  <2>1. /\ \A e \in R : ~Edges!Blocked(e)
        /\ {e \in R : ~Edges!Blocked(e)} = {} \/ w.overwrite
    BY <1>2 DEF Edges!DestinationExit
  <2> HIDE DEF R
  <2> QED
    BY <2>1 DEF Edges!Blocked
<1>3. Edges!Written(ls, w) = {IF w.place = "outside" THEN "elsewhere" ELSE "repository"}
  <2>1. {x \in R : w.dest = "directory" /\ x.is = "symlink"} = {}
    <3> HIDE DEF R
    <3> QED
      BY <1>2
  <2> QED
    BY <2>1 DEF Edges!Written
<1>4. w.mode = "look" => "repository" \notin Edges!Written(ls, w)
  BY <1>1, <1>3 DEF Edges!Lane
<1>5. w.mode = "instrument" => Edges!Written(ls, w) = {"repository"} /\ w.place # "root"
  BY <1>1, <1>3 DEF Edges!Lane
<1> HIDE DEF R
<1> QED
  BY <1>1, <1>2, <1>4, <1>5 DEF Edges!Renders, R

\* The trees a probe can leave.
AllTrees == UNION {[D -> Prints] : D \in SUBSET (Entries \cup {"."})}

\* What one command does to a tree.
Done(t, act) ==
  IF act.to = "gone" THEN [p \in DOMAIN t \ {act.path} |-> t[p]]
  ELSE [p \in DOMAIN t \cup {act.path} |-> IF p = act.path THEN act.to ELSE t[p]]

\* A command leaves a tree.
LEMMA DoneIsATree ==
  ASSUME NEW t \in AllTrees, NEW act \in Compared!ProbeLine
  PROVE  Done(t, act) \in AllTrees
<1>1. PICK D \in SUBSET (Entries \cup {"."}) : t \in [D -> Prints]
  BY DEF AllTrees
<1>2. act.path \in Entries \cup {"."} /\ act.to \in Prints \cup {"gone"}
  BY DEF Compared!ProbeLine
<1>3. CASE act.to = "gone"
  <2>1. Done(t, act) \in [D \ {act.path} -> Prints]
    BY <1>1, <1>3 DEF Done
  <2>2. D \ {act.path} \in SUBSET (Entries \cup {"."})
    OBVIOUS
  <2> QED
    BY <2>1, <2>2 DEF AllTrees
<1>4. CASE act.to # "gone"
  <2>1. Done(t, act) \in [D \cup {act.path} -> Prints]
    BY <1>1, <1>2, <1>4 DEF Done
  <2>2. D \cup {act.path} \in SUBSET (Entries \cup {"."})
    BY <1>2
  <2> QED
    BY <2>1, <2>2 DEF AllTrees
<1> QED
  BY <1>3, <1>4

\* The tree after a probe is one.
LEMMA AfterIsATree ==
  ASSUME NEW ls \in Seq(Compared!ProbeLine), NEW tree \in AllTrees
  PROVE  Compared!After(tree, ls) \in AllTrees
<1> DEFINE N == Len(ls)
           S == AllTrees
           G == [a \in (1..N) \X S |-> Done(a[2], ls[a[1]])]
           then[k \in 0..N] == IF k = 0 THEN tree ELSE Done(then[k - 1], ls[k])
<1>1. N \in Nat /\ \A k \in 1..N : ls[k] \in Compared!ProbeLine
  BY ElementOfSeq
<1>2. G \in [(1..N) \X S -> S]
  <2>1. \A k \in 1..N, t \in S : Done(t, ls[k]) \in S
    BY <1>1, DoneIsATree
  <2> HIDE DEF S, N
  <2> QED
    BY <2>1
<1>3. PICK f : Course(f, N, S, tree, G)
  <2> HIDE DEF G, N, S
  <2> QED
    BY <1>1, <1>2, Rounds DEF S
<1>4. f = [k \in 0..N |-> IF k = 0 THEN tree ELSE Done(f[k - 1], ls[k])]
  <2>1. \A k \in 1..N : f[k] = Done(f[k - 1], ls[k])
    <3> SUFFICES ASSUME NEW k \in 1..N PROVE f[k] = Done(f[k - 1], ls[k])
      OBVIOUS
    <3>1. f[k - 1] \in S
      <4> HIDE DEF N, S
      <4>1. k - 1 \in 0..N
        BY <1>1
      <4> QED
        BY <1>3, <4>1 DEF Course
    <3>2. G[<<k, f[k - 1]>>] = Done(f[k - 1], ls[k])
      <4> HIDE DEF N, S
      <4> QED
        BY <3>1
    <3> HIDE DEF G
    <3> QED
      BY <1>3, <3>2 DEF Course
  <2> HIDE DEF N
  <2> QED
    BY <1>1, <1>3, <2>1 DEF Course
<1>5. then = [k \in 0..N |-> IF k = 0 THEN tree ELSE Done(then[k - 1], ls[k])]
  <2> HIDE DEF N
  <2> QED
    BY <1>4
<1>6. Compared!After(tree, ls) = then[N]
  BY DEF Compared!After, Done
<1> DEFINE h == [k \in 0..N |-> IF k = 0 THEN tree ELSE Done(then[k - 1], ls[k])]
           K == {k \in 0..N : then[k] \in S}
<1>7. then[0] = tree /\ \A k \in 1..N : then[k] = Done(then[k - 1], ls[k])
  <2>1. h[0] = tree /\ \A k \in 1..N : h[k] = Done(then[k - 1], ls[k])
    <3> HIDE DEF then, N
    <3> QED
      BY <1>1
  <2>2. then = h
    BY <1>5
  <2> HIDE DEF h, then, N
  <2> QED
    BY <2>1, <2>2
<1> HIDE DEF then
<1>8. 0 \in K
  BY <1>1, <1>7
<1>9. ASSUME NEW k \in 1..N, k - 1 \in K
      PROVE  k \in K
  <2>1. Done(then[k - 1], ls[k]) \in S
    BY <1>1, <1>9, DoneIsATree
  <2> QED
    BY <1>7, <1>9, <2>1
<1>10. 0..N \subseteq K
  <2> HIDE DEF K, N
  <2> QED
    BY <1>1, <1>8, <1>9, EveryRound
<1> QED
  BY <1>1, <1>6, <1>10

\* A probe that passes left the tree as it was, the entries that came and went on
\* the way included.
LEMMA ProbeHolds ==
  ASSUME NEW ls \in Seq(Compared!ProbeLine), NEW tree \in Compared!Trees, NEW run,
         Compared!ProbeExit(tree, ls, run) = 0
  PROVE  Compared!After(tree, ls) = tree
<1> DEFINE after == Compared!After(tree, ls)
<1>1. tree \in AllTrees
  BY DEF Compared!Trees, AllTrees
<1>2. after \in AllTrees
  BY <1>1, AfterIsATree
<1>3. Compared!Breaches(tree, after) = {}
  BY DEF Compared!ProbeExit
<1> HIDE DEF after
<1>4. PICK D, E \in SUBSET (Entries \cup {"."}) : tree \in [D -> Prints] /\ after \in [E -> Prints]
  BY <1>1, <1>2 DEF AllTrees
<1>5. \A p \in DOMAIN tree \cup DOMAIN after :
        p \in DOMAIN after /\ p \in DOMAIN tree /\ tree[p] = after[p]
  BY <1>3 DEF Compared!Breaches
<1>6. DOMAIN tree = D /\ DOMAIN after = E
  BY <1>4
<1>7. D = E
  BY <1>5, <1>6
<1>8. after = tree
  BY <1>4, <1>5, <1>6, <1>7
<1> QED
  BY <1>8 DEF after

\* A look that may begin writes nothing into the repository, an instrument nothing
\* beside it, neither replaces a lens unasked, and a probe that passes leaves the
\* tree it was given.
THEOREM NothingChanged == Spec => []LooksChangeNothing
<1>1. ASSUME GateInv
      PROVE  LooksChangeNothing
  <2>1. SUFFICES ASSUME exit = 0 PROVE LooksChangeNothing
    BY DEF LooksChangeNothing
  <2>2. gate = "destination" => Edges!Renders(lines, world)
    <3>1. SUFFICES ASSUME gate = "destination" PROVE Edges!Renders(lines, world)
      OBVIOUS
    <3>2. Edges!DestinationExit(lines, world) = 0
      BY <1>1, <2>1, <3>1 DEF GateInv, RunGate, LaneGates
    <3> QED
      BY <3>2, DestinationHolds
  <2>3. gate = "probe" => Compared!After(world.tree, lines) = world.tree
    <3>1. SUFFICES ASSUME gate = "probe" PROVE Compared!After(world.tree, lines) = world.tree
      OBVIOUS
    <3>2. Compared!ProbeExit(world.tree, lines, world.run) = 0
      BY <1>1, <2>1, <3>1 DEF GateInv, RunGate, LaneGates
    <3>3. lines \in Seq(Compared!ProbeLine) /\ world.tree \in Compared!Trees
      BY <1>1, <3>1, WorldsAssumption DEF GateInv, LineOf, TypedGates
    <3> QED
      BY <3>2, <3>3, ProbeHolds
  <2> QED
    BY <2>2, <2>3 DEF LooksChangeNothing
<1> QED
  BY <1>1, AnswersWhatItReads, PTL

-----------------------------------------------------------------------------
(* leak-scan *)

\* The scan counts as this module does.
LEMMA LeaksCount == \A S : Leaks!Cardinality(S) = Cardinality(S)
  BY DEF Leaks!Cardinality, Cardinality

\* What the lines of a scan hold.
LEMMA ScanLines ==
  ASSUME NEW ls \in Seq(Leaks!Line)
  PROVE  /\ \A e \in Leaks!The(ls, "entry") : e.dir \in Dirs /\ e.to \in Dirs \cup Files \cup {"dangling"}
         /\ \A f \in Leaks!The(ls, "fact") : f.file \in Files /\ f.token \in Leaks!Token
         /\ \A i \in Leaks!WaiverRows(ls) : ls[i].token \in Leaks!Token /\ ls[i].token.is # "comment"
<1>1. \A i \in 1..Len(ls) : ls[i] \in Leaks!Line
  BY ElementOfSeq
<1>2. ASSUME NEW i \in 1..Len(ls)
      PROVE  /\ ls[i].of = "entry" => ls[i].dir \in Dirs /\ ls[i].to \in Dirs \cup Files \cup {"dangling"}
             /\ ls[i].of = "fact" => ls[i].file \in Files /\ ls[i].token \in Leaks!Token
             /\ ls[i].of = "waiver" /\ ls[i].is = "row" =>
                  ls[i].token \in Leaks!Token /\ ls[i].token.is # "comment"
  BY <1>1 DEF Leaks!Line
<1> QED
  BY <1>2 DEF Leaks!The, Leaks!WaiverRows

Closed(ls, S) == \A d \in S : Leaks!Kept(ls, d) \subseteq S

\* The walk's rounds end: what is walked holds the named directories and all that
\* its own entries lead to, and is within whatever else does.
LEMMA WalkIsLeast ==
  ASSUME NEW ls \in Seq(Leaks!Line), NEW tops \in SUBSET Dirs
  PROVE  LET W == Leaks!Walk(ls, tops) IN
         /\ W \in SUBSET Dirs
         /\ tops \subseteq W
         /\ Closed(ls, W)
         /\ \A S \in SUBSET Dirs : tops \subseteq S /\ Closed(ls, S) => W \subseteq S
<1> DEFINE N == Leaks!Cardinality(Dirs)
           Onward(r) == r \cup UNION {Leaks!Kept(ls, d) : d \in r}
           round[n \in 0..N] ==
             IF n = 0 THEN tops
             ELSE round[n - 1] \cup UNION {Leaks!Kept(ls, d) : d \in round[n - 1]}
           G == [a \in (1..N) \X SUBSET Dirs |-> Onward(a[2])]
           h == [n \in 0..N |-> IF n = 0 THEN tops ELSE Onward(round[n - 1])]
<1>1. N \in Nat /\ N = Cardinality(Dirs) /\ IsFiniteSet(Dirs)
  BY IdentitiesAssumption, FS_CardinalityType, LeaksCount
<1>2. \A r \in SUBSET Dirs : Onward(r) \in SUBSET Dirs /\ r \subseteq Onward(r)
  <2>1. \A d : Leaks!Kept(ls, d) \subseteq Dirs
    BY DEF Leaks!Kept
  <2> QED
    BY <2>1
<1>3. G \in [(1..N) \X SUBSET Dirs -> SUBSET Dirs]
  <2> HIDE DEF Onward, N
  <2> QED
    BY <1>2
<1>4. PICK f : Course(f, N, SUBSET Dirs, tops, G)
  <2> HIDE DEF G, N
  <2> QED
    BY <1>1, <1>3, Rounds
<1>5. f = [n \in 0..N |-> IF n = 0 THEN tops ELSE Onward(f[n - 1])]
  <2>1. \A n \in 1..N : f[n] = Onward(f[n - 1])
    <3> SUFFICES ASSUME NEW n \in 1..N PROVE f[n] = Onward(f[n - 1])
      OBVIOUS
    <3>1. f[n - 1] \in SUBSET Dirs
      <4> HIDE DEF N
      <4>1. n - 1 \in 0..N
        BY <1>1
      <4> QED
        BY <1>4, <4>1 DEF Course
    <3>2. G[<<n, f[n - 1]>>] = Onward(f[n - 1])
      <4> HIDE DEF N, Onward
      <4> QED
        BY <3>1
    <3> HIDE DEF G, Onward
    <3> QED
      BY <1>4, <3>2 DEF Course
  <2> HIDE DEF N, Onward
  <2> QED
    BY <1>1, <1>4, <2>1 DEF Course
<1>6. round = h
  <2> HIDE DEF N
  <2> QED
    BY <1>5
<1>7. round[0] = tops /\ \A n \in 1..N : round[n] = Onward(round[n - 1])
  <2>1. h[0] = tops /\ \A n \in 1..N : h[n] = Onward(round[n - 1])
    <3> HIDE DEF round, N, Onward
    <3> QED
      BY <1>1
  <2> HIDE DEF h, round, N, Onward
  <2> QED
    BY <1>6, <2>1
<1>8. Leaks!Walk(ls, tops) = round[N]
  BY DEF Leaks!Walk
<1> HIDE DEF round, N, h, G
<1>9. ASSUME NEW n \in 0..N
      PROVE  round[n] \in SUBSET Dirs /\ tops \subseteq round[n]
  <2> DEFINE K == {k \in 0..N : round[k] \in SUBSET Dirs /\ tops \subseteq round[k]}
  <2>1. 0 \in K
    BY <1>1, <1>7
  <2>2. ASSUME NEW k \in 1..N, k - 1 \in K
        PROVE  k \in K
    <3> HIDE DEF Onward
    <3> QED
      BY <1>2, <1>7, <2>2
  <2>3. 0..N \subseteq K
    <3> HIDE DEF K
    <3> QED
      BY <1>1, <2>1, <2>2, EveryRound
  <2> QED
    BY <2>3
<1>10. ASSUME NEW S \in SUBSET Dirs, tops \subseteq S, Closed(ls, S)
       PROVE  round[N] \subseteq S
  <2> DEFINE K == {k \in 0..N : round[k] \subseteq S}
  <2>1. 0 \in K
    BY <1>1, <1>7, <1>10
  <2>2. ASSUME NEW k \in 1..N, k - 1 \in K
        PROVE  k \in K
    <3>1. Onward(round[k - 1]) \subseteq S
      BY <1>10, <2>2 DEF Closed
    <3> HIDE DEF Onward
    <3> QED
      BY <1>7, <2>2, <3>1
  <2>3. 0..N \subseteq K
    <3> HIDE DEF K
    <3> QED
      BY <1>1, <2>1, <2>2, EveryRound
  <2> QED
    BY <1>1, <2>3
<1>11. Closed(ls, round[N])
  <2> DEFINE K == {k \in 0..N : Closed(ls, round[k]) \/ Cardinality(round[k]) >= k}
  <2>0. \A k \in 0..N : IsFiniteSet(round[k]) /\ Cardinality(round[k]) \in Nat
    BY <1>1, <1>9, FS_Subset, FS_CardinalityType
  <2>1. 0 \in K
    BY <1>1, <2>0
  <2>2. ASSUME NEW k \in 1..N, k - 1 \in K
        PROVE  k \in K
    <3>1. k \in 0..N /\ k - 1 \in 0..N /\ round[k] = Onward(round[k - 1])
      BY <1>1, <1>7
    <3>2. CASE Onward(round[k - 1]) = round[k - 1]
      <4>1. Closed(ls, round[k - 1])
        BY <3>2 DEF Closed
      <4> HIDE DEF Onward
      <4> QED
        BY <3>1, <3>2, <4>1
    <3>3. CASE Onward(round[k - 1]) # round[k - 1]
      <4> HIDE DEF Onward
      <4>1. round[k - 1] \subseteq round[k] /\ round[k - 1] # round[k]
        BY <1>2, <1>9, <3>1, <3>3
      <4>2. Cardinality(round[k - 1]) < Cardinality(round[k])
        BY <2>0, <3>1, <4>1, FS_Subset
      <4>3. CASE Closed(ls, round[k - 1])
        <5>1. Onward(round[k - 1]) \subseteq round[k - 1]
          BY <4>3 DEF Closed, Onward
        <5> QED
          BY <3>1, <4>1, <5>1
      <4>4. CASE Cardinality(round[k - 1]) >= k - 1
        BY <2>0, <3>1, <4>2, <4>4
      <4> QED
        BY <2>2, <4>3, <4>4
    <3> QED
      BY <3>2, <3>3
  <2>3. 0..N \subseteq K
    <3> HIDE DEF K
    <3> QED
      BY <1>1, <2>1, <2>2, EveryRound
  <2>4. Closed(ls, round[N]) \/ Cardinality(round[N]) >= N
    BY <1>1, <2>3
  <2>5. CASE Cardinality(round[N]) >= N
    <3>1. N \in 0..N
      BY <1>1
    <3>2. Cardinality(round[N]) <= Cardinality(Dirs)
          /\ (Cardinality(round[N]) = Cardinality(Dirs) => round[N] = Dirs)
      BY <1>1, <1>9, <3>1, FS_Subset
    <3>3. round[N] = Dirs
      BY <1>1, <2>0, <2>5, <3>1, <3>2
    <3>4. \A d : Leaks!Kept(ls, d) \subseteq Dirs
      BY DEF Leaks!Kept
    <3> QED
      BY <3>3, <3>4 DEF Closed
  <2> QED
    BY <2>4, <2>5
<1>12. N \in 0..N
  BY <1>1
<1> QED
  BY <1>8, <1>9, <1>10, <1>11, <1>12

\* A file the scan collected is one that some chain of entries reaches.
LEMMA CollectedIsReached ==
  ASSUME NEW ls \in Seq(Leaks!Line), NEW site, site.tops \in SUBSET Dirs, NEW file \in Files
  PROVE  file \in Leaks!Collected(ls, site).files <=> Leaks!Reached(ls, site, file)
<1> DEFINE W == Leaks!Walk(ls, site.tops)
           entries == Leaks!The(ls, "entry")
<1>1. /\ W \in SUBSET Dirs /\ site.tops \subseteq W /\ Closed(ls, W)
      /\ \A S \in SUBSET Dirs : site.tops \subseteq S /\ Closed(ls, S) => W \subseteq S
  BY WalkIsLeast
<1>2. file \notin Dirs /\ file # "dangling"
  BY IdentitiesAssumption
<1>3. Leaks!Collected(ls, site).files
        = ((UNION {Leaks!Listed(ls, d) : d \in W}) \ {"dangling"}) \cup site.named
  BY DEF Leaks!Collected
<1>4. (\E d \in W : file \in Leaks!Listed(ls, d))
        <=> \E e \in entries : e.to = file /\ e.scanned /\ e.dir \in W
  BY <1>2 DEF Leaks!Listed
<1>5. ASSUME NEW d
      PROVE  d \in W <=> \A S \in SUBSET Dirs : site.tops \subseteq S /\ Closed(ls, S) => d \in S
  <2> HIDE DEF W
  <2> QED
    BY <1>1
<1>6. (\E e \in entries : e.to = file /\ e.scanned /\ e.dir \in W)
        <=> \E e \in entries : /\ e.to = file /\ e.scanned
                               /\ \A S \in SUBSET Dirs : site.tops \subseteq S /\ Closed(ls, S) => e.dir \in S
  <2> HIDE DEF W, entries
  <2> QED
    BY <1>5, Zenon
<1>7. file \in Leaks!Collected(ls, site).files
        <=> file \in site.named \/ \E d \in W : file \in Leaks!Listed(ls, d)
  <2> HIDE DEF W
  <2> QED
    BY <1>2, <1>3
<1> HIDE DEF W
<1> QED
  BY <1>4, <1>6, <1>7, Zenon DEF Leaks!Reached, Closed

\* Two literals are one fact exactly if they have one key.
LEMMA KeysAreFacts ==
  ASSUME NEW s \in Leaks!Token, NEW t \in Leaks!Token, s.is # "comment", t.is # "comment"
  PROVE  Leaks!SameFact(s, t) <=> Leaks!ScalarKey(s) = Leaks!ScalarKey(t)
<1>1. s.is \in {"string", "number", "quoted"} /\ t.is \in {"string", "number", "quoted"}
  BY DEF Leaks!Token
<1>2. \A a, b : <<"s", a>> # <<"n", b>> /\ <<"n", b>> # <<"s", a>>
  OBVIOUS
<1> QED
  BY <1>1, <1>2 DEF Leaks!SameFact, Leaks!ScalarKey

\* The keys that two collected files have.
LeakKeys(ls, site) ==
  LET got == Leaks!Collected(ls, site)
      keys == UNION {Leaks!KeysIn(ls, f) : f \in got.files}
  IN  {k \in keys : Leaks!Cardinality(Leaks!Sites(ls, got.files, k)) >= 2}

\* At least two is two that differ.
LEMMA AtLeastTwo ==
  ASSUME NEW S, IsFiniteSet(S)
  PROVE  Cardinality(S) >= 2 <=> \E a, b \in S : a # b
<1>1. Cardinality(S) \in Nat
  BY FS_CardinalityType
<1>2. ASSUME NEW a \in S, NEW b \in S, a # b
      PROVE  Cardinality(S) >= 2
  <2>1. Cardinality(S) # 0
    BY <1>2, FS_EmptySet
  <2>2. Cardinality(S) # 1
    BY <1>2, FS_Singleton
  <2> QED
    BY <1>1, <2>1, <2>2
<1>3. ASSUME Cardinality(S) >= 2
      PROVE  \E a, b \in S : a # b
  <2>1. S # {}
    BY <1>3, FS_EmptySet
  <2>2. PICK a \in S : TRUE
    BY <2>1
  <2>3. S # {a}
    BY <1>3, FS_Singleton
  <2> QED
    BY <2>2, <2>3
<1> QED
  BY <1>2, <1>3

\* The scan calls a key a leak exactly if one fact is in two files that are reached.
LEMMA LeaksAreFacts ==
  ASSUME NEW ls \in Seq(Leaks!Line), NEW site, site.tops \in SUBSET Dirs, site.named \in SUBSET Files,
         NEW t \in Leaks!Token, t.is # "comment"
  PROVE  Leaks!ScalarKey(t) \in LeakKeys(ls, site) <=> Leaks!Leaked(ls, site, t)
<1> DEFINE got == Leaks!Collected(ls, site).files
           k == Leaks!ScalarKey(t)
           facts == {f \in Leaks!The(ls, "fact") : Leaks!Counts(f.token) /\ Leaks!ScalarKey(f.token) = k}
           sites == Leaks!Sites(ls, got, k)
<1>1. \A f \in Leaks!The(ls, "fact") : f.file \in Files /\ f.token \in Leaks!Token
  BY ScanLines
<1>2. \A file : k \in Leaks!KeysIn(ls, file) <=> \E f \in facts : f.file = file
  BY DEF Leaks!KeysIn
<1>3. sites = {file \in got : \E f \in facts : f.file = file}
  BY <1>2 DEF Leaks!Sites
<1>4. sites \in SUBSET Files
  BY <1>1, <1>3
<1>5. IsFiniteSet(sites)
  BY <1>4, IdentitiesAssumption, FS_Subset
<1>6. k \in LeakKeys(ls, site) <=> Cardinality(sites) >= 2
  <2>1. k \in LeakKeys(ls, site) <=> (\E file \in got : k \in Leaks!KeysIn(ls, file)) /\ Cardinality(sites) >= 2
    BY LeaksCount DEF LeakKeys
  <2>2. Cardinality(sites) >= 2 => \E file \in got : k \in Leaks!KeysIn(ls, file)
    <3>1. Cardinality(sites) >= 2 => sites # {}
      BY <1>5, AtLeastTwo
    <3> HIDE DEF sites
    <3> QED
      BY <3>1, <1>2, <1>3
  <2> HIDE DEF sites, k
  <2> QED
    BY <2>1, <2>2, Zenon
<1>7. \A file \in Files : file \in got <=> Leaks!Reached(ls, site, file)
  BY CollectedIsReached
<1>8. ASSUME NEW f \in Leaks!The(ls, "fact"), Leaks!Counts(f.token)
      PROVE  Leaks!SameFact(f.token, t) <=> Leaks!ScalarKey(f.token) = k
  <2>1. f.token \in Leaks!Token /\ f.token.is # "comment"
    BY <1>1, <1>8 DEF Leaks!Counts
  <2> QED
    BY <2>1, KeysAreFacts
<1> HIDE DEF got, k
<1>9. Leaks!Leaked(ls, site, t) <=> \E f, g \in facts : f.file # g.file /\ f.file \in got /\ g.file \in got
  <2>1. \A f \in Leaks!The(ls, "fact") :
          Leaks!Reached(ls, site, f.file) /\ Leaks!Counts(f.token) /\ Leaks!SameFact(f.token, t)
            <=> f \in facts /\ f.file \in got
    BY <1>1, <1>7, <1>8
  <2>2. facts \subseteq Leaks!The(ls, "fact")
    OBVIOUS
  <2> HIDE DEF facts
  <2> QED
    BY <2>1, <2>2 DEF Leaks!Leaked
<1>10. (\E f, g \in facts : f.file # g.file /\ f.file \in got /\ g.file \in got)
         <=> \E a, b \in sites : a # b
  <2> HIDE DEF facts, sites
  <2> QED
    BY <1>3
<1>11. (\E a, b \in sites : a # b) <=> Cardinality(sites) >= 2
  BY <1>5, AtLeastTwo
<1> HIDE DEF sites, facts
<1> QED
  BY <1>6, <1>9, <1>10, <1>11 DEF k

\* What the ledger's rows answer for, and what they name for nothing.
Waived(ls) == {Leaks!ScalarKey(ls[i].token) : i \in Leaks!WaiverRows(ls)}

\* Every leak has an owner exactly if each key has a row, and a row is stale exactly
\* if its key is no leak.
LEMMA OwnedIsWaived ==
  ASSUME NEW ls \in Seq(Leaks!Line), NEW site, site.tops \in SUBSET Dirs, site.named \in SUBSET Files
  PROVE  /\ Leaks!Owned(ls, site) <=> LeakKeys(ls, site) \subseteq Waived(ls)
         /\ Leaks!Stale(ls, site) <=> ~(Waived(ls) \subseteq LeakKeys(ls, site))
<1> DEFINE facts == {f \in Leaks!The(ls, "fact") : Leaks!Counts(f.token)}
           rows == {w \in Leaks!The(ls, "waiver") : w.is = "row"}
           K == LeakKeys(ls, site)
<1>1. \A f \in facts : f.token \in Leaks!Token /\ f.token.is # "comment"
  BY ScanLines DEF Leaks!Counts
<1>2. rows = {ls[i] : i \in Leaks!WaiverRows(ls)}
  BY DEF Leaks!The, Leaks!WaiverRows
<1>3. \A w \in rows : w.token \in Leaks!Token /\ w.token.is # "comment"
  BY <1>2, ScanLines
<1>4. Waived(ls) = {Leaks!ScalarKey(w.token) : w \in rows}
  BY <1>2 DEF Waived
<1>5. K \subseteq {Leaks!ScalarKey(f.token) : f \in facts}
  BY DEF LeakKeys, Leaks!KeysIn
<1>6. \A f \in facts : Leaks!Leaked(ls, site, f.token) <=> Leaks!ScalarKey(f.token) \in K
  BY <1>1, LeaksAreFacts
<1>7. \A w \in rows : Leaks!Leaked(ls, site, w.token) <=> Leaks!ScalarKey(w.token) \in K
  BY <1>3, LeaksAreFacts
<1>8. \A w \in rows, f \in facts :
        Leaks!SameFact(w.token, f.token) <=> Leaks!ScalarKey(w.token) = Leaks!ScalarKey(f.token)
  BY <1>1, <1>3, KeysAreFacts
<1>9. Leaks!Owned(ls, site) <=> \A f \in facts : Leaks!Leaked(ls, site, f.token)
                                  => \E w \in rows : Leaks!SameFact(w.token, f.token)
  BY DEF Leaks!Owned
<1>10. Leaks!Stale(ls, site) <=> \E w \in rows : ~Leaks!Leaked(ls, site, w.token)
  BY DEF Leaks!Stale
<1> HIDE DEF facts, rows, K
<1>11. Leaks!Owned(ls, site) <=> K \subseteq Waived(ls)
  BY <1>4, <1>5, <1>6, <1>8, <1>9
<1>12. Leaks!Stale(ls, site) <=> ~(Waived(ls) \subseteq K)
  BY <1>4, <1>7, <1>10
<1> QED
  BY <1>11, <1>12 DEF K

\* A fact that two reached files state has an owner's reason, or the scan is red; a
\* reason for what is no leak any more is told from that by a code of its own.
THEOREM LeaksOwned == Spec => []LeaksHaveOwners
<1>1. ASSUME GateInv
      PROVE  LeaksHaveOwners
  <2>1. SUFFICES ASSUME gate = "leaks", exit \in {0, 1, 3}
                 PROVE  /\ exit # 1 <=> Leaks!Owned(lines, world.site)
                        /\ exit = 3 => Leaks!Stale(lines, world.site)
                        /\ exit = 0 /\ ~world.noStale => ~Leaks!Stale(lines, world.site)
    BY DEF LeaksHaveOwners, Ruled
  <2>2. exit = Leaks!Exit(lines, world.site, world.noStale)
    BY <1>1, <2>1 DEF GateInv, RunGate, LaneGates
  <2>3. /\ lines \in Seq(Leaks!Line)
        /\ world.site.tops \in SUBSET Dirs /\ world.site.named \in SUBSET Files
    BY <1>1, <2>1, WorldsAssumption DEF GateInv, LineOf, TypedGates
  <2> DEFINE K == LeakKeys(lines, world.site)
             V == Waived(lines)
  <2>4. exit = 2 \/ exit = IF ~(K \subseteq V) THEN 1
                           ELSE IF ~world.noStale /\ ~(V \subseteq K) THEN 3 ELSE 0
    BY <2>2 DEF Leaks!Exit, LeakKeys, Waived
  <2>5. Leaks!Owned(lines, world.site) <=> K \subseteq V
    BY <2>3, OwnedIsWaived
  <2>6. Leaks!Stale(lines, world.site) <=> ~(V \subseteq K)
    BY <2>3, OwnedIsWaived
  <2> HIDE DEF K, V
  <2> QED
    BY <2>1, <2>4, <2>5, <2>6
<1> QED
  BY <1>1, AnswersWhatItReads, PTL

-----------------------------------------------------------------------------
(* crap-gate and mythical-agent-month *)

\* Products of naturals grow with their factors.
LEMMA ProductsGrow ==
  ASSUME NEW a \in Nat, NEW b \in Nat, NEW c \in Nat, NEW d \in Nat, a <= b, c <= d
  PROVE  a * c <= b * d /\ a * c \in Nat
<1>1. a * c <= b * c
  <2>1. (b - a) * c >= 0
    BY Z3
  <2>2. (b - a) * c = b * c - a * c
    BY Z3
  <2> QED
    BY <2>1, <2>2, Z3
<1>2. b * c <= b * d
  <2>1. b * (d - c) >= 0
    BY Z3
  <2>2. b * (d - c) = b * d - b * c
    BY Z3
  <2> QED
    BY <2>1, <2>2, Z3
<1> QED
  BY <1>1, <1>2, Z3

\* A score is the complexity plus a part that grows with it and with what the tests
\* leave uncovered.
LEMMA ScoresGrow ==
  ASSUME NEW c \in Nat, NEW d \in Nat, NEW l \in Nat, NEW m \in Nat, c <= d, l <= m
  PROVE  c * c * l * l * l <= d * d * m * m * m /\ c * c * l * l * l \in Nat
<1>1. c * c <= d * d /\ c * c \in Nat /\ d * d \in Nat
  BY ProductsGrow
<1>2. c * c * l <= d * d * m /\ c * c * l \in Nat /\ d * d * m \in Nat
  BY <1>1, ProductsGrow
<1>3. c * c * l * l <= d * d * m * m /\ c * c * l * l \in Nat /\ d * d * m * m \in Nat
  BY <1>2, ProductsGrow
<1> QED
  BY <1>3, ProductsGrow

\* A green crap-gate has rows, all of them in range and under the threshold.
LEMMA CrapGreen ==
  ASSUME NEW ls \in Seq(Scores!CrapLine), NEW t
  PROVE  Scores!CrapExit(ls, t) = 0 <=>
           /\ \A i \in 1..Len(ls) : ls[i].is # "malformed"
           /\ \A i \in Scores!Rows(ls) : Scores!Sound(ls[i]) /\ ~Scores!Over(ls[i], t)
           /\ Scores!Rows(ls) # {}
  BY DEF Scores!CrapExit

\* A row in range has a complexity and an uncovered part.
LEMMA RowsInRange ==
  ASSUME NEW ls \in Seq(Scores!CrapLine), NEW i \in Scores!Rows(ls), Scores!Sound(ls[i])
  PROVE  ls[i].comp \in Nat /\ ls[i].comp >= 1 /\ ls[i].cov \in Nat /\ 100 - ls[i].cov \in Nat
<1>1. ls[i] \in Scores!CrapLine /\ ls[i].is = "row"
  BY ElementOfSeq DEF Scores!Rows
<1>2. ls[i].comp \in Int /\ ls[i].cov \in Int
  BY <1>1 DEF Scores!CrapLine
<1>3. ls[i].comp >= 1 /\ ls[i].cov \in 0..100
  BY DEF Scores!Sound
<1> DEFINE c == ls[i].comp
           v == ls[i].cov
<1> HIDE DEF c, v
<1>4. c \in Int /\ v \in Int /\ c >= 1 /\ v \in 0..100
  BY <1>2, <1>3 DEF c, v
<1>5. c \in Nat /\ c >= 1 /\ v \in Nat /\ 100 - v \in Nat
  BY <1>4
<1> QED
  BY <1>5 DEF c, v

\* A function in range that is not over the threshold passes by hand too.
LEMMA UnderByHand ==
  ASSUME NEW row, NEW t \in Int, row.comp \in Nat, row.cov \in Nat, 100 - row.cov \in Nat,
         ~Scores!Over(row, t)
  PROVE  row.comp <= t /\ (row.cov = 0 => row.comp * (row.comp + 1) <= t)
<1> DEFINE c == row.comp
           l == 100 - row.cov
           score == c * c * l * l * l
<1>1. score \in Nat /\ ~(score > (t - c) * 1000000) /\ c \in Nat /\ l \in Nat
  BY ScoresGrow DEF Scores!Over
<1>2. c <= t
  <2> HIDE DEF c, l, score
  <2> QED
    BY <1>1
<1>3. ASSUME row.cov = 0
      PROVE  c * (c + 1) <= t
  <2>1. l = 100 /\ c * c \in Nat
    BY <1>1, <1>3, ProductsGrow
  <2>2. score = c * c * 1000000
    <3> HIDE DEF c, l
    <3> QED
      BY <1>1, <2>1
  <2>3. c * (c + 1) = c * c + c
    <3> HIDE DEF c
    <3> QED
      BY <1>1
  <2> DEFINE square == c * c
  <2>4. score = square * 1000000 /\ c * (c + 1) = square + c /\ square \in Nat
    BY <2>1, <2>2, <2>3
  <2> HIDE DEF c, l, score, square
  <2> QED
    BY <1>1, <2>4
<1> QED
  BY <1>2, <1>3

\* What passes the gate passes by hand, so what fails by hand fails the gate.
LEMMA CrapHolds ==
  ASSUME NEW ls \in Seq(Scores!CrapLine), NEW t \in Int, Scores!CrapExit(ls, t) = 0
  PROVE  Scores!PassesByHand(ls, t) /\ ~Scores!FailsByHand(ls, t)
<1>1. \A i \in 1..Len(ls) : ls[i].is = "row" =>
        /\ ls[i].comp \in Nat /\ ls[i].comp <= t
        /\ ls[i].cov = 0 => ls[i].comp * (ls[i].comp + 1) <= t /\ ls[i].comp * (ls[i].comp + 1) \in Nat
  <2> SUFFICES ASSUME NEW i \in 1..Len(ls), ls[i].is = "row"
               PROVE  /\ ls[i].comp \in Nat /\ ls[i].comp <= t
                      /\ ls[i].cov = 0 => ls[i].comp * (ls[i].comp + 1) <= t /\ ls[i].comp * (ls[i].comp + 1) \in Nat
    OBVIOUS
  <2>1. i \in Scores!Rows(ls) /\ Scores!Sound(ls[i]) /\ ~Scores!Over(ls[i], t)
    BY CrapGreen DEF Scores!Rows
  <2>2. ls[i].comp \in Nat /\ ls[i].cov \in Nat /\ 100 - ls[i].cov \in Nat
    BY <2>1, RowsInRange
  <2>3. ls[i].comp + 1 \in Nat
    BY <2>2
  <2>4. ls[i].comp * (ls[i].comp + 1) \in Nat
    BY <2>2, <2>3, ProductsGrow
  <2>5. ls[i].comp <= t /\ (ls[i].cov = 0 => ls[i].comp * (ls[i].comp + 1) <= t)
    BY <2>1, <2>2, UnderByHand
  <2> QED
    BY <2>2, <2>4, <2>5
<1>2. Scores!PassesByHand(ls, t)
  BY <1>1 DEF Scores!PassesByHand
<1>3. ASSUME NEW i \in 1..Len(ls), ls[i].is = "row"
      PROVE  ~(ls[i].comp > t) /\ ~(ls[i].cov = 0 /\ ls[i].comp * (ls[i].comp + 1) > t)
  <2> DEFINE c == ls[i].comp
             p == c * (c + 1)
  <2>1. c \in Nat /\ c <= t /\ (ls[i].cov = 0 => p <= t /\ p \in Nat)
    BY <1>1, <1>3
  <2> HIDE DEF c, p
  <2>2. ~(c > t) /\ ~(ls[i].cov = 0 /\ p > t)
    BY <2>1
  <2> QED
    BY <2>2 DEF c, p
<1>4. ~Scores!FailsByHand(ls, t)
  BY <1>3, Zenon DEF Scores!FailsByHand
<1> QED
  BY <1>2, <1>4

\* A function with fewer branches and more coverage is not scored higher.
LEMMA BetterIsUnder ==
  ASSUME NEW row, NEW better, NEW t \in Int,
         row.comp \in Nat, row.cov \in Nat, 100 - row.cov \in Nat,
         better.comp \in 1..row.comp, better.cov \in row.cov..100, ~Scores!Over(row, t)
  PROVE  ~Scores!Over(better, t) /\ Scores!Sound(better)
<1> DEFINE c == better.comp
           l == 100 - better.cov
           d == row.comp
           m == 100 - row.cov
           less == c * c * l * l * l
           score == d * d * m * m * m
<1>1. c \in Nat /\ l \in Nat /\ d \in Nat /\ m \in Nat /\ c <= d /\ l <= m
  OBVIOUS
<1>2. less <= score /\ less \in Nat /\ score \in Nat
  <2> HIDE DEF c, l, d, m
  <2> QED
    BY <1>1, ScoresGrow
<1>3. ~(score > (t - d) * 1000000)
  BY DEF Scores!Over
<1>4. ~(less > (t - c) * 1000000)
  <2> HIDE DEF c, l, d, m, less, score
  <2> QED
    BY <1>1, <1>2, <1>3
<1> QED
  BY <1>4 DEF Scores!Over, Scores!Sound

\* So an improvement cannot turn a green crap-gate red.
LEMMA ImprovedStaysGreen ==
  ASSUME GateInv, Improve, exit = 0
  PROVE  exit' = 0
<1>1. gate = "crap" /\ lines \in Seq(Scores!CrapLine) /\ world \in Int /\ world' = world /\ gate' = gate
  BY WorldsAssumption DEF Improve, GateInv, TypedGates, LineOf
<1>2. PICK i \in 1..Len(lines), better \in LinesOf["crap"] :
        /\ lines[i].is = "row" /\ better.is = "row"
        /\ better.comp \in 1..lines[i].comp /\ better.cov \in lines[i].cov..100
        /\ lines' = [lines EXCEPT ![i] = better]
  BY DEF Improve
<1>3. better \in Scores!CrapLine
  BY LinesAssumption DEF TypedGates, LineOf
<1>4. /\ lines' \in Seq(Scores!CrapLine) /\ Len(lines') = Len(lines)
      /\ \A j \in 1..Len(lines) : lines'[j] = IF j = i THEN better ELSE lines[j]
  BY <1>1, <1>2, <1>3, ExceptSeq
<1>5. /\ \A j \in 1..Len(lines) : lines[j].is # "malformed"
      /\ \A j \in Scores!Rows(lines) : Scores!Sound(lines[j]) /\ ~Scores!Over(lines[j], world)
      /\ Scores!Rows(lines) # {}
  <2>1. Scores!CrapExit(lines, world) = 0
    BY <1>1 DEF GateInv, RunGate, LaneGates
  <2> QED
    BY <1>1, <2>1, CrapGreen
<1>6. Scores!Rows(lines') = Scores!Rows(lines) /\ i \in Scores!Rows(lines)
  BY <1>2, <1>4 DEF Scores!Rows
<1>7. \A j \in 1..Len(lines') : lines'[j].is # "malformed"
  BY <1>2, <1>4, <1>5
<1>8. ~Scores!Over(better, world) /\ Scores!Sound(better)
  BY <1>1, <1>2, <1>5, <1>6, RowsInRange, BetterIsUnder
<1>9. \A j \in Scores!Rows(lines') : Scores!Sound(lines'[j]) /\ ~Scores!Over(lines'[j], world)
  <2>1. \A j \in Scores!Rows(lines) : j \in 1..Len(lines)
    BY DEF Scores!Rows
  <2> QED
    BY <1>4, <1>5, <1>6, <1>8, <2>1
<1>10. Scores!CrapExit(lines', world) = 0
  BY <1>4, <1>5, <1>6, <1>7, <1>9, CrapGreen
<1>11. exit' = RunGate(gate, lines', world')
  BY DEF Improve, Reruns
<1> QED
  BY <1>1, <1>10, <1>11 DEF RunGate, LaneGates

\* A product with a positive factor has the sign of the other.
LEMMA SignOfProduct ==
  ASSUME NEW k \in Int, NEW x \in Int, k > 0
  PROVE  k * x < 0 <=> x < 0
<1>1. CASE x < 0
  <2>1. -x \in Nat /\ -x >= 1 /\ k \in Nat
    BY <1>1
  <2>2. 1 * (-x) <= k * (-x)
    BY <2>1, ProductsGrow
  <2>3. k * (-x) = -(k * x)
    BY Z3
  <2> QED
    BY <1>1, <2>1, <2>2, <2>3
<1>2. CASE x >= 0
  <2>1. x \in Nat /\ k \in Nat
    BY <1>2
  <2>2. k * x \in Nat
    BY <2>1, ProductsGrow
  <2> QED
    BY <1>2, <2>2
<1> QED
  BY <1>1, <1>2

\* What the last m - n agents of a fleet of m hand over, against what they take on.
Overhead(plan, m, n) == plan.handoff_minutes * Unit * m * n * (m + n - 1)
Shared(plan) == 2 * plan.serial_minutes * plan.partitionable

\* The plans the gate judges.
Plausible(plan) ==
  /\ plan.serial_minutes \in Nat /\ plan.partitionable \in Nat /\ plan.handoff_minutes \in Nat
  /\ plan.fleet \in 1..MaxFleet

\* A larger fleet is faster if what it hands over is less than what it shares.
LEMMA FasterFleet ==
  ASSUME NEW plan, Plausible(plan), NEW m \in Nat, NEW n \in Nat, n >= 1, m > n
  PROVE  /\ Scores!Less(Scores!Elapsed(plan, m), Scores!Elapsed(plan, n))
              <=> Overhead(plan, m, n) < Shared(plan)
         /\ Overhead(plan, m, n) \in Int /\ Shared(plan) \in Int
<1> DEFINE s == plan.serial_minutes
           p == plan.partitionable
           h == plan.handoff_minutes
           U == Unit
           A(k) == 2 * s * (k * (U - p) + p) + h * U * k * k * (k - 1)
           K == 2 * U * U * (m - n)
           X == h * U * m * n * (m + n - 1) - 2 * s * p
<1>1. s \in Nat /\ p \in Nat /\ h \in Nat /\ U \in Nat /\ U >= 1
  BY NumbersAssumption DEF Plausible
<1>2. Scores!Less(Scores!Elapsed(plan, m), Scores!Elapsed(plan, n))
        <=> A(m) * (2 * n * U * U) < A(n) * (2 * m * U * U)
  BY DEF Scores!Less, Scores!Elapsed
<1>3. Overhead(plan, m, n) = h * U * m * n * (m + n - 1) /\ Shared(plan) = 2 * s * p
  BY DEF Overhead, Shared
<1> HIDE DEF s, p, h, U
<1>4. /\ A(m) * (2 * n * U * U) - A(n) * (2 * m * U * U) = K * X
      /\ A(m) * (2 * n * U * U) \in Int /\ A(n) * (2 * m * U * U) \in Int
  BY <1>1, Z3
<1>5. h * U * m * n * (m + n - 1) \in Int /\ 2 * s * p \in Int
  BY <1>1, Z3
<1>6. K \in Int /\ K > 0
  <2>1. U * U \in Nat /\ 1 * 1 <= U * U
    BY <1>1, ProductsGrow
  <2>2. m - n \in Nat /\ 1 <= m - n
    OBVIOUS
  <2>3. 1 * 1 <= (U * U) * (m - n) /\ (U * U) * (m - n) \in Nat
    BY <2>1, <2>2, ProductsGrow
  <2>4. K = 2 * ((U * U) * (m - n))
    BY <1>1, Z3
  <2> DEFINE q == (U * U) * (m - n)
  <2>5. q \in Nat /\ 1 <= q /\ K = 2 * q
    BY <2>3, <2>4
  <2> HIDE DEF q, K
  <2> QED
    BY <2>5
<1>7. K * X < 0 <=> X < 0
  <2>1. X \in Int
    BY <1>5
  <2> HIDE DEF K, X
  <2> QED
    BY <1>6, <2>1, SignOfProduct
<1> DEFINE over == h * U * m * n * (m + n - 1)
           shared == 2 * s * p
           left == A(m) * (2 * n * U * U)
           right == A(n) * (2 * m * U * U)
           product == K * X
<1>8. /\ left - right = product /\ left \in Int /\ right \in Int /\ over \in Int /\ shared \in Int
      /\ product < 0 <=> X < 0
      /\ X = over - shared
  BY <1>4, <1>5, <1>7
<1>9. left < right <=> over < shared
  <2> HIDE DEF over, shared, left, right, product, X
  <2> QED
    BY <1>8
<1> QED
  BY <1>2, <1>3, <1>8, <1>9

\* The overhead grows with both fleets that are compared.
LEMMA OverheadGrows ==
  ASSUME NEW plan, Plausible(plan), NEW m \in Nat, NEW n \in Nat, NEW j \in Nat, NEW k \in Nat,
         n >= 1, m >= 1, m <= j, n <= k
  PROVE  Overhead(plan, m, n) <= Overhead(plan, j, k)
<1> DEFINE h == plan.handoff_minutes * Unit
<1>1. h \in Nat
  BY NumbersAssumption, ProductsGrow DEF Plausible
<1>2. Overhead(plan, m, n) = h * m * n * (m + n - 1) /\ Overhead(plan, j, k) = h * j * k * (j + k - 1)
  BY DEF Overhead
<1> HIDE DEF h
<1>3. h * m <= h * j /\ h * m \in Nat /\ h * j \in Nat
  BY <1>1, ProductsGrow
<1>4. h * m * n <= h * j * k /\ h * m * n \in Nat /\ h * j * k \in Nat
  BY <1>3, ProductsGrow
<1>5. m + n - 1 <= j + k - 1 /\ m + n - 1 \in Nat /\ j + k - 1 \in Nat
  OBVIOUS
<1>6. h * m * n * (m + n - 1) <= h * j * k * (j + k - 1)
  BY <1>4, <1>5, ProductsGrow
<1> QED
  BY <1>2, <1>6

\* A fleet that is faster than a smaller one is not slower than it, and none is
\* faster than itself.
LEMMA NotSlower ==
  ASSUME NEW plan, Plausible(plan), NEW m \in Nat, NEW n \in Nat
  PROVE  ~(Scores!Less(Scores!Elapsed(plan, m), Scores!Elapsed(plan, n))
             /\ Scores!Less(Scores!Elapsed(plan, n), Scores!Elapsed(plan, m)))
<1> DEFINE a == Scores!Elapsed(plan, m)[1] * Scores!Elapsed(plan, n)[2]
           b == Scores!Elapsed(plan, n)[1] * Scores!Elapsed(plan, m)[2]
<1>1. a \in Int /\ b \in Int
  <2> DEFINE s == plan.serial_minutes
             p == plan.partitionable
             h == plan.handoff_minutes
             U == Unit
             A(k) == 2 * s * (k * (U - p) + p) + h * U * k * k * (k - 1)
  <2>1. s \in Nat /\ p \in Nat /\ h \in Nat /\ U \in Nat
    BY NumbersAssumption DEF Plausible
  <2>2. a = A(m) * (2 * n * U * U) /\ b = A(n) * (2 * m * U * U)
    BY DEF Scores!Elapsed
  <2> HIDE DEF s, p, h, U, a, b
  <2> QED
    BY <2>1, <2>2, Z3
<1>2. ~(a < b /\ b < a)
  <2> HIDE DEF a, b
  <2> QED
    BY <1>1
<1> QED
  BY <1>2 DEF Scores!Less

\* What fleet-cost weighs: a fleet is worth what its last agent is worth.
Gains(plan, n) == Overhead(plan, n + 1, n) < Shared(plan)

\* The last agent is weighed against the fleet with one fewer.
LEMMA LastAgent ==
  ASSUME NEW plan, Plausible(plan), NEW n \in Nat, n >= 1
  PROVE  Scores!Less(Scores!Elapsed(plan, n + 1), Scores!Elapsed(plan, n)) <=> Gains(plan, n)
<1>1. n + 1 \in Nat /\ n + 1 > n
  OBVIOUS
<1> QED
  BY <1>1, FasterFleet DEF Gains

\* If the agent after n gains nothing, no later one does.
LEMMA GainsFall ==
  ASSUME NEW plan, Plausible(plan), NEW n \in Nat, NEW k \in Nat, n >= 1, n <= k, Gains(plan, k)
  PROVE  Gains(plan, n)
<1>1. Overhead(plan, n + 1, n) <= Overhead(plan, k + 1, k)
  BY OverheadGrows
<1>2. /\ Overhead(plan, n + 1, n) \in Int /\ Overhead(plan, k + 1, k) \in Int
      /\ Shared(plan) \in Int
  BY FasterFleet
<1> QED
  BY <1>1, <1>2 DEF Gains

\* A fleet is faster than each smaller one if it is faster than the next smaller.
LEMMA WorthItsLast ==
  ASSUME NEW plan, Plausible(plan), NEW f \in Nat, f >= 2
  PROVE  (\A n \in 1..(f - 1) : Scores!Less(Scores!Elapsed(plan, f), Scores!Elapsed(plan, n)))
           <=> Gains(plan, f - 1)
<1> DEFINE Faster(n) == Scores!Less(Scores!Elapsed(plan, f), Scores!Elapsed(plan, n))
<1>1. f - 1 \in 1..(f - 1) /\ f - 1 \in Nat /\ f - 1 >= 1 /\ (f - 1) + 1 = f
  OBVIOUS
<1>2. Faster(f - 1) <=> Gains(plan, f - 1)
  BY <1>1, FasterFleet DEF Gains
<1>3. ASSUME Gains(plan, f - 1), NEW n \in 1..(f - 1)
      PROVE  Faster(n)
  <2>1. n \in Nat /\ n >= 1 /\ f > n /\ n <= f - 1 /\ f <= f /\ f >= 1
    OBVIOUS
  <2>2. Overhead(plan, f, n) <= Overhead(plan, f, f - 1)
    BY <1>1, <2>1, OverheadGrows
  <2>3. Overhead(plan, f, n) \in Int /\ Overhead(plan, f, f - 1) \in Int /\ Shared(plan) \in Int
    BY <1>1, <2>1, FasterFleet
  <2>4. Overhead(plan, f, f - 1) < Shared(plan)
    BY <1>1, <1>3 DEF Gains
  <2>5. Overhead(plan, f, n) < Shared(plan)
    BY <2>2, <2>3, <2>4
  <2> QED
    BY <2>1, <2>5, FasterFleet
<1> HIDE DEF Faster
<1>4. (\A n \in 1..(f - 1) : Faster(n)) <=> Gains(plan, f - 1)
  BY <1>1, <1>2, <1>3
<1> QED
  BY <1>4 DEF Faster

\* The crossover is the size after which the next agent gains nothing.
LEMMA CrossoverStops ==
  ASSUME NEW plan, Plausible(plan)
  PROVE  LET best == Scores!Crossover(plan)
         IN  \/ best = 0 /\ \A n \in 1..(MaxFleet - 1) : Gains(plan, n)
             \/ /\ best \in 1..(MaxFleet - 1)
                /\ \A n \in 1..(MaxFleet - 1) : Gains(plan, n) <=> n < best
<1> DEFINE Faster(n) == Scores!Less(Scores!Elapsed(plan, n + 1), Scores!Elapsed(plan, n))
           stops == {n \in 1..(MaxFleet - 1) : ~Faster(n)}
           least == CHOOSE n \in stops : \A m \in stops : n <= m
<1>1. Scores!Crossover(plan) = IF stops = {} THEN 0 ELSE least
  BY DEF Scores!Crossover
<1>2. MaxFleet \in Nat
  BY NumbersAssumption
<1>3. \A n \in 1..(MaxFleet - 1) : n \in Nat /\ n >= 1 /\ (Faster(n) <=> Gains(plan, n))
  <2> SUFFICES ASSUME NEW n \in 1..(MaxFleet - 1)
               PROVE  n \in Nat /\ n >= 1 /\ (Faster(n) <=> Gains(plan, n))
    OBVIOUS
  <2>1. n \in Nat /\ n >= 1
    BY <1>2
  <2> QED
    BY <2>1, LastAgent
<1>4. CASE stops = {}
  BY <1>1, <1>3, <1>4
<1>5. CASE stops # {}
  <2>1. stops \subseteq Nat /\ stops \subseteq 1..(MaxFleet - 1)
    BY <1>3
  <2>2. \E n \in stops : \A m \in stops : n <= m
    <3> HIDE DEF stops
    <3> QED
      BY <1>5, <2>1, LeastNatural
  <2>3. least \in stops /\ \A m \in stops : least <= m
    <3> HIDE DEF stops
    <3> QED
      BY <2>2
  <2> DEFINE b == least
  <2>4. b \in 1..(MaxFleet - 1) /\ ~Gains(plan, b) /\ \A n \in 1..(MaxFleet - 1) : ~Gains(plan, n) => b <= n
    <3>1. b \in 1..(MaxFleet - 1) /\ ~Faster(b)
      BY <2>3
    <3>2. \A n \in 1..(MaxFleet - 1) : ~Faster(n) => b <= n
      BY <2>3
    <3> HIDE DEF b, Faster
    <3> QED
      BY <1>3, <3>1, <3>2
  <2> HIDE DEF least, b
  <2>5. ASSUME NEW n \in 1..(MaxFleet - 1)
        PROVE  Gains(plan, n) <=> n < b
    <3>1. n \in Nat /\ n >= 1 /\ b \in Nat /\ b >= 1
      BY <1>3, <2>4
    <3>2. CASE n < b
      BY <2>4, <3>1, <3>2
    <3>3. CASE b <= n
      BY <2>4, <3>1, <3>3, GainsFall
    <3> QED
      BY <3>1, <3>2, <3>3
  <2>6. Scores!Crossover(plan) = b
    BY <1>1, <1>5 DEF b
  <2> QED
    BY <2>4, <2>5, <2>6
<1> QED
  BY <1>4, <1>5

\* The crossover is the fastest fleet and the largest that pays.
LEMMA CrossoverHolds ==
  ASSUME NEW plan, Plausible(plan)
  PROVE  /\ Scores!CrossoverIsBest(plan)
         /\ Scores!Pays(plan) <=> Scores!IsWorthIt(plan)
<1> DEFINE Faster(m, n) == Scores!Less(Scores!Elapsed(plan, m), Scores!Elapsed(plan, n))
           f == plan.fleet
           best == Scores!Crossover(plan)
<1>1. f \in 1..MaxFleet /\ MaxFleet \in Nat /\ f \in Nat /\ f >= 1
  BY NumbersAssumption DEF Plausible
<1>2. Scores!IsWorthIt(plan) <=> f = 1 \/ Gains(plan, f - 1)
  <2>1. CASE f = 1
    BY <2>1 DEF Scores!IsWorthIt
  <2>2. CASE f # 1
    <3>1. f >= 2
      <4> HIDE DEF f
      <4> QED
        BY <1>1, <2>2
    <3> QED
      BY <1>1, <2>2, <3>1, WorthItsLast DEF Scores!IsWorthIt
  <2> QED
    BY <2>1, <2>2
<1>3. Scores!Pays(plan) <=> f = 1 \/ Gains(plan, f - 1)
  <2>1. CASE f = 1
    BY <2>1 DEF Scores!Pays
  <2>2. CASE f # 1
    <3>1. f - 1 \in Nat /\ f - 1 >= 1 /\ (f - 1) + 1 = f
      <4> HIDE DEF f
      <4> QED
        BY <1>1, <2>2
    <3>2. Faster(f, f - 1) <=> Gains(plan, f - 1)
      BY <3>1, LastAgent
    <3> QED
      BY <2>2, <3>2 DEF Scores!Pays
  <2> QED
    BY <2>1, <2>2
<1>4. CASE best = 0 /\ \A n \in 1..(MaxFleet - 1) : Gains(plan, n)
  <2>1. \A n \in 1..(MaxFleet - 1) : Faster(n + 1, n)
    <3> SUFFICES ASSUME NEW n \in 1..(MaxFleet - 1) PROVE Faster(n + 1, n)
      OBVIOUS
    <3>1. n \in Nat /\ n >= 1
      BY <1>1
    <3> QED
      BY <1>4, <3>1, LastAgent
  <2> QED
    BY <1>2, <1>3, <1>4, <2>1 DEF Scores!CrossoverIsBest
<1>5. CASE /\ best \in 1..(MaxFleet - 1)
           /\ \A n \in 1..(MaxFleet - 1) : Gains(plan, n) <=> n < best
  <2> HIDE DEF f, best
  <2>1. best \in Nat /\ best >= 1 /\ best # 0 /\ ~Gains(plan, best)
    BY <1>1, <1>5
  <2>2. ASSUME NEW n \in 1..MaxFleet
        PROVE  ~Faster(n, best)
    <3>1. n \in Nat /\ n >= 1
      BY <1>1
    <3>2. CASE n = best
      BY <2>1, <3>2, NotSlower
    <3>3. CASE n > best
      <4>1. best + 1 \in Nat /\ best + 1 >= 1 /\ best + 1 <= n /\ best + 1 > best
        BY <2>1, <3>1, <3>3
      <4>2. Overhead(plan, best + 1, best) <= Overhead(plan, n, best)
        BY <2>1, <3>1, <4>1, OverheadGrows
      <4>3. /\ Overhead(plan, best + 1, best) \in Int /\ Overhead(plan, n, best) \in Int
            /\ Shared(plan) \in Int
        BY <2>1, <3>1, <3>3, <4>1, FasterFleet
      <4>4. ~(Overhead(plan, best + 1, best) < Shared(plan))
        BY <2>1 DEF Gains
      <4>5. ~(Overhead(plan, n, best) < Shared(plan))
        BY <4>2, <4>3, <4>4
      <4> QED
        BY <2>1, <3>1, <3>3, <4>5, FasterFleet
    <3>4. CASE n < best
      <4>1. best \in Nat /\ best >= 2 /\ best - 1 \in 1..(MaxFleet - 1) /\ best - 1 < best /\ n \in 1..(best - 1)
        BY <1>1, <1>5, <2>1, <3>1, <3>4
      <4>2. Gains(plan, best - 1)
        BY <1>5, <4>1
      <4>3. Faster(best, n)
        BY <4>1, <4>2, WorthItsLast
      <4> QED
        BY <2>1, <3>1, <4>3, NotSlower
    <3> QED
      BY <2>1, <3>1, <3>2, <3>3, <3>4
  <2>3. Scores!IsWorthIt(plan) <=> f <= best
    <3>1. CASE f = 1
      BY <1>2, <2>1, <3>1
    <3>2. CASE f # 1
      <4>1. f - 1 \in 1..(MaxFleet - 1)
        BY <1>1, <3>2
      <4>2. Gains(plan, f - 1) <=> f - 1 < best
        BY <1>5, <4>1
      <4> QED
        BY <1>1, <1>2, <2>1, <3>2, <4>2
    <3> QED
      BY <3>1, <3>2
  <2> QED
    BY <1>2, <1>3, <2>1, <2>2, <2>3 DEF Scores!CrossoverIsBest, f, best
<1> QED
  BY <1>4, <1>5, CrossoverStops

\* A plan that is not refused gives each key its number once.
LEMMA PlanIsRead ==
  ASSUME NEW ls \in Seq(Scores!FleetLine), ~Scores!Refused(ls)
  PROVE  /\ Plausible(Scores!Plan(ls))
         /\ \A i \in Scores!Fields(ls) : /\ ls[i].key \in Scores!Keys
                                         /\ Scores!Plan(ls)[ls[i].key] = ls[i].value
         /\ \A k \in Scores!Keys : \E i \in Scores!Fields(ls) : ls[i].key = k
<1> DEFINE plan == Scores!Plan(ls)
<1>1. /\ \A i \in Scores!Fields(ls) : Scores!InRange(ls[i])
      /\ \A i, j \in Scores!Fields(ls) : i # j => ls[i].key # ls[j].key
      /\ {ls[i].key : i \in Scores!Fields(ls)} = Scores!Keys
  BY DEF Scores!Refused
<1>2. \A i \in Scores!Fields(ls) : ls[i].value \in Nat /\ ls[i].key \in Scores!Keys
  <2> SUFFICES ASSUME NEW i \in Scores!Fields(ls) PROVE ls[i].value \in Nat
    BY <1>1
  <2>1. ls[i] \in Scores!FleetLine /\ ls[i].is = "field"
    BY ElementOfSeq DEF Scores!Fields
  <2> QED
    BY <2>1 DEF Scores!FleetLine
<1>3. \A i \in Scores!Fields(ls) : plan[ls[i].key] = ls[i].value
  <2> SUFFICES ASSUME NEW i \in Scores!Fields(ls) PROVE plan[ls[i].key] = ls[i].value
    OBVIOUS
  <2> DEFINE j == CHOOSE j \in Scores!Fields(ls) : ls[j].key = ls[i].key
  <2>1. j \in Scores!Fields(ls) /\ ls[j].key = ls[i].key
    OBVIOUS
  <2>2. j = i
    BY <1>1, <2>1
  <2>3. plan[ls[i].key] = ls[j].value
    BY <1>2 DEF Scores!Plan, Scores!Value
  <2> HIDE DEF j, plan
  <2> QED
    BY <2>2, <2>3
<1>4. \A k \in Scores!Keys : \E i \in Scores!Fields(ls) : ls[i].key = k
  BY <1>1
<1>5. \A k \in Scores!Keys : plan[k] \in Nat
  <2> HIDE DEF plan
  <2> QED
    BY <1>2, <1>3, <1>4
<1>6. plan["fleet"] \in 1..MaxFleet
  <2>1. "fleet" \in Scores!Keys
    BY DEF Scores!Keys
  <2>2. PICK i \in Scores!Fields(ls) : ls[i].key = "fleet"
    BY <1>4, <2>1
  <2>3. ls[i].value \in 1..MaxFleet
    BY <1>1, <2>2 DEF Scores!InRange
  <2> HIDE DEF plan
  <2> QED
    BY <1>3, <2>2, <2>3
<1>7. {"serial_minutes", "partitionable", "handoff_minutes", "fleet"} = Scores!Keys
  BY DEF Scores!Keys
<1>8. Plausible(plan)
  <2>1. /\ plan["serial_minutes"] \in Nat /\ plan["partitionable"] \in Nat
        /\ plan["handoff_minutes"] \in Nat
    BY <1>5, <1>7
  <2> HIDE DEF plan
  <2> QED
    BY <1>6, <2>1 DEF Plausible
<1> QED
  BY <1>2, <1>3, <1>4, <1>8

\* A fleet is judged as the person who compares it with every smaller one does.
LEMMA FleetHolds ==
  ASSUME NEW ls \in Seq(Scores!FleetLine), Scores!FleetExit(ls) \in {0, 1}
  PROVE  /\ Scores!FleetExit(ls) = 0 <=> Scores!IsWorthIt(Scores!Plan(ls))
         /\ Scores!CrossoverIsBest(Scores!Plan(ls))
<1>1. ~Scores!Refused(ls) /\ (Scores!FleetExit(ls) = 0 <=> Scores!Pays(Scores!Plan(ls)))
  BY DEF Scores!FleetExit
<1>2. Plausible(Scores!Plan(ls))
  BY <1>1, PlanIsRead
<1> QED
  BY <1>1, <1>2, CrossoverHolds

\* A fleet that does not pay does not pay with one more agent.
LEMMA HiredStaysRed ==
  ASSUME GateInv, Hire, exit = 1
  PROVE  exit' = 1
<1>1. gate = "fleet" /\ lines \in Seq(Scores!FleetLine) /\ gate' = gate
  BY DEF Hire, GateInv, TypedGates, LineOf
<1>2. PICK i \in 1..Len(lines) :
        /\ lines[i].is = "field" /\ lines[i].key = "fleet" /\ lines[i].value < MaxFleet
        /\ lines' = [lines EXCEPT ![i].value = @ + 1]
  BY DEF Hire
<1> DEFINE more == [lines[i] EXCEPT !.value = @ + 1]
           plan == Scores!Plan(lines)
           next == Scores!Plan(lines')
           f == plan.fleet
<1>3. /\ more \in Scores!FleetLine /\ lines' = [lines EXCEPT ![i] = more]
      /\ more.is = "field" /\ more.key = "fleet" /\ more.point = lines[i].point
      /\ more.value = lines[i].value + 1
  <2>1. lines[i] \in Scores!FleetLine
    BY <1>1, ElementOfSeq
  <2>2. lines[i] \in [is : {"field"}, key : Scores!Keys \cup {"unknown"}, value : Nat, point : BOOLEAN]
    BY <1>2, <2>1 DEF Scores!FleetLine
  <2> QED
    BY <1>2, <2>2 DEF Scores!FleetLine
<1>4. /\ lines' \in Seq(Scores!FleetLine) /\ Len(lines') = Len(lines)
      /\ \A j \in 1..Len(lines) : lines'[j] = IF j = i THEN more ELSE lines[j]
  <2> HIDE DEF more
  <2> QED
    BY <1>1, <1>3, ExceptSeq
<1>5. exit = Scores!FleetExit(lines) /\ exit' = Scores!FleetExit(lines')
  BY <1>1 DEF GateInv, RunGate, LaneGates, Hire, Reruns
<1>6. ~Scores!Refused(lines) /\ ~Scores!Pays(plan)
  BY <1>5 DEF Scores!FleetExit
<1> HIDE DEF more, plan, next, f
<1>7. /\ Scores!Fields(lines') = Scores!Fields(lines) /\ i \in Scores!Fields(lines)
      /\ \A j \in Scores!Fields(lines) : j \in 1..Len(lines) /\ lines'[j].key = lines[j].key
  BY <1>2, <1>3, <1>4 DEF Scores!Fields
<1>8. /\ Plausible(plan) /\ plan["fleet"] = lines[i].value
      /\ \A j \in Scores!Fields(lines) : lines[j].key \in Scores!Keys /\ plan[lines[j].key] = lines[j].value
      /\ \A k \in Scores!Keys : \E j \in Scores!Fields(lines) : lines[j].key = k
  <2>1. /\ Plausible(plan)
        /\ \A j \in Scores!Fields(lines) : lines[j].key \in Scores!Keys /\ plan[lines[j].key] = lines[j].value
        /\ \A k \in Scores!Keys : \E j \in Scores!Fields(lines) : lines[j].key = k
    BY <1>1, <1>6, PlanIsRead DEF plan
  <2> QED
    BY <1>2, <1>7, <2>1
<1>9. ~Scores!Refused(lines')
  <2>1. /\ \A j \in 1..Len(lines) : lines[j].is # "malformed"
        /\ \A j \in Scores!Fields(lines) : Scores!InRange(lines[j])
        /\ \A j, k \in Scores!Fields(lines) : j # k => lines[j].key # lines[k].key
        /\ {lines[j].key : j \in Scores!Fields(lines)} = Scores!Keys
    BY <1>6 DEF Scores!Refused
  <2>2. \A j \in 1..Len(lines') : lines'[j].is # "malformed"
    BY <1>3, <1>4, <2>1
  <2>3. Scores!InRange(more)
    <3>1. lines[i].value \in 1..MaxFleet /\ ~lines[i].point
      BY <1>2, <1>7, <2>1 DEF Scores!InRange
    <3>2. more.value \in 1..MaxFleet
      BY <1>2, <1>3, <3>1, NumbersAssumption
    <3> QED
      BY <1>3, <3>1, <3>2 DEF Scores!InRange
  <2>4. \A j \in Scores!Fields(lines') : Scores!InRange(lines'[j])
    BY <1>4, <1>7, <2>1, <2>3
  <2>5. \A j, k \in Scores!Fields(lines') : j # k => lines'[j].key # lines'[k].key
    BY <1>7, <2>1
  <2>6. {lines'[j].key : j \in Scores!Fields(lines')} = Scores!Keys
    BY <1>7, <2>1, Zenon
  <2> QED
    BY <2>2, <2>4, <2>5, <2>6 DEF Scores!Refused
<1>10. /\ Plausible(next)
       /\ \A j \in Scores!Fields(lines') : next[lines'[j].key] = lines'[j].value
  BY <1>4, <1>9, PlanIsRead DEF next
<1>11. next["fleet"] = f + 1 /\ \A k \in Scores!Keys : k # "fleet" => next[k] = plan[k]
  <2>1. next["fleet"] = f + 1
    <3>1. i \in Scores!Fields(lines') /\ lines'[i] = more
      BY <1>4, <1>7
    <3>2. next["fleet"] = more.value
      BY <1>3, <1>10, <3>1
    <3>3. f = lines[i].value
      BY <1>8 DEF f
    <3> QED
      BY <1>3, <3>2, <3>3
  <2>2. ASSUME NEW k \in Scores!Keys, k # "fleet"
        PROVE  next[k] = plan[k]
    <3>1. PICK j \in Scores!Fields(lines) : lines[j].key = k
      BY <1>8
    <3>2. j # i /\ lines'[j] = lines[j] /\ j \in Scores!Fields(lines')
      BY <1>2, <1>4, <1>7, <2>2, <3>1
    <3> QED
      BY <1>8, <1>10, <3>1, <3>2
  <2> QED
    BY <2>1, <2>2
<1>12. /\ f \in Nat /\ f >= 2 /\ ~Gains(plan, f - 1)
  <2>1. f \in 1..MaxFleet /\ MaxFleet \in Nat
    BY <1>8, NumbersAssumption DEF Plausible, f
  <2>2. f # 1 /\ ~Scores!Less(Scores!Elapsed(plan, f), Scores!Elapsed(plan, f - 1))
    BY <1>6 DEF Scores!Pays, f
  <2>3. f \in Nat /\ f >= 2 /\ f - 1 \in Nat /\ f - 1 >= 1 /\ (f - 1) + 1 = f
    BY <2>1, <2>2
  <2> QED
    BY <1>8, <2>2, <2>3, LastAgent
<1>13. ~Gains(plan, f)
  <2>1. f - 1 \in Nat /\ f - 1 >= 1 /\ f - 1 <= f
    BY <1>12
  <2> QED
    BY <1>8, <1>12, <2>1, GainsFall
<1>14. ~Gains(next, f)
  <2>1. {"serial_minutes", "partitionable", "handoff_minutes", "fleet"} = Scores!Keys
    BY DEF Scores!Keys
  <2>2. /\ next.serial_minutes = plan.serial_minutes /\ next.partitionable = plan.partitionable
        /\ next.handoff_minutes = plan.handoff_minutes
    BY <1>11, <2>1
  <2> QED
    BY <1>13, <2>2 DEF Gains, Overhead, Shared
<1>15. ~Scores!Pays(next)
  <2>1. f >= 1 /\ f + 1 # 1 /\ (f + 1) - 1 = f /\ next.fleet = f + 1
    BY <1>11, <1>12
  <2>2. ~Scores!Less(Scores!Elapsed(next, f + 1), Scores!Elapsed(next, f))
    BY <1>10, <1>12, <1>14, <2>1, LastAgent
  <2> QED
    BY <2>1, <2>2 DEF Scores!Pays
<1> QED
  BY <1>5, <1>9, <1>15 DEF Scores!FleetExit, next

\* For every threshold, plan and row: what does not pay does not come to pay by
\* growing, and what passes does not come to fail by getting better.
THEOREM OnlyOneWay == Spec => VerdictsAreMonotone
<1>1. ASSUME GateInv
      PROVE  /\ Hire /\ exit = 1 => exit' = 1
             /\ Improve /\ exit = 0 => exit' = 0
  BY <1>1, HiredStaysRed, ImprovedStaysGreen
<1> QED
  BY <1>1, AnswersWhatItReads, PTL DEF Spec, VerdictsAreMonotone

-----------------------------------------------------------------------------
(* cohesion-read *)

\* Finitely many, told apart by a name of each: as many as there are names.
LEMMA AsManyAsNames ==
  ASSUME NEW S, IsFiniteSet(S), NEW f, f \in [S -> {f[i] : i \in S}],
         \A i, j \in S : f[i] = f[j] => i = j
  PROVE  /\ IsFiniteSet({f[i] : i \in S})
         /\ Cardinality({f[i] : i \in S}) = Cardinality(S)
         /\ Cardinality(S) \in Nat
<1> DEFINE T == {f[i] : i \in S}
<1>1. f \in Injection(S, T)
  BY DEF Injection, IsInjective
<1>2. f \in Surjection(S, T)
  BY DEF Surjection
<1>3. ExistsBijection(S, T)
  BY <1>1, <1>2 DEF Bijection, ExistsBijection
<1> QED
  BY <1>3, FS_Bijection, FS_CardinalityType

\* The gate's count of rows is the reader's count of commits, and what a row touches is
\* what its commit touches.
LEMMA CohesionHolds ==
  ASSUME NEW ls \in Seq(Parts!CohesionLine), NEW b, b.context \in Nat, b.fan \in Nat, b.percent \in Nat,
         Parts!CohesionExit(ls, b) \in {0, 1}
  PROVE  Parts!CohesionExit(ls, b) = 0 <=> Parts!WithinBudgets(ls, b)
<1> DEFINE R == Parts!CohesionRows(ls, "commit")
           spread == {i \in R : Parts!Cardinality(Parts!Members(ls[i])) > b.fan}
           ref == [i \in R |-> ls[i].ref[1]]
           commits == {ls[i].ref[1] : i \in R}
           touched(r) == {c \in Components : \E i \in R : ls[i].ref[1] = r /\ \E m \in ls[i].members : m[1] = c}
           wide == {r \in commits : Parts!Cardinality(touched(r)) > b.fan}
<1>1. ~Parts!InputError(ls)
  BY DEF Parts!CohesionExit
<1>2. /\ \A i, j \in R : i # j => ls[i].ref[1] # ls[j].ref[1]
      /\ {ls[i].total : i \in Parts!CohesionRows(ls, "commits")} = {Parts!Cardinality(R)}
  BY <1>1 DEF Parts!InputError, Parts!Key
<1>3. \A i \in R : \A m \in ls[i].members : m[1] \in Components
  <2> SUFFICES ASSUME NEW i \in R PROVE \A m \in ls[i].members : m[1] \in Components
    OBVIOUS
  <2>1. ls[i] \in Parts!CohesionLine /\ ls[i].of = "commit"
    BY ElementOfSeq DEF Parts!CohesionRows
  <2>2. ls[i].members \subseteq Parts!Name(Components)
    BY <2>1 DEF Parts!CohesionLine
  <2> QED
    BY <2>2 DEF Parts!Name
<1>4. ASSUME NEW i \in R
      PROVE  touched(ref[i]) = Parts!Members(ls[i])
  <2>1. \A j \in R : ls[j].ref[1] = ref[i] <=> j = i
    BY <1>2
  <2> QED
    BY <1>3, <2>1 DEF Parts!Members, Parts!Key
<1>5. IsFiniteSet(R) /\ IsFiniteSet(spread)
  <2>1. R \in SUBSET (1..Len(ls)) /\ spread \in SUBSET R /\ Len(ls) \in Int /\ 1 \in Int
    BY DEF Parts!CohesionRows
  <2>2. IsFiniteSet(1..Len(ls))
    BY <2>1, FS_Interval
  <2> HIDE DEF R, spread
  <2> QED
    BY <2>1, <2>2, FS_Subset
<1>6. /\ commits = {ref[i] : i \in R}
      /\ Cardinality(commits) = Cardinality(R) /\ Cardinality(R) \in Nat
  <2>1. commits = {ref[i] : i \in R}
    OBVIOUS
  <2>2. ref \in [R -> {ref[i] : i \in R}] /\ \A i, j \in R : ref[i] = ref[j] => i = j
    BY <1>2
  <2> HIDE DEF R, ref, commits
  <2> QED
    BY <1>5, <2>1, <2>2, AsManyAsNames
<1>7. Cardinality(wide) = Cardinality(spread) /\ Cardinality(spread) \in Nat
  <2> DEFINE g == [i \in spread |-> ref[i]]
  <2>1. wide = {g[i] : i \in spread}
    <3>1. \A r \in commits : \E i \in R : ref[i] = r
      OBVIOUS
    <3>2. \A i \in R : ref[i] \in commits /\ (ref[i] \in wide <=> i \in spread)
      BY <1>4
    <3>3. \A i \in spread : i \in R /\ g[i] = ref[i]
      OBVIOUS
    <3>4. wide \subseteq commits
      OBVIOUS
    <3> HIDE DEF R, ref, commits, wide, spread, g
    <3> QED
      BY <3>1, <3>2, <3>3, <3>4
  <2>2. g \in [spread -> {g[i] : i \in spread}] /\ \A i, j \in spread : g[i] = g[j] => i = j
    BY <1>2
  <2> HIDE DEF wide, spread, g
  <2> QED
    BY <1>5, <2>1, <2>2, AsManyAsNames
<1>8. \A i \in Parts!CohesionRows(ls, "commits") : ls[i].total = Parts!Cardinality(commits)
  <2>1. Parts!Cardinality(commits) = Parts!Cardinality(R)
    BY <1>6, PartsCount
  <2> HIDE DEF R, commits
  <2> QED
    BY <1>2, <2>1
<1> DEFINE Big == \E i \in Parts!CohesionRows(ls, "component") : ls[i].size > b.context
           Wide == 100 * Parts!Cardinality(spread) > b.percent * Parts!Cardinality(R)
<1>9. Parts!CohesionExit(ls, b) = IF Big \/ Wide THEN 1 ELSE 0
  BY <1>1, Zenon DEF Parts!CohesionExit
<1>10. Parts!CohesionExit(ls, b) = 0 <=> ~Big /\ ~Wide
  <2> HIDE DEF Big, Wide
  <2> QED
    BY <1>9
<1>11. ~Big <=> \A i \in Parts!CohesionRows(ls, "component") : ls[i].size <= b.context
  <2>1. ASSUME NEW i \in Parts!CohesionRows(ls, "component")
        PROVE  ls[i].size > b.context <=> ~(ls[i].size <= b.context)
    <3>1. ls[i] \in Parts!CohesionLine /\ ls[i].of = "component"
      BY ElementOfSeq DEF Parts!CohesionRows
    <3>2. ls[i].size \in Nat
      BY <3>1 DEF Parts!CohesionLine
    <3> QED
      BY <3>2
  <2> QED
    BY <2>1, Zenon
<1>12. ~Wide <=> 100 * Parts!Cardinality(wide) <= b.percent * Parts!Cardinality(commits)
  <2> DEFINE w == Cardinality(spread)
             c == Cardinality(R)
             p == b.percent * c
  <2>1. /\ Parts!Cardinality(spread) = w /\ Parts!Cardinality(wide) = w
        /\ Parts!Cardinality(R) = c /\ Parts!Cardinality(commits) = c
    <3> HIDE DEF R, commits, spread, wide
    <3> QED
      BY <1>6, <1>7, PartsCount
  <2>2. w \in Nat /\ p \in Nat
    <3>1. c \in Nat
      BY <1>6
    <3> HIDE DEF c
    <3>2. p \in Nat
      BY <3>1, ProductsGrow
    <3> QED
      BY <1>7, <3>2
  <2>3. ~(100 * w > p) <=> 100 * w <= p
    <3> HIDE DEF w, p
    <3> QED
      BY <2>2
  <2> HIDE DEF R, commits, spread, wide
  <2> QED
    BY <2>1, <2>3
<1> HIDE DEF Big, Wide
<1>13. Parts!WithinBudgets(ls, b)
         <=> /\ \A i \in Parts!CohesionRows(ls, "component") : ls[i].size <= b.context
             /\ 100 * Parts!Cardinality(wide) <= b.percent * Parts!Cardinality(commits)
             /\ \A i \in Parts!CohesionRows(ls, "commits") : ls[i].total = Parts!Cardinality(commits)
  BY DEF Parts!WithinBudgets
<1> HIDE DEF R, commits, spread, wide
<1> QED
  BY <1>8, <1>10, <1>11, <1>12, <1>13

-----------------------------------------------------------------------------
(* test-name-lint and exceptions-out *)

\* Of the defs around a declaration the outermost is met, so a declaration is seen
\* if it stands in one at all.
LEMMA OutermostIsMet ==
  ASSUME NEW blocks \in Seq(Scans!Block)
  PROVE  Scans!GlobalIsSeen(blocks) <=> \E j \in 1..Len(blocks) : blocks[j].is = "def"
<1> DEFINE defs == {j \in 1..Len(blocks) : blocks[j].is = "def"}
<1>1. ASSUME defs # {}
      PROVE  Scans!GlobalIsSeen(blocks)
  <2>1. defs \subseteq Nat
    OBVIOUS
  <2>2. PICK i \in defs : \A j \in defs : i <= j
    <3> HIDE DEF defs
    <3> QED
      BY <1>1, <2>1, LeastNatural
  <2>3. i \in 1..Len(blocks) /\ blocks[i].is = "def" /\ Len(blocks) \in Nat
    OBVIOUS
  <2> DEFINE outer == SubSeq(blocks, 1, i - 1)
  <2>4. Len(outer) = i - 1 /\ \A k \in 1..(i - 1) : outer[k] = blocks[k]
    <3>1. \A k \in 1..(i - 1) : k \in 1..Len(blocks) /\ blocks[k] \in Scans!Block
      BY <2>3, ElementOfSeq
    <3>2. 1 \in Int /\ i - 1 \in Int
      BY <2>3
    <3> QED
      BY <2>3, <3>1, <3>2, SubSeqProperties
  <2>5. \A k \in 1..(i - 1) : k \notin defs
    <3>1. \A k \in 1..(i - 1) : ~(i <= k)
      BY <2>3
    <3> HIDE DEF defs
    <3> QED
      BY <2>2, <3>1
  <2>6. \A k \in 1..Len(outer) : outer[k].is # "def"
    <3>1. \A k \in 1..(i - 1) : k \in 1..Len(blocks)
      BY <2>3
    <3> HIDE DEF outer
    <3> QED
      BY <2>4, <2>5, <3>1
  <2> QED
    BY <2>3, <2>6 DEF Scans!GlobalIsSeen, Scans!Walked
<1>2. ASSUME Scans!GlobalIsSeen(blocks)
      PROVE  defs # {}
  BY <1>2 DEF Scans!GlobalIsSeen
<1> QED
  BY <1>1, <1>2

\* A green test-name-lint means that what can be collected reads as a specification.
LEMMA TestsHold ==
  ASSUME NEW ls \in Seq(Scans!TestsLine), NEW min \in Int, Scans!TestsExit(ls, min) \in {0, 1}
  PROVE  Scans!TestsExit(ls, min) = 0 <=> Scans!ReadsAsSpec(ls, min) /\ Scans!NoneShadowed(ls)
<1> DEFINE local(i) == \E j \in 1..Len(ls[i].blocks) : ls[i].blocks[j].is = "def"
           found == Scans!Found(ls)
           declared == Scans!Declared(ls)
           globals == {j \in 1..Len(ls) : ls[j].is = "global" /\ ls[j].name.test /\ local(j)}
           key(i) == <<Scans!Scope(ls[i].blocks), ls[i].name>>
           collected == Scans!Collectable(ls)
           Bad(name) == Scans!Unreadable(name, min)
<1>1. found = {i \in 1..Len(ls) : ls[i].is = "binds" /\ ls[i].name.test /\ ~local(i)}
  BY DEF Scans!Found, Scans!Walked
<1>2. ASSUME NEW i \in 1..Len(ls), ls[i].is \in {"binds", "global"}
      PROVE  /\ ls[i].name \in Bindable /\ ls[i].blocks \in Seq(Scans!Block)
  <2>1. ls[i] \in Scans!TestsLine
    BY ElementOfSeq
  <2> QED
    BY <1>2, <2>1 DEF Scans!TestsLine
<1>3. /\ declared \subseteq {ls[j].name : j \in globals}
      /\ {ls[j].name : j \in globals} \subseteq declared \cup {ls[j].name : j \in found}
  <2>1. globals = {j \in 1..Len(ls) : ls[j].is = "global" /\ ls[j].name.test /\ Scans!GlobalIsSeen(ls[j].blocks)}
    BY <1>2, OutermostIsMet
  <2>2. declared = {ls[i].name : i \in globals}
                     \ {ls[i].name : i \in {j \in found : Scans!Scope(ls[j].blocks) = ""}}
    BY <2>1, Zenon DEF Scans!Declared
  <2> HIDE DEF globals, declared, found
  <2> QED
    BY <2>2, Zenon
<1>4. collected = {key(i) : i \in found} \cup {<<"", ls[i].name>> : i \in globals}
  <2>1. found = {j \in {i \in 1..Len(ls) : ls[i].is = "binds" /\ ls[i].name.test} : ~local(j)}
    BY <1>1
  <2>2. globals = {j \in {i \in 1..Len(ls) : ls[i].is = "global" /\ ls[i].name.test} : local(j)}
    OBVIOUS
  <2>3. collected = {key(i) : i \in {j \in {i \in 1..Len(ls) : ls[i].is = "binds" /\ ls[i].name.test} : ~local(j)}}
                      \cup {<<"", ls[i].name>> : i \in {j \in {i \in 1..Len(ls) : ls[i].is = "global" /\ ls[i].name.test} : local(j)}}
    BY DEF Scans!Collectable
  <2> HIDE DEF found, globals
  <2> QED
    BY <2>1, <2>2, <2>3, Zenon
<1>5. collected # {} <=> ~(found = {} /\ declared = {})
  <2> HIDE DEF found, globals, declared, collected, key
  <2>1. ASSUME NEW i \in found
        PROVE  collected # {}
    BY <1>4, <2>1, Zenon
  <2>2. ASSUME NEW name \in declared
        PROVE  collected # {}
    <3>1. PICK j \in globals : ls[j].name = name
      BY <1>3, <2>2
    <3> QED
      BY <1>4, <3>1, Zenon
  <2>3. ASSUME NEW i \in globals
        PROVE  declared # {} \/ found # {}
    BY <1>3, <2>3
  <2>4. ASSUME NEW t \in collected
        PROVE  (\E i \in found : t = key(i)) \/ (\E i \in globals : TRUE)
    BY <1>4, <2>4, Zenon
  <2> QED
    BY <2>1, <2>2, <2>3, <2>4
<1>6. (\A t \in collected : ~Bad(t[2]))
        <=> (\A i \in found : ~Bad(ls[i].name)) /\ (\A name \in declared : ~Bad(name))
  <2>1. (\A t \in collected : ~Bad(t[2]))
          <=> (\A i \in found : ~Bad(ls[i].name)) /\ (\A i \in globals : ~Bad(ls[i].name))
    <3>1. \A i \in found : key(i) \in collected /\ key(i)[2] = ls[i].name
      BY <1>4, Zenon
    <3>2. \A i \in globals : <<"", ls[i].name>> \in collected /\ <<"", ls[i].name>>[2] = ls[i].name
      BY <1>4, Zenon
    <3>3. ASSUME NEW t \in collected
          PROVE  \/ \E i \in found : t = key(i) /\ t[2] = ls[i].name
                 \/ \E i \in globals : t[2] = ls[i].name
      <4>1. (\E i \in found : t = key(i)) \/ (\E i \in globals : t = <<"", ls[i].name>>)
        <5> HIDE DEF found, globals, collected, key
        <5> QED
          BY <1>4, <3>3, Zenon
      <4>2. \A i \in found : key(i)[2] = ls[i].name
        OBVIOUS
      <4>3. \A i \in globals : <<"", ls[i].name>>[2] = ls[i].name
        OBVIOUS
      <4> HIDE DEF found, globals, collected, key
      <4> QED
        BY <4>1, <4>2, <4>3, Zenon
    <3> HIDE DEF found, globals, collected, key, Bad
    <3> QED
      BY <3>1, <3>2, <3>3, Zenon
  <2> HIDE DEF found, globals, declared, collected, Bad
  <2> QED
    BY <1>3, <2>1
<1>7. Scans!ReadsAsSpec(ls, min) <=> collected # {} /\ \A t \in collected : ~Bad(t[2])
  <2>1. ASSUME NEW t \in collected
        PROVE  t[2].words \in Nat
    <3>1. \E i \in 1..Len(ls) : ls[i].is \in {"binds", "global"} /\ t[2] = ls[i].name
      <4>1. (\E i \in found : t = key(i)) \/ (\E i \in globals : t = <<"", ls[i].name>>)
        <5> HIDE DEF found, globals, collected, key
        <5> QED
          BY <1>4, <2>1, Zenon
      <4>2. \A i \in found \cup globals : i \in 1..Len(ls) /\ ls[i].is \in {"binds", "global"}
        BY <1>1
      <4>3. \A i \in found : key(i)[2] = ls[i].name
        OBVIOUS
      <4>4. \A i \in globals : <<"", ls[i].name>>[2] = ls[i].name
        OBVIOUS
      <4>5. \E i \in found \cup globals : t[2] = ls[i].name
        <5> HIDE DEF found, globals, collected, key
        <5> QED
          BY <4>1, <4>3, <4>4, Zenon
      <4> HIDE DEF found, globals, collected
      <4> QED
        BY <4>2, <4>5
    <3>2. t[2] \in Bindable
      BY <1>2, <3>1
    <3> QED
      BY <3>2, NumbersAssumption
  <2>2. ASSUME NEW t \in collected
        PROVE  ~Bad(t[2]) <=> ~t[2].stray /\ t[2].words >= min /\ ~t[2].filler /\ ~t[2].mirrors
    <3> DEFINE words == t[2].words
    <3>1. words >= min <=> ~(words < min)
      <4>1. words \in Nat
        BY <2>1
      <4> HIDE DEF words
      <4> QED
        BY <4>1
    <3> QED
      BY <3>1, Zenon DEF Scans!Unreadable
  <2>3. Scans!ReadsAsSpec(ls, min)
          <=> /\ collected # {}
              /\ \A t \in collected : ~t[2].stray /\ t[2].words >= min /\ ~t[2].filler /\ ~t[2].mirrors
    BY Zenon DEF Scans!ReadsAsSpec
  <2> HIDE DEF collected, Bad
  <2> QED
    BY <2>2, <2>3, Zenon
<1>8. Scans!NoneShadowed(ls) <=> \A i, j \in found : i # j => key(i) # key(j)
  BY <1>1, Zenon DEF Scans!NoneShadowed
<1> DEFINE Broken == min < 1 \/ \E i \in 1..Len(ls) : ls[i].is = "broken"
           Shadowed == \E i, j \in found : i # j /\ key(i) = key(j)
           Unread == \/ \E i \in found : Bad(ls[i].name)
                     \/ \E name \in declared : Bad(name)
<1>9. Scans!TestsExit(ls, min)
        = IF Broken THEN 2 ELSE IF (found = {} /\ declared = {}) \/ Shadowed \/ Unread THEN 1 ELSE 0
  BY Zenon DEF Scans!TestsExit
<1>10. Scans!TestsExit(ls, min) = 0 <=> ~(found = {} /\ declared = {}) /\ ~Shadowed /\ ~Unread
  <2> HIDE DEF found, declared, Broken, Shadowed, Unread
  <2> QED
    BY <1>9
<1>11. ~Unread <=> (\A i \in found : ~Bad(ls[i].name)) /\ (\A name \in declared : ~Bad(name))
  <2> HIDE DEF found, declared, Bad
  <2> QED
    OBVIOUS
<1>12. ~Shadowed <=> \A i, j \in found : i # j => key(i) # key(j)
  <2> HIDE DEF found, key
  <2> QED
    OBVIOUS
<1> HIDE DEF found, declared, collected, Shadowed, Unread, Bad, key
<1> QED
  BY <1>5, <1>6, <1>7, <1>8, <1>10, <1>11, <1>12

\* A redesign that keeps every name keeps every definition.
LEMMA ErrorsHold ==
  ASSUME NEW before \in Seq(Compared!ErrorsLine), NEW after \in Seq(Compared!ErrorsLine),
         Compared!ErrorsExit(before, after) \in {0, 1},
         NEW i \in 1..Len(before), before[i].is = "def"
  PROVE  \E j \in 1..Len(after) : after[j] = before[i]
<1>1. Compared!TopDefs(before) \subseteq Compared!TopDefs(after)
  BY DEF Compared!ErrorsExit
<1>2. before[i].name \in Compared!TopDefs(before)
  BY DEF Compared!TopDefs
<1>3. PICK j \in 1..Len(after) : after[j].is = "def" /\ after[j].name = before[i].name
  BY <1>1, <1>2 DEF Compared!TopDefs
<1>4. before[i] \in Compared!ErrorsLine /\ after[j] \in Compared!ErrorsLine
  BY ElementOfSeq
<1>5. /\ before[i] \in [is : {"def", "assigned"}, name : Definitions]
      /\ after[j] \in [is : {"def", "assigned"}, name : Definitions]
  BY <1>3, <1>4 DEF Compared!ErrorsLine
<1>6. after[j] = before[i]
  BY <1>3, <1>5
<1> QED
  BY <1>6

\* For every extract and budget, plan, threshold and module: what the gate counted is
\* what a person counts.
THEOREM CountsRight == Spec => []CountIsRight
<1>1. ASSUME GateInv
      PROVE  CountIsRight
  <2>1. SUFFICES ASSUME exit \in {0, 1} PROVE CountIsRight
    BY DEF CountIsRight
  <2>2. exit = RunGate(gate, lines, world) /\ (gate \in TypedGates => lines \in Seq(LineOf(gate)))
        /\ (gate \in TypedGates \ {"coupling", "tornado", "cost"} => world \in Worlds[gate])
    BY <1>1 DEF GateInv
  <2>3. ASSUME gate = "cohesion"
        PROVE  exit = 0 <=> Parts!WithinBudgets(lines, world)
    <3>1. lines \in Seq(Parts!CohesionLine) /\ world \in Worlds["cohesion"]
      BY <2>2, <2>3 DEF TypedGates, LineOf
    <3>2. exit = Parts!CohesionExit(lines, world)
      BY <2>2, <2>3 DEF RunGate, LaneGates
    <3>3. world.context \in Nat /\ world.fan \in Nat /\ world.percent \in Nat
      BY <3>1, WorldsAssumption
    <3> QED
      BY <2>1, <3>1, <3>2, <3>3, CohesionHolds
  <2>4. ASSUME gate = "fleet"
        PROVE  /\ exit = 0 <=> Scores!IsWorthIt(Scores!Plan(lines))
               /\ Scores!CrossoverIsBest(Scores!Plan(lines))
    <3>1. lines \in Seq(Scores!FleetLine)
      BY <2>2, <2>4 DEF TypedGates, LineOf
    <3>2. exit = Scores!FleetExit(lines)
      BY <2>2, <2>4 DEF RunGate, LaneGates
    <3> QED
      BY <2>1, <3>1, <3>2, FleetHolds
  <2>5. ASSUME gate = "crap"
        PROVE  /\ exit = 0 => Scores!PassesByHand(lines, world)
               /\ Scores!FailsByHand(lines, world) => exit = 1
    <3>1. lines \in Seq(Scores!CrapLine) /\ world \in Int
      BY <2>2, <2>5, WorldsAssumption DEF TypedGates, LineOf
    <3>2. exit = Scores!CrapExit(lines, world)
      BY <2>2, <2>5 DEF RunGate, LaneGates
    <3> QED
      BY <2>1, <3>1, <3>2, CrapHolds
  <2>6. ASSUME gate = "tests"
        PROVE  exit = 0 <=> Scans!ReadsAsSpec(lines, world) /\ Scans!NoneShadowed(lines)
    <3>1. lines \in Seq(Scans!TestsLine) /\ world \in Int
      BY <2>2, <2>6, WorldsAssumption DEF TypedGates, LineOf
    <3>2. exit = Scans!TestsExit(lines, world)
      BY <2>2, <2>6 DEF RunGate, LaneGates
    <3> QED
      BY <2>1, <3>1, <3>2, TestsHold
  <2>7. ASSUME gate = "errors", NEW i \in 1..Len(world), world[i].is = "def"
        PROVE  \E j \in 1..Len(lines) : lines[j] = world[i]
    <3>1. lines \in Seq(Compared!ErrorsLine) /\ world \in Seq(Compared!ErrorsLine)
      BY <2>2, <2>7, WorldsAssumption DEF TypedGates, LineOf
    <3>2. exit = Compared!ErrorsExit(world, lines)
      BY <2>2, <2>7 DEF RunGate, LaneGates
    <3> QED
      BY <2>1, <2>7, <3>1, <3>2, ErrorsHold
  <2> QED
    BY <2>3, <2>4, <2>5, <2>6, <2>7 DEF CountIsRight
<1> QED
  BY <1>1, AnswersWhatItReads, PTL

-----------------------------------------------------------------------------
(* The same facts told again. *)

\* Turning a history twice gives it back.
LEMMA TurnedTwice ==
  ASSUME NEW S, NEW s \in Seq(S)
  PROVE  Reverse(Reverse(s)) = s
<1>1. /\ Reverse(s) \in Seq(S) /\ Len(Reverse(s)) = Len(s)
      /\ \A i \in 1..Len(s) : Reverse(s)[i] = s[Len(s) - i + 1]
  BY Reversed
<1>2. /\ Reverse(Reverse(s)) \in Seq(S) /\ Len(Reverse(Reverse(s))) = Len(s)
      /\ \A i \in 1..Len(s) : Reverse(Reverse(s))[i] = Reverse(s)[Len(s) - i + 1]
  BY <1>1, Reversed
<1>3. \A i \in 1..Len(s) : Len(s) - i + 1 \in 1..Len(s) /\ Len(s) - (Len(s) - i + 1) + 1 = i
  OBVIOUS
<1>4. \A i \in 1..Len(s) : Reverse(Reverse(s))[i] = s[i]
  BY <1>1, <1>2, <1>3
<1> QED
  BY <1>2, <1>4, SeqEqual

\* A row taken from the end of one part goes to the end of the other.
LEMMA AppendedTurned ==
  ASSUME NEW S, NEW s \in Seq(S), NEW t \in Seq(S), NEW e \in S
  PROVE  Append(s, e) \o Reverse(t) = s \o Reverse(Append(t, e))
<1> DEFINE a == Append(s, e)
           b == Append(t, e)
           q == Reverse(t)
           r == Reverse(b)
           M == Len(s)
           N == Len(t)
<1>1. M \in Nat /\ N \in Nat
  OBVIOUS
<1>2. /\ a \in Seq(S) /\ Len(a) = M + 1 /\ a[M + 1] = e /\ \A i \in 1..M : a[i] = s[i]
      /\ b \in Seq(S) /\ Len(b) = N + 1 /\ b[N + 1] = e /\ \A i \in 1..N : b[i] = t[i]
  BY AppendProperties
<1>3. q \in Seq(S) /\ Len(q) = N /\ \A i \in 1..N : q[i] = t[N - i + 1]
  BY Reversed
<1> HIDE DEF a, b, q
<1>4. r \in Seq(S) /\ Len(r) = N + 1 /\ \A i \in 1..(N + 1) : r[i] = b[(N + 1) - i + 1]
  BY <1>2, Reversed
<1> HIDE DEF r, M, N
<1>5. /\ a \o q \in Seq(S) /\ Len(a \o q) = (M + 1) + N
      /\ \A i \in 1..((M + 1) + N) : (a \o q)[i] = IF i <= M + 1 THEN a[i] ELSE q[i - (M + 1)]
  <2>1. a \in Seq(S) /\ q \in Seq(S) /\ Len(a) = M + 1 /\ Len(q) = N
    BY <1>2, <1>3
  <2>2. /\ a \o q \in Seq(S) /\ Len(a \o q) = Len(a) + Len(q)
        /\ \A i \in 1..(Len(a) + Len(q)) : (a \o q)[i] = IF i <= Len(a) THEN a[i] ELSE q[i - Len(a)]
    BY <2>1, ConcatProperties
  <2> QED
    BY <2>1, <2>2, Zenon
<1>6. /\ s \o r \in Seq(S) /\ Len(s \o r) = M + (N + 1)
      /\ \A i \in 1..(M + (N + 1)) : (s \o r)[i] = IF i <= M THEN s[i] ELSE r[i - M]
  <2>1. r \in Seq(S) /\ Len(s) = M /\ Len(r) = N + 1
    BY <1>4 DEF M
  <2>2. /\ s \o r \in Seq(S) /\ Len(s \o r) = Len(s) + Len(r)
        /\ \A i \in 1..(Len(s) + Len(r)) : (s \o r)[i] = IF i <= Len(s) THEN s[i] ELSE r[i - Len(s)]
    BY <2>1, ConcatProperties
  <2> QED
    BY <2>1, <2>2, Zenon
<1>7. ASSUME NEW i \in 1..((M + 1) + N)
      PROVE  (a \o q)[i] = (s \o r)[i]
  <2>1. CASE i <= M
    <3>1. i \in 1..M /\ i <= M + 1 /\ i \in 1..(M + (N + 1))
      BY <1>1, <2>1
    <3> QED
      BY <1>2, <1>5, <1>6, <2>1, <3>1
  <2>2. CASE i = M + 1
    <3>1. ~(i <= M) /\ i <= M + 1 /\ i \in 1..(M + (N + 1)) /\ i - M = 1
          /\ 1 \in 1..(N + 1) /\ (N + 1) - 1 + 1 = N + 1
      BY <1>1, <2>2
    <3>2. r[1] = e
      BY <1>2, <1>4, <3>1
    <3>3. (a \o q)[i] = a[M + 1] /\ (s \o r)[i] = r[1]
      BY <1>5, <1>6, <2>2, <3>1
    <3> QED
      BY <1>2, <3>2, <3>3
  <2>3. CASE i > M + 1
    <3> DEFINE j == i - (M + 1)
    <3>1. /\ ~(i <= M) /\ ~(i <= M + 1) /\ i \in 1..(M + (N + 1)) /\ j \in 1..N /\ i - M = j + 1
          /\ j + 1 \in 1..(N + 1) /\ (N + 1) - (j + 1) + 1 = N - j + 1 /\ N - j + 1 \in 1..N
      BY <1>1, <2>3
    <3>2. (a \o q)[i] = q[j] /\ (s \o r)[i] = r[j + 1]
      BY <1>5, <1>6, <3>1
    <3> HIDE DEF j
    <3>3. q[j] = t[N - j + 1] /\ r[j + 1] = b[N - j + 1]
      BY <1>3, <1>4, <3>1
    <3> QED
      BY <1>2, <3>1, <3>2, <3>3
  <2>4. i <= M \/ i = M + 1 \/ i > M + 1
    BY <1>1
  <2> QED
    BY <2>1, <2>2, <2>3, <2>4, Zenon
<1>8. a \o q = s \o r
  <2>1. M + (N + 1) = (M + 1) + N
    BY <1>1
  <2>2. Len(a \o q) = Len(s \o r) /\ \A i \in 1..Len(a \o q) : (a \o q)[i] = (s \o r)[i]
    BY <1>5, <1>6, <1>7, <2>1
  <2> QED
    BY <1>5, <1>6, <2>2, SeqEqual
<1> QED
  BY <1>8 DEF a, b, q, r

\* What is kept of a history when one more line was read.
Kept(rows, line) == IF line.of = "row" THEN Append(rows, line) ELSE rows

\* f holds the rows that were kept after each line.
Keeping(ls, f) ==
  /\ f[0] = <<>>
  /\ \A k \in 1..Len(ls) : f[k] = Kept(f[k - 1], ls[k])
  /\ \A k \in 0..Len(ls) : f[k] \in Seq(Compared!Line)
  /\ Compared!Rows(ls) = f[Len(ls)]

\* The rows of a history are kept line by line.
LEMMA RowsAreKept ==
  ASSUME NEW ls \in Seq(Compared!Line)
  PROVE  \E f : Keeping(ls, f)
<1> DEFINE N == Len(ls)
           S == Seq(Compared!Line)
           G == [a \in (1..N) \X S |-> Kept(a[2], ls[a[1]])]
           kept[k \in 0..N] == IF k = 0 THEN <<>> ELSE Kept(kept[k - 1], ls[k])
<1>1. N \in Nat /\ \A k \in 1..N : ls[k] \in Compared!Line
  BY ElementOfSeq
<1>2. <<>> \in S /\ \A rows \in S, e \in Compared!Line : Kept(rows, e) \in S
  BY AppendProperties, EmptySeq DEF Kept
<1>3. G \in [(1..N) \X S -> S]
  <2>1. \A k \in 1..N, rows \in S : Kept(rows, ls[k]) \in S
    BY <1>1, <1>2
  <2> HIDE DEF S, N
  <2> QED
    BY <2>1
<1>4. PICK f : Course(f, N, S, <<>>, G)
  <2> HIDE DEF G, N, S
  <2> QED
    BY <1>1, <1>2, <1>3, Rounds
<1>5. f = [k \in 0..N |-> IF k = 0 THEN <<>> ELSE Kept(f[k - 1], ls[k])]
  <2>1. \A k \in 1..N : f[k] = Kept(f[k - 1], ls[k])
    <3> SUFFICES ASSUME NEW k \in 1..N PROVE f[k] = Kept(f[k - 1], ls[k])
      OBVIOUS
    <3>1. f[k - 1] \in S
      <4> HIDE DEF N, S
      <4>1. k - 1 \in 0..N
        BY <1>1
      <4> QED
        BY <1>4, <4>1 DEF Course
    <3>2. G[<<k, f[k - 1]>>] = Kept(f[k - 1], ls[k])
      <4> HIDE DEF N, S
      <4> QED
        BY <3>1
    <3> HIDE DEF G
    <3> QED
      BY <1>4, <3>2 DEF Course
  <2> HIDE DEF N
  <2> QED
    BY <1>1, <1>4, <2>1 DEF Course
<1>6. kept = [k \in 0..N |-> IF k = 0 THEN <<>> ELSE Kept(kept[k - 1], ls[k])]
  <2> HIDE DEF N
  <2> QED
    BY <1>5
<1>7. Compared!Rows(ls) = kept[N]
  BY DEF Compared!Rows, Kept
<1> DEFINE h == [k \in 0..N |-> IF k = 0 THEN <<>> ELSE Kept(kept[k - 1], ls[k])]
           K == {k \in 0..N : kept[k] \in S}
<1>8. kept[0] = <<>> /\ \A k \in 1..N : kept[k] = Kept(kept[k - 1], ls[k])
  <2>1. h[0] = <<>> /\ \A k \in 1..N : h[k] = Kept(kept[k - 1], ls[k])
    <3> HIDE DEF kept, N
    <3> QED
      BY <1>1
  <2>2. kept = h
    BY <1>6
  <2> HIDE DEF h, kept, N
  <2> QED
    BY <2>1, <2>2
<1> HIDE DEF kept
<1>9. 0 \in K
  <2>1. 0 \in 0..N /\ kept[0] \in S
    BY <1>1, <1>2, <1>8
  <2> HIDE DEF N, S
  <2> QED
    BY <2>1
<1>10. ASSUME NEW k \in 1..N, k - 1 \in K
       PROVE  k \in K
  <2>1. Kept(kept[k - 1], ls[k]) \in S
    BY <1>1, <1>2, <1>10
  <2> QED
    BY <1>8, <1>10, <2>1
<1>11. 0..N \subseteq K
  <2> HIDE DEF K, N
  <2> QED
    BY <1>1, <1>9, <1>10, EveryRound
<1> QED
  BY <1>7, <1>8, <1>11 DEF Keeping

\* The rows of a turned history are the turned rows of the history.
LEMMA RowsTurned ==
  ASSUME NEW ls \in Seq(Compared!Line)
  PROVE  Compared!Rows(Reverse(ls)) = Reverse(Compared!Rows(ls))
<1> DEFINE N == Len(ls)
           back == Reverse(ls)
           S == Seq(Compared!Line)
<1>1. N \in Nat /\ \A i \in 1..N : ls[i] \in Compared!Line
  BY ElementOfSeq
<1>2. back \in S /\ Len(back) = N /\ \A i \in 1..N : back[i] = ls[N - i + 1]
  BY Reversed
<1> HIDE DEF back
<1>3. PICK f : Keeping(ls, f)
  BY RowsAreKept
<1>4. PICK g : Keeping(back, g)
  BY <1>2, RowsAreKept
<1>5. /\ f[0] = <<>> /\ \A k \in 1..N : f[k] = Kept(f[k - 1], ls[k])
      /\ \A k \in 0..N : f[k] \in S
      /\ Compared!Rows(ls) = f[N]
  BY <1>3 DEF Keeping
<1>6. /\ g[0] = <<>> /\ \A k \in 1..N : g[k] = Kept(g[k - 1], back[k])
      /\ \A k \in 0..N : g[k] \in S
      /\ Compared!Rows(back) = g[N]
  BY <1>2, <1>4 DEF Keeping
<1> HIDE DEF N
<1> DEFINE K == {k \in 0..N : f[N] = f[N - k] \o Reverse(g[k])}
<1>7. 0 \in K
  <2>1. Reverse(<<>>) = <<>>
    <3>1. Reverse(<<>>) \in S /\ Len(Reverse(<<>>)) = 0
      BY Reversed, EmptySeq
    <3> QED
      BY <3>1, EmptySeq
  <2>2. f[N] \o <<>> = f[N] /\ N - 0 = N /\ N \in 0..N
    BY <1>1, <1>5, ConcatEmptySeq
  <2>3. 0 \in 0..N /\ f[N] = f[N - 0] \o Reverse(g[0])
    <3>1. 0 \in 0..N /\ f[N] = f[N - 0] /\ g[0] = <<>>
      BY <1>1, <1>6, <2>2
    <3> QED
      BY <2>1, <2>2, <3>1, Zenon
  <2> QED
    BY <2>3
<1>8. ASSUME NEW k \in 1..N, k - 1 \in K
      PROVE  k \in K
  <2> DEFINE j == N - k + 1
             e == ls[j]
  <2>1. j \in 1..N /\ N - (k - 1) = j /\ j - 1 = N - k /\ k - 1 \in 0..N /\ N - k \in 0..N /\ k \in 0..N
    BY <1>1
  <2>2. f[N] = f[j] \o Reverse(g[k - 1])
    BY <1>8, <2>1
  <2>3. f[j] = Kept(f[N - k], e) /\ g[k] = Kept(g[k - 1], e) /\ e \in Compared!Line
    BY <1>1, <1>2, <1>5, <1>6, <2>1
  <2>4. f[N - k] \in S /\ g[k - 1] \in S
    BY <1>5, <1>6, <2>1
  <2> HIDE DEF j, e, K
  <2>5. Kept(f[N - k], e) \o Reverse(g[k - 1]) = f[N - k] \o Reverse(Kept(g[k - 1], e))
    <3>1. \A s, t \in S : Append(s, e) \o Reverse(t) = s \o Reverse(Append(t, e))
      BY <2>3, AppendedTurned, Zenon
    <3>2. Append(f[N - k], e) \o Reverse(g[k - 1]) = f[N - k] \o Reverse(Append(g[k - 1], e))
      BY <2>4, <3>1, Zenon
    <3> QED
      BY <3>2, Zenon DEF Kept
  <2>6. f[N] = f[N - k] \o Reverse(g[k])
    BY <2>2, <2>3, <2>5
  <2> QED
    BY <2>1, <2>6 DEF K
<1>9. N \in K
  <2>1. 0..N \subseteq K
    <3> HIDE DEF K
    <3> QED
      BY <1>1, <1>7, <1>8, EveryRound
  <2>2. N \in 0..N
    BY <1>1
  <2> QED
    BY <2>1, <2>2, Zenon
<1>10. f[N] = Reverse(g[N])
  <2>1. f[N] = <<>> \o Reverse(g[N]) /\ g[N] \in S
    <3>1. N - N = 0 /\ N \in 0..N
      BY <1>1
    <3> QED
      BY <1>5, <1>6, <1>9, <3>1
  <2>2. Reverse(g[N]) \in S
    BY <2>1, Reversed
  <2> QED
    BY <2>1, <2>2, ConcatEmptySeq
<1>11. g[N] = Reverse(f[N])
  <2>1. g[N] \in S
    BY <1>1, <1>6
  <2> QED
    BY <1>10, <2>1, TurnedTwice
<1> QED
  BY <1>5, <1>6, <1>11 DEF back

\* The reading of a history turns it as the export does.
LEMMA TurnsAlike == \A s : Compared!Reverse(s) = Reverse(s)
  BY DEF Compared!Reverse, Reverse

\* The rows of a history are rows.
LEMMA RowsAreRows ==
  ASSUME NEW ls \in Seq(Compared!Line)
  PROVE  Compared!Rows(ls) \in Seq(Compared!Line)
<1>1. PICK f : Keeping(ls, f)
  BY RowsAreKept
<1>2. Len(ls) \in 0..Len(ls)
  OBVIOUS
<1> QED
  BY <1>1, <1>2 DEF Keeping

\* A history that is refused is refused in the other order.
LEMMA RefusedTurned ==
  ASSUME NEW ls \in Seq(Compared!Line), Compared!Refused(ls)
  PROVE  Compared!Refused(Reverse(ls))
<1> DEFINE back == Reverse(ls)
           N == Len(ls)
           rows == Compared!Rows(ls)
           M == Len(rows)
<1>1. rows \in Seq(Compared!Line) /\ Compared!Rows(back) = Reverse(rows)
  BY RowsAreRows, RowsTurned
<1>2. N \in Nat /\ Len(back) = N /\ \A i \in 1..N : back[i] = ls[N - i + 1]
  BY Reversed
<1> HIDE DEF back, rows
<1>3. M \in Nat /\ Len(Reverse(rows)) = M /\ \A i \in 1..M : Reverse(rows)[i] = rows[M - i + 1]
  BY <1>1, Reversed
<1> HIDE DEF N, M
<1>4. \A i \in 1..N : N - i + 1 \in 1..N /\ N - (N - i + 1) + 1 = i
  BY <1>2
<1>5. \A i \in 1..M : M - i + 1 \in 1..M /\ M - (M - i + 1) + 1 = i
  BY <1>3
<1>6. \A i \in 1..N : back[N - i + 1] = ls[i]
  BY <1>2, <1>4
<1>7. \A i \in 1..M : Reverse(rows)[M - i + 1] = rows[i]
  BY <1>3, <1>5
<1>8. CASE \E i \in 1..N : ls[i].of = "malformed"
  <2>1. \E i \in 1..Len(back) : back[i].of = "malformed"
    BY <1>2, <1>4, <1>6, <1>8
  <2> QED
    BY <2>1 DEF Compared!Refused, back
<1>9. CASE Compared!Repeats(rows)
  <2>1. PICK i \in 1..M, j \in 1..M : i # j /\ Compared!IdKey(rows[i].id) = Compared!IdKey(rows[j].id)
    BY <1>9 DEF Compared!Repeats, M
  <2>2. M - i + 1 # M - j + 1
    BY <1>3, <2>1
  <2>3. Compared!Repeats(Reverse(rows))
    BY <1>3, <1>5, <1>7, <2>1, <2>2 DEF Compared!Repeats
  <2> QED
    BY <1>1, <2>3 DEF Compared!Refused, back
<1>10. CASE \E i \in 1..M : rows[i].n \notin 1..MaxFiles
  <2>1. \E i \in 1..Len(Reverse(rows)) : Reverse(rows)[i].n \notin 1..MaxFiles
    BY <1>3, <1>5, <1>7, <1>10
  <2> QED
    BY <1>1, <2>1 DEF Compared!Refused, back
<1> QED
  BY <1>8, <1>9, <1>10 DEF Compared!Refused, rows, N, M

\* The same rows in the same order are read from it, whichever end it is given from,
\* and what is refused in one order is in the other.
LEMMA ReadTheSame ==
  ASSUME NEW ls \in Seq(Compared!Line), NEW order, NEW other,
         other = IF order = "newest-first" THEN "oldest-first" ELSE "newest-first"
  PROVE  /\ Compared!Ordered(Reverse(ls), other) = Compared!Ordered(ls, order)
         /\ Compared!Refused(Reverse(ls)) <=> Compared!Refused(ls)
<1> DEFINE rows == Compared!Rows(ls)
<1>1. Compared!Rows(Reverse(ls)) = Reverse(rows) /\ Reverse(Reverse(rows)) = rows
  BY RowsAreRows, RowsTurned, TurnedTwice
<1>2. Compared!Ordered(Reverse(ls), other) = Compared!Ordered(ls, order)
  <2> HIDE DEF rows
  <2>1. CASE order = "newest-first"
    <3>1. other # "newest-first"
      BY <2>1
    <3> QED
      BY <1>1, <2>1, <3>1, TurnsAlike DEF Compared!Ordered, rows
  <2>2. CASE order # "newest-first"
    <3>1. other = "newest-first"
      BY <2>2
    <3> QED
      BY <1>1, <2>2, <3>1, TurnsAlike DEF Compared!Ordered, rows
  <2> QED
    BY <2>1, <2>2
<1>3. Compared!Refused(Reverse(ls)) => Compared!Refused(ls)
  BY RefusedTurned, Reversed, TurnedTwice
<1> QED
  BY <1>2, <1>3, RefusedTurned

\* A history in the other order, with that order declared, gets the same verdict.
LEMMA TurnedVerdict ==
  ASSUME GateInv, Turn
  PROVE  exit' = exit
<1>1. /\ gate \in {"tornado", "cost"} /\ lines' = Reverse(lines) /\ gate' = gate
      /\ world' = [world EXCEPT !.order = IF @ = "newest-first" THEN "oldest-first" ELSE "newest-first"]
      /\ exit' = RunGate(gate, lines', world')
  BY DEF Turn, Reruns
<1>2. /\ lines \in Seq(Compared!Line) /\ {"order", "budget"} \subseteq DOMAIN world
      /\ exit = RunGate(gate, lines, world)
  BY <1>1 DEF GateInv, TypedGates, LineOf
<1>3. /\ world'.budget = world.budget
      /\ world'.order = IF world.order = "newest-first" THEN "oldest-first" ELSE "newest-first"
  BY <1>1, <1>2
<1>4. /\ Compared!Ordered(lines', world'.order) = Compared!Ordered(lines, world.order)
      /\ Compared!Refused(lines') <=> Compared!Refused(lines)
  BY <1>1, <1>2, <1>3, ReadTheSame
<1>5. Compared!TornadoExit(lines', world'.order, world'.budget)
        = Compared!TornadoExit(lines, world.order, world.budget)
  BY <1>3, <1>4, Zenon DEF Compared!TornadoExit
<1>6. Compared!CostExit(lines', world'.order, world'.budget)
        = Compared!CostExit(lines, world.order, world.budget)
  BY <1>3, <1>4, Zenon DEF Compared!CostExit
<1>7. CASE gate = "tornado"
  BY <1>1, <1>2, <1>5, <1>7 DEF RunGate, LaneGates
<1>8. CASE gate = "cost"
  BY <1>1, <1>2, <1>6, <1>8 DEF RunGate, LaneGates
<1> QED
  BY <1>1, <1>7, <1>8

\* What is asked of a value with what was answered of the values before it.
Asked(f, ls, v, seen) ==
  \/ v.is = "observed"
  \/ /\ v.is = "name" /\ v.name \notin seen /\ Scans!Bound(ls, v.name) # {}
     /\ \A u \in Scans!Bound(ls, v.name) : u.is # "rebound" /\ f[<<u, seen \cup {v.name}>>]

\* The names a question may still go through.
Ahead(seen) == Cardinality(Locals \ seen)

Questions == Scans!Value \X SUBSET Locals

\* A name is bound to a value, or to what is none.
LEMMA BoundValues ==
  ASSUME NEW ls \in Seq(Scans!AssertlessLine), NEW name, NEW u \in Scans!Bound(ls, name),
         u.is # "rebound"
  PROVE  \E j \in 1..Len(ls) : /\ ls[j].is = "binds" /\ ls[j].where = "test" /\ ls[j].name = name
                               /\ ls[j].value = u /\ u \in Scans!Value
<1>1. u # [is |-> "rebound"]
  OBVIOUS
<1>2. PICK j \in 1..Len(ls) : /\ ls[j].is = "binds" /\ ls[j].where = "test" /\ ls[j].name = name
                              /\ ls[j].value = u
  BY <1>1 DEF Scans!Bound
<1>3. ls[j] \in Scans!AssertlessLine
  BY ElementOfSeq
<1>4. ls[j] \in [is : {"binds"}, name : Locals, value : Scans!Value, where : {"test", "module"}]
  BY <1>2, <1>3, Zenon DEF Scans!AssertlessLine
<1> QED
  BY <1>2, <1>4

\* Every name gone through leaves one less.
LEMMA OneLessAhead ==
  ASSUME NEW seen \in SUBSET Locals, NEW m \in Locals, m \notin seen
  PROVE  /\ seen \cup {m} \in SUBSET Locals
         /\ Ahead(seen) \in Nat /\ Ahead(seen \cup {m}) \in Nat
         /\ Ahead(seen) = Ahead(seen \cup {m}) + 1
<1> DEFINE rest == Locals \ seen
<1>1. IsFiniteSet(rest) /\ m \in rest
  BY IdentitiesAssumption, FS_Subset
<1>2. Locals \ (seen \cup {m}) = rest \ {m}
  OBVIOUS
<1> HIDE DEF rest
<1>3. IsFiniteSet(rest \ {m}) /\ Cardinality(rest \ {m}) = Cardinality(rest) - 1
  BY <1>1, FS_RemoveElement
<1>4. Cardinality(rest) \in Nat /\ Cardinality(rest \ {m}) \in Nat
  BY <1>1, <1>3, FS_CardinalityType
<1>5. Cardinality(rest) = Cardinality(rest \ {m}) + 1
  BY <1>3, <1>4
<1>6. Ahead(seen) = Cardinality(rest) /\ Ahead(seen \cup {m}) = Cardinality(rest \ {m})
  BY <1>2 DEF Ahead, rest
<1> QED
  BY <1>4, <1>5, <1>6

\* No question goes through more names than there are.
LEMMA AheadAtMost ==
  ASSUME NEW seen \in SUBSET Locals
  PROVE  Ahead(seen) \in Nat /\ Ahead({}) \in Nat /\ Ahead(seen) <= Ahead({})
<1>1. IsFiniteSet(Locals) /\ IsFiniteSet(Locals \ seen) /\ Locals \ {} = Locals
  BY IdentitiesAssumption, FS_Subset
<1>2. Cardinality(Locals \ seen) <= Cardinality(Locals)
  BY <1>1, FS_Subset
<1> QED
  BY <1>1, <1>2, FS_CardinalityType DEF Ahead

\* With f and g the same of all questions with fewer names ahead, the answers are.
LEMMA AskedAlike ==
  ASSUME NEW f, NEW g, NEW ls \in Seq(Scans!AssertlessLine), NEW v \in Scans!Value,
         NEW seen \in SUBSET Locals,
         \A u \in Scans!Value, s \in SUBSET Locals :
           Ahead(s) + 1 = Ahead(seen) => f[<<u, s>>] = g[<<u, s>>]
  PROVE  Asked(f, ls, v, seen) <=> Asked(g, ls, v, seen)
<1>1. CASE v.is = "name" /\ v.name \notin seen
  <2> DEFINE m == v.name
  <2>1. m \in Locals
    BY <1>1 DEF Scans!Value
  <2>2. seen \cup {m} \in SUBSET Locals /\ Ahead(seen \cup {m}) + 1 = Ahead(seen)
    BY <1>1, <2>1, OneLessAhead
  <2>3. ASSUME NEW u \in Scans!Bound(ls, m), u.is # "rebound"
        PROVE  f[<<u, seen \cup {m}>>] = g[<<u, seen \cup {m}>>]
    <3>1. u \in Scans!Value
      BY <2>3, BoundValues
    <3> QED
      BY <2>2, <3>1
  <2> QED
    BY <2>3 DEF Asked
<1> QED
  BY <1>1 DEF Asked

\* f answers every question about an extract.
Answers(f, ls) ==
  /\ f \in [Questions -> BOOLEAN]
  /\ \A v \in Scans!Value, seen \in SUBSET Locals : f[<<v, seen>>] <=> Asked(f, ls, v, seen)

\* Every question has an answer, since none goes through a name twice.
LEMMA QuestionsEnd ==
  ASSUME NEW ls \in Seq(Scans!AssertlessLine)
  PROVE  \E f : f = [q \in Questions |-> Asked(f, ls, q[1], q[2])]
<1> DEFINE M == Ahead({}) + 2
           S == [Questions -> BOOLEAN]
           Answered(f) == [q \in Questions |-> Asked(f, ls, q[1], q[2])]
           G == [a \in (1..M) \X S |-> Answered(a[2])]
           none == [q \in Questions |-> FALSE]
<1>1. Ahead({}) \in Nat /\ M \in Nat /\ M - 1 \in Nat /\ M - 1 \in 1..M /\ M \in 1..M /\ Ahead({}) < M - 1
  BY AheadAtMost
<1>2. \A f : Answered(f) \in S
  BY DEF Asked
<1>3. none \in S
  OBVIOUS
<1>4. G \in [(1..M) \X S -> S]
  <2> HIDE DEF Answered, S, M
  <2> QED
    BY <1>2
<1>5. PICK c : Course(c, M, S, none, G)
  <2> HIDE DEF G, M, S, none
  <2> QED
    BY <1>1, <1>3, <1>4, Rounds
<1>6. \A k \in 0..M : c[k] \in S
  BY <1>5 DEF Course
<1>7. ASSUME NEW k \in 1..M
      PROVE  c[k] = Answered(c[k - 1])
  <2>1. k - 1 \in 0..M /\ c[k] = G[<<k, c[k - 1]>>]
    <3> HIDE DEF G, S
    <3>1. k - 1 \in 0..M
      BY <1>1
    <3> QED
      BY <1>5, <3>1 DEF Course
  <2>2. c[k - 1] \in S
    BY <1>6, <2>1
  <2> HIDE DEF Answered, S, M
  <2> QED
    BY <2>1, <2>2
<1> DEFINE K == {k \in 0..(M - 1) : \A v \in Scans!Value, seen \in SUBSET Locals :
                   Ahead(seen) < k => c[k][<<v, seen>>] = c[k + 1][<<v, seen>>]}
<1> HIDE DEF M
<1>8. 0 \in K
  <2>1. \A seen \in SUBSET Locals : Ahead(seen) \in Nat
    BY AheadAtMost
  <2>2. \A seen \in SUBSET Locals : ~(Ahead(seen) < 0)
    BY <2>1
  <2>3. 0 \in 0..(M - 1)
    BY <1>1
  <2> QED
    BY <2>2, <2>3
<1>9. ASSUME NEW k \in 1..(M - 1), k - 1 \in K
      PROVE  k \in K
  <2>1. k \in 1..M /\ k + 1 \in 1..M /\ (k + 1) - 1 = k /\ k \in 0..(M - 1) /\ (k - 1) + 1 = k
    BY <1>1
  <2>2. \A u \in Scans!Value, s \in SUBSET Locals :
          Ahead(s) < k - 1 => c[k - 1][<<u, s>>] = c[k][<<u, s>>]
    BY <1>9, <2>1
  <2>3. c[k] = Answered(c[k - 1]) /\ c[k + 1] = Answered(c[k])
    BY <1>7, <2>1
  <2>4. ASSUME NEW v \in Scans!Value, NEW seen \in SUBSET Locals, Ahead(seen) < k
        PROVE  c[k][<<v, seen>>] = c[k + 1][<<v, seen>>]
    <3>1. \A u \in Scans!Value, s \in SUBSET Locals :
            Ahead(s) + 1 = Ahead(seen) => c[k - 1][<<u, s>>] = c[k][<<u, s>>]
      <4>1. ASSUME NEW s \in SUBSET Locals, Ahead(s) + 1 = Ahead(seen)
            PROVE  Ahead(s) < k - 1
        <5>1. Ahead(s) \in Nat
          BY AheadAtMost
        <5> QED
          BY <2>4, <4>1, <5>1
      <4> QED
        BY <2>2, <4>1
    <3>2. Asked(c[k - 1], ls, v, seen) <=> Asked(c[k], ls, v, seen)
      BY <3>1, AskedAlike
    <3>3. c[k][<<v, seen>>] = Asked(c[k - 1], ls, v, seen) /\ c[k + 1][<<v, seen>>] = Asked(c[k], ls, v, seen)
      <4>1. <<v, seen>> \in Questions
        BY DEF Questions
      <4> QED
        BY <2>3, <4>1
    <3> QED
      BY <3>2, <3>3 DEF Asked
  <2> QED
    BY <2>1, <2>4
<1>10. M - 1 \in K
  <2>1. 0..(M - 1) \subseteq K
    <3> HIDE DEF K
    <3> QED
      BY <1>1, <1>8, <1>9, EveryRound
  <2>2. M - 1 \in 0..(M - 1)
    BY <1>1
  <2> QED
    BY <2>1, <2>2, Zenon
<1>11. c[M - 1] = c[M]
  <2>1. (M - 1) + 1 = M /\ M - 1 \in 0..M /\ M \in 0..M
    BY <1>1
  <2>2. ASSUME NEW v \in Scans!Value, NEW seen \in SUBSET Locals
        PROVE  c[M - 1][<<v, seen>>] = c[M][<<v, seen>>]
    <3>1. Ahead(seen) < M - 1
      BY <1>1, AheadAtMost
    <3> QED
      BY <1>10, <2>1, <3>1
  <2>3. c[M - 1] \in S /\ c[M] \in S
    BY <1>6, <2>1
  <2>4. \A q \in Questions : c[M - 1][q] = c[M][q]
    BY <2>2 DEF Questions
  <2> QED
    BY <2>3, <2>4
<1>12. c[M] = Answered(c[M - 1])
  BY <1>1, <1>7
<1>13. c[M] = Answered(c[M])
  <2> HIDE DEF Answered
  <2> QED
    BY <1>11, <1>12
<1> QED
  BY <1>13

\* What the scan holds of a value is answered so.
LEMMA ScanAnswers ==
  ASSUME NEW ls \in Seq(Scans!AssertlessLine)
  PROVE  \E f : /\ Answers(f, ls)
                /\ \A v \in Scans!Value : Scans!Observes(ls, v) <=> f[<<v, {}>>]
<1> DEFINE f == CHOOSE h : h = [q \in Questions |-> Asked(h, ls, q[1], q[2])]
<1>1. f = [q \in Questions |-> Asked(f, ls, q[1], q[2])]
  BY QuestionsEnd
<1>2. \A v : Scans!Observes(ls, v) = f[<<v, {}>>]
  BY DEF Scans!Observes, Asked, Questions
<1> HIDE DEF f
<1>3. f \in [Questions -> BOOLEAN]
  BY <1>1 DEF Asked
<1>4. ASSUME NEW v \in Scans!Value, NEW seen \in SUBSET Locals
      PROVE  f[<<v, seen>>] <=> Asked(f, ls, v, seen)
  <2>1. <<v, seen>> \in Questions
    BY DEF Questions
  <2> QED
    BY <1>1, <2>1
<1> QED
  BY <1>2, <1>3, <1>4 DEF Answers

\* A value in an assertion that may be given a name of its own: a literal, an observation
\* or an attribute.
Nameable(ls, i, n, v) ==
  /\ ls \in Seq(Scans!AssertlessLine) /\ i \in 1..Len(ls) /\ n \in Locals
  /\ ls[i].is = "asserts" /\ v \in ls[i].values
  /\ v.is \in {"true", "false", "observed", "real"}
  /\ Scans!Bound(ls, n) = {} /\ Scans!AtModule(ls, n) = {}
  /\ \A j \in 1..Len(ls) : n \notin Scans!Mentioned(ls[j])

\* The binding is before all lines, one assertion is about the name and the others
\* are as they were, a line further on.
NamedOnly(ls, new, i, n, v) ==
  /\ 1 \in 1..Len(new) /\ i + 1 \in 1..Len(new)
  /\ new[1].is = "binds" /\ new[1].name = n /\ new[1].value = v /\ new[1].where = "test"
  /\ new[i + 1].is = "asserts" /\ new[i + 1].nested = ls[i].nested
  /\ new[i + 1].values = (ls[i].values \ {v}) \cup {[is |-> "name", name |-> n]}
  /\ \A j \in 1..Len(ls) : j # i => j + 1 \in 1..Len(new) /\ new[j + 1] = ls[j]
  /\ \A k \in 1..Len(new) : k # 1 /\ k # i + 1 =>
       \E j \in 1..Len(ls) : j # i /\ k = j + 1 /\ new[k] = ls[j]

\* Naming a value leaves everything else.
LEMMA NamingIsAll ==
  ASSUME NEW ls, NEW i, NEW n, NEW v, Nameable(ls, i, n, v)
  PROVE  /\ Named(ls, i, n, v) \in Seq(Scans!AssertlessLine) /\ v \in Scans!Value
         /\ NamedOnly(ls, Named(ls, i, n, v), i, n, v)
<1> DEFINE new == Named(ls, i, n, v)
           N == Len(ls)
<1>1. ls \in Seq(Scans!AssertlessLine) /\ i \in 1..N /\ n \in Locals /\ ls[i].is = "asserts"
  BY DEF Nameable
<1>2. v \in Scans!Value
  BY <1>1, AnAssertion DEF Nameable
<1>3. /\ new \in Seq(Scans!AssertlessLine) /\ Len(new) = N + 1
      /\ new[1] = [is |-> "binds", name |-> n, value |-> v, where |-> "test"]
      /\ \A j \in 1..N : j # i => new[j + 1] = ls[j]
      /\ new[i + 1] = [is |-> "asserts", values |-> (ls[i].values \ {v}) \cup {[is |-> "name", name |-> n]},
                       nested |-> ls[i].nested]
  <2> HIDE DEF new
  <2>1. /\ Named(ls, i, n, v) \in Seq(Scans!AssertlessLine) /\ Len(Named(ls, i, n, v)) = Len(ls) + 1
        /\ Named(ls, i, n, v)[1] = [is |-> "binds", name |-> n, value |-> v, where |-> "test"]
        /\ \A j \in 1..Len(ls) : j # i => Named(ls, i, n, v)[j + 1] = ls[j]
        /\ Named(ls, i, n, v)[i + 1]
             = [is |-> "asserts", values |-> (ls[i].values \ {v}) \cup {[is |-> "name", name |-> n]},
                nested |-> ls[i].nested]
    BY <1>1, <1>2, NamedLines
  <2> QED
    BY <2>1, ZenonT(60) DEF new
<1>4. N \in Nat
  BY <1>1
<1> HIDE DEF new, N
<1>5. 1 \in 1..Len(new) /\ i + 1 \in 1..Len(new) /\ \A j \in 1..N : j + 1 \in 1..Len(new)
  BY <1>1, <1>3, <1>4
<1>6. new[1].is = "binds" /\ new[1].name = n /\ new[1].value = v /\ new[1].where = "test"
  BY <1>3
<1>7. /\ new[i + 1].is = "asserts" /\ new[i + 1].nested = ls[i].nested
      /\ new[i + 1].values = (ls[i].values \ {v}) \cup {[is |-> "name", name |-> n]}
  BY <1>3
<1>8. ASSUME NEW k \in 1..Len(new), k # 1, k # i + 1
      PROVE  \E j \in 1..N : j # i /\ k = j + 1 /\ new[k] = ls[j]
  <2>1. k - 1 \in 1..N /\ k - 1 # i /\ k = (k - 1) + 1
    BY <1>1, <1>3, <1>4, <1>8
  <2> QED
    BY <1>3, <2>1
<1> QED
  BY <1>2, <1>3, <1>5, <1>6, <1>7, <1>8 DEF NamedOnly, new, N

\* A value that is not the name.
Apart(u, n) == u.is = "name" => u.name # n

\* What does not mention a name is about other values.
LEMMA ValuesApart ==
  ASSUME NEW ls \in Seq(Scans!AssertlessLine), NEW n, NEW j \in 1..Len(ls),
         n \notin Scans!Mentioned(ls[j])
  PROVE  /\ ls[j].is = "asserts" => ls[j].values \subseteq Scans!Value /\ \A u \in ls[j].values : Apart(u, n)
         /\ ls[j].is = "binds" => Apart(ls[j].value, n)
         /\ ls[j].is = "handler" /\ ls[j].body = "assert" =>
              ls[j].value \in Scans!Value /\ Apart(ls[j].value, n)
<1>1. ASSUME ls[j].is = "asserts"
      PROVE  ls[j].values \subseteq Scans!Value /\ \A u \in ls[j].values : Apart(u, n)
  <2>1. Scans!Mentioned(ls[j]) = {u.name : u \in {w \in ls[j].values : w.is = "name"}}
    BY <1>1 DEF Scans!Mentioned
  <2>2. \A u \in ls[j].values : Apart(u, n)
    BY <2>1 DEF Apart
  <2> QED
    BY <1>1, <2>2, AnAssertion
<1>2. ASSUME ls[j].is = "binds"
      PROVE  Apart(ls[j].value, n)
  <2>1. Scans!Mentioned(ls[j]) = {u.name : u \in {w \in {ls[j].value} : w.is = "name"}}
    BY <1>2 DEF Scans!Mentioned
  <2> QED
    BY <2>1 DEF Apart
<1>3. ASSUME ls[j].is = "handler", ls[j].body = "assert"
      PROVE  ls[j].value \in Scans!Value /\ Apart(ls[j].value, n)
  <2>1. Scans!Mentioned(ls[j]) = {u.name : u \in {w \in {ls[j].value} : w.is = "name"}}
    BY <1>3 DEF Scans!Mentioned
  <2>2. Apart(ls[j].value, n)
    BY <2>1 DEF Apart
  <2>3. ls[j] \in Scans!AssertlessLine
    BY ElementOfSeq
  <2>4. ls[j] \in [is : {"handler"}, broad : BOOLEAN, body : {"assert"}, value : Scans!Value]
    BY <1>3, <2>3, Zenon DEF Scans!AssertlessLine
  <2> QED
    BY <2>2, <2>4
<1> QED
  BY <1>1, <1>2, <1>3

\* Every other name is bound as before.
LEMMA BoundAsBefore ==
  ASSUME NEW ls, NEW new, NEW i, NEW n, NEW v, NamedOnly(ls, new, i, n, v), i \in 1..Len(ls),
         ls[i].is = "asserts", NEW m, m # n
  PROVE  Scans!Bound(new, m) = Scans!Bound(ls, m) /\ Scans!AtModule(new, m) = Scans!AtModule(ls, m)
<1>1. ASSUME NEW j \in 1..Len(ls), ls[j].is \in {"binds", "rebinds"}
      PROVE  j + 1 \in 1..Len(new) /\ new[j + 1] = ls[j]
  BY <1>1 DEF NamedOnly
<1>2. ASSUME NEW k \in 1..Len(new), new[k].is \in {"binds", "rebinds"}, new[k].name = m
      PROVE  \E j \in 1..Len(ls) : new[k] = ls[j]
  BY <1>2 DEF NamedOnly
<1>3. \A u : u \in Scans!Bound(new, m) => u \in Scans!Bound(ls, m)
  BY <1>2 DEF Scans!Bound
<1>4. \A u : u \in Scans!Bound(ls, m) => u \in Scans!Bound(new, m)
  BY <1>1 DEF Scans!Bound
<1>5. \A u : u \in Scans!AtModule(new, m) => u \in Scans!AtModule(ls, m)
  BY <1>2 DEF Scans!AtModule
<1>6. \A u : u \in Scans!AtModule(ls, m) => u \in Scans!AtModule(new, m)
  BY <1>1 DEF Scans!AtModule
<1> QED
  BY <1>3, <1>4, <1>5, <1>6

\* The name is bound to the value.
LEMMA BoundToTheValue ==
  ASSUME NEW ls, NEW new, NEW i, NEW n, NEW v, NamedOnly(ls, new, i, n, v),
         Scans!Bound(ls, n) = {}
  PROVE  Scans!Bound(new, n) = {v}
<1>1. \A j \in 1..Len(ls) : ~(ls[j].is = "binds" /\ ls[j].where = "test" /\ ls[j].name = n)
                            /\ ~(ls[j].is = "rebinds" /\ ls[j].name = n)
  BY DEF Scans!Bound
<1>2. \A k \in 1..Len(new) : /\ new[k].is = "binds" /\ new[k].where = "test" /\ new[k].name = n => k = 1
                             /\ ~(new[k].is = "rebinds" /\ new[k].name = n)
  BY <1>1 DEF NamedOnly
<1>3. 1 \in 1..Len(new) /\ new[1].is = "binds" /\ new[1].name = n /\ new[1].value = v /\ new[1].where = "test"
  BY DEF NamedOnly
<1> QED
  BY <1>2, <1>3 DEF Scans!Bound

\* A name is a constant as before.
LEMMA ConstantAsBefore ==
  ASSUME NEW ls, NEW new, NEW i, NEW n, NEW v, NamedOnly(ls, new, i, n, v), i \in 1..Len(ls),
         ls[i].is = "asserts", NEW m, m # n
  PROVE  Scans!Constant(new, m) <=> Scans!Constant(ls, m)
<1>1. Scans!Bound(new, m) = Scans!Bound(ls, m) /\ Scans!AtModule(new, m) = Scans!AtModule(ls, m)
  BY BoundAsBefore
<1> QED
  BY <1>1, Zenon DEF Scans!Constant

\* Where a name is bound, in the test or at the module.
BindsAt(ls, m, where) ==
  {j \in 1..Len(ls) : ls[j].is = "binds" /\ ls[j].where = where /\ ls[j].name = m}

\* The first line of several.
LEMMA FirstOf ==
  ASSUME NEW at, at \subseteq Nat, NEW a \in at, \A k \in at : a <= k
  PROVE  (CHOOSE j \in at : \A k \in at : j <= k) = a
<1> DEFINE c == CHOOSE j \in at : \A k \in at : j <= k
<1>1. c \in at /\ \A k \in at : c <= k
  OBVIOUS
<1> HIDE DEF c
<1>2. c <= a /\ a <= c /\ c \in Nat /\ a \in Nat
  BY <1>1
<1>3. c = a
  BY <1>2
<1> QED
  BY <1>3 DEF c

\* And it stands for the same literal, its first binding's.
LEMMA LiteralAsBefore ==
  ASSUME NEW ls \in Seq(Scans!AssertlessLine), NEW new \in Seq(Scans!AssertlessLine),
         NEW i \in 1..Len(ls), NEW n, NEW v, NamedOnly(ls, new, i, n, v),
         ls[i].is = "asserts", NEW m, m # n, Scans!Constant(ls, m)
  PROVE  Scans!Literal(new, m) = Scans!Literal(ls, m)
<1> DEFINE where == IF Scans!Bound(ls, m) = {} THEN "module" ELSE "test"
           at == BindsAt(ls, m, where)
           later == BindsAt(new, m, where)
<1>1. Scans!Bound(new, m) = Scans!Bound(ls, m)
  BY BoundAsBefore
<1>2. at # {}
  <2>1. CASE Scans!Bound(ls, m) = {}
    <3>1. Scans!AtModule(ls, m) # {}
      BY <2>1 DEF Scans!Constant, Scans!OnlyLiterals
    <3> QED
      BY <2>1, <3>1 DEF Scans!AtModule, BindsAt
  <2>2. CASE Scans!Bound(ls, m) # {}
    <3>1. PICK u \in Scans!Bound(ls, m) : u.is \in {"true", "false"}
      BY <2>2 DEF Scans!Constant, Scans!OnlyLiterals, Scans!Literals
    <3>2. u.is # "rebound"
      BY <3>1
    <3>3. PICK j \in 1..Len(ls) : ls[j].is = "binds" /\ ls[j].where = "test" /\ ls[j].name = m
      BY <3>2, BoundValues
    <3> QED
      BY <2>2, <3>3 DEF BindsAt
  <2> QED
    BY <2>1, <2>2
<1>3. PICK a \in at : \A k \in at : a <= k
  <2>1. at \subseteq Nat
    BY DEF BindsAt
  <2> QED
    BY <1>2, <2>1, LeastNatural, Zenon
<1>4. /\ a \in Nat /\ a \in 1..Len(ls) /\ ls[a].is = "binds" /\ ls[a].where = where /\ ls[a].name = m
      /\ a + 1 \in 1..Len(new) /\ new[a + 1] = ls[a]
  <2>1. a \in Nat /\ a \in 1..Len(ls) /\ ls[a].is = "binds" /\ ls[a].where = where /\ ls[a].name = m
    BY DEF BindsAt
  <2>2. a # i
    BY <2>1
  <2> QED
    BY <2>1, <2>2 DEF NamedOnly
<1>5. a + 1 \in later
  BY <1>4 DEF BindsAt
<1>6. ASSUME NEW k \in later
      PROVE  a + 1 <= k
  <2>1. k \in 1..Len(new) /\ new[k].is = "binds" /\ new[k].where = where /\ new[k].name = m
    BY DEF BindsAt
  <2>2. k # 1 /\ k # i + 1
    BY <2>1 DEF NamedOnly
  <2>3. PICK j \in 1..Len(ls) : k = j + 1 /\ new[k] = ls[j]
    BY <2>1, <2>2 DEF NamedOnly
  <2>4. j \in at
    BY <2>1, <2>3 DEF BindsAt
  <2>5. a <= j
    BY <1>3, <2>4
  <2> QED
    BY <1>4, <2>3, <2>5
<1>7. at \subseteq Nat /\ later \subseteq Nat
  BY DEF BindsAt
<1> DEFINE first == CHOOSE j \in at : \A k \in at : j <= k
           second == CHOOSE j \in later : \A k \in later : j <= k
<1>8. first = a
  <2> HIDE DEF at
  <2> QED
    BY <1>3, <1>7, FirstOf
<1>9. second = a + 1
  <2> HIDE DEF later
  <2> QED
    BY <1>5, <1>6, <1>7, FirstOf
<1>10. Scans!Literal(ls, m) = ls[first].value.is
  BY Zenon DEF Scans!Literal, BindsAt
<1>11. Scans!Literal(new, m) = new[second].value.is
  BY <1>1, Zenon DEF Scans!Literal, BindsAt
<1> HIDE DEF first, second
<1> QED
  BY <1>4, <1>8, <1>9, <1>10, <1>11

\* Every other value is looked at as before.
LEMMA ObservedAsBefore ==
  ASSUME NEW ls \in Seq(Scans!AssertlessLine), NEW new \in Seq(Scans!AssertlessLine),
         NEW i \in 1..Len(ls), NEW n, NEW v, NamedOnly(ls, new, i, n, v),
         ls[i].is = "asserts", \A j \in 1..Len(ls) : n \notin Scans!Mentioned(ls[j]),
         NEW w \in Scans!Value, Apart(w, n)
  PROVE  Scans!Observes(new, w) <=> Scans!Observes(ls, w)
<1>1. PICK f : Answers(f, ls) /\ \A u \in Scans!Value : Scans!Observes(ls, u) <=> f[<<u, {}>>]
  BY ScanAnswers
<1>2. PICK g : Answers(g, new) /\ \A u \in Scans!Value : Scans!Observes(new, u) <=> g[<<u, {}>>]
  BY ScanAnswers
<1> DEFINE M == Ahead({})
           K == {k \in 0..(M + 1) : \A u \in Scans!Value, seen \in SUBSET Locals :
                   Apart(u, n) /\ Ahead(seen) < k => (f[<<u, seen>>] <=> g[<<u, seen>>])}
<1>3. M \in Nat
  BY AheadAtMost
<1>4. 0 \in K
  <2>1. \A seen \in SUBSET Locals : ~(Ahead(seen) < 0)
    BY AheadAtMost
  <2>2. 0 \in 0..(M + 1)
    BY <1>3
  <2> HIDE DEF M
  <2> QED
    BY <2>1, <2>2
<1>5. ASSUME NEW k \in 1..(M + 1), k - 1 \in K
      PROVE  k \in K
  <2>1. ASSUME NEW u \in Scans!Value, NEW seen \in SUBSET Locals, Apart(u, n), Ahead(seen) < k
        PROVE  f[<<u, seen>>] <=> g[<<u, seen>>]
    <3>1. (f[<<u, seen>>] <=> Asked(f, ls, u, seen)) /\ (g[<<u, seen>>] <=> Asked(g, new, u, seen))
      BY <1>1, <1>2 DEF Answers
    <3>2. CASE u.is = "name" /\ u.name \notin seen
      <4> DEFINE m == u.name
      <4>1. m \in Locals /\ m # n
        BY <2>1, <3>2 DEF Scans!Value, Apart
      <4>2. Scans!Bound(new, m) = Scans!Bound(ls, m)
        BY <4>1, BoundAsBefore
      <4>3. seen \cup {m} \in SUBSET Locals /\ Ahead(seen \cup {m}) < k - 1
        <5>1. /\ seen \cup {m} \in SUBSET Locals
              /\ Ahead(seen) \in Nat /\ Ahead(seen \cup {m}) \in Nat
              /\ Ahead(seen) = Ahead(seen \cup {m}) + 1
          BY <3>2, <4>1, OneLessAhead
        <5> QED
          BY <2>1, <5>1
      <4> HIDE DEF m
      <4>4. ASSUME NEW b \in Scans!Bound(ls, m), b.is # "rebound"
            PROVE  f[<<b, seen \cup {m}>>] <=> g[<<b, seen \cup {m}>>]
        <5>1. PICK j \in 1..Len(ls) : ls[j].is = "binds" /\ ls[j].value = b /\ b \in Scans!Value
          BY <4>4, BoundValues
        <5>2. Apart(b, n)
          BY <5>1, ValuesApart
        <5> QED
          BY <1>5, <4>3, <5>1, <5>2
      <4>5. Asked(f, ls, u, seen) <=> Asked(g, new, u, seen)
        BY <4>2, <4>4 DEF Asked, m
      <4> QED
        BY <3>1, <4>5
    <3>3. CASE ~(u.is = "name" /\ u.name \notin seen)
      BY <3>1, <3>3 DEF Asked
    <3> QED
      BY <3>2, <3>3
  <2>2. k \in 0..(M + 1)
    BY <1>3
  <2> QED
    BY <2>1, <2>2
<1>6. M + 1 \in K
  <2>1. 0..(M + 1) \subseteq K
    <3> HIDE DEF K
    <3>1. M + 1 \in Nat
      BY <1>3
    <3> QED
      BY <3>1, <1>4, <1>5, EveryRound
  <2>2. M + 1 \in 0..(M + 1)
    BY <1>3
  <2> QED
    BY <2>1, <2>2, Zenon
<1>7. {} \in SUBSET Locals /\ Ahead({}) < M + 1
  BY <1>3
<1>8. f[<<w, {}>>] <=> g[<<w, {}>>]
  BY <1>6, <1>7
<1> QED
  BY <1>1, <1>2, <1>8

\* `new` is `ls` once the value v of the assertion at i is called n.
Renamed(ls, new, i, n, v) ==
  /\ Nameable(ls, i, n, v) /\ NamedOnly(ls, new, i, n, v)
  /\ new \in Seq(Scans!AssertlessLine) /\ v \in Scans!Value

\* What an assertion does not call by the name counts as before.
LEMMA TipsAsBefore ==
  ASSUME NEW ls, NEW new, NEW i, NEW n, NEW v, Renamed(ls, new, i, n, v),
         NEW V, V \subseteq Scans!Value, \A u \in V : Apart(u, n)
  PROVE  /\ Scans!Tips(new, V) = Scans!Tips(ls, V)
         /\ \A u \in V : Scans!Observes(new, u) <=> Scans!Observes(ls, u)
<1>1. \A u \in V : Scans!Observes(new, u) <=> Scans!Observes(ls, u)
  BY ObservedAsBefore DEF Renamed, Nameable
<1>2. \A u \in V : u.is = "name" => (Scans!Constant(new, u.name) <=> Scans!Constant(ls, u.name))
  BY ConstantAsBefore DEF Renamed, Nameable, Apart
<1>3. \A u \in V : u \in Scans!Tips(new, V) <=> u \in Scans!Tips(ls, V)
  BY <1>1, <1>2 DEF Scans!Tips
<1>4. Scans!Tips(new, V) \subseteq V /\ Scans!Tips(ls, V) \subseteq V
  BY DEF Scans!Tips
<1> QED
  BY <1>1, <1>3, <1>4

\* The name is looked at as its value is, and is a constant if that is a literal.
LEMMA NameForTheValue ==
  ASSUME NEW ls, NEW new, NEW i, NEW n, NEW v, Renamed(ls, new, i, n, v),
         NEW name, name = [is |-> "name", name |-> n]
  PROVE  /\ Scans!Observes(ls, v) <=> v.is = "observed"
         /\ Scans!Observes(new, name) <=> v.is = "observed"
         /\ Scans!Constant(new, n) <=> v.is \in Scans!Literals
<1>1. v.is \in {"true", "false", "observed", "real"} /\ n \in Locals /\ v \in Scans!Value
      /\ ls \in Seq(Scans!AssertlessLine) /\ new \in Seq(Scans!AssertlessLine)
  BY DEF Renamed, Nameable
<1>2. Scans!Bound(new, n) = {v}
  BY BoundToTheValue DEF Renamed, Nameable
<1>3. name \in Scans!Value /\ name.is = "name" /\ name.name = n
  BY <1>1 DEF Scans!Value
<1>4. PICK f : Answers(f, ls) /\ \A u \in Scans!Value : Scans!Observes(ls, u) <=> f[<<u, {}>>]
  BY <1>1, ScanAnswers
<1>5. PICK g : Answers(g, new) /\ \A u \in Scans!Value : Scans!Observes(new, u) <=> g[<<u, {}>>]
  BY <1>1, ScanAnswers
<1>6. f[<<v, {}>>] <=> v.is = "observed"
  BY <1>1, <1>4 DEF Answers, Asked
<1>7. g[<<v, {n}>>] <=> v.is = "observed"
  BY <1>1, <1>5 DEF Answers, Asked
<1>8. g[<<name, {}>>] <=> v.is = "observed"
  <2>1. g[<<name, {}>>] <=> Asked(g, new, name, {})
    BY <1>3, <1>5 DEF Answers
  <2>2. {} \cup {n} = {n} /\ n \notin {}
    OBVIOUS
  <2> QED
    BY <1>1, <1>2, <1>3, <1>7, <2>1, <2>2 DEF Asked
<1>9. Scans!Constant(new, n) <=> v.is \in Scans!Literals
  BY <1>1, <1>2 DEF Scans!Constant, Scans!OnlyLiterals, Scans!Literals
<1> QED
  BY <1>1, <1>3, <1>4, <1>5, <1>6, <1>8, <1>9

\* The assertion looks at nothing but doubles once a value has got a name if it did
\* before, and so does every other.
LEMMA LooksAsBefore ==
  ASSUME NEW ls, NEW new, NEW i, NEW n, NEW v, Renamed(ls, new, i, n, v)
  PROVE  /\ Scans!MockOnly(new, new[i + 1].values) <=> Scans!MockOnly(ls, ls[i].values)
         /\ \A j \in 1..Len(ls) : ls[j].is = "asserts" =>
              (Scans!MockOnly(new, ls[j].values) <=> Scans!MockOnly(ls, ls[j].values))
<1> DEFINE V == ls[i].values
           rest == V \ {v}
           name == [is |-> "name", name |-> n]
<1>1. ASSUME NEW j \in 1..Len(ls), ls[j].is = "asserts"
      PROVE  ls[j].values \subseteq Scans!Value /\ \A u \in ls[j].values : Apart(u, n)
  BY <1>1, ValuesApart DEF Renamed, Nameable
<1>2. ASSUME NEW j \in 1..Len(ls), ls[j].is = "asserts"
      PROVE  Scans!MockOnly(new, ls[j].values) <=> Scans!MockOnly(ls, ls[j].values)
  <2>1. /\ Scans!Tips(new, ls[j].values) = Scans!Tips(ls, ls[j].values)
        /\ \A u \in ls[j].values : Scans!Observes(new, u) <=> Scans!Observes(ls, u)
    BY <1>1, <1>2, TipsAsBefore
  <2>2. Scans!Tips(ls, ls[j].values) \subseteq ls[j].values
    BY DEF Scans!Tips
  <2> QED
    BY <2>1, <2>2 DEF Scans!MockOnly
<1>3. i \in 1..Len(ls) /\ ls[i].is = "asserts" /\ v \in V /\ v.is \in {"true", "false", "observed", "real"}
      /\ new[i + 1].values = rest \cup {name}
  BY DEF Renamed, Nameable, NamedOnly
<1>4. V \subseteq Scans!Value /\ \A u \in V : Apart(u, n)
  BY <1>1, <1>3
<1>5. /\ Scans!Tips(new, rest) = Scans!Tips(ls, rest)
      /\ \A u \in rest : Scans!Observes(new, u) <=> Scans!Observes(ls, u)
  BY <1>4, TipsAsBefore
<1>6. /\ Scans!Observes(ls, v) <=> v.is = "observed"
      /\ Scans!Observes(new, name) <=> v.is = "observed"
      /\ Scans!Constant(new, n) <=> v.is \in Scans!Literals
  BY NameForTheValue
<1>7. name.is = "name" /\ name.name = n
  OBVIOUS
<1> HIDE DEF V, rest, name
<1>8. V = rest \cup {v}
  BY <1>3 DEF rest
<1>9. \A t, W, e : Scans!Tips(t, W \cup {e}) = Scans!Tips(t, W) \cup Scans!Tips(t, {e})
  BY DEF Scans!Tips
<1>10. Scans!Tips(ls, {v}) = IF v.is \in {"observed", "real"} THEN {v} ELSE {}
  <2>1. v \in Scans!Tips(ls, {v}) <=> v.is \in {"observed", "real"}
    BY <1>3 DEF Scans!Tips, Scans!Literals
  <2>2. Scans!Tips(ls, {v}) \subseteq {v}
    BY DEF Scans!Tips
  <2> QED
    BY <2>1, <2>2
<1>11. Scans!Tips(new, {name}) = IF v.is \in {"observed", "real"} THEN {name} ELSE {}
  <2>1. name \in Scans!Tips(new, {name}) <=> v.is \in {"observed", "real"}
    BY <1>3, <1>6, <1>7 DEF Scans!Tips, Scans!Literals
  <2>2. Scans!Tips(new, {name}) \subseteq {name}
    BY DEF Scans!Tips
  <2> QED
    BY <2>1, <2>2
<1>12. Scans!Tips(ls, rest) \subseteq rest
  BY DEF Scans!Tips
<1> DEFINE tips == Scans!Tips(ls, rest)
<1>13. Scans!Tips(ls, V) = tips \cup (IF v.is \in {"observed", "real"} THEN {v} ELSE {})
  <2>1. Scans!Tips(ls, rest \cup {v}) = Scans!Tips(ls, rest) \cup Scans!Tips(ls, {v})
    BY <1>9, Zenon
  <2> QED
    BY <1>8, <1>10, <2>1, Zenon
<1>14. Scans!Tips(new, rest \cup {name}) = tips \cup (IF v.is \in {"observed", "real"} THEN {name} ELSE {})
  <2>1. Scans!Tips(new, rest \cup {name}) = Scans!Tips(new, rest) \cup Scans!Tips(new, {name})
    BY <1>9, Zenon
  <2> QED
    BY <1>5, <1>11, <2>1, Zenon
<1> HIDE DEF tips
<1>15. \A u \in tips : Scans!Observes(new, u) <=> Scans!Observes(ls, u)
  BY <1>5, <1>12 DEF tips
<1>16. Scans!MockOnly(new, rest \cup {name}) <=> Scans!MockOnly(ls, V)
  <2>1. CASE v.is = "observed"
    BY <1>6, <1>13, <1>14, <1>15, <2>1 DEF Scans!MockOnly
  <2>2. CASE v.is \in Scans!Literals
    BY <1>13, <1>14, <1>15, <2>2 DEF Scans!MockOnly, Scans!Literals
  <2>3. CASE v.is = "real"
    <3>1. v \in Scans!Tips(ls, V) /\ name \in Scans!Tips(new, rest \cup {name})
      BY <1>13, <1>14, <2>3
    <3> QED
      BY <1>6, <2>3, <3>1 DEF Scans!MockOnly
  <2> QED
    BY <1>3, <2>1, <2>2, <2>3 DEF Scans!Literals
<1>17. Scans!MockOnly(new, new[i + 1].values) <=> Scans!MockOnly(ls, ls[i].values)
  BY <1>3, <1>16 DEF V
<1> QED
  BY <1>2, <1>17

\* A handler lets an assertion through as before.
LEMMA PropagatesAsBefore ==
  ASSUME NEW ls, NEW new, NEW i, NEW n, NEW v, Renamed(ls, new, i, n, v),
         NEW j \in 1..Len(ls), ls[j].is = "handler"
  PROVE  Scans!CanPropagate(new, ls[j]) <=> Scans!CanPropagate(ls, ls[j])
<1>1. CASE ls[j].body = "assert" /\ ls[j].value.is = "name"
  <2> DEFINE m == ls[j].value.name
  <2>1. m # n
    BY <1>1, ValuesApart DEF Renamed, Nameable, Apart
  <2>2. Scans!Constant(new, m) <=> Scans!Constant(ls, m)
    BY <2>1, ConstantAsBefore DEF Renamed, Nameable
  <2>3. Scans!Constant(ls, m) => Scans!Literal(new, m) = Scans!Literal(ls, m)
    BY <2>1, LiteralAsBefore DEF Renamed, Nameable
  <2> QED
    BY <1>1, <2>2, <2>3 DEF Scans!CanPropagate
<1>2. CASE ls[j].body = "assert" /\ ls[j].value.is # "name"
  BY <1>2 DEF Scans!CanPropagate
<1>3. CASE ls[j].body # "assert"
  BY <1>3 DEF Scans!CanPropagate
<1> QED
  BY <1>1, <1>2, <1>3

\* A test gets the same verdict whether its assertion states a value or its name.
LEMMA NamedVerdict ==
  ASSUME NEW ls, NEW new, NEW i, NEW n, NEW v, Renamed(ls, new, i, n, v), NEW found
  PROVE  Scans!AssertlessExit(found, new) = Scans!AssertlessExit(found, ls)
<1>1. /\ i \in 1..Len(ls) /\ ls[i].is = "asserts"
      /\ 1 \in 1..Len(new) /\ i + 1 \in 1..Len(new) /\ new[1].is = "binds"
      /\ new[i + 1].is = "asserts" /\ new[i + 1].nested = ls[i].nested
  BY DEF Renamed, Nameable, NamedOnly
<1>2. \A j \in 1..Len(ls) : j # i => j + 1 \in 1..Len(new) /\ new[j + 1] = ls[j]
  BY DEF Renamed, NamedOnly
<1>3. \A k \in 1..Len(new) : k # 1 /\ k # i + 1 =>
        \E j \in 1..Len(ls) : j # i /\ k = j + 1 /\ new[k] = ls[j]
  BY DEF Renamed, NamedOnly
<1>4. (\E k \in 1..Len(new) : new[k].is = "broken") <=> (\E j \in 1..Len(ls) : ls[j].is = "broken")
  BY <1>1, <1>2, <1>3
<1>5. ASSUME NEW j \in Scans!Real(ls)
      PROVE  j + 1 \in Scans!Real(new)
  <2>1. j \in 1..Len(ls)
    BY DEF Scans!Real
  <2>2. CASE j = i
    <3>1. ~ls[i].nested /\ ~Scans!MockOnly(ls, ls[i].values)
      BY <1>1, <2>2 DEF Scans!Real
    <3>2. ~Scans!MockOnly(new, new[i + 1].values)
      BY <3>1, LooksAsBefore
    <3> QED
      BY <1>1, <2>2, <3>1, <3>2 DEF Scans!Real
  <2>3. CASE j # i
    <3>1. j + 1 \in 1..Len(new) /\ new[j + 1] = ls[j]
      BY <1>2, <2>1, <2>3
    <3>2. ls[j].is = "asserts" => (Scans!MockOnly(new, ls[j].values) <=> Scans!MockOnly(ls, ls[j].values))
      BY <2>1, LooksAsBefore
    <3> QED
      BY <3>1, <3>2 DEF Scans!Real
  <2> QED
    BY <2>2, <2>3
<1>6. ASSUME NEW k \in Scans!Real(new)
      PROVE  Scans!Real(ls) # {}
  <2>1. k \in 1..Len(new) /\ k # 1
    BY <1>1 DEF Scans!Real
  <2>2. CASE k = i + 1
    <3>1. ~new[i + 1].nested /\ ~Scans!MockOnly(new, new[i + 1].values)
      BY <1>1, <2>2 DEF Scans!Real
    <3>2. ~Scans!MockOnly(ls, ls[i].values)
      BY <3>1, LooksAsBefore
    <3>3. i \in Scans!Real(ls)
      BY <1>1, <3>1, <3>2 DEF Scans!Real
    <3> QED
      BY <3>3
  <2>3. CASE k # i + 1
    <3>1. PICK j \in 1..Len(ls) : new[k] = ls[j]
      BY <1>3, <2>1, <2>3
    <3>2. ls[j].is = "asserts" => (Scans!MockOnly(new, ls[j].values) <=> Scans!MockOnly(ls, ls[j].values))
      BY LooksAsBefore
    <3>3. j \in Scans!Real(ls)
      BY <3>1, <3>2 DEF Scans!Real
    <3> QED
      BY <3>3
  <2> QED
    BY <2>2, <2>3
<1>7. Scans!Swallowed(ls) => Scans!Swallowed(new)
  <2> SUFFICES ASSUME Scans!Swallowed(ls) PROVE Scans!Swallowed(new)
    OBVIOUS
  <2>1. PICK j \in 1..Len(ls) :
          \/ ls[j].is = "suppress" /\ ls[j].broad
          \/ ls[j].is = "handler" /\ ls[j].broad /\ ~Scans!CanPropagate(ls, ls[j])
    BY DEF Scans!Swallowed
  <2>2. j + 1 \in 1..Len(new) /\ new[j + 1] = ls[j]
    BY <1>1, <1>2, <2>1
  <2>3. ls[j].is = "handler" => (Scans!CanPropagate(new, ls[j]) <=> Scans!CanPropagate(ls, ls[j]))
    BY PropagatesAsBefore
  <2> QED
    BY <2>1, <2>2, <2>3 DEF Scans!Swallowed
<1>8. Scans!Swallowed(new) => Scans!Swallowed(ls)
  <2> SUFFICES ASSUME Scans!Swallowed(new) PROVE Scans!Swallowed(ls)
    OBVIOUS
  <2>1. PICK k \in 1..Len(new) :
          \/ new[k].is = "suppress" /\ new[k].broad
          \/ new[k].is = "handler" /\ new[k].broad /\ ~Scans!CanPropagate(new, new[k])
    BY DEF Scans!Swallowed
  <2>2. k # 1 /\ k # i + 1
    BY <1>1, <2>1
  <2>3. PICK j \in 1..Len(ls) : new[k] = ls[j]
    BY <1>3, <2>2
  <2>4. ls[j].is = "handler" => (Scans!CanPropagate(new, ls[j]) <=> Scans!CanPropagate(ls, ls[j]))
    BY PropagatesAsBefore
  <2> QED
    BY <2>1, <2>3, <2>4 DEF Scans!Swallowed
<1>9. Scans!Real(new) = {} <=> Scans!Real(ls) = {}
  BY <1>5, <1>6
<1> QED
  BY <1>4, <1>7, <1>8, <1>9 DEF Scans!AssertlessExit

\* A literal, an observation or an attribute given a name first leaves the verdict.
LEMMA HoistedVerdict ==
  ASSUME GateInv, NEW v \in Scans!Value, v.is \notin {"call", "name"}, Hoist(v)
  PROVE  exit' = exit
<1>1. gate = "assertless" /\ gate' = gate /\ world' = world /\ exit' = RunGate(gate, lines', world)
  BY DEF Hoist, Reruns
<1>2. lines \in Seq(Scans!AssertlessLine) /\ exit = RunGate(gate, lines, world)
  BY <1>1 DEF GateInv, TypedGates, LineOf
<1>3. PICK i \in 1..Len(lines), n \in Locals :
        /\ lines[i].is = "asserts"
        /\ Scans!Bound(lines, n) = {} /\ Scans!AtModule(lines, n) = {}
        /\ \A j \in 1..Len(lines) : n \notin Scans!Mentioned(lines[j])
        /\ v \in lines[i].values /\ lines' = Named(lines, i, n, v)
  BY DEF Hoist, Named
<1>4. v.is \in {"true", "false", "observed", "real"}
  BY DEF Scans!Value
<1>5. Nameable(lines, i, n, v)
  BY <1>2, <1>3, <1>4 DEF Nameable
<1>6. Renamed(lines, lines', i, n, v)
  BY <1>3, <1>5, NamingIsAll DEF Renamed
<1>7. Scans!AssertlessExit(world, lines') = Scans!AssertlessExit(world, lines)
  BY <1>6, NamedVerdict
<1> QED
  BY <1>1, <1>2, <1>7 DEF RunGate, LaneGates

-----------------------------------------------------------------------------
(* A command run in another way: every step into a command goes to less text. *)

Width(w) == IF w \in DOMAIN Body THEN Chars[w] ELSE 1

\* A word is at least one character long.
LEMMA WidthPositive == \A w : Width(w) \in Nat /\ 1 <= Width(w)
  BY TextsAssumption DEF Width

\* The length of the first n words.
UpTo(argv, n) ==
  (CHOOSE f : f = [k \in Nat |-> IF k = 0 THEN 0 ELSE f[k - 1] + Width(argv[k])])[n]

\* It is counted word by word.
LEMMA WordByWord ==
  ASSUME NEW argv
  PROVE  /\ UpTo(argv, 0) = 0 /\ \A n \in Nat : UpTo(argv, n) \in Nat
         /\ \A n \in Nat : UpTo(argv, n + 1) = UpTo(argv, n) + Width(argv[n + 1])
         /\ Lanes!Written(argv) = UpTo(argv, Len(argv))
<1> DEFINE S == [Nat -> Nat]
           Next1(f) == [k \in Nat |-> IF k = 0 THEN 0 ELSE f[k - 1] + Width(argv[k])]
           H == [f \in S |-> Next1(f)]
           m == [k \in Nat |-> k]
           F == CHOOSE f : f = Next1(f)
<1>1. ASSUME NEW f \in S
      PROVE  Next1(f) \in S
  <2>1. ASSUME NEW k \in Nat
        PROVE  (IF k = 0 THEN 0 ELSE f[k - 1] + Width(argv[k])) \in Nat
    <3>1. CASE k # 0
      <4>1. k - 1 \in Nat /\ Width(argv[k]) \in Nat
        BY <3>1, WidthPositive
      <4>2. f[k - 1] \in Nat
        BY <4>1
      <4> HIDE DEF S
      <4> QED
        BY <3>1, <4>1, <4>2
    <3> QED
      BY <3>1
  <2> QED
    BY <2>1
<1>2. H \in [S -> S] /\ m \in [Nat -> Nat]
  <2> HIDE DEF Next1, S
  <2> QED
    BY <1>1
<1>3. ASSUME NEW f \in S, NEW g \in S, NEW d \in Nat, \A e \in Nat : m[e] < m[d] => f[e] = g[e]
      PROVE  H[f][d] = H[g][d]
  <2>1. d # 0 => f[d - 1] = g[d - 1]
    BY <1>3
  <2>2. H[f] = Next1(f) /\ H[g] = Next1(g)
    <3> HIDE DEF Next1, S
    <3> QED
      OBVIOUS
  <2>3. Next1(f)[d] = Next1(g)[d]
    BY <2>1
  <2> HIDE DEF Next1, H
  <2> QED
    BY <2>2, <2>3
<1>4. \E f : Solves(f, H, Nat, Nat)
  <2>1. Nat # {}
    OBVIOUS
  <2> HIDE DEF H, m
  <2>2. GoesBack(H, Nat, Nat, m)
    BY <1>2, <1>3, <2>1 DEF GoesBack
  <2> QED
    BY <2>2, Recursion, Zenon
<1>5. F = Next1(F)
  <2> HIDE DEF Next1, S
  <2>1. \E f : f = Next1(f)
    BY <1>4 DEF Solves, S
  <2> QED
    BY <2>1
<1>6. UpTo(argv, 0) = F[0] /\ \A n : UpTo(argv, n) = F[n]
  BY DEF UpTo
<1>7. Lanes!Written(argv) = F[Len(argv)]
  BY DEF Lanes!Written, Width
<1> HIDE DEF F
<1>8. F[0] = 0 /\ \A n \in Nat : F[n + 1] = F[n] + Width(argv[n + 1])
  <2>1. \A k \in Nat : Next1(F)[k] = IF k = 0 THEN 0 ELSE F[k - 1] + Width(argv[k])
    OBVIOUS
  <2>2. \A k \in Nat : F[k] = IF k = 0 THEN 0 ELSE F[k - 1] + Width(argv[k])
    <3> HIDE DEF Next1
    <3> QED
      BY <1>5, <2>1, Zenon
  <2>3. \A n \in Nat : n + 1 \in Nat /\ n + 1 # 0 /\ (n + 1) - 1 = n
    OBVIOUS
  <2> QED
    BY <2>2, <2>3
<1>9. \A n \in Nat : F[n] \in Nat
  <2> DEFINE T == {n \in Nat : F[n] \in Nat}
  <2>1. ASSUME NEW d \in Nat, \A e \in Nat : m[e] < m[d] => e \in T
        PROVE  d \in T
    <3>1. CASE d = 0
      BY <3>1, <1>8
    <3>2. CASE d # 0
      <4>1. d - 1 \in Nat /\ (d - 1) + 1 = d /\ m[d - 1] < m[d] /\ Width(argv[d]) \in Nat
        BY <3>2, WidthPositive
      <4>2. F[d - 1] \in Nat /\ F[d] = F[d - 1] + Width(argv[d])
        BY <1>8, <2>1, <4>1
      <4> QED
        BY <4>1, <4>2
    <3> QED
      BY <3>1, <3>2
  <2>2. \A d \in Nat : d \in T
    <3> HIDE DEF T, m
    <3> QED
      BY <1>2, <2>1, ByMeasure
  <2> QED
    BY <2>2
<1> QED
  BY <1>6, <1>7, <1>8, <1>9

\* The first n words of c are those of a behind the i-th.
Slice(c, a, i, n) == \A k \in 1..n : c[k] = a[i + k]

\* What is the same from word to word is as long.
LEMMA Slices ==
  ASSUME NEW a, NEW c, NEW i \in Nat, NEW n \in Nat, Slice(c, a, i, n)
  PROVE  UpTo(c, n) + UpTo(a, i) = UpTo(a, i + n)
<1> DEFINE K == {k \in 0..n : UpTo(c, k) + UpTo(a, i) = UpTo(a, i + k)}
<1>1. 0 \in K
  <2>1. UpTo(c, 0) = 0 /\ UpTo(a, i) \in Nat
    BY WordByWord, Zenon
  <2>2. i + 0 = i /\ 0 \in 0..n
    OBVIOUS
  <2> QED
    BY <2>1, <2>2
<1>2. ASSUME NEW k \in 1..n, k - 1 \in K
      PROVE  k \in K
  <2>1. k - 1 \in Nat /\ (k - 1) + 1 = k /\ i + (k - 1) \in Nat /\ (i + (k - 1)) + 1 = i + k /\ k \in 0..n
    OBVIOUS
  <2>2. UpTo(c, k) = UpTo(c, k - 1) + Width(c[k]) /\ UpTo(c, k - 1) \in Nat
    BY <2>1, WordByWord
  <2>3. UpTo(a, i + k) = UpTo(a, i + (k - 1)) + Width(a[i + k]) /\ UpTo(a, i) \in Nat
    BY <2>1, WordByWord
  <2>4. c[k] = a[i + k] /\ Width(a[i + k]) \in Nat
    BY WidthPositive DEF Slice
  <2>5. UpTo(c, k - 1) + UpTo(a, i) = UpTo(a, i + (k - 1))
    BY <1>2
  <2>6. UpTo(c, k) + UpTo(a, i) = UpTo(a, i + k)
    BY <2>2, <2>3, <2>4, <2>5
  <2> QED
    BY <2>1, <2>6
<1>3. 0..n \subseteq K
  <2> HIDE DEF K
  <2> QED
    BY <1>1, <1>2, EveryRound
<1>4. n \in 0..n
  OBVIOUS
<1> QED
  BY <1>3, <1>4

\* More words are longer, by what is in them.
LEMMA Longer ==
  ASSUME NEW a, NEW i \in Nat, NEW j \in Nat, i <= j
  PROVE  /\ UpTo(a, i) \in Nat /\ UpTo(a, j) \in Nat /\ UpTo(a, i) <= UpTo(a, j)
         /\ i < j => UpTo(a, i) + Width(a[j]) <= UpTo(a, j) /\ UpTo(a, i) < UpTo(a, j)
<1> DEFINE K == {k \in 0..(j - i) : UpTo(a, i) <= UpTo(a, i + k)}
<1>1. \A k \in Nat : UpTo(a, k) \in Nat /\ UpTo(a, k + 1) = UpTo(a, k) + Width(a[k + 1])
  BY WordByWord
<1>2. 0 \in K
  BY <1>1
<1>3. ASSUME NEW k \in 1..(j - i), k - 1 \in K
      PROVE  k \in K
  <2>1. i + (k - 1) \in Nat /\ (i + (k - 1)) + 1 = i + k /\ k \in 0..(j - i) /\ Width(a[i + k]) \in Nat
    BY WidthPositive
  <2>2. UpTo(a, i + k) = UpTo(a, i + (k - 1)) + Width(a[i + k]) /\ UpTo(a, i + (k - 1)) \in Nat
    BY <1>1, <2>1
  <2> QED
    BY <1>1, <1>3, <2>1, <2>2
<1>4. 0..(j - i) \subseteq K
  <2>1. j - i \in Nat
    OBVIOUS
  <2> HIDE DEF K
  <2> QED
    BY <1>2, <1>3, <2>1, EveryRound
<1>5. UpTo(a, i) <= UpTo(a, j)
  <2>1. j - i \in 0..(j - i) /\ i + (j - i) = j
    OBVIOUS
  <2> QED
    BY <1>4, <2>1
<1>6. ASSUME i < j
      PROVE  UpTo(a, i) + Width(a[j]) <= UpTo(a, j) /\ UpTo(a, i) < UpTo(a, j)
  <2>1. j - 1 \in Nat /\ (j - 1) + 1 = j /\ j - 1 - i \in 0..(j - i) /\ i + (j - 1 - i) = j - 1
    BY <1>6
  <2>2. UpTo(a, i) <= UpTo(a, j - 1)
    BY <1>4, <2>1
  <2>3. UpTo(a, j) = UpTo(a, j - 1) + Width(a[j]) /\ UpTo(a, j - 1) \in Nat
        /\ Width(a[j]) \in Nat /\ 1 <= Width(a[j])
    BY <1>1, <2>1, WidthPositive
  <2> QED
    BY <1>1, <2>2, <2>3
<1> QED
  BY <1>1, <1>5, <1>6

\* Nothing is written in no words.
LEMMA NothingWritten == Lanes!Written(<<>>) = 0
<1>1. Len(<<>>) = 0
  OBVIOUS
<1> QED
  BY <1>1, WordByWord

\* A piece of a command.
LEMMA Cut ==
  ASSUME NEW a \in Seq(STRING), NEW i \in Nat, NEW j \in Nat, 1 <= i, j <= Len(a)
  PROVE  /\ SubSeq(a, i, j) \in Seq(STRING)
         /\ i > j => SubSeq(a, i, j) = <<>>
         /\ i <= j => /\ Len(SubSeq(a, i, j)) = j - i + 1
                      /\ \A k \in 1..(j - i + 1) : SubSeq(a, i, j)[k] = a[i - 1 + k]
<1>1. i \in Int /\ j \in Int /\ j - i + 1 = j - i + 1
  OBVIOUS
<1>2. \A k \in i..j : a[k] \in STRING
  <2>1. \A k \in i..j : k \in 1..Len(a)
    OBVIOUS
  <2> QED
    BY <2>1, ElementOfSeq
<1>3. /\ SubSeq(a, i, j) \in Seq(STRING)
      /\ Len(SubSeq(a, i, j)) = IF i <= j THEN j - i + 1 ELSE 0
      /\ \A k \in 1..(j - i + 1) : SubSeq(a, i, j)[k] = a[i + k - 1]
  BY <1>1, <1>2, SubSeqProperties
<1>6. i > j => SubSeq(a, i, j) = <<>>
  BY <1>1, SubSeqEmpty
<1>7. \A k \in 1..(j - i + 1) : i + k - 1 = i - 1 + k
  OBVIOUS
<1> QED
  BY <1>3, <1>6, <1>7

\* A piece is not longer than the whole, and shorter if anything else was in it.
LEMMA CutShorter ==
  ASSUME NEW a \in Seq(STRING), NEW i \in Nat, NEW j \in Nat, 1 <= i, j <= Len(a)
  PROVE  /\ Lanes!Written(a) \in Nat /\ Lanes!Written(SubSeq(a, i, j)) \in Nat
         /\ Lanes!Written(SubSeq(a, i, j)) <= Lanes!Written(a)
         /\ (2 <= i /\ a # <<>>) \/ j < Len(a) => Lanes!Written(SubSeq(a, i, j)) < Lanes!Written(a)
<1> DEFINE c == SubSeq(a, i, j)
           N == Len(a)
<1>1. N \in Nat /\ (a # <<>> => 0 < N) /\ j <= N
  OBVIOUS
<1>2. Lanes!Written(a) = UpTo(a, N) /\ Lanes!Written(c) = UpTo(c, Len(c)) /\ UpTo(a, 0) = 0
      /\ UpTo(a, N) \in Nat
  BY <1>1, WordByWord
<1>3. CASE i <= j
  <2>1. Len(c) = j - i + 1 /\ \A k \in 1..(j - i + 1) : c[k] = a[i - 1 + k]
    BY <1>3, Cut
  <2> HIDE DEF c, N
  <2>2. i - 1 \in Nat /\ j - i + 1 \in Nat /\ (i - 1) + (j - i + 1) = j
    BY <1>3
  <2>3. UpTo(c, j - i + 1) + UpTo(a, i - 1) = UpTo(a, j)
    <3>1. Slice(c, a, i - 1, j - i + 1)
      BY <2>1 DEF Slice
    <3>2. UpTo(c, j - i + 1) + UpTo(a, i - 1) = UpTo(a, (i - 1) + (j - i + 1))
      BY <2>2, <3>1, Slices
    <3> QED
      BY <2>2, <3>2, Zenon
  <2>4. /\ UpTo(a, i - 1) \in Nat /\ UpTo(a, j) \in Nat /\ UpTo(a, j) <= UpTo(a, N)
        /\ j < N => UpTo(a, j) < UpTo(a, N)
    BY <1>1, <2>2, Longer
  <2>5. 2 <= i => UpTo(a, 0) < UpTo(a, i - 1)
    <3>1. 2 <= i => 0 < i - 1 /\ 0 <= i - 1 /\ 0 \in Nat
      OBVIOUS
    <3> QED
      BY <2>2, <3>1, Longer
  <2>6. UpTo(c, j - i + 1) \in Nat
    BY <2>2, WordByWord
  <2> QED
    BY <1>2, <2>1, <2>3, <2>4, <2>5, <2>6 DEF c, N
<1>4. CASE i > j
  <2>1. c = <<>>
    BY <1>4, Cut
  <2>2. 0 < N => UpTo(a, 0) < UpTo(a, N)
    BY <1>1, Longer
  <2>3. (2 <= i /\ a # <<>>) \/ j < N => 0 < N
    BY <1>1
  <2>4. Lanes!Written(c) = 0
    BY <2>1, NothingWritten, Zenon
  <2> HIDE DEF c, N
  <2> QED
    BY <1>1, <1>2, <2>2, <2>3, <2>4 DEF c, N
<1> QED
  BY <1>3, <1>4

\* The rest of a command behind some words.
LEMMA Rest ==
  ASSUME NEW a \in Seq(STRING), NEW i \in Nat, 1 <= i
  PROVE  /\ Lanes!From(a, i) \in Seq(STRING)
         /\ Lanes!Written(a) \in Nat /\ Lanes!Written(Lanes!From(a, i)) \in Nat
         /\ Lanes!Written(Lanes!From(a, i)) <= Lanes!Written(a)
         /\ 2 <= i /\ a # <<>> => Lanes!Written(Lanes!From(a, i)) < Lanes!Written(a)
<1>1. Len(a) \in Nat /\ Len(a) <= Len(a)
  OBVIOUS
<1> QED
  BY <1>1, Cut, CutShorter DEF Lanes!From

\* Words after words are as long as both.
LEMMA WrittenTogether ==
  ASSUME NEW a \in Seq(STRING), NEW b \in Seq(STRING)
  PROVE  /\ Lanes!Written(a \o b) = Lanes!Written(a) + Lanes!Written(b)
         /\ Lanes!Written(a) \in Nat /\ Lanes!Written(b) \in Nat
<1> DEFINE c == a \o b
<1>1. /\ Len(c) = Len(a) + Len(b) /\ Len(a) \in Nat /\ Len(b) \in Nat
      /\ \A i \in 1..Len(a) : c[i] = a[i]
      /\ \A i \in 1..Len(b) : c[Len(a) + i] = b[i]
  BY JoinedWords
<1> HIDE DEF c
<1>2. UpTo(a, Len(a)) + UpTo(c, 0) = UpTo(c, 0 + Len(a))
  <2>1. Slice(a, c, 0, Len(a)) /\ 0 \in Nat
    BY <1>1 DEF Slice
  <2> QED
    BY <1>1, <2>1, Slices
<1>3. UpTo(b, Len(b)) + UpTo(c, Len(a)) = UpTo(c, Len(a) + Len(b))
  <2>1. Slice(b, c, Len(a), Len(b))
    BY <1>1 DEF Slice
  <2> QED
    BY <1>1, <2>1, Slices
<1>4. /\ Lanes!Written(a) = UpTo(a, Len(a)) /\ Lanes!Written(b) = UpTo(b, Len(b))
      /\ Lanes!Written(c) = UpTo(c, Len(a) + Len(b))
      /\ UpTo(c, 0) = 0 /\ UpTo(a, Len(a)) \in Nat /\ UpTo(b, Len(b)) \in Nat /\ 0 + Len(a) = Len(a)
  <2>1. Lanes!Written(c) = UpTo(c, Len(c))
    BY WordByWord, Zenon
  <2>2. Lanes!Written(c) = UpTo(c, Len(a) + Len(b))
    BY <1>1, <2>1, Zenon
  <2> QED
    BY <1>1, <2>2, WordByWord
<1>5. UpTo(c, 0 + Len(a)) = UpTo(c, Len(a)) /\ UpTo(c, Len(a)) \in Nat
  BY <1>1, <1>4, WordByWord
<1>6. Lanes!Written(c) = Lanes!Written(a) + Lanes!Written(b)
  BY <1>2, <1>3, <1>4, <1>5
<1> QED
  BY <1>4, <1>6 DEF c

\* A command holds each of its words, and more than the words behind the first.
LEMMA WordWithin ==
  ASSUME NEW a \in Seq(STRING), NEW i \in 1..Len(a)
  PROVE  /\ Width(a[i]) \in Nat /\ Lanes!Written(a) \in Nat /\ Width(a[i]) <= Lanes!Written(a)
         /\ 2 <= i => Width(a[i]) < Lanes!Written(a)
<1>1. Len(a) \in Nat /\ i \in Nat /\ i - 1 \in Nat /\ i - 1 <= i /\ i - 1 < i /\ i <= Len(a)
      /\ 0 \in Nat /\ 0 <= i - 1 /\ (2 <= i => 0 < i - 1)
  OBVIOUS
<1>2. UpTo(a, i - 1) \in Nat /\ UpTo(a, i) \in Nat /\ UpTo(a, i - 1) + Width(a[i]) <= UpTo(a, i)
  BY <1>1, Longer
<1>3. UpTo(a, i) <= UpTo(a, Len(a)) /\ UpTo(a, Len(a)) \in Nat
  BY <1>1, Longer
<1>4. UpTo(a, 0) = 0 /\ (2 <= i => UpTo(a, 0) < UpTo(a, i - 1))
  <2>1. UpTo(a, 0) = 0
    BY WordByWord
  <2>2. 2 <= i => UpTo(a, 0) < UpTo(a, i - 1)
    BY <1>1, Longer
  <2> QED
    BY <2>1, <2>2
<1>5. Width(a[i]) \in Nat /\ Lanes!Written(a) = UpTo(a, Len(a))
  BY WidthPositive, WordByWord
<1> QED
  BY <1>2, <1>3, <1>4, <1>5

\* H makes values in V for each place from those of places behind it, if it is one of the first N.
GoesForth(H, N, V) ==
  /\ V # {} /\ H \in [[Nat -> V] -> [Nat -> V]]
  /\ \A f, g \in [Nat -> V], i \in Nat :
       (i <= N => \A j \in Nat : i < j => f[j] = g[j]) => H[f][i] = H[g][i]

\* How far it is from a place to behind the last.
ToEnd(N) == [i \in Nat |-> IF i > N THEN 0 ELSE N + 1 - i]

\* Places further on have less before them.
LEMMA Onward ==
  ASSUME NEW N \in Nat
  PROVE  /\ ToEnd(N) \in [Nat -> Nat]
         /\ \A i, j \in Nat : i <= N /\ i < j => ToEnd(N)[j] < ToEnd(N)[i]
<1>1. \A i \in Nat : (IF i > N THEN 0 ELSE N + 1 - i) \in Nat
  OBVIOUS
<1>2. ASSUME NEW i \in Nat, NEW j \in Nat, i <= N, i < j
      PROVE  ToEnd(N)[j] < ToEnd(N)[i]
  <2>1. ToEnd(N)[i] = N + 1 - i /\ ToEnd(N)[j] = IF j > N THEN 0 ELSE N + 1 - j
    BY <1>2 DEF ToEnd
  <2> QED
    BY <1>2, <2>1
<1> QED
  BY <1>1, <1>2 DEF ToEnd

\* A definition that goes on to later places defines a function.
LEMMA Forward ==
  ASSUME NEW N \in Nat, NEW V, NEW H, GoesForth(H, N, V)
  PROVE  \E f : Solves(f, H, Nat, V)
<1> DEFINE m == ToEnd(N)
<1>1. m \in [Nat -> Nat] /\ \A i, j \in Nat : i <= N /\ i < j => m[j] < m[i]
  BY Onward
<1> HIDE DEF m
<1>2. ASSUME NEW f \in [Nat -> V], NEW g \in [Nat -> V], NEW i \in Nat,
             \A j \in Nat : m[j] < m[i] => f[j] = g[j]
      PROVE  H[f][i] = H[g][i]
  <2>1. i <= N => \A j \in Nat : i < j => f[j] = g[j]
    BY <1>1, <1>2
  <2> QED
    BY <2>1 DEF GoesForth
<1>3. GoesBack(H, Nat, V, m)
  BY <1>1, <1>2 DEF GoesBack, GoesForth
<1> QED
  BY <1>3, Recursion, Zenon

\* f is where options end from each place on, with those that take a value.
EndOfOptions(f, argv, takes) ==
  /\ \A i \in Nat : f[i] \in Nat /\ i <= f[i]
  /\ \A i \in Nat : f[i] = IF i > Len(argv) THEN i
                           ELSE IF argv[i] = "--" THEN i + 1
                           ELSE IF ~Lanes!IsOption(argv[i]) THEN i
                           ELSE f[i + IF argv[i] \in takes THEN 2 ELSE 1]

\* `after_options` finds such an end.
LEMMA OptionsEnd ==
  ASSUME NEW argv \in Seq(STRING), NEW takes
  PROVE  \E f : EndOfOptions(f, argv, takes) /\ Lanes!AfterOptions(argv, takes) = f[2]
<1> DEFINE S == [Nat -> Nat]
           N == Len(argv)
           step(i) == i + IF argv[i] \in takes THEN 2 ELSE 1
           At(f) == [i \in Nat |-> IF i > N THEN i
                                   ELSE IF argv[i] = "--" THEN i + 1
                                   ELSE IF ~Lanes!IsOption(argv[i]) THEN i
                                   ELSE f[i + IF argv[i] \in takes THEN 2 ELSE 1]]
           H == [f \in S |-> At(f)]
           F == CHOOSE f : f = At(f)
<1>1. N \in Nat
  OBVIOUS
<1>2. \A i \in Nat : step(i) \in Nat /\ i < step(i)
  OBVIOUS
<1>3. Lanes!AfterOptions(argv, takes) = F[2]
  BY DEF Lanes!AfterOptions
<1> HIDE DEF N
<1>4. \A f : \A i \in Nat : At(f)[i] = IF i > N THEN i
                                       ELSE IF argv[i] = "--" THEN i + 1
                                       ELSE IF ~Lanes!IsOption(argv[i]) THEN i
                                       ELSE f[step(i)]
  OBVIOUS
<1>5. ASSUME NEW f \in S
      PROVE  At(f) \in S
  <2>1. \A i \in Nat : f[step(i)] \in Nat
    <3> HIDE DEF step
    <3> QED
      BY <1>2
  <2>2. \A i \in Nat : At(f)[i] \in Nat
    <3> HIDE DEF step, At
    <3>1. \A i \in Nat : At(f)[i] = i \/ At(f)[i] = i + 1 \/ At(f)[i] = f[step(i)]
      BY <1>4, Zenon
    <3>2. ASSUME NEW i \in Nat
          PROVE  At(f)[i] \in Nat
      <4>1. i + 1 \in Nat /\ f[step(i)] \in Nat
        BY <2>1
      <4> QED
        BY <3>1, <4>1, Zenon
    <3> QED
      BY <3>2
  <2> QED
    BY <2>2
<1>6. GoesForth(H, N, Nat)
  <2>1. H \in [S -> S]
    <3> HIDE DEF At, S
    <3> QED
      BY <1>5
  <2>2. ASSUME NEW f \in S, NEW g \in S, NEW i \in Nat, i <= N => \A j \in Nat : i < j => f[j] = g[j]
        PROVE  H[f][i] = H[g][i]
    <3>1. H[f] = At(f) /\ H[g] = At(g)
      <4> HIDE DEF At, S
      <4> QED
        OBVIOUS
    <3>2. i > N \/ f[step(i)] = g[step(i)]
      <4>1. step(i) \in Nat /\ i < step(i) /\ (i > N \/ i <= N)
        BY <1>1, <1>2
      <4> HIDE DEF step
      <4> QED
        BY <2>2, <4>1, Zenon
    <3> HIDE DEF At, step
    <3>3. At(f)[i] = At(g)[i]
      BY <1>4, <3>2
    <3> HIDE DEF H
    <3> QED
      BY <3>1, <3>3
  <2>3. Nat # {}
    OBVIOUS
  <2> HIDE DEF H
  <2> QED
    BY <2>1, <2>2, <2>3 DEF GoesForth
<1>7. F = At(F)
  <2>1. \E f : Solves(f, H, Nat, Nat)
    <3> HIDE DEF H
    <3> QED
      BY <1>1, <1>6, Forward, Zenon
  <2>2. \E f : f = At(f)
    <3> HIDE DEF At
    <3> QED
      BY <2>1 DEF Solves
  <2> HIDE DEF At
  <2> QED
    BY <2>2
<1> HIDE DEF F
<1>8. \A i \in Nat : F[i] = IF i > N THEN i
                            ELSE IF argv[i] = "--" THEN i + 1
                            ELSE IF ~Lanes!IsOption(argv[i]) THEN i
                            ELSE F[step(i)]
  <2> HIDE DEF At, step
  <2> QED
    BY <1>4, <1>7, Zenon
<1>9. \A i \in Nat : F[i] \in Nat /\ i <= F[i]
  <2> DEFINE T == {i \in Nat : F[i] \in Nat /\ i <= F[i]}
             m == ToEnd(N)
  <2>1. m \in [Nat -> Nat] /\ \A i, j \in Nat : i <= N /\ i < j => m[j] < m[i]
    BY <1>1, Onward
  <2> HIDE DEF m, step
  <2>2. ASSUME NEW i \in Nat, \A j \in Nat : m[j] < m[i] => j \in T
        PROVE  i \in T
    <3>1. i <= N => F[step(i)] \in Nat /\ step(i) <= F[step(i)]
      BY <1>2, <2>1, <2>2
    <3>2. F[i] = i \/ F[i] = i + 1 \/ (i <= N /\ F[i] = F[step(i)])
      <4>1. i > N \/ i <= N
        BY <1>1
      <4> QED
        BY <1>8, <4>1, Zenon
    <3>3. step(i) \in Nat /\ i < step(i)
      BY <1>2
    <3> QED
      BY <3>1, <3>2, <3>3
  <2>3. \A i \in Nat : i \in T
    <3> HIDE DEF T
    <3> QED
      BY <2>1, <2>2, ByMeasure
  <2> QED
    BY <2>3
<1>10. EndOfOptions(F, argv, takes)
  BY <1>8, <1>9 DEF EndOfOptions, N
<1> QED
  BY <1>3, <1>10

\* f is where the options of a shell end from each place on.
EndForShell(f, argv, takes) ==
  /\ \A i \in Nat : f[i] \in Nat /\ i <= f[i]
  /\ \A i \in Nat : f[i] = IF i > Len(argv) \/ ~Lanes!IsOption(argv[i]) \/ argv[i] = "-c" THEN i
                           ELSE f[i + IF argv[i] \in takes THEN 2 ELSE 1]

\* The walk over the options of a shell finds such an end.
LEMMA ShellOptionsEnd ==
  ASSUME NEW argv \in Seq(STRING), NEW takes
  PROVE  \E f : EndForShell(f, argv, takes) /\ Lanes!ShellEnd(argv, takes) = f[2]
<1> DEFINE S == [Nat -> Nat]
           N == Len(argv)
           step(i) == i + IF argv[i] \in takes THEN 2 ELSE 1
           At(f) == [i \in Nat |-> IF i > N \/ ~Lanes!IsOption(argv[i]) \/ argv[i] = "-c" THEN i
                                   ELSE f[i + IF argv[i] \in takes THEN 2 ELSE 1]]
           H == [f \in S |-> At(f)]
           F == CHOOSE f : f = At(f)
<1>1. N \in Nat
  OBVIOUS
<1>2. \A i \in Nat : step(i) \in Nat /\ i < step(i)
  OBVIOUS
<1>3. Lanes!ShellEnd(argv, takes) = F[2]
  BY DEF Lanes!ShellEnd
<1> HIDE DEF N
<1>4. \A f : \A i \in Nat : At(f)[i] = IF i > N \/ ~Lanes!IsOption(argv[i]) \/ argv[i] = "-c" THEN i
                                       ELSE f[step(i)]
  OBVIOUS
<1>5. ASSUME NEW f \in S
      PROVE  At(f) \in S
  <2>1. \A i \in Nat : f[step(i)] \in Nat
    <3> HIDE DEF step
    <3> QED
      BY <1>2
  <2>2. \A i \in Nat : At(f)[i] \in Nat
    <3> HIDE DEF step, At
    <3> QED
      BY <1>4, <2>1
  <2> QED
    BY <2>2
<1>6. GoesForth(H, N, Nat)
  <2>1. H \in [S -> S]
    <3> HIDE DEF At, S
    <3> QED
      BY <1>5
  <2>2. ASSUME NEW f \in S, NEW g \in S, NEW i \in Nat, i <= N => \A j \in Nat : i < j => f[j] = g[j]
        PROVE  H[f][i] = H[g][i]
    <3>1. H[f] = At(f) /\ H[g] = At(g)
      <4> HIDE DEF At, S
      <4> QED
        OBVIOUS
    <3>2. i > N \/ f[step(i)] = g[step(i)]
      <4>1. step(i) \in Nat /\ i < step(i) /\ (i > N \/ i <= N)
        BY <1>1, <1>2
      <4> HIDE DEF step
      <4> QED
        BY <2>2, <4>1, Zenon
    <3> HIDE DEF At, step
    <3>3. At(f)[i] = At(g)[i]
      BY <1>4, <3>2
    <3> HIDE DEF H
    <3> QED
      BY <3>1, <3>3
  <2>3. Nat # {}
    OBVIOUS
  <2> HIDE DEF H
  <2> QED
    BY <2>1, <2>2, <2>3 DEF GoesForth
<1>7. F = At(F)
  <2>1. \E f : Solves(f, H, Nat, Nat)
    <3> HIDE DEF H
    <3> QED
      BY <1>1, <1>6, Forward, Zenon
  <2>2. \E f : f = At(f)
    <3> HIDE DEF At
    <3> QED
      BY <2>1 DEF Solves
  <2> HIDE DEF At
  <2> QED
    BY <2>2
<1> HIDE DEF F
<1>8. \A i \in Nat : F[i] = IF i > N \/ ~Lanes!IsOption(argv[i]) \/ argv[i] = "-c" THEN i
                            ELSE F[step(i)]
  <2> HIDE DEF At, step
  <2> QED
    BY <1>4, <1>7, Zenon
<1>9. \A i \in Nat : F[i] \in Nat /\ i <= F[i]
  <2> DEFINE T == {i \in Nat : F[i] \in Nat /\ i <= F[i]}
             m == ToEnd(N)
  <2>1. m \in [Nat -> Nat] /\ \A i, j \in Nat : i <= N /\ i < j => m[j] < m[i]
    BY <1>1, Onward
  <2> HIDE DEF m, step
  <2>2. ASSUME NEW i \in Nat, \A j \in Nat : m[j] < m[i] => j \in T
        PROVE  i \in T
    <3>1. i <= N => F[step(i)] \in Nat /\ step(i) <= F[step(i)]
      BY <1>2, <2>1, <2>2
    <3> QED
      BY <1>1, <1>2, <1>8, <3>1
  <2>3. \A i \in Nat : i \in T
    <3> HIDE DEF T
    <3> QED
      BY <2>1, <2>2, ByMeasure
  <2> QED
    BY <2>3
<1>10. EndForShell(F, argv, takes)
  BY <1>8, <1>9 DEF EndForShell, N
<1> QED
  BY <1>3, <1>10

\* The commands with less text than argv.
Smaller(argv) == {c \in Seq(STRING) : Lanes!Written(c) \in Nat /\ Lanes!Written(c) < Lanes!Written(argv)}

EndWord == ";"

\* The ends of a `find` action that begins at i, and the first of them.
ActionEnds(argv, i) == {j \in (i + 1)..Len(argv) : argv[j] = EndWord}
ActionEnd(argv, i) == CHOOSE k \in ActionEnds(argv, i) : \A m \in ActionEnds(argv, i) : k <= m

\* One step of `find_exec_commands`.
Action(f, argv, i) ==
  IF i > Len(argv) THEN <<>>
  ELSE IF argv[i] # "-exec" THEN f[i + 1]
  ELSE IF ActionEnds(argv, i) = {} THEN <<>>
  ELSE (IF ActionEnd(argv, i) = i + 1 THEN <<>> ELSE <<SubSeq(argv, i + 1, ActionEnd(argv, i) - 1)>>)
         \o f[ActionEnd(argv, i) + 1]

\* The first end is one.
LEMMA ActionEndIs ==
  ASSUME NEW argv \in Seq(STRING), NEW i \in Nat, ActionEnds(argv, i) # {}
  PROVE  /\ ActionEnd(argv, i) \in Nat /\ i + 1 <= ActionEnd(argv, i) /\ ActionEnd(argv, i) <= Len(argv)
         /\ argv[ActionEnd(argv, i)] = EndWord /\ Len(argv) \in Nat
<1>1. Len(argv) \in Nat
  OBVIOUS
<1>2. /\ \A j \in ActionEnds(argv, i) : j \in (i + 1)..Len(argv)
      /\ \A j \in ActionEnds(argv, i) : argv[j] = EndWord
  BY Zenon DEF ActionEnds
<1>3. \A j \in ActionEnds(argv, i) : j \in Nat /\ i + 1 <= j /\ j <= Len(argv)
  <2>1. \A j \in (i + 1)..Len(argv) : j \in Nat /\ i + 1 <= j /\ j <= Len(argv)
    BY <1>1
  <2> QED
    BY <1>2, <2>1, Zenon
<1>4. ActionEnds(argv, i) \subseteq Nat
  BY <1>3
<1>5. \E k \in ActionEnds(argv, i) : \A m \in ActionEnds(argv, i) : k <= m
  BY <1>4, LeastNatural
<1>6. ActionEnd(argv, i) \in ActionEnds(argv, i)
  BY <1>5 DEF ActionEnd
<1> QED
  BY <1>1, <1>2, <1>3, <1>6

\* What an action runs is a part of the command.
LEMMA ActionSmaller ==
  ASSUME NEW argv \in Seq(STRING), NEW i \in Nat, ActionEnds(argv, i) # {}
  PROVE  SubSeq(argv, i + 1, ActionEnd(argv, i) - 1) \in Smaller(argv)
<1> DEFINE j == ActionEnd(argv, i) - 1
<1>1. j \in Nat /\ j <= Len(argv) /\ j < Len(argv) /\ i + 1 \in Nat /\ 1 <= i + 1
  BY ActionEndIs
<1> HIDE DEF j
<1>2. SubSeq(argv, i + 1, j) \in Seq(STRING)
  BY <1>1, Cut
<1>3. Lanes!Written(SubSeq(argv, i + 1, j)) \in Nat /\ Lanes!Written(SubSeq(argv, i + 1, j)) < Lanes!Written(argv)
  BY <1>1, CutShorter
<1> QED
  BY <1>2, <1>3 DEF Smaller, j

\* f is what the actions from each place on run.
Actions(f, argv) ==
  /\ f \in [Nat -> Seq(Smaller(argv))]
  /\ \A i \in Nat : f[i] = Action(f, argv, i)

\* What the first actions run stands before what the others do.
LEMMA ActionWords ==
  ASSUME NEW argv \in Seq(STRING), NEW i \in Nat, NEW f,
         i <= Len(argv) => \A j \in Nat : i < j => f[j] \in Seq(Smaller(argv))
  PROVE  Action(f, argv, i) \in Seq(Smaller(argv))
<1> DEFINE R == Smaller(argv)
           j == ActionEnd(argv, i)
           c == SubSeq(argv, i + 1, j - 1)
<1>1. <<>> \in Seq(R)
  OBVIOUS
<1>2. CASE i > Len(argv) \/ argv[i] # "-exec" \/ ActionEnds(argv, i) = {}
  <2>1. i <= Len(argv) => f[i + 1] \in Seq(R)
    <3>1. i + 1 \in Nat /\ i < i + 1
      OBVIOUS
    <3> HIDE DEF R
    <3> QED
      BY <3>1 DEF R
  <2>2. i > Len(argv) \/ i <= Len(argv)
    OBVIOUS
  <2> HIDE DEF R
  <2> QED
    BY <1>1, <1>2, <2>1, <2>2, Zenon DEF Action, R
<1>3. CASE ~(i > Len(argv)) /\ argv[i] = "-exec" /\ ActionEnds(argv, i) # {}
  <2>1. c \in R
    BY <1>3, ActionSmaller
  <2>2. f[j + 1] \in Seq(R)
    <3>1. j + 1 \in Nat /\ i < j + 1 /\ i <= Len(argv)
      BY <1>3, ActionEndIs
    <3> HIDE DEF R, j
    <3> QED
      BY <3>1 DEF R
  <2> DEFINE first == IF j = i + 1 THEN <<>> ELSE <<c>>
  <2>3. first \in Seq(R)
    <3> HIDE DEF R, c, j
    <3> QED
      BY <1>1, <2>1
  <2>4. Action(f, argv, i) = first \o f[j + 1]
    BY <1>3, Zenon DEF Action
  <2> HIDE DEF R, first, j
  <2> QED
    BY <2>2, <2>3, <2>4 DEF R
<1> QED
  BY <1>2, <1>3

\* `find_exec_commands` finds them.
LEMMA ActionsFound ==
  ASSUME NEW argv \in Seq(STRING)
  PROVE  \E f : Actions(f, argv) /\ Lanes!FindExecs(argv) = f[2]
<1> DEFINE V == Seq(Smaller(argv))
           S == [Nat -> V]
           N == Len(argv)
           At(f) == [i \in Nat |-> Action(f, argv, i)]
           H == [f \in S |-> At(f)]
           F == CHOOSE f : f = At(f)
<1>1. N \in Nat
  OBVIOUS
<1>2. Lanes!FindExecs(argv) = F[2]
  BY Zenon DEF Lanes!FindExecs, Action, ActionEnd, ActionEnds, EndWord
<1> HIDE DEF N
<1>3. V # {}
  <2>1. <<>> \in V
    OBVIOUS
  <2> HIDE DEF V
  <2> QED
    BY <2>1
<1>4. ASSUME NEW f \in S
      PROVE  At(f) \in S
  <2>1. \A i \in Nat : f[i] \in V
    <3> HIDE DEF V
    <3> QED
      OBVIOUS
  <2>2. \A i \in Nat : Action(f, argv, i) \in V
    BY <2>1, ActionWords
  <2> HIDE DEF V
  <2> QED
    BY <2>2
<1>5. ASSUME NEW f, NEW g, NEW i \in Nat, i <= N => \A j \in Nat : i < j => f[j] = g[j]
      PROVE  Action(f, argv, i) = Action(g, argv, i)
  <2>1. i > N \/ f[i + 1] = g[i + 1]
    BY <1>1, <1>5
  <2>2. i > N \/ ActionEnds(argv, i) = {} \/ f[ActionEnd(argv, i) + 1] = g[ActionEnd(argv, i) + 1]
    <3>1. SUFFICES ASSUME i <= N, ActionEnds(argv, i) # {}
                   PROVE  f[ActionEnd(argv, i) + 1] = g[ActionEnd(argv, i) + 1]
      BY <1>1
    <3>2. ActionEnd(argv, i) + 1 \in Nat /\ i < ActionEnd(argv, i) + 1
      BY <3>1, ActionEndIs
    <3> QED
      BY <1>5, <3>1, <3>2, Zenon
  <2> QED
    BY <2>1, <2>2, Zenon DEF Action, N
<1>6. GoesForth(H, N, V)
  <2>1. H \in [S -> S]
    <3> HIDE DEF At, S
    <3> QED
      BY <1>4
  <2>2. ASSUME NEW f \in S, NEW g \in S, NEW i \in Nat, i <= N => \A j \in Nat : i < j => f[j] = g[j]
        PROVE  H[f][i] = H[g][i]
    <3>1. H[f] = At(f) /\ H[g] = At(g)
      <4> HIDE DEF At, S
      <4> QED
        OBVIOUS
    <3>2. At(f)[i] = At(g)[i]
      <4>1. Action(f, argv, i) = Action(g, argv, i)
        BY <1>5, <2>2
      <4> QED
        BY <4>1
    <3> HIDE DEF At, H
    <3> QED
      BY <3>1, <3>2
  <2> HIDE DEF H, V
  <2> QED
    BY <1>3, <2>1, <2>2 DEF GoesForth
<1>7. F = At(F)
  <2>1. \E f : Solves(f, H, Nat, V)
    <3> HIDE DEF H, V
    <3> QED
      BY <1>1, <1>6, Forward, Zenon
  <2>2. \E f : f = At(f)
    <3> HIDE DEF At, V
    <3> QED
      BY <2>1 DEF Solves
  <2> HIDE DEF At
  <2> QED
    BY <2>2
<1> HIDE DEF F
<1>8. \A i \in Nat : F[i] = Action(F, argv, i)
  <2>1. \A i \in Nat : At(F)[i] = Action(F, argv, i)
    OBVIOUS
  <2> HIDE DEF At
  <2> QED
    BY <1>7, <2>1, Zenon
<1>9. \A i \in Nat : F[i] \in V
  <2> DEFINE T == {i \in Nat : F[i] \in V}
             m == ToEnd(N)
  <2>1. m \in [Nat -> Nat] /\ \A i, j \in Nat : i <= N /\ i < j => m[j] < m[i]
    BY <1>1, Onward
  <2> HIDE DEF m
  <2>2. ASSUME NEW i \in Nat, \A j \in Nat : m[j] < m[i] => j \in T
        PROVE  i \in T
    <3>1. i <= N => \A j \in Nat : i < j => F[j] \in V
      BY <2>1, <2>2
    <3>2. Action(F, argv, i) \in V
      BY <3>1, ActionWords DEF N
    <3> HIDE DEF V
    <3> QED
      BY <1>8, <3>2
  <2>3. \A i \in Nat : i \in T
    <3> HIDE DEF T
    <3> QED
      BY <2>1, <2>2, ByMeasure
  <2> HIDE DEF V
  <2> QED
    BY <2>3
<1>10. F \in [Nat -> V]
  <2> HIDE DEF V
  <2>1. F = [i \in Nat |-> Action(F, argv, i)]
    BY <1>7
  <2> QED
    BY <1>8, <1>9, <2>1
<1> QED
  BY <1>2, <1>8, <1>10, Zenon DEF Actions

\* A word and what comes behind it are shorter than the command they are in.
LEMMA WordAndRest ==
  ASSUME NEW a \in Seq(STRING), NEW i \in 2..Len(a)
  PROVE  /\ Width(a[i]) \in Nat /\ Lanes!Written(Lanes!From(a, i + 1)) \in Nat /\ Lanes!Written(a) \in Nat
         /\ Width(a[i]) + Lanes!Written(Lanes!From(a, i + 1)) < Lanes!Written(a)
<1> DEFINE N == Len(a)
           c == Lanes!From(a, i + 1)
<1>1. N \in Nat /\ i \in Nat /\ i <= N /\ i + 1 \in Nat /\ 1 <= i + 1 /\ N <= N
      /\ 0 \in Nat /\ i - 1 \in Nat /\ 0 <= i - 1 /\ 0 < i - 1 /\ i - 1 <= i /\ i - 1 < i /\ N - i \in Nat
  OBVIOUS
<1>2. /\ c = SubSeq(a, i + 1, N)
      /\ i + 1 > N => c = <<>>
      /\ i + 1 <= N => /\ Len(c) = N - (i + 1) + 1
                       /\ \A k \in 1..(N - (i + 1) + 1) : c[k] = a[i + 1 - 1 + k]
  <2>1. c = SubSeq(a, i + 1, N)
    BY DEF Lanes!From
  <2> HIDE DEF c
  <2> QED
    BY <1>1, <2>1, Cut
<1> HIDE DEF c, N
<1>3. Len(c) = N - i /\ Slice(c, a, i, N - i)
  <2>1. CASE i + 1 > N
    BY <1>1, <1>2, <2>1 DEF Slice
  <2>2. CASE i + 1 <= N
    <3>1. N - (i + 1) + 1 = N - i /\ i + 1 - 1 = i
      BY <1>1
    <3>2. Len(c) = N - i /\ \A k \in 1..(N - i) : c[k] = a[i + k]
      BY <1>2, <2>2, <3>1
    <3> QED
      BY <3>2 DEF Slice
  <2> QED
    BY <1>1, <2>1, <2>2
<1>4. UpTo(c, N - i) + UpTo(a, i) = UpTo(a, N)
  <2>1. UpTo(c, N - i) + UpTo(a, i) = UpTo(a, i + (N - i))
    BY <1>1, <1>3, Slices
  <2>2. i + (N - i) = N
    BY <1>1
  <2> QED
    BY <2>1, <2>2
<1>5. UpTo(a, i - 1) + Width(a[i]) <= UpTo(a, i) /\ UpTo(a, i - 1) \in Nat /\ UpTo(a, i) \in Nat
  BY <1>1, Longer
<1>6. UpTo(a, 0) < UpTo(a, i - 1) /\ UpTo(a, 0) = 0
  <2>1. UpTo(a, 0) < UpTo(a, i - 1)
    BY <1>1, Longer
  <2> QED
    BY <2>1, WordByWord
<1>7. Width(a[i]) \in Nat /\ UpTo(c, N - i) \in Nat /\ UpTo(a, N) \in Nat
  BY <1>1, WidthPositive, WordByWord
<1>8. Lanes!Written(c) = UpTo(c, N - i) /\ Lanes!Written(a) = UpTo(a, N)
  <2>1. Lanes!Written(c) = UpTo(c, Len(c)) /\ Lanes!Written(a) = UpTo(a, Len(a))
    BY WordByWord, Zenon
  <2> QED
    BY <1>3, <2>1, Zenon DEF N
<1>9. Width(a[i]) + Lanes!Written(c) < Lanes!Written(a)
  BY <1>4, <1>5, <1>6, <1>7, <1>8
<1> QED
  BY <1>7, <1>8, <1>9 DEF c

\* One thing in a row.
LEMMA OnlyOne ==
  ASSUME NEW S, NEW e \in S
  PROVE  <<e>> \in Seq(S) /\ Len(<<e>>) = 1 /\ <<e>>[1] = e /\ 1 \in 1..Len(<<e>>)
         /\ \A k \in 1..Len(<<e>>) : <<e>>[k] = e
  OBVIOUS

\* One word is as long as it is.
LEMMA OneWord ==
  ASSUME NEW w
  PROVE  Lanes!Written(<<w>>) = Width(w) /\ Width(w) \in Nat /\ Width(w) <= Width(w)
<1>1. Len(<<w>>) = 1 /\ <<w>>[0 + 1] = w /\ 0 \in Nat /\ 0 + 1 = 1
  OBVIOUS
<1>2. Lanes!Written(<<w>>) = UpTo(<<w>>, 1) /\ UpTo(<<w>>, 0) = 0
  BY <1>1, WordByWord
<1>3. UpTo(<<w>>, 0 + 1) = UpTo(<<w>>, 0) + Width(<<w>>[0 + 1])
  BY <1>1, WordByWord, Zenon
<1>4. Width(w) \in Nat
  BY WidthPositive
<1> QED
  BY <1>1, <1>2, <1>3, <1>4

\* The commands in a text are not longer than it.
LEMMA TextWords ==
  ASSUME NEW w, w \in STRING
  PROVE  /\ Lanes!Text(w) \in Seq(Seq(STRING)) /\ 1 \in 1..Len(Lanes!Text(w))
         /\ \A k \in 1..Len(Lanes!Text(w)) :
              /\ Lanes!Text(w)[k] \in Seq(STRING)
              /\ Lanes!Written(Lanes!Text(w)[k]) \in Nat /\ Lanes!Written(Lanes!Text(w)[k]) <= Width(w)
<1> DEFINE t == Lanes!Text(w)
<1>1. CASE w \in DOMAIN Body
  <2>1. t = Body[w] /\ Width(w) = Chars[w]
    BY <1>1 DEF Lanes!Text, Width
  <2>2. /\ Body[w] \in Seq(Seq(STRING)) /\ Body[w] # <<>>
        /\ \A k \in 1..Len(Body[w]) : Lanes!Written(Body[w][k]) <= Chars[w]
    BY <1>1, TextsAssumption
  <2> HIDE DEF t
  <2>3. t \in Seq(Seq(STRING)) /\ t # <<>> /\ \A k \in 1..Len(t) : Lanes!Written(t[k]) <= Width(w)
    BY <2>1, <2>2
  <2>4. \A k \in 1..Len(t) : t[k] \in Seq(STRING)
    BY <2>3, ElementOfSeq
  <2>5. 1 \in 1..Len(t)
    BY <2>3
  <2>6. \A k \in 1..Len(t) : Lanes!Written(t[k]) \in Nat
    BY <2>4, WrittenTogether
  <2> QED
    BY <2>3, <2>4, <2>5, <2>6 DEF t
<1>2. CASE w \notin DOMAIN Body
  <2>1. t = << <<w>> >>
    BY <1>2 DEF Lanes!Text
  <2>2. <<w>> \in Seq(STRING)
    BY OnlyOne, Zenon
  <2>3. /\ t \in Seq(Seq(STRING)) /\ 1 \in 1..Len(t)
        /\ \A k \in 1..Len(t) : t[k] = <<w>>
    <3> DEFINE S == Seq(STRING)
               e == <<w>>
    <3>1. e \in S /\ t = <<e>>
      BY <2>1, <2>2
    <3> HIDE DEF S, e, t
    <3>2. <<e>> \in Seq(S) /\ 1 \in 1..Len(<<e>>) /\ \A k \in 1..Len(<<e>>) : <<e>>[k] = e
      BY <3>1, OnlyOne
    <3> QED
      BY <3>1, <3>2, Zenon DEF S, e
  <2>4. Lanes!Written(<<w>>) \in Nat /\ Lanes!Written(<<w>>) <= Width(w)
    BY OneWord, Zenon
  <2> HIDE DEF t
  <2> QED
    BY <2>2, <2>3, <2>4, Zenon DEF t
<1> QED
  BY <1>1, <1>2

\* Without its assignments a command is not longer.
LEMMA Stripped ==
  ASSUME NEW a \in Seq(STRING)
  PROVE  /\ Lanes!StripAssignments(a) \in Seq(STRING)
         /\ Lanes!Written(Lanes!StripAssignments(a)) \in Nat /\ Lanes!Written(a) \in Nat
         /\ Lanes!Written(Lanes!StripAssignments(a)) <= Lanes!Written(a)
<1> DEFINE rest == {i \in 1..Len(a) : a[i] # "A=1"}
           least == CHOOSE i \in rest : \A j \in rest : i <= j
<1>1. CASE rest = {}
  <2>1. Lanes!StripAssignments(a) = <<>>
    BY <1>1 DEF Lanes!StripAssignments
  <2>2. <<>> \in Seq(STRING) /\ Lanes!Written(a) \in Nat
    BY WrittenTogether
  <2>3. Lanes!Written(Lanes!StripAssignments(a)) = 0
    BY <2>1, NothingWritten, Zenon
  <2> QED
    BY <2>1, <2>2, <2>3
<1>2. CASE rest # {}
  <2>1. Lanes!StripAssignments(a) = Lanes!From(a, least)
    BY <1>2 DEF Lanes!StripAssignments
  <2>2. rest \subseteq Nat /\ \A i \in rest : i \in Nat /\ 1 <= i
    OBVIOUS
  <2> HIDE DEF rest
  <2>3. \E i \in rest : \A j \in rest : i <= j
    BY <1>2, <2>2, LeastNatural
  <2>4. least \in rest
    BY <2>3
  <2> HIDE DEF least
  <2>5. least \in Nat /\ 1 <= least
    BY <2>2, <2>4
  <2> QED
    BY <2>1, <2>5, Rest
<1> QED
  BY <1>1, <1>2

\* One step of `env_command`.
EnvStep(f, tokens) ==
  IF tokens = <<>> THEN <<>>
  ELSE IF tokens[1] = "-S"
  THEN IF Len(tokens) = 1 THEN <<>> ELSE f[Lanes!Text(tokens[2])[1] \o Lanes!From(tokens, 3)]
  ELSE IF Lanes!IsOption(tokens[1])
  THEN f[Lanes!From(tokens, IF tokens[1] \in {"-u", "-a"} THEN 3 ELSE 2)]
  ELSE Lanes!StripAssignments(IF tokens[1] = "--" THEN Tail(tokens) ELSE tokens)

\* `env_command` is a function that each step is one of.
LEMMA EnvIs == Lanes!EnvCommand = CHOOSE f : f = [t \in Seq(STRING) |-> EnvStep(f, t)]
  BY DEF Lanes!EnvCommand, EnvStep

\* What `env_command` looks at next has less text.
LEMMA EnvSmaller ==
  ASSUME NEW t \in Seq(STRING), t # <<>>
  PROVE  /\ Lanes!From(t, 2) \in Smaller(t) /\ Lanes!From(t, 3) \in Smaller(t) /\ Tail(t) = Lanes!From(t, 2)
         /\ Len(t) # 1 => Lanes!Text(t[2])[1] \o Lanes!From(t, 3) \in Smaller(t)
<1>1. Len(t) \in Nat /\ Len(t) # 0 /\ 2 \in Nat /\ 3 \in Nat /\ 1 <= 2 /\ 1 <= 3 /\ 2 <= 2 /\ 2 <= 3
  OBVIOUS
<1>2. Lanes!From(t, 2) \in Smaller(t) /\ Lanes!From(t, 3) \in Smaller(t)
  BY <1>1, Rest DEF Smaller
<1>3. Tail(t) = Lanes!From(t, 2)
  BY TailIsSubSeq DEF Lanes!From
<1>4. ASSUME Len(t) # 1
      PROVE  Lanes!Text(t[2])[1] \o Lanes!From(t, 3) \in Smaller(t)
  <2> DEFINE c == Lanes!Text(t[2])[1]
             r == Lanes!From(t, 3)
  <2>1. 2 \in 2..Len(t) /\ 2 \in 1..Len(t) /\ 2 + 1 = 3
    <3> DEFINE N == Len(t)
    <3>1. N \in Nat /\ N # 0 /\ N # 1
      BY <1>1, <1>4
    <3> HIDE DEF N
    <3>2. 2 \in 2..N /\ 2 \in 1..N /\ 2 + 1 = 3
      BY <3>1
    <3> QED
      BY <3>2 DEF N
  <2>2. t[2] \in STRING
    BY <2>1, ElementOfSeq
  <2>3. c \in Seq(STRING) /\ Lanes!Written(c) \in Nat /\ Lanes!Written(c) <= Width(t[2])
    BY <2>2, TextWords, Zenon
  <2>4. /\ Width(t[2]) \in Nat /\ Lanes!Written(r) \in Nat /\ Lanes!Written(t) \in Nat
        /\ Width(t[2]) + Lanes!Written(r) < Lanes!Written(t)
    <3>1. /\ Width(t[2]) \in Nat /\ Lanes!Written(Lanes!From(t, 2 + 1)) \in Nat /\ Lanes!Written(t) \in Nat
          /\ Width(t[2]) + Lanes!Written(Lanes!From(t, 2 + 1)) < Lanes!Written(t)
      BY <2>1, WordAndRest, Zenon
    <3> QED
      BY <2>1, <3>1, Zenon
  <2>5. r \in Seq(STRING)
    BY <1>1, Rest
  <2> HIDE DEF c, r
  <2>6. c \o r \in Seq(STRING) /\ Lanes!Written(c \o r) = Lanes!Written(c) + Lanes!Written(r)
    BY <2>3, <2>5, JoinedWords, WrittenTogether, Zenon
  <2>7. Lanes!Written(c) + Lanes!Written(r) < Lanes!Written(t) /\ Lanes!Written(c) + Lanes!Written(r) \in Nat
    BY <2>3, <2>4
  <2>8. c \o r \in Smaller(t)
    BY <2>6, <2>7, Zenon DEF Smaller
  <2> QED
    BY <2>8 DEF c, r
<1> QED
  BY <1>2, <1>3, <1>4

\* What holds of nothing, of a command without assignments and of the answers for what
\* has less text holds of the answer.
LEMMA EnvWithin ==
  ASSUME NEW t \in Seq(STRING), NEW f, NEW R, <<>> \in R,
         \A u \in Smaller(t) : f[u] \in R,
         Lanes!StripAssignments(t) \in R, \A u \in Smaller(t) : Lanes!StripAssignments(u) \in R
  PROVE  EnvStep(f, t) \in R
<1>1. CASE t = <<>>
  BY <1>1 DEF EnvStep
<1>2. CASE t # <<>>
  <2>1. /\ Lanes!From(t, 2) \in Smaller(t) /\ Lanes!From(t, 3) \in Smaller(t) /\ Tail(t) = Lanes!From(t, 2)
        /\ Len(t) # 1 => Lanes!Text(t[2])[1] \o Lanes!From(t, 3) \in Smaller(t)
    BY <1>2, EnvSmaller
  <2>2. f[Lanes!From(t, IF t[1] \in {"-u", "-a"} THEN 3 ELSE 2)] \in R
    BY <2>1, Zenon
  <2>3. Lanes!StripAssignments(IF t[1] = "--" THEN Tail(t) ELSE t) \in R
    BY <2>1, Zenon
  <2>4. Len(t) # 1 => f[Lanes!Text(t[2])[1] \o Lanes!From(t, 3)] \in R
    BY <2>1, Zenon
  <2> QED
    BY <1>2, <2>2, <2>3, <2>4, Zenon DEF EnvStep
<1> QED
  BY <1>1, <1>2

\* With the same answers for what has less text the answer is the same.
LEMMA EnvAlike ==
  ASSUME NEW t \in Seq(STRING), NEW f, NEW g, \A u \in Smaller(t) : f[u] = g[u]
  PROVE  EnvStep(f, t) = EnvStep(g, t)
<1>1. CASE t = <<>>
  BY <1>1 DEF EnvStep
<1>2. CASE t # <<>>
  <2>1. /\ Lanes!From(t, 2) \in Smaller(t) /\ Lanes!From(t, 3) \in Smaller(t)
        /\ Len(t) # 1 => Lanes!Text(t[2])[1] \o Lanes!From(t, 3) \in Smaller(t)
    BY <1>2, EnvSmaller
  <2> DEFINE next == Lanes!From(t, IF t[1] \in {"-u", "-a"} THEN 3 ELSE 2)
  <2>2. f[next] = g[next]
    BY <2>1, Zenon
  <2>3. Len(t) # 1 => f[Lanes!Text(t[2])[1] \o Lanes!From(t, 3)] = g[Lanes!Text(t[2])[1] \o Lanes!From(t, 3)]
    BY <2>1, Zenon
  <2> QED
    BY <1>2, <2>2, <2>3, Zenon DEF EnvStep
<1> QED
  BY <1>1, <1>2

\* The length of a command.
LengthOf == [c \in Seq(STRING) |-> Lanes!Written(c)]

\* Commands with less text are shorter.
LEMMA LengthIs ==
  /\ LengthOf \in [Seq(STRING) -> Nat]
  /\ \A c, d \in Seq(STRING) : LengthOf[c] < LengthOf[d] <=> c \in Smaller(d)
<1>1. \A c \in Seq(STRING) : Lanes!Written(c) \in Nat
  BY WrittenTogether
<1> QED
  BY <1>1 DEF LengthOf, Smaller

\* `env_command` finds the command behind the options, and not more than was there.
LEMMA EnvFinds ==
  /\ \A t \in Seq(STRING) : Lanes!EnvCommand[t] = EnvStep(Lanes!EnvCommand, t)
  /\ \A t \in Seq(STRING) : /\ Lanes!EnvCommand[t] \in Seq(STRING)
                            /\ Lanes!Written(Lanes!EnvCommand[t]) \in Nat /\ Lanes!Written(t) \in Nat
                            /\ Lanes!Written(Lanes!EnvCommand[t]) <= Lanes!Written(t)
<1> DEFINE D == Seq(STRING)
           S == [D -> D]
           At(f) == [t \in D |-> EnvStep(f, t)]
           H == [f \in S |-> At(f)]
           F == CHOOSE f : f = At(f)
<1>1. Lanes!EnvCommand = F
  BY EnvIs
<1>2. <<>> \in D
  OBVIOUS
<1>3. \A t \in D : Smaller(t) \subseteq D
  BY DEF Smaller
<1>4. \A t \in D : Lanes!StripAssignments(t) \in D
  BY Stripped
<1> HIDE DEF D
<1>5. ASSUME NEW f \in S
      PROVE  At(f) \in S
  <2>1. \A t \in D : f[t] \in D
    OBVIOUS
  <2>2. ASSUME NEW t \in D
        PROVE  EnvStep(f, t) \in D
    <3>1. /\ \A u \in Smaller(t) : f[u] \in D
          /\ \A u \in Smaller(t) : Lanes!StripAssignments(u) \in D
      BY <1>3, <1>4, <2>1
    <3> QED
      BY <1>2, <1>4, <3>1, EnvWithin DEF D
  <2> QED
    BY <2>2
<1>6. GoesBack(H, D, D, LengthOf)
  <2>1. H \in [S -> S]
    <3> HIDE DEF At, S
    <3> QED
      BY <1>5
  <2>2. ASSUME NEW f \in S, NEW g \in S, NEW t \in D, \A u \in D : LengthOf[u] < LengthOf[t] => f[u] = g[u]
        PROVE  H[f][t] = H[g][t]
    <3>1. H[f] = At(f) /\ H[g] = At(g)
      <4> HIDE DEF At, S
      <4> QED
        OBVIOUS
    <3>2. \A u \in Smaller(t) : f[u] = g[u]
      BY <1>3, <2>2, LengthIs DEF D
    <3>3. EnvStep(f, t) = EnvStep(g, t)
      BY <3>2, EnvAlike DEF D
    <3>4. At(f)[t] = At(g)[t]
      BY <3>3
    <3> HIDE DEF At, H
    <3> QED
      BY <3>1, <3>4
  <2>3. D # {} /\ LengthOf \in [D -> Nat]
    BY <1>2, LengthIs DEF D
  <2> HIDE DEF H
  <2> QED
    BY <2>1, <2>2, <2>3 DEF GoesBack
<1>7. F = At(F)
  <2>1. \E f : Solves(f, H, D, D)
    <3> HIDE DEF H
    <3> QED
      BY <1>6, Recursion, Zenon
  <2>2. \E f : f = At(f)
    <3> HIDE DEF At
    <3> QED
      BY <2>1 DEF Solves
  <2> HIDE DEF At
  <2> QED
    BY <2>2
<1> HIDE DEF F
<1>8. \A t \in D : F[t] = EnvStep(F, t)
  <2>1. \A t \in D : At(F)[t] = EnvStep(F, t)
    OBVIOUS
  <2> HIDE DEF At
  <2> QED
    BY <1>7, <2>1, Zenon
<1> DEFINE Short(t) == {c \in Seq(STRING) : Lanes!Written(c) \in Nat /\ Lanes!Written(t) \in Nat
                                              /\ Lanes!Written(c) <= Lanes!Written(t)}
           T == {t \in D : F[t] \in Short(t)}
<1>9. ASSUME NEW t \in D, \A u \in D : LengthOf[u] < LengthOf[t] => u \in T
      PROVE  t \in T
  <2>1. \A u \in Smaller(t) : u \in D /\ F[u] \in Short(u)
    BY <1>3, <1>9, LengthIs DEF D
  <2>2. Lanes!Written(t) \in Nat /\ Lanes!Written(<<>>) = 0 /\ <<>> \in Short(t)
    BY WrittenTogether, NothingWritten DEF D
  <2>3. \A u \in Smaller(t) : Short(u) \subseteq Short(t)
    BY <2>2 DEF Smaller
  <2>4. \A u \in D : Lanes!StripAssignments(u) \in Short(u)
    BY Stripped DEF D
  <2> HIDE DEF Short
  <2>5. /\ \A u \in Smaller(t) : F[u] \in Short(t)
        /\ \A u \in Smaller(t) : Lanes!StripAssignments(u) \in Short(t)
    BY <2>1, <2>3, <2>4
  <2>6. EnvStep(F, t) \in Short(t)
    BY <2>2, <2>4, <2>5, EnvWithin DEF D
  <2> QED
    BY <1>8, <2>6
<1>10. \A t \in D : t \in T
  <2>1. LengthOf \in [D -> Nat]
    BY LengthIs DEF D
  <2> HIDE DEF T
  <2> QED
    BY <1>9, <2>1, ByMeasure
<1>11. \A t \in D : F[t] \in Short(t)
  <2> HIDE DEF Short
  <2> QED
    BY <1>10
<1> QED
  BY <1>1, <1>8, <1>11 DEF D

\* What a wrapper runs has less text than the command it stands in.
LEMMA WrappedSmaller ==
  ASSUME NEW argv \in Seq(STRING), argv # <<>>, NEW ctx, Lanes!IsWrapper(argv, ctx)
  PROVE  Lanes!Wrapped(argv) \in Smaller(argv)
<1>1. ASSUME NEW i \in Nat, 2 <= i
      PROVE  Lanes!From(argv, i) \in Smaller(argv)
  <2>1. 1 <= i
    BY <1>1
  <2> QED
    BY <1>1, <2>1, Rest DEF Smaller
<1>2. ASSUME NEW takes
      PROVE  /\ Lanes!From(argv, Lanes!AfterOptions(argv, takes)) \in Smaller(argv)
             /\ Lanes!From(argv, Lanes!AfterOptions(argv, takes) + 1) \in Smaller(argv)
  <2>1. PICK f : EndOfOptions(f, argv, takes) /\ Lanes!AfterOptions(argv, takes) = f[2]
    BY OptionsEnd
  <2>2. f[2] \in Nat /\ 2 <= f[2] /\ f[2] + 1 \in Nat /\ 2 <= f[2] + 1
    BY <2>1 DEF EndOfOptions
  <2> QED
    BY <1>1, <2>1, <2>2
<1>3. <<>> \in Smaller(argv)
  <2>1. 1 \in 1..Len(argv)
    OBVIOUS
  <2>2. Width(argv[1]) \in Nat /\ Lanes!Written(argv) \in Nat /\ Width(argv[1]) <= Lanes!Written(argv)
        /\ 1 <= Width(argv[1])
    BY <2>1, WordWithin, WidthPositive
  <2>3. Lanes!Written(<<>>) = 0 /\ <<>> \in Seq(STRING)
    BY NothingWritten
  <2> QED
    BY <2>2, <2>3 DEF Smaller
<1>4. Lanes!EnvCommand[Tail(argv)] \in Smaller(argv)
  <2>1. Tail(argv) \in Smaller(argv)
    BY EnvSmaller
  <2> DEFINE c == Lanes!EnvCommand[Tail(argv)]
  <2>2. /\ c \in Seq(STRING) /\ Lanes!Written(c) \in Nat
        /\ Lanes!Written(Tail(argv)) \in Nat /\ Lanes!Written(c) <= Lanes!Written(Tail(argv))
    BY <2>1, EnvFinds, Zenon DEF Smaller
  <2>3. Lanes!Written(argv) \in Nat /\ Lanes!Written(Tail(argv)) < Lanes!Written(argv)
    BY <2>1, WrittenTogether, Zenon DEF Smaller
  <2> HIDE DEF c
  <2>4. Lanes!Written(c) < Lanes!Written(argv)
    BY <2>2, <2>3
  <2> QED
    BY <2>2, <2>4, Zenon DEF Smaller, c
<1>5. Lanes!From(argv, 2) \in Smaller(argv) /\ Lanes!From(argv, 3) \in Smaller(argv)
  BY <1>1
<1>6. argv[1] \in {"nohup", "timeout", "env", "command", "time", "xargs", "exec", "builtin"}
  BY DEF Lanes!IsWrapper
<1>7. argv[1] = "nohup" => Lanes!Wrapped(argv) \in Smaller(argv)
  BY <1>2 DEF Lanes!Wrapped
<1>8. argv[1] = "timeout" => Lanes!Wrapped(argv) \in Smaller(argv)
  BY <1>2 DEF Lanes!Wrapped
<1>9. argv[1] = "env" => Lanes!Wrapped(argv) \in Smaller(argv)
  BY <1>4 DEF Lanes!Wrapped
<1>10. argv[1] = "command" => Lanes!Wrapped(argv) \in Smaller(argv)
  BY <1>2, <1>3 DEF Lanes!Wrapped
<1>11. argv[1] = "time" => Lanes!Wrapped(argv) \in Smaller(argv)
  BY <1>2 DEF Lanes!Wrapped
<1>12. argv[1] = "xargs" => Lanes!Wrapped(argv) \in Smaller(argv)
  BY <1>2 DEF Lanes!Wrapped
<1>13. argv[1] = "exec" => Lanes!Wrapped(argv) \in Smaller(argv)
  BY <1>2 DEF Lanes!Wrapped
<1>14. argv[1] = "builtin" => Lanes!Wrapped(argv) \in Smaller(argv)
  BY <1>3, <1>5 DEF Lanes!Wrapped
<1> QED
  BY <1>6, <1>7, <1>8, <1>9, <1>10, <1>11, <1>12, <1>13, <1>14

\* Sequences one after the other.
LEMMA Flat ==
  ASSUME NEW R, NEW ss \in Seq(Seq(R))
  PROVE  /\ Lanes!FlattenSeq(ss) \in Seq(R)
         /\ Len(ss) = 1 => Lanes!FlattenSeq(ss) = ss[1]
<1> DEFINE N == Len(ss)
           V == Seq(R)
           D == 1..N
           S == [D -> V]
           At(f) == [i \in D |-> IF i = 1 THEN ss[i] ELSE f[i - 1] \o ss[i]]
           H == [f \in S |-> At(f)]
           F == CHOOSE f : f = At(f)
           m == [i \in D |-> i]
<1>1. N \in Nat /\ \A i \in D : ss[i] \in V
  BY ElementOfSeq
<1>2. CASE N = 0
  <2>1. ss = <<>>
    BY <1>2
  <2>2. Lanes!FlattenSeq(ss) = ss
    BY <1>2, Zenon DEF Lanes!FlattenSeq
  <2>3. <<>> \in Seq(R) /\ Len(ss) # 1
    BY <1>2
  <2> QED
    BY <2>1, <2>2, <2>3, Zenon
<1>3. CASE N # 0
  <2>1. Lanes!FlattenSeq(ss) = F[N]
    BY <1>3, Zenon DEF Lanes!FlattenSeq
  <2>2. 1 \in D /\ N \in D /\ m \in [D -> Nat] /\ \A i \in D : i # 1 => i - 1 \in D /\ m[i - 1] < m[i]
    BY <1>1, <1>3
  <2> HIDE DEF N
  <2>3. ss[1] \in V
    BY <1>1, <2>2
  <2>4. \A s, t \in V : s \o t \in V
    BY ConcatProperties
  <2> HIDE DEF V, D, m
  <2>5. \A f : \A i \in D : At(f)[i] = IF i = 1 THEN ss[i] ELSE f[i - 1] \o ss[i]
    OBVIOUS
  <2>6. ASSUME NEW f \in S
        PROVE  At(f) \in S
    <3>1. \A i \in D : f[i] \in V
      OBVIOUS
    <3>2. \A i \in D : (IF i = 1 THEN ss[i] ELSE f[i - 1] \o ss[i]) \in V
      BY <1>1, <2>2, <2>4, <3>1
    <3> QED
      BY <3>2
  <2>7. GoesBack(H, D, V, m)
    <3>1. H \in [S -> S]
      <4> HIDE DEF At, S
      <4> QED
        BY <2>6
    <3>2. ASSUME NEW f \in S, NEW g \in S, NEW i \in D, \A j \in D : m[j] < m[i] => f[j] = g[j]
          PROVE  H[f][i] = H[g][i]
      <4>1. H[f] = At(f) /\ H[g] = At(g)
        <5> HIDE DEF At, S
        <5> QED
          OBVIOUS
      <4>2. i # 1 => f[i - 1] = g[i - 1]
        BY <2>2, <3>2
      <4> HIDE DEF At, H
      <4>3. /\ At(f)[i] = IF i = 1 THEN ss[i] ELSE f[i - 1] \o ss[i]
            /\ At(g)[i] = IF i = 1 THEN ss[i] ELSE g[i - 1] \o ss[i]
        BY <2>5, Zenon
      <4>4. At(f)[i] = At(g)[i]
        <5>1. CASE i = 1
          BY <4>3, <5>1
        <5>2. CASE i # 1
          BY <4>2, <4>3, <5>2
        <5> QED
          BY <5>1, <5>2
      <4> QED
        BY <4>1, <4>4
    <3>3. V # {} /\ m \in [D -> Nat]
      BY <2>2, <2>3
    <3> HIDE DEF H
    <3> QED
      BY <3>1, <3>2, <3>3 DEF GoesBack
  <2>8. F = At(F)
    <3>1. \E f : Solves(f, H, D, V)
      <4> HIDE DEF H
      <4> QED
        BY <2>7, Recursion, Zenon
    <3>2. \E f : f = At(f)
      <4> HIDE DEF At
      <4> QED
        BY <3>1 DEF Solves
    <3> HIDE DEF At
    <3> QED
      BY <3>2
  <2> HIDE DEF F
  <2>9. \A i \in D : F[i] = IF i = 1 THEN ss[i] ELSE F[i - 1] \o ss[i]
    <3> HIDE DEF At
    <3> QED
      BY <2>5, <2>8, Zenon
  <2> DEFINE T == {i \in D : F[i] \in V}
  <2>10. ASSUME NEW i \in D, \A j \in D : m[j] < m[i] => j \in T
         PROVE  i \in T
    <3>1. i # 1 => F[i - 1] \in V
      BY <2>2, <2>10
    <3>2. ss[i] \in V
      BY <1>1
    <3> QED
      BY <2>4, <2>9, <3>1, <3>2
  <2>11. \A i \in D : i \in T
    <3> HIDE DEF T
    <3> QED
      BY <2>2, <2>10, ByMeasure
  <2>12. F[N] \in V
    BY <2>2, <2>11
  <2>13. N = 1 => F[N] = ss[1]
    BY <2>2, <2>9, Zenon
  <2> QED
    BY <2>1, <2>12, <2>13 DEF V, N
<1> QED
  BY <1>2, <1>3

\* What f finds in each of the commands, in a row.
Each(f, cmds, ctx) == Lanes!FlattenSeq([k \in 1..Len(cmds) |-> f[<<cmds[k], ctx>>]])

\* One step of `leaf_command_contexts`.
LeafStep(f, argv, ctx) ==
  IF argv = <<>> THEN <<>>
  ELSE IF argv[1] = "A=1" /\ ctx # "no" THEN f[<<Tail(argv), ctx>>]
  ELSE IF argv[1] = "find" THEN Each(f, Lanes!FindExecs(argv), "no")
  ELSE IF Lanes!IsWrapper(argv, ctx) THEN f[<<Lanes!Wrapped(argv), Lanes!NestedContext(argv, ctx)>>]
  ELSE IF argv[1] = "sh" /\ Lanes!HasProgram(argv, Lanes!ShellEnd(argv, {"-O"}))
  THEN Each(f, Lanes!ProgramAfter(argv, Lanes!ShellEnd(argv, {"-O"})), "shell")
  ELSE <<[argv |-> argv, ctx |-> ctx]>>

\* `leaf_command_contexts` is a function that each step is one of.
LEMMA LeavesAre ==
  ASSUME NEW argv, NEW ctx
  PROVE  Lanes!Leaves(argv, ctx)
           = (CHOOSE f : f = [q \in Seq(STRING) \X Lanes!Contexts |-> LeafStep(f, q[1], q[2])])[<<argv, ctx>>]
  BY DEF Lanes!Leaves, LeafStep, Each, Lanes!FromEach

\* What holds of all that is found in smaller commands holds of all of it in a row.
LEMMA EachWithin ==
  ASSUME NEW argv \in Seq(STRING), NEW cmds \in Seq(Smaller(argv)), NEW f, NEW ctx, NEW R,
         \A c \in Smaller(argv) : f[<<c, ctx>>] \in Seq(R)
  PROVE  Each(f, cmds, ctx) \in Seq(R)
<1>1. \A k \in 1..Len(cmds) : cmds[k] \in Smaller(argv)
  BY ElementOfSeq
<1>2. \A k \in 1..Len(cmds) : f[<<cmds[k], ctx>>] \in Seq(R)
  BY <1>1
<1> DEFINE V == Seq(R)
<1>3. [k \in 1..Len(cmds) |-> f[<<cmds[k], ctx>>]] \in Seq(V)
  <2>1. Len(cmds) \in Nat
    OBVIOUS
  <2>2. [k \in 1..Len(cmds) |-> f[<<cmds[k], ctx>>]] \in [1..Len(cmds) -> V]
    BY <1>2
  <2> HIDE DEF V
  <2> QED
    BY <2>1, <2>2
<1> QED
  BY <1>3, Flat DEF Each

\* If the same is found in each, the same is found in all.
LEMMA EachAlike ==
  ASSUME NEW argv \in Seq(STRING), NEW cmds \in Seq(Smaller(argv)), NEW f, NEW g, NEW ctx,
         \A c \in Smaller(argv) : f[<<c, ctx>>] = g[<<c, ctx>>]
  PROVE  Each(f, cmds, ctx) = Each(g, cmds, ctx)
<1>1. \A k \in 1..Len(cmds) : cmds[k] \in Smaller(argv)
  BY ElementOfSeq
<1>2. \A k \in 1..Len(cmds) : f[<<cmds[k], ctx>>] = g[<<cmds[k], ctx>>]
  BY <1>1
<1>3. [k \in 1..Len(cmds) |-> f[<<cmds[k], ctx>>]] = [k \in 1..Len(cmds) |-> g[<<cmds[k], ctx>>]]
  BY <1>2
<1> QED
  BY <1>3, Zenon DEF Each

\* The commands of a program given as text have less text.
LEMMA ProgramSmaller ==
  ASSUME NEW argv \in Seq(STRING), NEW takes, Lanes!HasProgram(argv, Lanes!ShellEnd(argv, takes))
  PROVE  Lanes!ProgramAfter(argv, Lanes!ShellEnd(argv, takes)) \in Seq(Smaller(argv))
<1> DEFINE i == Lanes!ShellEnd(argv, takes)
<1>1. PICK f : EndForShell(f, argv, takes) /\ i = f[2]
  BY ShellOptionsEnd
<1>2. i \in Nat /\ 2 <= i /\ i <= Len(argv) /\ Len(argv) \in Nat
  BY <1>1 DEF EndForShell, Lanes!HasProgram
<1> HIDE DEF i
<1>3. CASE i = Len(argv)
  <2>1. Lanes!ProgramAfter(argv, i) = <<>>
    BY <1>3 DEF Lanes!ProgramAfter
  <2> QED
    BY <2>1 DEF i
<1>4. CASE i # Len(argv)
  <2> DEFINE w == argv[i + 1]
             t == Lanes!Text(w)
  <2>1. i + 1 \in 1..Len(argv) /\ 2 <= i + 1
    BY <1>2, <1>4
  <2>2. w \in STRING /\ Width(w) \in Nat /\ Lanes!Written(argv) \in Nat /\ Width(w) < Lanes!Written(argv)
    BY <2>1, ElementOfSeq, WordWithin
  <2>3. /\ t \in Seq(Seq(STRING))
        /\ \A k \in 1..Len(t) : /\ t[k] \in Seq(STRING)
                                /\ Lanes!Written(t[k]) \in Nat /\ Lanes!Written(t[k]) <= Width(w)
    BY <2>2, TextWords, Zenon
  <2>4. Lanes!ProgramAfter(argv, i) = t
    BY <1>4 DEF Lanes!ProgramAfter
  <2> HIDE DEF w, t
  <2>5. ASSUME NEW k \in 1..Len(t)
        PROVE  t[k] \in Smaller(argv)
    <3> DEFINE n == Lanes!Written(t[k])
               m == Width(w)
               a == Lanes!Written(argv)
    <3>1. n \in Nat /\ n < a
      <4>1. n \in Nat /\ n <= m /\ m \in Nat /\ a \in Nat /\ m < a
        BY <2>2, <2>3, Zenon
      <4> HIDE DEF n, m, a
      <4> QED
        BY <4>1
    <3> QED
      BY <2>3, <3>1, Zenon DEF Smaller
  <2>6. t \in Seq(Smaller(argv))
    <3> DEFINE R == Smaller(argv)
               V == Seq(STRING)
    <3>1. t \in Seq(V) /\ \A k \in 1..Len(t) : t[k] \in R
      BY <2>3, <2>5
    <3> HIDE DEF R, V
    <3>2. t \in Seq(R)
      BY <3>1
    <3> QED
      BY <3>2 DEF R
  <2> QED
    BY <2>4, <2>6 DEF i
<1> QED
  BY <1>3, <1>4

\* The parts of a command that run, and the commands and contexts they are looked for in.
LEMMA PartsSmaller ==
  ASSUME NEW argv \in Seq(STRING), argv # <<>>, NEW ctx \in Lanes!Contexts
  PROVE  /\ Tail(argv) \in Smaller(argv)
         /\ Lanes!FindExecs(argv) \in Seq(Smaller(argv))
         /\ Lanes!IsWrapper(argv, ctx) => Lanes!Wrapped(argv) \in Smaller(argv)
         /\ Lanes!HasProgram(argv, Lanes!ShellEnd(argv, {"-O"})) =>
              Lanes!ProgramAfter(argv, Lanes!ShellEnd(argv, {"-O"})) \in Seq(Smaller(argv))
         /\ Lanes!NestedContext(argv, ctx) \in Lanes!Contexts
         /\ "no" \in Lanes!Contexts /\ "shell" \in Lanes!Contexts
<1>1. Tail(argv) \in Smaller(argv)
  BY EnvSmaller
<1>2. Lanes!FindExecs(argv) \in Seq(Smaller(argv))
  <2> DEFINE V == Seq(Smaller(argv))
  <2>1. PICK f : Actions(f, argv) /\ Lanes!FindExecs(argv) = f[2]
    BY ActionsFound
  <2>2. f \in [Nat -> V] /\ 2 \in Nat
    BY <2>1 DEF Actions
  <2> HIDE DEF V
  <2>3. f[2] \in V
    BY <2>2
  <2> QED
    BY <2>1, <2>3 DEF V
<1>3. Lanes!NestedContext(argv, ctx) \in Lanes!Contexts /\ "no" \in Lanes!Contexts /\ "shell" \in Lanes!Contexts
  BY DEF Lanes!NestedContext, Lanes!Contexts
<1> QED
  BY <1>1, <1>2, <1>3, WrappedSmaller, ProgramSmaller

\* What holds of the command itself and of what is found in smaller ones holds of all found.
LEMMA LeafWithin ==
  ASSUME NEW argv \in Seq(STRING), NEW ctx \in Lanes!Contexts, NEW f, NEW R,
         [argv |-> argv, ctx |-> ctx] \in R,
         \A c \in Smaller(argv), x \in Lanes!Contexts : f[<<c, x>>] \in Seq(R)
  PROVE  LeafStep(f, argv, ctx) \in Seq(R)
<1>1. CASE argv = <<>>
  <2>1. LeafStep(f, argv, ctx) = <<>>
    BY <1>1 DEF LeafStep
  <2> QED
    BY <2>1
<1>2. CASE argv # <<>>
  <2> DEFINE end == Lanes!ShellEnd(argv, {"-O"})
             self == <<[argv |-> argv, ctx |-> ctx]>>
             V == Seq(R)
  <2>1. /\ Tail(argv) \in Smaller(argv)
        /\ Lanes!FindExecs(argv) \in Seq(Smaller(argv))
        /\ Lanes!IsWrapper(argv, ctx) => Lanes!Wrapped(argv) \in Smaller(argv)
        /\ Lanes!HasProgram(argv, end) => Lanes!ProgramAfter(argv, end) \in Seq(Smaller(argv))
        /\ Lanes!NestedContext(argv, ctx) \in Lanes!Contexts
        /\ "no" \in Lanes!Contexts /\ "shell" \in Lanes!Contexts
    BY <1>2, PartsSmaller
  <2> HIDE DEF end
  <2>2. Each(f, Lanes!FindExecs(argv), "no") \in V
    BY <2>1, EachWithin
  <2>3. Lanes!HasProgram(argv, end) => Each(f, Lanes!ProgramAfter(argv, end), "shell") \in V
    BY <2>1, EachWithin
  <2>4. self \in V
    <3> DEFINE e == [argv |-> argv, ctx |-> ctx]
    <3>1. e \in R
      OBVIOUS
    <3> HIDE DEF e
    <3>2. <<e>> \in Seq(R)
      BY <3>1
    <3> QED
      BY <3>2 DEF e
  <2>5. f[<<Tail(argv), ctx>>] \in V
    <3> HIDE DEF V
    <3> QED
      BY <2>1, Zenon DEF V
  <2>6. Lanes!IsWrapper(argv, ctx) => f[<<Lanes!Wrapped(argv), Lanes!NestedContext(argv, ctx)>>] \in V
    <3> HIDE DEF V
    <3> QED
      BY <2>1, Zenon DEF V
  <2> HIDE DEF V, self
  <2>7. LeafStep(f, argv, ctx) \in V
    BY <1>2, <2>2, <2>3, <2>4, <2>5, <2>6, Zenon DEF LeafStep, end, self
  <2> QED
    BY <2>7 DEF V
<1> QED
  BY <1>1, <1>2

\* If the same is found in all smaller commands, the same is found.
LEMMA LeafAlike ==
  ASSUME NEW argv \in Seq(STRING), NEW ctx \in Lanes!Contexts, NEW f, NEW g,
         \A c \in Smaller(argv), x \in Lanes!Contexts : f[<<c, x>>] = g[<<c, x>>]
  PROVE  LeafStep(f, argv, ctx) = LeafStep(g, argv, ctx)
<1>1. CASE argv = <<>>
  BY <1>1 DEF LeafStep
<1>2. CASE argv # <<>>
  <2> DEFINE end == Lanes!ShellEnd(argv, {"-O"})
  <2>1. /\ Tail(argv) \in Smaller(argv)
        /\ Lanes!FindExecs(argv) \in Seq(Smaller(argv))
        /\ Lanes!IsWrapper(argv, ctx) => Lanes!Wrapped(argv) \in Smaller(argv)
        /\ Lanes!HasProgram(argv, end) => Lanes!ProgramAfter(argv, end) \in Seq(Smaller(argv))
        /\ Lanes!NestedContext(argv, ctx) \in Lanes!Contexts
        /\ "no" \in Lanes!Contexts /\ "shell" \in Lanes!Contexts
    BY <1>2, PartsSmaller
  <2> HIDE DEF end
  <2>2. Each(f, Lanes!FindExecs(argv), "no") = Each(g, Lanes!FindExecs(argv), "no")
    BY <2>1, EachAlike
  <2>3. Lanes!HasProgram(argv, end) =>
          Each(f, Lanes!ProgramAfter(argv, end), "shell") = Each(g, Lanes!ProgramAfter(argv, end), "shell")
    BY <2>1, EachAlike
  <2>4. f[<<Tail(argv), ctx>>] = g[<<Tail(argv), ctx>>]
    BY <2>1, Zenon
  <2>5. Lanes!IsWrapper(argv, ctx) =>
          f[<<Lanes!Wrapped(argv), Lanes!NestedContext(argv, ctx)>>]
            = g[<<Lanes!Wrapped(argv), Lanes!NestedContext(argv, ctx)>>]
    BY <2>1, Zenon
  <2> QED
    BY <1>2, <2>2, <2>3, <2>4, <2>5, Zenon DEF LeafStep, end
<1> QED
  BY <1>1, <1>2

\* A command in a context.
Placed == Seq(STRING) \X Lanes!Contexts

Leaf == [argv : Seq(STRING), ctx : Lanes!Contexts]

\* The leaves with no more text than a command.
LeavesOf(argv) ==
  {leaf \in Leaf : /\ Lanes!Written(leaf.argv) \in Nat /\ Lanes!Written(argv) \in Nat
                   /\ Lanes!Written(leaf.argv) <= Lanes!Written(argv)}

\* f tells what runs in the end, for every command in every context.
FindsLeaves(f) ==
  \A argv \in Seq(STRING), ctx \in Lanes!Contexts :
    /\ Lanes!Leaves(argv, ctx) = f[<<argv, ctx>>]
    /\ f[<<argv, ctx>>] = LeafStep(f, argv, ctx)
    /\ f[<<argv, ctx>>] \in Seq(LeavesOf(argv))

LengthPlaced == [q \in Placed |-> Lanes!Written(q[1])]

\* A command keeps its length in every context, and every step makes it shorter.
LEMMA LengthPlacedIs ==
  /\ LengthPlaced \in [Placed -> Nat]
  /\ \A argv \in Seq(STRING), ctx \in Lanes!Contexts : \A c \in Smaller(argv), x \in Lanes!Contexts :
       <<argv, ctx>> \in Placed /\ <<c, x>> \in Placed /\ LengthPlaced[<<c, x>>] < LengthPlaced[<<argv, ctx>>]
  /\ \A q \in Placed : q[1] \in Seq(STRING) /\ q[2] \in Lanes!Contexts /\ q = <<q[1], q[2]>>
<1>1. \A c \in Seq(STRING) : Lanes!Written(c) \in Nat
  BY WrittenTogether
<1>2. \A q \in Placed : q[1] \in Seq(STRING) /\ q[2] \in Lanes!Contexts /\ q = <<q[1], q[2]>>
  BY DEF Placed
<1>3. ASSUME NEW argv \in Seq(STRING), NEW ctx \in Lanes!Contexts, NEW c \in Smaller(argv), NEW x \in Lanes!Contexts
      PROVE  <<argv, ctx>> \in Placed /\ <<c, x>> \in Placed /\ LengthPlaced[<<c, x>>] < LengthPlaced[<<argv, ctx>>]
  <2>1. c \in Seq(STRING) /\ Lanes!Written(c) < Lanes!Written(argv)
    BY DEF Smaller
  <2>2. <<argv, ctx>> \in Placed /\ <<c, x>> \in Placed
    BY <2>1 DEF Placed
  <2>3. LengthPlaced[<<c, x>>] = Lanes!Written(c) /\ LengthPlaced[<<argv, ctx>>] = Lanes!Written(argv)
    BY <2>2 DEF LengthPlaced
  <2> QED
    BY <2>1, <2>2, <2>3
<1> QED
  BY <1>1, <1>2, <1>3 DEF LengthPlaced

\* There is always an answer to what runs in the end, since every step goes to less text.
LEMMA LeavesFound == \E f : FindsLeaves(f)
<1> DEFINE V == Seq(Leaf)
           S == [Placed -> V]
           At(f) == [q \in Placed |-> LeafStep(f, q[1], q[2])]
           H == [f \in S |-> At(f)]
           F == CHOOSE f : f = At(f)
<1>1. \A argv, ctx : Lanes!Leaves(argv, ctx) = F[<<argv, ctx>>]
  BY LeavesAre, Zenon DEF Placed
<1>2. \A argv \in Seq(STRING), ctx \in Lanes!Contexts : [argv |-> argv, ctx |-> ctx] \in Leaf
  BY DEF Leaf
<1>3. \A q \in Placed : q[1] \in Seq(STRING) /\ q[2] \in Lanes!Contexts /\ q = <<q[1], q[2]>>
  BY LengthPlacedIs
<1>4. <<>> \in V
  OBVIOUS
<1> HIDE DEF V
<1>5. ASSUME NEW f \in S
      PROVE  At(f) \in S
  <2>1. \A q \in Placed : f[q] \in V
    OBVIOUS
  <2>2. ASSUME NEW q \in Placed
        PROVE  LeafStep(f, q[1], q[2]) \in V
    <3>1. q[1] \in Seq(STRING) /\ q[2] \in Lanes!Contexts
      BY <1>3
    <3>2. \A c \in Smaller(q[1]), x \in Lanes!Contexts : f[<<c, x>>] \in V
      BY <2>1, <3>1, LengthPlacedIs, Zenon
    <3>3. [argv |-> q[1], ctx |-> q[2]] \in Leaf
      BY <1>2, <3>1
    <3> QED
      BY <3>1, <3>2, <3>3, LeafWithin DEF V
  <2> QED
    BY <2>2
<1>6. GoesBack(H, Placed, V, LengthPlaced)
  <2>1. H \in [S -> S]
    <3> HIDE DEF At, S
    <3> QED
      BY <1>5
  <2>2. ASSUME NEW f \in S, NEW g \in S, NEW q \in Placed,
               \A p \in Placed : LengthPlaced[p] < LengthPlaced[q] => f[p] = g[p]
        PROVE  H[f][q] = H[g][q]
    <3>1. H[f] = At(f) /\ H[g] = At(g)
      <4> HIDE DEF At, S
      <4> QED
        OBVIOUS
    <3>2. q[1] \in Seq(STRING) /\ q[2] \in Lanes!Contexts /\ q = <<q[1], q[2]>>
      BY <1>3
    <3>3. \A c \in Smaller(q[1]), x \in Lanes!Contexts : f[<<c, x>>] = g[<<c, x>>]
      BY <2>2, <3>2, LengthPlacedIs, Zenon
    <3>4. LeafStep(f, q[1], q[2]) = LeafStep(g, q[1], q[2])
      BY <3>2, <3>3, LeafAlike
    <3>5. At(f)[q] = At(g)[q]
      BY <3>4
    <3> HIDE DEF At, H
    <3> QED
      BY <3>1, <3>5
  <2>3. V # {} /\ LengthPlaced \in [Placed -> Nat]
    BY <1>4, LengthPlacedIs
  <2> HIDE DEF H
  <2> QED
    BY <2>1, <2>2, <2>3 DEF GoesBack
<1>7. F = At(F)
  <2>1. \E f : Solves(f, H, Placed, V)
    <3> HIDE DEF H
    <3> QED
      BY <1>6, Recursion, Zenon
  <2>2. \E f : f = At(f)
    <3> HIDE DEF At
    <3> QED
      BY <2>1 DEF Solves
  <2> HIDE DEF At
  <2> QED
    BY <2>2
<1> HIDE DEF F
<1>8. \A q \in Placed : F[q] = LeafStep(F, q[1], q[2])
  <2>1. \A q \in Placed : At(F)[q] = LeafStep(F, q[1], q[2])
    OBVIOUS
  <2> HIDE DEF At
  <2> QED
    BY <1>7, <2>1, Zenon
<1> DEFINE T == {q \in Placed : F[q] \in Seq(LeavesOf(q[1]))}
<1>9. ASSUME NEW q \in Placed, \A p \in Placed : LengthPlaced[p] < LengthPlaced[q] => p \in T
      PROVE  q \in T
  <2> DEFINE a == q[1]
             R == LeavesOf(a)
  <2>1. a \in Seq(STRING) /\ q[2] \in Lanes!Contexts /\ q = <<a, q[2]>>
    BY <1>3
  <2>2. Lanes!Written(a) \in Nat
    BY <2>1, WrittenTogether
  <2>3. ASSUME NEW c \in Smaller(a), NEW x \in Lanes!Contexts
        PROVE  F[<<c, x>>] \in Seq(R)
    <3>1. <<c, x>> \in Placed /\ LengthPlaced[<<c, x>>] < LengthPlaced[q]
      BY <2>1, LengthPlacedIs
    <3>2. F[<<c, x>>] \in Seq(LeavesOf(c))
      BY <1>9, <3>1
    <3>3. LeavesOf(c) \subseteq R
      <4>1. Lanes!Written(c) \in Nat /\ Lanes!Written(c) < Lanes!Written(a)
        BY DEF Smaller
      <4> QED
        BY <2>2, <4>1 DEF LeavesOf
    <3>4. \A A, B : A \subseteq B => Seq(A) \subseteq Seq(B)
      OBVIOUS
    <3> HIDE DEF R
    <3> QED
      BY <3>2, <3>3, <3>4
  <2>4. [argv |-> a, ctx |-> q[2]] \in R
    <3>1. [argv |-> a, ctx |-> q[2]] \in Leaf
      BY <1>2, <2>1
    <3> QED
      BY <2>2, <3>1 DEF LeavesOf
  <2> HIDE DEF R, a
  <2>5. LeafStep(F, a, q[2]) \in Seq(R)
    BY <2>1, <2>3, <2>4, LeafWithin
  <2> QED
    BY <1>8, <2>5 DEF R, a
<1>10. \A q \in Placed : q \in T
  <2>1. LengthPlaced \in [Placed -> Nat]
    BY LengthPlacedIs
  <2> HIDE DEF T
  <2> QED
    BY <1>9, <2>1, ByMeasure
<1>11. FindsLeaves(F)
  <2>1. ASSUME NEW argv \in Seq(STRING), NEW ctx \in Lanes!Contexts
        PROVE  /\ Lanes!Leaves(argv, ctx) = F[<<argv, ctx>>]
               /\ F[<<argv, ctx>>] = LeafStep(F, argv, ctx)
               /\ F[<<argv, ctx>>] \in Seq(LeavesOf(argv))
    <3>1. <<argv, ctx>> \in Placed /\ <<argv, ctx>>[1] = argv /\ <<argv, ctx>>[2] = ctx
      BY DEF Placed
    <3>2. F[<<argv, ctx>>] \in Seq(LeavesOf(<<argv, ctx>>[1]))
      BY <1>10, <3>1
    <3>3. F[<<argv, ctx>>] = LeafStep(F, <<argv, ctx>>[1], <<argv, ctx>>[2])
      BY <1>8, <3>1
    <3> QED
      BY <1>1, <3>1, <3>2, <3>3, Zenon
  <2> QED
    BY <2>1, Zenon DEF FindsLeaves
<1> QED
  BY <1>11

\* Whether a command that runs in the end is one to refuse.
Bad(h, leaf) ==
  \/ leaf.argv[1] = "curl" \/ Lanes!Deletes(leaf.argv)
  \/ leaf.ctx # "no" /\ leaf.argv[1] = "eval"
  \/ /\ leaf.ctx # "no" /\ leaf.argv[1] = "trap"
     /\ \E c \in Lanes!ToSet(Lanes!Handler(leaf.argv)) : h[<<c, "shell">>]

\* One step of `command_hazards`.
HazardStep(h, argv, ctx) == \E leaf \in Lanes!ToSet(Lanes!Leaves(argv, ctx)) : Bad(h, leaf)

\* `command_hazards` is a function that each step is one of.
LEMMA HazardsAre ==
  ASSUME NEW argv, NEW ctx
  PROVE  Lanes!Hazardous(argv, ctx)
           = (CHOOSE h : h = [q \in Seq(STRING) \X Lanes!Contexts |-> HazardStep(h, q[1], q[2])])[<<argv, ctx>>]
  BY DEF Lanes!Hazardous, HazardStep, Bad

\* The commands that a trap handles have less text than the command that sets it.
LEMMA HandlerSmaller ==
  ASSUME NEW argv \in Seq(STRING), NEW leaf \in LeavesOf(argv),
         NEW c \in Lanes!ToSet(Lanes!Handler(leaf.argv))
  PROVE  c \in Smaller(argv)
<1> DEFINE a == leaf.argv
           n == Len(a)
           i == IF n > 1 /\ a[2] = "--" THEN 3 ELSE 2
           t == Lanes!Handler(a)
<1>1. a \in Seq(STRING) /\ Lanes!Written(a) \in Nat /\ Lanes!Written(argv) \in Nat /\ Lanes!Written(a) <= Lanes!Written(argv)
  BY DEF LeavesOf, Leaf
<1>2. \E k \in DOMAIN t : c = t[k]
  BY DEF Lanes!ToSet
<1>3. t # <<>>
  BY <1>2
<1> HIDE DEF a
<1>4. ~(n <= i) /\ t = Lanes!Text(a[i])
  BY <1>3 DEF Lanes!Handler
<1>5. n \in Nat
  BY <1>1
<1> HIDE DEF t, n
<1>6. i \in Nat /\ 2 <= i
  OBVIOUS
<1> HIDE DEF i
<1>7. i \in 1..n
  BY <1>4, <1>5, <1>6
<1>8. a[i] \in STRING /\ Width(a[i]) \in Nat /\ Width(a[i]) < Lanes!Written(a)
  BY <1>1, <1>6, <1>7, ElementOfSeq, WordWithin DEF n
<1>9. /\ t \in Seq(Seq(STRING))
      /\ \A k \in 1..Len(t) : /\ t[k] \in Seq(STRING)
                              /\ Lanes!Written(t[k]) \in Nat /\ Lanes!Written(t[k]) <= Width(a[i])
  BY <1>4, <1>8, TextWords, Zenon
<1>10. PICK k \in 1..Len(t) : c = t[k]
  <2>1. DOMAIN t = 1..Len(t)
    BY <1>9
  <2> QED
    BY <1>2, <2>1 DEF t
<1>11. c \in Seq(STRING) /\ Lanes!Written(c) \in Nat /\ Lanes!Written(c) <= Width(a[i])
  BY <1>9, <1>10, Zenon
<1>12. Lanes!Written(c) < Lanes!Written(argv)
  <2> DEFINE p == Lanes!Written(c)
             q == Width(a[i])
             r == Lanes!Written(a)
             s == Lanes!Written(argv)
  <2>1. p \in Nat /\ q \in Nat /\ r \in Nat /\ s \in Nat /\ p <= q /\ q < r /\ r <= s
    BY <1>1, <1>8, <1>11, Zenon
  <2> HIDE DEF p, q, r, s
  <2>2. p < s
    BY <2>1
  <2> QED
    BY <2>2 DEF p, s
<1> QED
  BY <1>11, <1>12, Zenon DEF Smaller

\* If smaller commands are judged the same, the command is.
LEMMA HazardAlike ==
  ASSUME NEW argv \in Seq(STRING), NEW ctx \in Lanes!Contexts, NEW h, NEW g,
         \A c \in Smaller(argv) : h[<<c, "shell">>] = g[<<c, "shell">>]
  PROVE  HazardStep(h, argv, ctx) = HazardStep(g, argv, ctx)
<1> DEFINE L == Lanes!ToSet(Lanes!Leaves(argv, ctx))
<1>1. L \subseteq LeavesOf(argv)
  <2> DEFINE R == LeavesOf(argv)
             s == Lanes!Leaves(argv, ctx)
  <2>1. s \in Seq(R)
    BY LeavesFound DEF FindsLeaves
  <2> HIDE DEF R, s
  <2>2. \A k \in DOMAIN s : s[k] \in R
    BY <2>1
  <2> QED
    BY <2>2 DEF Lanes!ToSet, R, s
<1>2. ASSUME NEW leaf \in L
      PROVE  Bad(h, leaf) <=> Bad(g, leaf)
  <2>1. \A c \in Lanes!ToSet(Lanes!Handler(leaf.argv)) : h[<<c, "shell">>] = g[<<c, "shell">>]
    BY <1>1, <1>2, HandlerSmaller, Zenon
  <2> QED
    BY <2>1, Zenon DEF Bad
<1> HIDE DEF L
<1>3. (\E leaf \in L : Bad(h, leaf)) <=> (\E leaf \in L : Bad(g, leaf))
  BY <1>2, Zenon
<1> QED
  BY <1>3, Zenon DEF HazardStep, L

\* h says of every command in every context whether it is one to refuse.
FindsHazards(h) ==
  \A argv \in Seq(STRING), ctx \in Lanes!Contexts :
    /\ Lanes!Hazardous(argv, ctx) = h[<<argv, ctx>>]
    /\ h[<<argv, ctx>>] = HazardStep(h, argv, ctx)

\* There is always an answer to whether a command is one to refuse.
LEMMA HazardsFound == \E h : FindsHazards(h)
<1> DEFINE S == [Placed -> BOOLEAN]
           At(h) == [q \in Placed |-> HazardStep(h, q[1], q[2])]
           H == [h \in S |-> At(h)]
           F == CHOOSE h : h = At(h)
<1>1. \A argv, ctx : Lanes!Hazardous(argv, ctx) = F[<<argv, ctx>>]
  BY HazardsAre, Zenon DEF Placed
<1>2. \A q \in Placed : q[1] \in Seq(STRING) /\ q[2] \in Lanes!Contexts /\ q = <<q[1], q[2]>>
  BY LengthPlacedIs
<1>3. \A h : At(h) \in S
  <2>1. \A h, argv, ctx : HazardStep(h, argv, ctx) \in BOOLEAN
    BY DEF HazardStep
  <2> QED
    BY <2>1
<1>4. GoesBack(H, Placed, BOOLEAN, LengthPlaced)
  <2>1. H \in [S -> S]
    <3> HIDE DEF At, S
    <3> QED
      BY <1>3
  <2>2. ASSUME NEW h \in S, NEW g \in S, NEW q \in Placed,
               \A p \in Placed : LengthPlaced[p] < LengthPlaced[q] => h[p] = g[p]
        PROVE  H[h][q] = H[g][q]
    <3>1. H[h] = At(h) /\ H[g] = At(g)
      <4> HIDE DEF At, S
      <4> QED
        OBVIOUS
    <3>2. q[1] \in Seq(STRING) /\ q[2] \in Lanes!Contexts /\ q = <<q[1], q[2]>>
      BY <1>2
    <3>3. "shell" \in Lanes!Contexts
      BY DEF Lanes!Contexts
    <3>4. ASSUME NEW c \in Smaller(q[1])
          PROVE  h[<<c, "shell">>] = g[<<c, "shell">>]
      <4>1. /\ <<c, "shell">> \in Placed
            /\ LengthPlaced[<<c, "shell">>] < LengthPlaced[<<q[1], q[2]>>]
        BY <3>2, <3>3, LengthPlacedIs
      <4>2. LengthPlaced[<<c, "shell">>] < LengthPlaced[q]
        BY <3>2, <4>1
      <4> HIDE DEF S
      <4> QED
        BY <2>2, <4>1, <4>2, Zenon
    <3>5. HazardStep(h, q[1], q[2]) = HazardStep(g, q[1], q[2])
      BY <3>2, <3>4, HazardAlike
    <3>6. At(h)[q] = At(g)[q]
      BY <3>5, Zenon
    <3> HIDE DEF At, H
    <3> QED
      BY <3>1, <3>6
  <2>3. BOOLEAN # {} /\ LengthPlaced \in [Placed -> Nat]
    BY LengthPlacedIs
  <2> HIDE DEF H
  <2> QED
    BY <2>1, <2>2, <2>3 DEF GoesBack
<1>5. F = At(F)
  <2>1. \E h : Solves(h, H, Placed, BOOLEAN)
    <3> HIDE DEF H
    <3> QED
      BY <1>4, Recursion, Zenon
  <2>2. \E h : h = At(h)
    <3> HIDE DEF At
    <3> QED
      BY <2>1 DEF Solves
  <2> HIDE DEF At
  <2> QED
    BY <2>2
<1> HIDE DEF F
<1>6. FindsHazards(F)
  <2>1. ASSUME NEW argv \in Seq(STRING), NEW ctx \in Lanes!Contexts
        PROVE  F[<<argv, ctx>>] = HazardStep(F, argv, ctx)
    <3>1. <<argv, ctx>> \in Placed /\ <<argv, ctx>>[1] = argv /\ <<argv, ctx>>[2] = ctx
      BY DEF Placed
    <3>2. \A q \in Placed : At(F)[q] = HazardStep(F, q[1], q[2])
      BY Zenon
    <3>3. At(F)[<<argv, ctx>>] = HazardStep(F, argv, ctx)
      BY <3>1, <3>2, Zenon
    <3> HIDE DEF At
    <3> QED
      BY <1>5, <3>3, Zenon
  <2> QED
    BY <1>1, <2>1, Zenon DEF FindsHazards
<1> QED
  BY <1>6

\* The tools whose commands are told in other ways.
Openers == {"curl", "rm", "cat", "sh", "find", "nohup", "timeout", "env"}

Opened(argv) == argv \in Seq(STRING) /\ argv # <<>> /\ argv[1] \in Openers

\* What stands behind the head of a command is the command it runs.
LEMMA BehindHead ==
  ASSUME NEW head \in Seq(STRING), NEW argv \in Seq(STRING), argv # <<>>
  PROVE  /\ Lanes!From(head \o argv, Len(head) + 1) = argv
         /\ head \o argv \in Seq(STRING) /\ Len(head \o argv) = Len(head) + Len(argv)
         /\ Len(head) \in Nat /\ Len(argv) \in Nat /\ 1 <= Len(argv)
         /\ \A i \in 1..Len(head) : (head \o argv)[i] = head[i]
         /\ (head \o argv)[Len(head) + 1] = argv[1]
<1>1. /\ head \o argv \in Seq(STRING) /\ Len(head \o argv) = Len(head) + Len(argv)
      /\ Len(head) \in Nat /\ Len(argv) \in Nat
      /\ \A i \in 1..Len(head) : (head \o argv)[i] = head[i]
      /\ \A i \in 1..Len(argv) : (head \o argv)[Len(head) + i] = argv[i]
  BY JoinedWords
<1>2. 1 <= Len(argv) /\ 1 \in 1..Len(argv)
  OBVIOUS
<1>3. SubSeq(head \o argv, Len(head) + 1, Len(head \o argv)) = argv
  <2> DEFINE n == Len(head)
             k == Len(argv)
  <2>1. n + 1 \in n + 1..n + k /\ n + k \in n + 1..n + k /\ (n + 1) - n = 1 /\ (n + k) - n = k
    <3>1. n \in Nat /\ k \in Nat /\ 1 <= k
      BY <1>1, <1>2
    <3> HIDE DEF n, k
    <3> QED
      BY <3>1
  <2>2. SubSeq(head \o argv, n + 1, n + k) = SubSeq(argv, (n + 1) - n, (n + k) - n)
    BY <2>1, SubSeqOfConcat2, Zenon
  <2>3. SubSeq(argv, 1, k) = argv
    BY SubSeqFull, Zenon
  <2> HIDE DEF n, k
  <2> QED
    BY <1>1, <2>1, <2>2, <2>3 DEF n, k
<1> QED
  BY <1>1, <1>2, <1>3 DEF Lanes!From

\* `nohup` runs what stands behind it.
LEMMA NohupRuns ==
  ASSUME NEW argv, Opened(argv), NEW new, new = <<"nohup">> \o argv
  PROVE  new \in Seq(STRING) /\ new # <<>> /\ new[1] = "nohup" /\ Lanes!Wrapped(new) = argv
<1> DEFINE head == <<"nohup">>
<1>1. head \in Seq(STRING)
  BY HeadWords, Zenon DEF Heads
<1>2. Len(head) = 1 /\ head[1] = "nohup" /\ 1 \in 1..1 /\ 1 + 1 = 2
  OBVIOUS
<1> HIDE DEF head
<1>3. /\ Lanes!From(new, 2) = argv /\ new \in Seq(STRING) /\ Len(new) = 1 + Len(argv)
      /\ Len(argv) \in Nat /\ 1 <= Len(argv) /\ new[1] = "nohup" /\ new[2] = argv[1]
  <2> DEFINE c == head \o argv
  <2>1. /\ Lanes!From(c, Len(head) + 1) = argv /\ c \in Seq(STRING) /\ Len(c) = Len(head) + Len(argv)
        /\ Len(argv) \in Nat /\ 1 <= Len(argv) /\ c[Len(head) + 1] = argv[1]
        /\ \A i \in 1..Len(head) : c[i] = head[i]
    BY <1>1, BehindHead DEF Opened
  <2>2. new = c
    BY DEF head
  <2> HIDE DEF c
  <2> QED
    BY <1>2, <2>1, <2>2, Zenon
<1>4. Lanes!AfterOptions(new, {}) = 2
  <2>1. PICK f : EndOfOptions(f, new, {}) /\ Lanes!AfterOptions(new, {}) = f[2]
    BY <1>3, OptionsEnd
  <2>2. new[2] # "--" /\ ~Lanes!IsOption(new[2])
    BY <1>3 DEF Opened, Openers, Lanes!IsOption
  <2>3. ~(2 > Len(new)) /\ 2 \in Nat
    BY <1>3
  <2> QED
    BY <2>1, <2>2, <2>3 DEF EndOfOptions
<1>5. Lanes!Wrapped(new) = argv
  BY <1>3, <1>4 DEF Lanes!Wrapped
<1>6. new # <<>>
  BY <1>3
<1> QED
  BY <1>3, <1>5, <1>6

\* `timeout` runs what stands behind its duration.
LEMMA TimeoutRuns ==
  ASSUME NEW argv, Opened(argv), NEW new, new = <<"timeout", "-k", "5", "9">> \o argv
  PROVE  new \in Seq(STRING) /\ new # <<>> /\ new[1] = "timeout" /\ Lanes!Wrapped(new) = argv
<1> DEFINE head == <<"timeout", "-k", "5", "9">>
<1>1. head \in Seq(STRING)
  BY HeadWords, Zenon DEF Heads
<1>2. /\ Len(head) = 4 /\ 1 \in 1..4 /\ 2 \in 1..4 /\ 4 \in 1..4 /\ 4 + 1 = 5
      /\ head[1] = "timeout" /\ head[2] = "-k" /\ head[4] = "9"
  OBVIOUS
<1>3. argv \in Seq(STRING) /\ argv # <<>> /\ new = head \o argv
  BY DEF Opened
<1> HIDE DEF head
<1>4. /\ Lanes!From(new, 5) = argv /\ new \in Seq(STRING) /\ Len(new) = 4 + Len(argv)
      /\ Len(argv) \in Nat /\ 1 <= Len(argv) /\ new[1] = "timeout" /\ new[2] = "-k" /\ new[4] = "9"
  <2>1. /\ Lanes!From(new, Len(head) + 1) = argv /\ new \in Seq(STRING) /\ Len(new) = Len(head) + Len(argv)
        /\ Len(argv) \in Nat /\ 1 <= Len(argv) /\ new[Len(head) + 1] = argv[1]
        /\ \A i \in 1..Len(head) : new[i] = head[i]
    <3> DEFINE c == head \o argv
    <3>1. /\ Lanes!From(c, Len(head) + 1) = argv /\ c \in Seq(STRING) /\ Len(c) = Len(head) + Len(argv)
          /\ Len(argv) \in Nat /\ 1 <= Len(argv) /\ c[Len(head) + 1] = argv[1]
          /\ \A i \in 1..Len(head) : c[i] = head[i]
      BY <1>1, <1>3, BehindHead
    <3>2. new = c
      BY <1>3
    <3> HIDE DEF c
    <3> QED
      BY <3>1, <3>2
  <2> QED
    BY <1>2, <2>1, Zenon
<1>5. Lanes!AfterOptions(new, {"-k", "-s"}) = 4
  <2>1. PICK f : EndOfOptions(f, new, {"-k", "-s"}) /\ Lanes!AfterOptions(new, {"-k", "-s"}) = f[2]
    BY <1>4, OptionsEnd
  <2>2. /\ new[2] # "--" /\ Lanes!IsOption(new[2]) /\ new[2] \in {"-k", "-s"}
        /\ new[4] # "--" /\ ~Lanes!IsOption(new[4])
    BY <1>4 DEF Lanes!IsOption
  <2>3. ~(2 > Len(new)) /\ ~(4 > Len(new)) /\ 2 \in Nat /\ 4 \in Nat /\ 2 + 2 = 4
    BY <1>4
  <2>4. f[4] = 4
    BY <2>1, <2>2, <2>3 DEF EndOfOptions
  <2>5. f[2] = f[4]
    BY <2>1, <2>2, <2>3 DEF EndOfOptions
  <2> QED
    BY <2>1, <2>4, <2>5
<1>6. Lanes!Wrapped(new) = argv
  <2>1. 4 + 1 = 5
    OBVIOUS
  <2> QED
    BY <1>4, <1>5, <2>1 DEF Lanes!Wrapped
<1>7. new # <<>>
  BY <1>4
<1> QED
  BY <1>4, <1>6, <1>7

\* `env` runs what stands behind its options and assignments.
LEMMA EnvRuns ==
  ASSUME NEW argv, Opened(argv), NEW new, new = <<"env", "-u", "x", "A=1">> \o argv
  PROVE  new \in Seq(STRING) /\ new # <<>> /\ new[1] = "env" /\ Lanes!Wrapped(new) = argv
<1> DEFINE head == <<"env", "-u", "x", "A=1">>
           t == Lanes!From(new, 2)
           u == Lanes!From(t, 3)
<1>1. head \in Seq(STRING)
  BY HeadWords, Zenon DEF Heads
<1>2. /\ Len(head) = 4 /\ 1 \in 1..4 /\ 2 \in 1..4 /\ 4 \in 1..4 /\ 4 + 1 = 5
      /\ head[1] = "env" /\ head[2] = "-u" /\ head[4] = "A=1"
  OBVIOUS
<1>3. argv \in Seq(STRING) /\ argv # <<>> /\ new = head \o argv
  BY DEF Opened
<1> HIDE DEF head
<1>4. /\ Lanes!From(new, 5) = argv /\ new \in Seq(STRING) /\ Len(new) = 4 + Len(argv)
      /\ Len(argv) \in Nat /\ 1 <= Len(argv) /\ new[1] = "env" /\ new[2] = "-u" /\ new[4] = "A=1"
      /\ new[5] = argv[1]
  <2>1. /\ Lanes!From(new, Len(head) + 1) = argv /\ new \in Seq(STRING) /\ Len(new) = Len(head) + Len(argv)
        /\ Len(argv) \in Nat /\ 1 <= Len(argv) /\ new[Len(head) + 1] = argv[1]
        /\ \A i \in 1..Len(head) : new[i] = head[i]
    <3> DEFINE c == head \o argv
    <3>1. /\ Lanes!From(c, Len(head) + 1) = argv /\ c \in Seq(STRING) /\ Len(c) = Len(head) + Len(argv)
          /\ Len(argv) \in Nat /\ 1 <= Len(argv) /\ c[Len(head) + 1] = argv[1]
          /\ \A i \in 1..Len(head) : c[i] = head[i]
      BY <1>1, <1>3, BehindHead
    <3>2. new = c
      BY <1>3
    <3> HIDE DEF c
    <3> QED
      BY <3>1, <3>2
  <2> QED
    BY <1>2, <2>1, Zenon
<1>5. new # <<>>
  BY <1>4
<1>6. \A a \in Seq(STRING) : \A i \in 1..Len(a) : /\ Lanes!From(a, i) \in Seq(STRING)
                                                /\ Len(Lanes!From(a, i)) = Len(a) - i + 1
                                                /\ \A k \in 1..(Len(a) - i + 1) : Lanes!From(a, i)[k] = a[i - 1 + k]
  BY Cut DEF Lanes!From
<1>7. /\ t \in Seq(STRING) /\ Len(t) = 3 + Len(argv) /\ t[1] = "-u"
      /\ \A k \in 1..(3 + Len(argv)) : t[k] = new[1 + k]
  <2>1. 2 \in 1..Len(new) /\ Len(new) - 2 + 1 = 3 + Len(argv) /\ 2 - 1 = 1 /\ 1 \in 1..(3 + Len(argv)) /\ 1 + 1 = 2
    BY <1>4
  <2>2. /\ t \in Seq(STRING) /\ Len(t) = Len(new) - 2 + 1
        /\ \A k \in 1..(Len(new) - 2 + 1) : t[k] = new[2 - 1 + k]
    BY <1>4, <1>6, <2>1
  <2> HIDE DEF t
  <2> QED
    BY <1>4, <2>1, <2>2
<1> HIDE DEF t
<1>8. /\ u \in Seq(STRING) /\ Len(u) = 1 + Len(argv) /\ u[1] = "A=1" /\ u[2] = argv[1]
      /\ \A k \in 1..(1 + Len(argv)) : u[k] = new[3 + k]
  <2>1. 3 \in 1..Len(t) /\ Len(t) - 3 + 1 = 1 + Len(argv) /\ 3 - 1 = 2 /\ 1 \in 1..(1 + Len(argv)) /\ 3 + 1 = 4
        /\ 2 \in 1..(1 + Len(argv)) /\ 3 + 2 = 5
    BY <1>4, <1>7
  <2>2. /\ u \in Seq(STRING) /\ Len(u) = Len(t) - 3 + 1
        /\ \A k \in 1..(Len(t) - 3 + 1) : u[k] = t[3 - 1 + k]
    BY <1>6, <1>7, <2>1
  <2> HIDE DEF u
  <2>3. \A k \in 1..(1 + Len(argv)) : 2 + k \in 1..(3 + Len(argv)) /\ 1 + (2 + k) = 3 + k
    BY <1>4
  <2>4. \A k \in 1..(1 + Len(argv)) : u[k] = new[3 + k]
    BY <1>7, <2>1, <2>2, <2>3
  <2> QED
    BY <1>4, <2>1, <2>2, <2>4
<1>9. Lanes!From(u, 2) = argv
  <2> DEFINE v == Lanes!From(u, 2)
  <2>1. 2 \in 1..Len(u) /\ Len(u) - 2 + 1 = Len(argv) /\ 2 - 1 = 1
    BY <1>4, <1>8
  <2> HIDE DEF u
  <2>2. /\ v \in Seq(STRING) /\ Len(v) = Len(argv)
        /\ \A k \in 1..Len(argv) : v[k] = u[1 + k]
    <3>1. /\ v \in Seq(STRING) /\ Len(v) = Len(u) - 2 + 1
          /\ \A k \in 1..(Len(u) - 2 + 1) : v[k] = u[2 - 1 + k]
      BY <1>6, <1>8, <2>1, Zenon
    <3> HIDE DEF v
    <3> QED
      BY <2>1, <3>1, Zenon
  <2>3. \A k \in 1..Len(argv) : k + 1 \in 1..(1 + Len(argv)) /\ 3 + (k + 1) = 4 + k /\ 1 + k = k + 1
    BY <1>4
  <2>4. \A k \in 1..Len(argv) : new[4 + k] = argv[k]
    BY <1>1, <1>2, <1>3, JoinedWords
  <2> HIDE DEF v
  <2>5. \A k \in 1..Len(argv) : v[k] = argv[k]
    <3> SUFFICES ASSUME NEW k \in 1..Len(argv) PROVE v[k] = argv[k]
      OBVIOUS
    <3>1. v[k] = u[k + 1] /\ k + 1 \in 1..(1 + Len(argv)) /\ 3 + (k + 1) = 4 + k
      BY <2>2, <2>3, Zenon
    <3>2. u[k + 1] = new[4 + k]
      BY <1>8, <3>1, Zenon
    <3> QED
      BY <2>4, <3>1, <3>2, Zenon
  <2>6. v = argv
    BY <1>3, <2>2, <2>5, SeqEqual
  <2> QED
    BY <2>6 DEF v
<1>10. Lanes!StripAssignments(u) = argv
  <2> HIDE DEF u
  <2> DEFINE rest == {i \in 1..Len(u) : u[i] # "A=1"}
             least == CHOOSE i \in rest : \A j \in rest : i <= j
  <2>1. u[2] # "A=1" /\ 2 \in 1..Len(u) /\ Len(u) \in Nat
    BY <1>4, <1>8 DEF Opened, Openers
  <2>2. 2 \in rest
    BY <2>1
  <2>3. \A j \in rest : j \in Nat /\ j # 1 /\ j # 0
    BY <1>8
  <2>4. \A i \in rest : i \in Nat
    BY <2>3
  <2> HIDE DEF rest
  <2>5. least = 2
    <3>1. \A j \in rest : 2 <= j
      BY <2>3
    <3>2. least \in rest /\ \A j \in rest : least <= j
      BY <2>2, <3>1
    <3> HIDE DEF least
    <3>3. least <= 2 /\ 2 <= least /\ least \in Nat
      BY <2>2, <2>3, <3>1, <3>2
    <3> QED
      BY <3>3
  <2>6. Lanes!StripAssignments(u) = Lanes!From(u, least)
    BY <2>2 DEF Lanes!StripAssignments, rest
  <2> QED
    BY <1>9, <2>5, <2>6
<1>11. Lanes!EnvCommand[u] = argv
  <2>1. u # <<>> /\ u[1] # "-S" /\ ~Lanes!IsOption(u[1]) /\ u[1] # "--"
    BY <1>4, <1>8 DEF Lanes!IsOption
  <2>2. Lanes!EnvCommand[u] = EnvStep(Lanes!EnvCommand, u)
    BY <1>8, EnvFinds
  <2> HIDE DEF u
  <2> QED
    BY <1>10, <2>1, <2>2, Zenon DEF EnvStep
<1>12. Lanes!EnvCommand[t] = Lanes!EnvCommand[u]
  <2>1. t # <<>> /\ t[1] # "-S" /\ Lanes!IsOption(t[1]) /\ t[1] \in {"-u", "-a"}
    BY <1>4, <1>7 DEF Lanes!IsOption
  <2>2. Lanes!EnvCommand[t] = EnvStep(Lanes!EnvCommand, t)
    BY <1>7, EnvFinds
  <2> QED
    BY <2>1, <2>2, Zenon DEF EnvStep
<1>13. Lanes!Wrapped(new) = Lanes!EnvCommand[t]
  <2>1. Tail(new) = t
    BY <1>4, <1>5, EnvSmaller DEF t
  <2> QED
    BY <1>4, <2>1 DEF Lanes!Wrapped
<1> QED
  BY <1>4, <1>5, <1>11, <1>12, <1>13

\* What is found in one command alone is found in the row of it.
LEMMA EachOne ==
  ASSUME NEW f, NEW argv, NEW ctx, NEW R, f[<<argv, ctx>>] \in Seq(R)
  PROVE  Each(f, <<argv>>, ctx) = f[<<argv, ctx>>]
<1> DEFINE e == f[<<argv, ctx>>]
           V == Seq(R)
           ss == [k \in 1..Len(<<argv>>) |-> f[<<(<<argv>>)[k], ctx>>]]
<1>1. Len(<<argv>>) = 1 /\ \A k \in 1..1 : <<argv>>[k] = argv
  OBVIOUS
<1>2. ss = [k \in 1..1 |-> e]
  BY <1>1
<1>3. ss \in Seq(V) /\ Len(ss) = 1 /\ ss[1] = e
  <2>1. e \in V
    OBVIOUS
  <2> HIDE DEF ss, e, V
  <2>2. ss \in [1..1 -> V] /\ 1 \in Nat
    BY <1>2, <2>1
  <2>3. ss \in Seq(V) /\ Len(ss) = 1
    <3> DEFINE m == 1
    <3>1. ss \in [1..m -> V] /\ m \in Nat
      BY <2>2
    <3> HIDE DEF m
    <3>2. ss \in Seq(V) /\ Len(ss) = m
      BY <3>1
    <3> QED
      BY <3>2 DEF m
  <2> QED
    BY <1>2, <2>3
<1> HIDE DEF ss
<1>4. Lanes!FlattenSeq(ss) = ss[1]
  BY <1>3, Flat
<1> QED
  BY <1>3, <1>4 DEF Each, ss

\* `sh -c` runs the one command of its text.
LEMMA ShellRuns ==
  ASSUME NEW argv, Opened(argv), NEW w \in DOMAIN Body, Body[w] = <<argv>>,
         NEW new, new = <<"sh", "-c", w>>
  PROVE  /\ new \in Seq(STRING) /\ new # <<>> /\ new[1] = "sh"
         /\ Lanes!HasProgram(new, Lanes!ShellEnd(new, {"-O"}))
         /\ Lanes!ProgramAfter(new, Lanes!ShellEnd(new, {"-O"})) = <<argv>>
<1>1. new \in Seq(STRING)
  <2>1. w \in STRING
    BY TextsAssumption, Zenon
  <2>2. \A S : \A a, b, c \in S : <<a, b, c>> \in Seq(S)
    OBVIOUS
  <2> QED
    BY <2>1, <2>2, HeadWords, Zenon
<1>2. Len(new) = 3 /\ new[1] = "sh" /\ new[2] = "-c" /\ new[3] = w /\ new # <<>>
  OBVIOUS
<1>3. Lanes!ShellEnd(new, {"-O"}) = 2
  <2>1. PICK f : EndForShell(f, new, {"-O"}) /\ Lanes!ShellEnd(new, {"-O"}) = f[2]
    BY <1>1, ShellOptionsEnd
  <2>2. f[2] = 2
    BY <1>2, <2>1 DEF EndForShell
  <2> QED
    BY <2>1, <2>2
<1>4. Lanes!HasProgram(new, 2)
  BY <1>2 DEF Lanes!HasProgram
<1>5. Lanes!ProgramAfter(new, 2) = Lanes!Text(w)
  <2>1. 2 # Len(new) /\ new[2 + 1] = w
    BY <1>2
  <2> QED
    BY <2>1, Zenon DEF Lanes!ProgramAfter
<1>6. Lanes!Text(w) = <<argv>>
  BY Zenon DEF Lanes!Text
<1> QED
  BY <1>1, <1>2, <1>3, <1>4, <1>5, <1>6, Zenon

\* `find` runs what stands between -exec and the end of the action.
LEMMA FindRuns ==
  ASSUME NEW argv, Opened(argv), \A k \in 1..Len(argv) : argv[k] # EndWord,
         NEW new, new = (<<"find", "-exec">> \o argv) \o <<EndWord>>
  PROVE  new \in Seq(STRING) /\ new # <<>> /\ new[1] = "find" /\ Lanes!FindExecs(new) = <<argv>>
<1> DEFINE head == <<"find", "-exec">>
           n == Len(argv)
           c == head \o argv
           tail == <<EndWord>>
<1>1. head \in Seq(STRING) /\ tail \in Seq(STRING)
  BY HeadWords, Zenon DEF EndWord
<1>2. Len(head) = 2 /\ head[1] = "find" /\ head[2] = "-exec" /\ 1 \in 1..2 /\ 2 \in 1..2
  OBVIOUS
<1>3. Len(tail) = 1 /\ tail[1] = EndWord /\ 1 \in 1..1
  OBVIOUS
<1>4. argv \in Seq(STRING) /\ argv # <<>> /\ new = c \o tail
  BY DEF Opened
<1> HIDE DEF head, tail
<1>5. /\ Lanes!From(c, Len(head) + 1) = argv /\ c \in Seq(STRING) /\ Len(c) = Len(head) + n
      /\ n \in Nat /\ 1 <= n
      /\ \A i \in 1..Len(head) : c[i] = head[i]
  BY <1>1, <1>4, BehindHead
<1>6. \A i \in 1..n : c[Len(head) + i] = argv[i]
  BY <1>1, <1>4, JoinedWords
<1> HIDE DEF c
<1>7. /\ new \in Seq(STRING) /\ Len(new) = Len(c) + Len(tail)
      /\ \A i \in 1..Len(c) : new[i] = c[i]
      /\ \A i \in 1..Len(tail) : new[Len(c) + i] = tail[i]
  <2> DEFINE d == c \o tail
  <2>1. /\ d \in Seq(STRING) /\ Len(d) = Len(c) + Len(tail)
        /\ \A i \in 1..Len(c) : d[i] = c[i]
        /\ \A i \in 1..Len(tail) : d[Len(c) + i] = tail[i]
    BY <1>1, <1>5, JoinedWords
  <2>2. new = d
    BY <1>4
  <2> HIDE DEF d
  <2> QED
    BY <2>1, <2>2
<1> HIDE DEF n
<1>8. /\ Len(c) = 2 + n /\ Len(new) = 3 + n /\ 2 + 1 = 3 /\ (2 + n) + 1 = 3 + n
      /\ 1 \in 1..(2 + n) /\ 2 \in 1..(2 + n) /\ 3 \in 1..(2 + n) /\ 2 + n \in 1..(2 + n)
      /\ (3 + n) - 1 = 2 + n /\ 3 + n # 3 /\ 3 + n \in 3..(3 + n) /\ 3 + n \in Nat
      /\ ~(2 > 3 + n) /\ (3 + n) + 1 > 3 + n /\ (3 + n) + 1 \in Nat /\ 2 \in Nat
  <2>1. Len(c) = 2 + n /\ Len(new) = (2 + n) + 1
    BY <1>2, <1>3, <1>5, <1>7, Zenon
  <2> QED
    BY <1>5, <2>1
<1>9. new[1] = "find" /\ new[2] = "-exec" /\ new[3 + n] = EndWord
  <2>1. \A i \in 1..2 : i \in 1..(2 + n) /\ c[i] = head[i]
    <3>1. \A i \in 1..2 : i \in 1..(2 + n)
      BY <1>5
    <3> QED
      BY <1>2, <1>5, <3>1, Zenon
  <2>2. new[1] = c[1] /\ new[2] = c[2]
    BY <1>2, <1>7, <1>8, Zenon
  <2>3. new[(2 + n) + 1] = tail[1]
    BY <1>3, <1>7, <1>8, Zenon
  <2> QED
    BY <1>2, <1>3, <1>8, <2>1, <2>2, <2>3, Zenon
<1>10. \A j \in 3..(3 + n) : j # 3 + n => new[j] # EndWord
  <2> SUFFICES ASSUME NEW j \in 3..(3 + n), j # 3 + n PROVE new[j] # EndWord
    OBVIOUS
  <2>1. j - 2 \in 1..n /\ 2 + (j - 2) = j /\ j \in 1..(2 + n)
    BY <1>5
  <2>2. c[2 + (j - 2)] = argv[j - 2]
    BY <1>2, <1>6, <2>1, Zenon
  <2>3. new[j] = argv[j - 2]
    BY <1>7, <1>8, <2>1, <2>2, Zenon
  <2> QED
    BY <2>1, <2>3, Zenon DEF n
<1>11. ActionEnds(new, 2) = {3 + n}
  <2>1. ActionEnds(new, 2) = {j \in 3..(3 + n) : new[j] = EndWord}
    BY <1>8, Zenon DEF ActionEnds
  <2> QED
    BY <1>8, <1>9, <1>10, <2>1, Zenon
<1>12. ActionEnd(new, 2) = 3 + n
  <2>1. ActionEnds(new, 2) # {}
    BY <1>11
  <2>2. (3 + n) <= (3 + n)
    BY <1>8
  <2> DEFINE m == 3 + n
  <2>3. ActionEnds(new, 2) = {m} /\ m <= m
    BY <1>11, <2>2
  <2> HIDE DEF m
  <2>4. ActionEnd(new, 2) = m
    BY <2>3 DEF ActionEnd
  <2> QED
    BY <2>4 DEF m
<1>13. SubSeq(new, 3, 2 + n) = argv
  <2>1. SubSeq(c \o tail, 3, 2 + n) = SubSeq(c, 3, 2 + n)
    <3>1. 3 \in 1..Len(c) /\ 2 + n \in 1..Len(c)
      BY <1>8
    <3> QED
      BY <1>1, <1>5, <3>1, SubSeqOfConcat1, Zenon
  <2>2. SubSeq(c, 3, 2 + n) = argv
    BY <1>2, <1>5, <1>8, Zenon DEF Lanes!From
  <2> QED
    BY <1>4, <2>1, <2>2, Zenon
<1>14. PICK f : Actions(f, new) /\ Lanes!FindExecs(new) = f[2]
  BY <1>7, ActionsFound
<1>15. f[(3 + n) + 1] = <<>>
  <2>1. f[(3 + n) + 1] = Action(f, new, (3 + n) + 1)
    BY <1>8, <1>14, Zenon DEF Actions
  <2> QED
    BY <1>8, <2>1, Zenon DEF Action
<1>16. f[2] = <<argv>> \o f[(3 + n) + 1]
  <2>1. f[2] = Action(f, new, 2)
    BY <1>8, <1>14, Zenon DEF Actions
  <2>2. ActionEnds(new, 2) # {}
    BY <1>11
  <2> QED
    BY <1>8, <1>9, <1>12, <1>13, <2>1, <2>2, Zenon DEF Action
<1>17. <<argv>> \o <<>> = <<argv>>
  <2>1. \A S : \A e \in S : <<e>> \o <<>> = <<e>>
    OBVIOUS
  <2> QED
    BY <1>4, <2>1, Zenon
<1>18. new # <<>>
  <2>1. 3 + n # 0
    BY <1>5
  <2> QED
    BY <1>8, <2>1
<1> QED
  BY <1>7, <1>9, <1>14, <1>15, <1>16, <1>17, <1>18, Zenon

\* What runs in the end is the same however a command is started, but that a shell or
\* a wrapper may stand around it.
LEMMA LeavesKept ==
  ASSUME NEW argv, Opened(argv), NEW new \in Lanes!Respelled(argv, FALSE),
         NEW ctx \in {"no", "shell"}
  PROVE  new \in Seq(STRING) /\ Lanes!Leaves(new, ctx) \in {Lanes!Leaves(argv, "no"), Lanes!Leaves(argv, "shell")}
<1>1. PICK f : FindsLeaves(f)
  BY LeavesFound
<1>2. "no" \in Lanes!Contexts /\ "shell" \in Lanes!Contexts /\ ctx \in Lanes!Contexts
  BY DEF Lanes!Contexts
<1>3. argv \in Seq(STRING) /\ argv # <<>>
  BY DEF Opened
<1>4. \A x \in Lanes!Contexts : /\ Lanes!Leaves(argv, x) = f[<<argv, x>>]
                                /\ f[<<argv, x>>] \in Seq(LeavesOf(argv))
  BY <1>1, <1>3 DEF FindsLeaves
<1>5. ASSUME new \in Seq(STRING)
      PROVE  Lanes!Leaves(new, ctx) = LeafStep(f, new, ctx)
  BY <1>1, <1>2, <1>5 DEF FindsLeaves
<1>6. ASSUME new \in Seq(STRING), new # <<>>, new[1] \in {"nohup", "timeout", "env"}, Lanes!Wrapped(new) = argv
      PROVE  Lanes!Leaves(new, ctx) = Lanes!Leaves(argv, "no")
  <2>1. /\ new[1] # "A=1" /\ new[1] # "find" /\ Lanes!IsWrapper(new, ctx)
        /\ Lanes!NestedContext(new, ctx) = "no"
    BY <1>6 DEF Lanes!IsWrapper, Lanes!NestedContext
  <2>2. LeafStep(f, new, ctx) = f[<<argv, "no">>]
    BY <1>6, <2>1, Zenon DEF LeafStep
  <2> QED
    BY <1>2, <1>4, <1>5, <1>6, <2>2, Zenon
<1>7. ASSUME NEW w \in DOMAIN Body, Body[w] = <<argv>>, new = <<"sh", "-c", w>>
      PROVE  new \in Seq(STRING) /\ Lanes!Leaves(new, ctx) = Lanes!Leaves(argv, "shell")
  <2>1. /\ new \in Seq(STRING) /\ new # <<>> /\ new[1] = "sh"
        /\ Lanes!HasProgram(new, Lanes!ShellEnd(new, {"-O"}))
        /\ Lanes!ProgramAfter(new, Lanes!ShellEnd(new, {"-O"})) = <<argv>>
    BY <1>7, ShellRuns
  <2>2. new[1] # "A=1" /\ new[1] # "find" /\ ~Lanes!IsWrapper(new, ctx)
    BY <2>1 DEF Lanes!IsWrapper
  <2>3. LeafStep(f, new, ctx) = Each(f, <<argv>>, "shell")
    BY <2>1, <2>2, Zenon DEF LeafStep
  <2>4. Each(f, <<argv>>, "shell") = f[<<argv, "shell">>]
    BY <1>2, <1>4, EachOne
  <2> QED
    BY <1>2, <1>4, <1>5, <2>1, <2>3, <2>4, Zenon
<1>8. ASSUME \A k \in 1..Len(argv) : argv[k] # EndWord, new = (<<"find", "-exec">> \o argv) \o <<EndWord>>
      PROVE  new \in Seq(STRING) /\ Lanes!Leaves(new, ctx) = Lanes!Leaves(argv, "no")
  <2>1. new \in Seq(STRING) /\ new # <<>> /\ new[1] = "find" /\ Lanes!FindExecs(new) = <<argv>>
    BY <1>8, FindRuns
  <2>2. new[1] # "A=1"
    BY <2>1
  <2>3. LeafStep(f, new, ctx) = Each(f, <<argv>>, "no")
    BY <2>1, <2>2, Zenon DEF LeafStep
  <2>4. Each(f, <<argv>>, "no") = f[<<argv, "no">>]
    BY <1>2, <1>4, EachOne
  <2> QED
    BY <1>2, <1>4, <1>5, <2>1, <2>3, <2>4, Zenon
<1>9. \/ new = <<"nohup">> \o argv \/ new = <<"timeout", "-k", "5", "9">> \o argv
      \/ new = <<"env", "-u", "x", "A=1">> \o argv
      \/ \E w \in DOMAIN Body : Body[w] = <<argv>> /\ new = <<"sh", "-c", w>>
      \/ (\A k \in 1..Len(argv) : argv[k] # EndWord) /\ new = (<<"find", "-exec">> \o argv) \o <<EndWord>>
  BY Zenon DEF Lanes!Respelled, EndWord
<1>10. new \in Seq(STRING)
  BY <1>3, RespelledWords
<1>11. Lanes!Leaves(new, ctx) = Lanes!Leaves(argv, "no") \/ Lanes!Leaves(new, ctx) = Lanes!Leaves(argv, "shell")
  <2>1. CASE new = <<"nohup">> \o argv
    BY <1>6, <2>1, NohupRuns
  <2>2. CASE new = <<"timeout", "-k", "5", "9">> \o argv
    BY <1>6, <2>2, TimeoutRuns
  <2>3. CASE new = <<"env", "-u", "x", "A=1">> \o argv
    BY <1>6, <2>3, EnvRuns
  <2> QED
    BY <1>7, <1>8, <1>9, <2>1, <2>2, <2>3, Zenon
<1> QED
  BY <1>10, <1>11

\* A tool that starts another is judged by what runs in the end, whether a shell reads
\* its name or not.
LEMMA HazardAnywhere ==
  ASSUME NEW argv, Opened(argv)
  PROVE  Lanes!Hazardous(argv, "no") = Lanes!Hazardous(argv, "shell")
<1>1. PICK f : FindsLeaves(f)
  BY LeavesFound
<1>2. PICK h : FindsHazards(h)
  BY HazardsFound
<1>3. "no" \in Lanes!Contexts /\ "shell" \in Lanes!Contexts
  BY DEF Lanes!Contexts
<1>4. /\ argv \in Seq(STRING) /\ argv # <<>>
      /\ argv[1] \in {"curl", "rm", "cat", "sh", "find", "nohup", "timeout", "env"}
  BY DEF Opened, Openers
<1>5. \A x \in Lanes!Contexts : /\ Lanes!Leaves(argv, x) = LeafStep(f, argv, x)
                                /\ Lanes!Hazardous(argv, x) = HazardStep(h, argv, x)
  BY <1>1, <1>2, <1>4 DEF FindsLeaves, FindsHazards
<1>6. /\ argv[1] # "A=1"
      /\ Lanes!IsWrapper(argv, "no") <=> Lanes!IsWrapper(argv, "shell")
      /\ Lanes!NestedContext(argv, "no") = Lanes!NestedContext(argv, "shell")
      /\ argv[1] # "eval" /\ argv[1] # "trap"
  BY <1>4 DEF Lanes!IsWrapper, Lanes!NestedContext
<1> DEFINE end == Lanes!ShellEnd(argv, {"-O"})
           Self(x) == <<[argv |-> argv, ctx |-> x]>>
           Outer == argv[1] = "find" \/ Lanes!IsWrapper(argv, "shell") \/ (argv[1] = "sh" /\ Lanes!HasProgram(argv, end))
<1>7. CASE Outer
  <2>1. LeafStep(f, argv, "no") = LeafStep(f, argv, "shell")
    BY <1>4, <1>6, <1>7, Zenon DEF LeafStep
  <2> QED
    BY <1>3, <1>5, <2>1, Zenon DEF HazardStep
<1>8. CASE ~Outer
  <2>1. \A x \in {"no", "shell"} : LeafStep(f, argv, x) = Self(x)
    BY <1>4, <1>6, <1>8, Zenon DEF LeafStep
  <2>2. \A x : Lanes!ToSet(Self(x)) = {[argv |-> argv, ctx |-> x]}
    BY DEF Lanes!ToSet
  <2>3. \A x \in {"no", "shell"} : Lanes!Hazardous(argv, x) = Bad(h, [argv |-> argv, ctx |-> x])
    <3> SUFFICES ASSUME NEW x \in {"no", "shell"}
                 PROVE  Lanes!Hazardous(argv, x) = Bad(h, [argv |-> argv, ctx |-> x])
      OBVIOUS
    <3>1. Lanes!ToSet(Lanes!Leaves(argv, x)) = {[argv |-> argv, ctx |-> x]}
      BY <1>3, <1>5, <2>1, <2>2, Zenon
    <3>2. Lanes!Hazardous(argv, x) = HazardStep(h, argv, x)
      BY <1>3, <1>5, Zenon
    <3>3. HazardStep(h, argv, x) <=> Bad(h, [argv |-> argv, ctx |-> x])
      BY <3>1, Zenon DEF HazardStep
    <3> QED
      BY <3>2, <3>3, Zenon DEF HazardStep, Bad
  <2>4. Bad(h, [argv |-> argv, ctx |-> "no"]) <=> Bad(h, [argv |-> argv, ctx |-> "shell"])
    <3>1. \A x : [argv |-> argv, ctx |-> x].argv = argv
      OBVIOUS
    <3> QED
      BY <1>6, <3>1, Zenon DEF Bad
  <2>5. /\ Lanes!Hazardous(argv, "no") = Bad(h, [argv |-> argv, ctx |-> "no"])
        /\ Lanes!Hazardous(argv, "shell") = Bad(h, [argv |-> argv, ctx |-> "shell"])
    BY <2>3, Zenon
  <2>6. Bad(h, [argv |-> argv, ctx |-> "no"]) = Bad(h, [argv |-> argv, ctx |-> "shell"])
    BY <2>4, Zenon DEF Bad
  <2> HIDE DEF Outer
  <2> QED
    BY <2>5, <2>6, Zenon
<1> QED
  BY <1>7, <1>8

\* Another way to run a command is refused exactly if the command is.
LEMMA HazardKept ==
  ASSUME NEW argv \in Seq(STRING), NEW new \in Lanes!Respelled(argv, FALSE), NEW ctx \in {"no", "shell"}
  PROVE  Lanes!Hazardous(new, ctx) = Lanes!Hazardous(argv, ctx)
<1>1. PICK h : FindsHazards(h)
  BY HazardsFound
<1>2. "no" \in Lanes!Contexts /\ "shell" \in Lanes!Contexts /\ ctx \in Lanes!Contexts
  BY DEF Lanes!Contexts
<1>3. Opened(argv)
  BY Zenon DEF Lanes!Respelled, Opened, Openers
<1>4. /\ new \in Seq(STRING)
      /\ Lanes!Leaves(new, ctx) \in {Lanes!Leaves(argv, "no"), Lanes!Leaves(argv, "shell")}
  BY <1>3, LeavesKept
<1>5. /\ Lanes!Hazardous(new, ctx) = HazardStep(h, new, ctx)
      /\ \A x \in Lanes!Contexts : Lanes!Hazardous(argv, x) = HazardStep(h, argv, x)
  BY <1>1, <1>2, <1>4 DEF FindsHazards
<1>6. \A x : Lanes!Leaves(new, ctx) = Lanes!Leaves(argv, x) => HazardStep(h, new, ctx) = HazardStep(h, argv, x)
  BY Zenon DEF HazardStep
<1>7. Lanes!Hazardous(new, ctx) \in {Lanes!Hazardous(argv, "no"), Lanes!Hazardous(argv, "shell")}
  BY <1>2, <1>4, <1>5, <1>6, Zenon
<1>8. Lanes!Hazardous(argv, "no") = Lanes!Hazardous(argv, "shell")
  BY <1>3, HazardAnywhere
<1> QED
  BY <1>7, <1>8

\* Without redirections no text is executed but what stands in the commands.
LEMMA NothingExecuted ==
  ASSUME NEW ls, NEW group, ~group.is, \A j \in 1..Len(ls) : ls[j].redirs = <<>>
  PROVE  Lanes!Executable(ls, group) = {}
<1>1. \A s \in (1..Len(ls)) \X (1..2) : ~(s[2] <= Len(ls[s[1]].redirs))
  <2> SUFFICES ASSUME NEW s \in (1..Len(ls)) \X (1..2)
               PROVE  ~(s[2] <= Len(ls[s[1]].redirs))
    OBVIOUS
  <2>1. s[1] \in 1..Len(ls) /\ s[2] \in 1..2
    OBVIOUS
  <2>2. ls[s[1]].redirs = <<>> /\ Len(<<>>) = 0
    BY <2>1
  <2> QED
    BY <2>1, <2>2
<1> QED
  BY <1>1, Zenon DEF Lanes!Executable

\* Statements are refused for the commands in them alone.
Refused(ls) ==
  \E j \in 1..Len(ls) :
    CASE ls[j].of = "command" -> Lanes!Hazardous(ls[j].argv, "shell")
      [] ls[j].of = "call" -> ls[j].shell \/ Lanes!Hazardous(ls[j].argv, "no")
      [] ls[j].of = "import" -> ls[j].net
      [] ls[j].of = "rmtree" -> ls[j].path = "loose"

\* A gate that reads statements without redirections answers the same to a command
\* told in another way.
LEMMA RespelledVerdict ==
  ASSUME GateInv, Respell, gate \in {"commands", "launchers"}
  PROVE  exit' = exit
<1>1. gate' = gate /\ world' = world /\ exit' = RunGate(gate, lines', world)
  BY DEF Respell, Reruns
<1>2. /\ lines \in Seq(LineOf(gate)) /\ exit = RunGate(gate, lines, world)
      /\ ~world.group.is
  <2>1. gate \in TypedGates /\ gate \notin {"coupling", "tornado", "cost"}
    BY DEF TypedGates
  <2>2. world \in Worlds[gate]
    BY <2>1 DEF GateInv
  <2> QED
    BY <2>1, <2>2, WorldsAssumption DEF GateInv
<1>3. PICK i \in 1..Len(lines) :
        /\ lines[i].of \in {"command", "call"}
        /\ \E argv \in Lanes!Respelled(lines[i].argv, FALSE) : lines' = [lines EXCEPT ![i].argv = argv]
  BY DEF Respell
<1>4. PICK new \in Lanes!Respelled(lines[i].argv, FALSE) : lines' = [lines EXCEPT ![i].argv = new]
  BY <1>3
<1> DEFINE ls == lines
           ms == lines'
           line == ls[i]
           n == Len(ls)
           e == [line EXCEPT !.argv = new]
<1>5. n \in Nat /\ DOMAIN ls = 1..n /\ \A j \in 1..n : ls[j] \in LineOf(gate)
  BY <1>2, ElementOfSeq
<1>6. e \in LineOf(gate)
  BY <1>3, <1>4, <1>5, RespelledLine DEF LaneGates
<1>7. /\ Len(ms) = n /\ ms[i] = e /\ \A j \in 1..n : j # i => ms[j] = ls[j]
  <2>1. ms = [ls EXCEPT ![i] = e]
    BY <1>4
  <2> HIDE DEF e
  <2>2. ms[i] = e /\ \A j \in 1..n : j # i => ms[j] = ls[j]
    BY <1>5, <2>1
  <2>3. Len(ms) = n
    BY <1>2, <1>6, <2>1, ExceptSeq
  <2> QED
    BY <2>2, <2>3
<1>8. /\ e.of = line.of /\ e.argv = new /\ (line.of = "call" => e.shell = line.shell)
      /\ line.argv \in Seq(STRING)
  <2>1. CASE gate = "launchers"
    BY <1>3, <1>5, <2>1 DEF LineOf, Lanes!LauncherLine
  <2>2. CASE gate = "commands"
    BY <1>5, <2>2, Zenon DEF LineOf, Lanes!CommandLine
  <2> QED
    BY <2>1, <2>2
<1> HIDE DEF e, ms, line, n
<1>9. \A x \in {"no", "shell"} : Lanes!Hazardous(new, x) = Lanes!Hazardous(line.argv, x)
  BY <1>4, <1>8, HazardKept DEF line
<1>10. Refused(ms) <=> Refused(ls)
  <2>1. ASSUME NEW j \in 1..n
        PROVE  /\ ms[j].of = ls[j].of
               /\ ls[j].of = "command" => Lanes!Hazardous(ms[j].argv, "shell") = Lanes!Hazardous(ls[j].argv, "shell")
               /\ ls[j].of = "call" => /\ Lanes!Hazardous(ms[j].argv, "no") = Lanes!Hazardous(ls[j].argv, "no")
                                       /\ ms[j].shell = ls[j].shell
               /\ ls[j].of = "import" => ms[j].net = ls[j].net
               /\ ls[j].of = "rmtree" => ms[j].path = ls[j].path
               /\ ls[j].of \in {"command", "call", "import", "rmtree"}
    <3>1. ls[j].of \in {"command", "call", "import", "rmtree"}
      BY <1>5, Zenon DEF LineOf, Lanes!LauncherLine, Lanes!CommandLine
    <3>2. CASE j = i
      <4>1. ms[j] = e /\ ls[j] = line
        BY <1>7, <3>2 DEF line
      <4>2. line.of \in {"command", "call"}
        BY <1>3 DEF line
      <4> QED
        BY <1>8, <1>9, <3>1, <4>1, <4>2
    <3>3. CASE j # i
      BY <1>7, <3>1, <3>3
    <3> QED
      BY <3>2, <3>3
  <2> QED
    BY <1>7, <2>1, Zenon DEF Refused, n
<1>11. Lanes!Breaches(ms, world.group) <=> Lanes!Breaches(ls, world.group)
  <2>1. CASE gate = "commands"
    <3>1. \A j \in 1..Len(ls) : ls[j].redirs = <<>>
      BY <1>5, <2>1 DEF LineOf, n
    <3>2. e.redirs = <<>>
      BY <1>6, <2>1 DEF LineOf
    <3>3. \A j \in 1..Len(ms) : ms[j].redirs = <<>>
      BY <1>7, <3>1, <3>2 DEF n
    <3>4. Lanes!Executable(ls, world.group) = {} /\ Lanes!Executable(ms, world.group) = {}
      BY <1>2, <3>1, <3>3, NothingExecuted
    <3> QED
      BY <1>10, <3>4, Zenon DEF Lanes!Breaches, Refused
  <2>2. CASE gate = "launchers"
    <3>1. ls[i].of # "command" /\ i \in 1..Len(ls)
      BY <1>3, <1>5, <2>2 DEF LineOf, Lanes!LauncherLine, n
    <3>2. ms[i].of # "command" /\ i \in 1..Len(ms)
      BY <1>3, <1>7, <1>8, <3>1 DEF line, n
    <3> QED
      BY <1>10, <3>1, <3>2, Zenon DEF Lanes!Breaches, Refused
  <2> QED
    BY <2>1, <2>2
<1>12. RunGate(gate, ms, world) = Lanes!Exit(ms, world) /\ RunGate(gate, ls, world) = Lanes!Exit(ls, world)
  BY Zenon DEF RunGate, LaneGates
<1>13. Lanes!Exit(ms, world) = Lanes!Exit(ls, world)
  BY <1>11, Zenon DEF Lanes!Exit
<1> QED
  BY <1>1, <1>2, <1>12, <1>13 DEF ms

\* A history exported in the other order, an assertion on what was given a name first
\* (no call's result and no other name) and a command run through a wrapper, by `find` or
\* by a shell, where no redirection is read, get the verdict of before: three of the
\* steps of SameFactsSameVerdict.
THEOREM RetoldTheSame ==
  Spec => [][\/ Turn
             \/ \E v \in Scans!Value : v.is \notin {"call", "name"} /\ Hoist(v)
             \/ Respell /\ gate \in {"commands", "launchers"}
             => exit' = exit]_vars
<1>1. ASSUME GateInv, [Next]_vars
      PROVE  [\/ Turn
              \/ \E v \in Scans!Value : v.is \notin {"call", "name"} /\ Hoist(v)
              \/ Respell /\ gate \in {"commands", "launchers"}
              => exit' = exit]_vars
  BY <1>1, TurnedVerdict, HoistedVerdict, RespelledVerdict
<1> QED
  BY <1>1, AnswersWhatItReads, PTL DEF Spec

=============================================================================
