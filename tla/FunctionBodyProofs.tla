------------------------- MODULE FunctionBodyProofs -------------------------
(***************************************************************************)
(* Proofs about module FunctionBody: a function that either walker accepts *)
(* returns, on every path, the value of its term.                          *)
(***************************************************************************)
EXTENDS FunctionBody, WellFoundedInduction, TLAPS

-----------------------------------------------------------------------------
(* Induction and recursion.                                                *)

\* A set of natural numbers that is not empty has a least member.
LEMMA LeastNat ==
    ASSUME NEW T \in SUBSET Nat, T # {}
    PROVE  \E m \in T : \A n \in T : m <= n
  <1> DEFINE R == OpToRel(<, Nat)
  <1>1. IsWellFoundedOn(R, Nat)
    BY NatLessThanWellFounded
  <1>2. \A a, b \in Nat : <<a, b>> \in R <=> a < b
    BY DEF OpToRel
  <1> HIDE DEF R
  <1>3. PICK m \in T : \A n \in T : ~(<<n, m>> \in R)
    BY <1>1, WFMin
  <1>4. m \in Nat /\ \A n \in T : n \in Nat
    OBVIOUS
  <1>5. ASSUME NEW n \in T PROVE m <= n
    <2>1. ~(n < m)
      BY <1>2, <1>3, <1>4, Zenon
    <2> QED
      BY <1>4, <2>1
  <1> QED
    BY <1>5

\* Induction on a size: a set that holds whatever has all smaller things in it holds everything.
LEMMA SizeInduction ==
    ASSUME NEW D, NEW size, \A a \in D : size[a] \in Nat, NEW T,
           \A a \in D : (\A b \in D : size[b] < size[a] => b \in T) => a \in T
    PROVE  \A a \in D : a \in T
  <1> SUFFICES ASSUME NEW a \in D, a \notin T PROVE FALSE
    OBVIOUS
  <1> DEFINE S == {size[b] : b \in D \ T}
  <1>1. S \in SUBSET Nat /\ S # {}
    OBVIOUS
  <1>2. PICK m \in S : \A n \in S : m <= n
    BY <1>1, LeastNat
  <1>3. PICK b \in D \ T : m = size[b]
    OBVIOUS
  <1>4. \A c \in D : size[c] < size[b] => c \in T
    BY <1>2, <1>3, SMTT(30)
  <1> QED
    BY <1>3, <1>4

\* Induction, for a set: one that holds 0 and, with a number, the next, holds every number.
LEMMA SetInduction ==
    ASSUME NEW T, 0 \in T, \A n \in Nat : n \in T => n + 1 \in T
    PROVE  \A n \in Nat : n \in T
  <1> SUFFICES ASSUME NEW k \in Nat, k \notin T PROVE FALSE
    OBVIOUS
  <1>1. PICK m \in Nat \ T : \A n \in Nat \ T : m <= n
    BY LeastNat
  <1>2. m # 0 /\ m - 1 \in Nat
    OBVIOUS
  <1>3. m - 1 \in T
    BY <1>1, <1>2
  <1> QED
    BY <1>2, <1>3

(***************************************************************************)
(* Recursion on a bounded size: a rule H, which makes the value at a of a  *)
(* function f from the values of f at smaller places, has a function that  *)
(* obeys it.                                                               *)
(***************************************************************************)
Typed(H, D, R) == \A a \in D : \A f \in [D -> R] : H[<<a, f>>] \in R

Local(H, D, R, size) ==
    \A a \in D : \A f, g \in [D -> R] :
       (\A b \in D : size[b] < size[a] => f[b] = g[b]) => H[<<a, f>>] = H[<<a, g>>]

RuleOn(D, R, size, H) ==
    /\ R # {}
    /\ \A a \in D : size[a] \in 0..MaxSize
    /\ Typed(H, D, R)
    /\ Local(H, D, R, size)

\* There is such a function.
LEMMA Recursion ==
    ASSUME NEW D, NEW R, NEW size, NEW H, RuleOn(D, R, size, H)
    PROVE  \E f \in [D -> R] : \A a \in D : f[a] = H[<<a, f>>]
  <1> DEFINE Good(f, n) == \A a \in D : size[a] < n => f[a] = H[<<a, f>>]
             T == {n \in Nat : \E f \in [D -> R] : Good(f, n)}
  <1> USE DEF RuleOn, Typed, Local
  <1>0. MaxSize \in Nat
    BY SyntaxAssumption
  <1>1. 0 \in T
    <2>1. PICK r \in R : TRUE
      OBVIOUS
    <2>2. [a \in D |-> r] \in [D -> R] /\ Good([a \in D |-> r], 0)
      OBVIOUS
    <2> QED
      BY <2>2
  <1>2. ASSUME NEW n \in Nat, n \in T PROVE n + 1 \in T
    <2>1. PICK f \in [D -> R] : Good(f, n)
      BY <1>2
    <2> DEFINE g == [a \in D |-> IF size[a] < n THEN f[a] ELSE H[<<a, f>>]]
    <2>2. /\ g \in [D -> R]
          /\ \A a \in D : g[a] = H[<<a, f>>] /\ (size[a] < n => g[a] = f[a])
      BY <2>1
    <2> HIDE DEF g
    <2>3. ASSUME NEW a \in D, size[a] < n + 1 PROVE g[a] = H[<<a, g>>]
      <3>1. \A b \in D : size[b] < size[a] => size[b] < n
        BY <2>3
      <3>2. \A b \in D : size[b] < size[a] => f[b] = g[b]
        BY <2>2, <3>1
      <3> QED
        BY <2>1, <2>2, <3>2
    <2> QED
      BY <2>2, <2>3
  <1> HIDE DEF T
  <1>3. MaxSize + 1 \in T
    BY <1>0, <1>1, <1>2, SetInduction
  <1>4. PICK f \in [D -> R] : Good(f, MaxSize + 1)
    BY <1>3 DEF T
  <1>5. \A a \in D : f[a] = H[<<a, f>>]
    BY <1>0, <1>4
  <1> QED
    BY <1>5

-----------------------------------------------------------------------------
(* Terms.                                                                  *)

\* The values of a sort.
Carrier(sort) == IF sort = "Effect" THEN Effects ELSE Universe(sort)

Compiled == Terms \cup {Rejected}

\* A sort and a value of that sort for every valuation make a term.
LEMMA TermIntro ==
    ASSUME NEW sort \in {"Int", "Bool", "Effect"}, NEW value \in [Valuations -> Carrier(sort)]
    PROVE  /\ Term(sort, value) \in Terms
           /\ Term(sort, value).sort = sort
           /\ Term(sort, value).value = value
  BY DEF Term, Terms, Carrier, Universe

\* A term has a sort and values of that sort, and is not one of the two marks.
LEMMA TermElim ==
    ASSUME NEW t \in Terms
    PROVE  /\ IsTerm(t)
           /\ t.value \in [Valuations -> Carrier(t.sort)]
           /\ t # Undefined /\ t # Rejected
  <1>1. t.sort \in {"Int", "Bool", "Effect"} /\ t.value \in [Valuations -> Carrier(t.sort)]
    BY DEF Terms, Carrier, Universe
  <1>2. Undefined.sort = "undefined" /\ Rejected.sort = "rejected"
    BY DEF Undefined, Rejected
  <1> QED
    BY <1>1, <1>2 DEF IsTerm

\* The two marks are no terms, and differ.
LEMMA Marks ==
    /\ ~IsTerm(Undefined) /\ ~IsTerm(Rejected)
    /\ Undefined.sort = "undefined" /\ Rejected.sort = "rejected"
    /\ Undefined # Rejected
  <1>1. Undefined.sort = "undefined" /\ Rejected.sort = "rejected"
    BY DEF Undefined, Rejected
  <1> QED
    BY <1>1 DEF IsTerm

\* A result with a sort is a term.
LEMMA SortedIsTerm ==
    ASSUME NEW t \in Results, IsTerm(t) PROVE t \in Terms
  BY Marks DEF Results

\* An equality is a boolean term, if it is compiled: of two integers.
LEMMA EquateIs ==
    ASSUME NEW l \in Results, NEW r \in Results
    PROVE  /\ Equate(l, r) \in Compiled
           /\ Equate(l, r) # Rejected =>
                /\ l \in Terms /\ r \in Terms
                /\ \A v \in Valuations : Equate(l, r).value[v] = Boolean(l.value[v] = r.value[v])
  <1> DEFINE value == [v \in Valuations |-> Boolean(l.value[v] = r.value[v])]
  <1>1. value \in [Valuations -> Carrier("Bool")]
    BY DEF Boolean, Carrier, Universe
  <1>2. \A v \in Valuations : value[v] = Boolean(l.value[v] = r.value[v])
    OBVIOUS
  <1>3. Equate(l, r) = IF l.sort = "Int" /\ r.sort = "Int" THEN Term("Bool", value) ELSE Rejected
    BY DEF Equate
  <1> HIDE DEF value
  <1>4. Term("Bool", value) \in Terms /\ Term("Bool", value).value = value
    BY <1>1, TermIntro
  <1>5. l.sort = "Int" /\ r.sort = "Int" => l \in Terms /\ r \in Terms
    BY SortedIsTerm DEF IsTerm
  <1> QED
    BY <1>2, <1>3, <1>4, <1>5 DEF Compiled

\* A conditional has the value of the branch that is taken.
LEMMA MergeIs ==
    ASSUME NEW c \in Results, NEW t \in Results, NEW f \in Results
    PROVE  /\ Merge(c, t, f) \in Compiled
           /\ Merge(c, t, f) # Rejected =>
                /\ c \in Terms /\ t \in Terms /\ f \in Terms
                /\ \A v \in Valuations :
                      Merge(c, t, f).value[v] = IF Holds(c.value[v]) THEN t.value[v] ELSE f.value[v]
  <1> DEFINE value == [v \in Valuations |-> IF Holds(c.value[v]) THEN t.value[v] ELSE f.value[v]]
             ok == c.sort = "Bool" /\ IsTerm(t) /\ t.sort = f.sort
  <1>1. \A v \in Valuations :
           value[v] = IF Holds(c.value[v]) THEN t.value[v] ELSE f.value[v]
    OBVIOUS
  <1>2. Merge(c, t, f) = IF ok THEN Term(t.sort, value) ELSE Rejected
    BY DEF Merge
  <1>3. CASE ok
    <2>1. c \in Terms /\ t \in Terms /\ f \in Terms
      BY <1>3, SortedIsTerm DEF IsTerm
    <2>2. t.value \in [Valuations -> Carrier(t.sort)] /\ f.value \in [Valuations -> Carrier(t.sort)]
      BY <1>3, <2>1, TermElim
    <2>3. value \in [Valuations -> Carrier(t.sort)]
      BY <2>2
    <2> HIDE DEF value
    <2>4. t.sort \in {"Int", "Bool", "Effect"}
      BY <1>3 DEF IsTerm
    <2>5. Term(t.sort, value) \in Terms /\ Term(t.sort, value).value = value
      BY <2>3, <2>4, TermIntro
    <2> QED
      BY <1>1, <1>2, <1>3, <2>1, <2>5 DEF Compiled
  <1>4. CASE ~ok
    BY <1>2, <1>4 DEF Compiled
  <1> QED
    BY <1>3, <1>4

\* A literal is a term.
LEMMA LiteralIs ==
    ASSUME NEW n \in Int
    PROVE  Literal(n) \in Terms /\ \A v \in Valuations : Literal(n).value[v] = Number(n)
  <1> DEFINE value == [v \in Valuations |-> Number(n)]
  <1>1. value \in [Valuations -> Carrier("Int")] /\ \A v \in Valuations : value[v] = Number(n)
    BY DEF Number, Carrier, Universe
  <1>2. Literal(n) = Term("Int", value)
    BY DEF Literal
  <1> HIDE DEF value
  <1> QED
    BY <1>1, <1>2, TermIntro

\* Effect.succeed of a plain term of the declared sort.
LEMMA SuccessfulIs ==
    ASSUME NEW t \in Results
    PROVE  /\ Successful(t) \in Compiled
           /\ Successful(t) # Rejected =>
                t \in Terms /\ \A v \in Valuations : Successful(t).value[v] = Succeeds(t.value[v])
  <1> DEFINE value == [v \in Valuations |-> Succeeds(t.value[v])]
  <1>1. \A v \in Valuations : value[v] = Succeeds(t.value[v])
    OBVIOUS
  <1>2. Successful(t) = IF t.sort = SuccessSort THEN Term("Effect", value) ELSE Rejected
    BY DEF Successful
  <1>3. CASE t.sort = SuccessSort
    <2>1. SuccessSort \in {"Int", "Bool"}
      BY SignatureAssumption
    <2>2. t \in Terms
      BY <1>3, <2>1, SortedIsTerm DEF IsTerm
    <2>3. t.value \in [Valuations -> Universe(SuccessSort)]
      BY <1>3, <2>1, <2>2, TermElim DEF Carrier
    <2>4. value \in [Valuations -> Carrier("Effect")]
      BY <2>3 DEF Succeeds, Carrier, Effects
    <2> HIDE DEF value
    <2>5. Term("Effect", value) \in Terms /\ Term("Effect", value).value = value
      BY <2>4, TermIntro
    <2> QED
      BY <1>1, <1>2, <1>3, <2>2, <2>5 DEF Compiled
  <1>4. CASE t.sort # SuccessSort
    BY <1>2, <1>4 DEF Compiled
  <1> QED
    BY <1>3, <1>4

\* Effect.fail of a declared tag.
LEMMA FailingIs ==
    ASSUME NEW tag
    PROVE  /\ Failing(tag) \in Compiled
           /\ Failing(tag) # Rejected => \A v \in Valuations : Failing(tag).value[v] = Fails(tag)
  <1> DEFINE value == [v \in Valuations |-> Fails(tag)]
  <1>1. \A v \in Valuations : value[v] = Fails(tag)
    OBVIOUS
  <1>2. Failing(tag) = IF tag \in ErrorTags THEN Term("Effect", value) ELSE Rejected
    BY DEF Failing
  <1>3. CASE tag \in ErrorTags
    <2>1. value \in [Valuations -> Carrier("Effect")]
      BY <1>3 DEF Fails, Carrier, Effects
    <2> HIDE DEF value
    <2>2. Term("Effect", value) \in Terms /\ Term("Effect", value).value = value
      BY <2>1, TermIntro
    <2> QED
      BY <1>1, <1>2, <1>3, <2>2 DEF Compiled
  <1>4. CASE tag \notin ErrorTags
    BY <1>2, <1>4 DEF Compiled
  <1> QED
    BY <1>3, <1>4

-----------------------------------------------------------------------------
(* Compiled expressions.                                                   *)

\* A name has a result, which is a term or Undefined.
LEMMA ScopeIs ==
    ASSUME NEW scope \in Scopes, NEW n \in Names
    PROVE  /\ scope[n] \in Results
           /\ scope[n] # Undefined => scope[n] \in Terms
           /\ IsTerm(scope[n]) <=> scope[n] # Undefined
  <1>1. scope[n] \in Terms \cup {Undefined}
    BY DEF Scopes
  <1> QED
    BY <1>1, TermElim, Marks DEF Results

\* A name is bound to a term.
LEMMA BindIs ==
    ASSUME NEW scope \in Scopes, NEW n \in Names, NEW t \in Terms
    PROVE  /\ Bind(scope, n, t) \in Scopes
           /\ \A m \in Names : Bind(scope, n, t)[m] = IF m = n THEN t ELSE scope[m]
  BY DEF Bind, Scopes

\* What the plain expressions see of a scope.
LEMMA PlainIs ==
    ASSUME NEW scope \in Scopes
    PROVE  /\ Plain(scope) \in Scopes
           /\ \A n \in Names : Plain(scope)[n] # Undefined => Plain(scope)[n] = scope[n]
  <1>1. \A n \in Names : Plain(scope)[n] = IF scope[n].sort = "Effect" THEN Undefined ELSE scope[n]
    BY DEF Plain
  <1>2. Plain(scope) \in Scopes
    BY DEF Plain, Scopes
  <1> QED
    BY <1>1, <1>2

\* What an expression is, one disjunct at a time.
LEMMA Parts ==
    ASSUME NEW e \in Expressions
    PROVE  /\ e.kind \in {"Name", "Equal", "Choose", "Succeed", "Fail"}
           /\ e.kind = "Name" => e.name \in Names
           /\ e.kind = "Equal" => Subexpressions({e.left, e.right}, e)
           /\ e.kind = "Choose" => Subexpressions({e.condition, e.whenTrue, e.whenFalse}, e)
           /\ e.kind = "Succeed" => Subexpressions({e.payload}, e)
  BY SyntaxAssumption DEF IsExpression

Heights == [e \in Expressions |-> Height(e)]

\* What Recursion and SizeInduction ask of the heights.
LEMMA HeightsAreNumbers ==
    \A e \in Expressions : Heights[e] \in 0..MaxSize /\ Heights[e] \in Nat /\ Heights[e] = Height(e)
  BY SyntaxAssumption DEF Heights

\* An expression has a term or a rejection, if its parts have.
LEMMA ExpressionFromTyped ==
    ASSUME NEW scope \in Scopes, NEW f, NEW e \in Expressions,
           \A a \in Expressions : Height(a) < Height(e) => f[a] \in Compiled
    PROVE  ExpressionFrom(f, e, scope) \in Compiled
  <1>1. Compiled \subseteq Results
    BY DEF Compiled, Results
  <1>2. CASE e.kind = "Name"
    BY <1>2, Parts, ScopeIs DEF ExpressionFrom, Compiled
  <1>3. CASE e.kind = "Equal"
    <2>1. f[e.left] \in Results /\ f[e.right] \in Results
      BY <1>1, <1>3, Parts DEF Subexpressions
    <2> QED
      BY <1>3, <2>1, EquateIs DEF ExpressionFrom
  <1>4. CASE e.kind = "Choose"
    <2>1. f[e.condition] \in Results /\ f[e.whenTrue] \in Results /\ f[e.whenFalse] \in Results
      BY <1>1, <1>4, Parts DEF Subexpressions
    <2> QED
      BY <1>4, <2>1, MergeIs DEF ExpressionFrom
  <1>5. CASE e.kind \in {"Succeed", "Fail"}
    BY <1>5 DEF ExpressionFrom, Compiled
  <1> QED
    BY <1>2, <1>3, <1>4, <1>5, Parts

\* It asks for the parts of an expression alone.
LEMMA ExpressionFromLocal ==
    ASSUME NEW scope, NEW f, NEW g, NEW e \in Expressions,
           \A a \in Expressions : Height(a) < Height(e) => f[a] = g[a]
    PROVE  ExpressionFrom(f, e, scope) = ExpressionFrom(g, e, scope)
  <1>1. CASE e.kind = "Equal"
    <2>1. f[e.left] = g[e.left] /\ f[e.right] = g[e.right]
      BY <1>1, Parts DEF Subexpressions
    <2> QED
      BY <1>1, <2>1 DEF ExpressionFrom
  <1>2. CASE e.kind = "Choose"
    <2>1. /\ f[e.condition] = g[e.condition]
          /\ f[e.whenTrue] = g[e.whenTrue] /\ f[e.whenFalse] = g[e.whenFalse]
      BY <1>2, Parts DEF Subexpressions
    <2> QED
      BY <1>2, <2>1 DEF ExpressionFrom
  <1>3. CASE e.kind \in {"Name", "Succeed", "Fail"}
    BY <1>3 DEF ExpressionFrom
  <1> QED
    BY <1>1, <1>2, <1>3, Parts

\* So a function obeys the rule of compileExpression.
LEMMA ExpressionRecursion ==
    ASSUME NEW scope \in Scopes
    PROVE  \E f \in [Expressions -> Compiled] :
              f = [s \in Expressions |-> ExpressionFrom(f, s, scope)]
  <1> DEFINE D == Expressions
             R == Compiled
             H == [w \in D \X [D -> R] |-> ExpressionFrom(w[2], w[1], scope)]
  <1>1. ASSUME NEW a \in D, NEW f \in [D -> R] PROVE H[<<a, f>>] = ExpressionFrom(f, a, scope)
    OBVIOUS
  <1> HIDE DEF H
  <1>2. Typed(H, D, R)
    BY <1>1, ExpressionFromTyped DEF Typed
  <1>3. Local(H, D, R, Heights)
    <2> SUFFICES ASSUME NEW a \in D, NEW f \in [D -> R], NEW g \in [D -> R],
                        \A b \in D : Heights[b] < Heights[a] => f[b] = g[b]
                 PROVE  H[<<a, f>>] = H[<<a, g>>]
      BY DEF Local
    <2>1. \A b \in D : Height(b) < Height(a) => f[b] = g[b]
      BY HeightsAreNumbers
    <2>2. ExpressionFrom(f, a, scope) = ExpressionFrom(g, a, scope)
      BY <2>1, ExpressionFromLocal
    <2> QED
      BY <1>1, <2>2
  <1>4. RuleOn(D, R, Heights, H)
    BY <1>2, <1>3, HeightsAreNumbers DEF RuleOn, Compiled
  <1> HIDE DEF D, R
  <1>5. PICK f \in [D -> R] : \A a \in D : f[a] = H[<<a, f>>]
    BY <1>4, Recursion
  <1>6. f = [s \in D |-> ExpressionFrom(f, s, scope)]
    BY <1>1, <1>5
  <1> QED
    BY <1>6 DEF D, R

TermOf(scope) == CHOOSE term : term = [s \in Expressions |-> ExpressionFrom(term, s, scope)]

\* compileExpression is that function.
LEMMA CompileExpressionIs ==
    ASSUME NEW scope, NEW e PROVE CompileExpression(e, scope) = TermOf(scope)[e]
  BY DEF CompileExpression, TermOf

\* CompileExpression obeys its rule.
LEMMA TermOfIs ==
    ASSUME NEW scope \in Scopes
    PROVE  /\ TermOf(scope) \in [Expressions -> Compiled]
           /\ \A e \in Expressions : TermOf(scope)[e] = ExpressionFrom(TermOf(scope), e, scope)
  <1>1. TermOf(scope) = [s \in Expressions |-> ExpressionFrom(TermOf(scope), s, scope)]
    BY ExpressionRecursion DEF TermOf
  <1> DEFINE T == {e \in Expressions : TermOf(scope)[e] \in Compiled}
  <1>2. ASSUME NEW e \in Expressions,
               \A a \in Expressions : Heights[a] < Heights[e] => a \in T
        PROVE  e \in T
    <2>1. \A a \in Expressions : Height(a) < Height(e) => TermOf(scope)[a] \in Compiled
      BY <1>2, HeightsAreNumbers
    <2> QED
      BY <1>1, <2>1, ExpressionFromTyped
  <1> HIDE DEF T
  <1>3. \A e \in Expressions : e \in T
    BY <1>2, HeightsAreNumbers, SizeInduction
  <1> QED
    BY <1>1, <1>3 DEF T

\* What CompileExpression yields, and its rule.
LEMMA CompileExpressionRule ==
    ASSUME NEW scope \in Scopes, NEW e \in Expressions
    PROVE  /\ CompileExpression(e, scope) \in Compiled
           /\ CompileExpression(e, scope) = ExpressionFrom(TermOf(scope), e, scope)
  BY CompileExpressionIs, TermOfIs

-----------------------------------------------------------------------------
(* Lowered Effects.                                                        *)

\* An expression has an Effect or a rejection, if its parts have.
LEMMA EffectFromTyped ==
    ASSUME NEW scope \in Scopes, NEW f, NEW e \in Expressions,
           \A a \in Expressions : Height(a) < Height(e) => f[a] \in Compiled
    PROVE  EffectFrom(f, e, scope) \in Compiled
  <1>1. Compiled \subseteq Results
    BY DEF Compiled, Results
  <1>2. Plain(scope) \in Scopes
    BY PlainIs
  <1>3. \A a \in Expressions : CompileExpression(a, Plain(scope)) \in Results
    BY <1>1, <1>2, CompileExpressionRule
  <1>4. CASE e.kind = "Name"
    <2>1. scope[e.name].sort = "Effect" => scope[e.name] \in Terms
      BY <1>4, Parts, ScopeIs DEF IsTerm
    <2> QED
      BY <1>4, <2>1 DEF EffectFrom, Compiled
  <1>5. CASE e.kind = "Choose"
    <2>1. f[e.whenTrue] \in Results /\ f[e.whenFalse] \in Results /\ e.condition \in Expressions
      BY <1>1, <1>5, Parts DEF Subexpressions
    <2> QED
      BY <1>3, <1>5, <2>1, MergeIs DEF EffectFrom
  <1>6. CASE e.kind = "Succeed"
    <2>1. e.payload \in Expressions
      BY <1>6, Parts DEF Subexpressions
    <2> QED
      BY <1>3, <1>6, <2>1, SuccessfulIs DEF EffectFrom
  <1>7. CASE e.kind = "Fail"
    BY <1>7, FailingIs DEF EffectFrom
  <1>8. CASE e.kind = "Equal"
    BY <1>8 DEF EffectFrom, Compiled
  <1> QED
    BY <1>4, <1>5, <1>6, <1>7, <1>8, Parts

\* It asks for the parts of an expression alone.
LEMMA EffectFromLocal ==
    ASSUME NEW scope, NEW f, NEW g, NEW e \in Expressions,
           \A a \in Expressions : Height(a) < Height(e) => f[a] = g[a]
    PROVE  EffectFrom(f, e, scope) = EffectFrom(g, e, scope)
  <1>1. CASE e.kind = "Choose"
    <2>1. f[e.whenTrue] = g[e.whenTrue] /\ f[e.whenFalse] = g[e.whenFalse]
      BY <1>1, Parts DEF Subexpressions
    <2> QED
      BY <1>1, <2>1 DEF EffectFrom
  <1>2. CASE e.kind \in {"Name", "Equal", "Succeed", "Fail"}
    BY <1>2 DEF EffectFrom
  <1> QED
    BY <1>1, <1>2, Parts

\* So a function obeys the rule of lowerEffectExpression.
LEMMA EffectRecursion ==
    ASSUME NEW scope \in Scopes
    PROVE  \E f \in [Expressions -> Compiled] :
              f = [s \in Expressions |-> EffectFrom(f, s, scope)]
  <1> DEFINE D == Expressions
             R == Compiled
             H == [w \in D \X [D -> R] |-> EffectFrom(w[2], w[1], scope)]
  <1>1. ASSUME NEW a \in D, NEW f \in [D -> R] PROVE H[<<a, f>>] = EffectFrom(f, a, scope)
    OBVIOUS
  <1> HIDE DEF H
  <1>2. Typed(H, D, R)
    BY <1>1, EffectFromTyped DEF Typed
  <1>3. Local(H, D, R, Heights)
    <2> SUFFICES ASSUME NEW a \in D, NEW f \in [D -> R], NEW g \in [D -> R],
                        \A b \in D : Heights[b] < Heights[a] => f[b] = g[b]
                 PROVE  H[<<a, f>>] = H[<<a, g>>]
      BY DEF Local
    <2>1. \A b \in D : Height(b) < Height(a) => f[b] = g[b]
      BY HeightsAreNumbers
    <2>2. EffectFrom(f, a, scope) = EffectFrom(g, a, scope)
      BY <2>1, EffectFromLocal
    <2> QED
      BY <1>1, <2>2
  <1>4. RuleOn(D, R, Heights, H)
    BY <1>2, <1>3, HeightsAreNumbers DEF RuleOn, Compiled
  <1> HIDE DEF D, R
  <1>5. PICK f \in [D -> R] : \A a \in D : f[a] = H[<<a, f>>]
    BY <1>4, Recursion
  <1>6. f = [s \in D |-> EffectFrom(f, s, scope)]
    BY <1>1, <1>5
  <1> QED
    BY <1>6 DEF D, R

EffectOf(scope) == CHOOSE effect : effect = [s \in Expressions |-> EffectFrom(effect, s, scope)]

\* lowerEffectExpression is that function.
LEMMA LowerEffectExpressionIs ==
    ASSUME NEW scope, NEW e PROVE LowerEffectExpression(e, scope) = EffectOf(scope)[e]
  BY DEF LowerEffectExpression, EffectOf

\* What LowerEffectExpression yields, and its rule.
LEMMA LowerEffectExpressionRule ==
    ASSUME NEW scope \in Scopes
    PROVE  \A e \in Expressions :
              /\ LowerEffectExpression(e, scope) = EffectOf(scope)[e]
              /\ EffectOf(scope)[e] \in Compiled
              /\ EffectOf(scope)[e] = EffectFrom(EffectOf(scope), e, scope)
  <1>1. EffectOf(scope) = [s \in Expressions |-> EffectFrom(EffectOf(scope), s, scope)]
    BY EffectRecursion DEF EffectOf
  <1> DEFINE T == {e \in Expressions : EffectOf(scope)[e] \in Compiled}
  <1>2. ASSUME NEW e \in Expressions,
               \A a \in Expressions : Heights[a] < Heights[e] => a \in T
        PROVE  e \in T
    <2>1. \A a \in Expressions : Height(a) < Height(e) => EffectOf(scope)[a] \in Compiled
      BY <1>2, HeightsAreNumbers
    <2> QED
      BY <1>1, <2>1, EffectFromTyped
  <1> HIDE DEF T
  <1>3. \A e \in Expressions : e \in T
    BY <1>2, HeightsAreNumbers, SizeInduction
  <1> QED
    BY <1>1, <1>3, LowerEffectExpressionIs DEF T

-----------------------------------------------------------------------------
(* Expressions in the engine.                                              *)

\* It asks for the values of the parts alone.
LEMMA ValueFromLocal ==
    ASSUME NEW env, NEW f, NEW g, NEW e \in Expressions,
           \A a \in Expressions : Height(a) < Height(e) => f[a] = g[a]
    PROVE  ValueFrom(f, e, env) = ValueFrom(g, e, env)
  <1>1. CASE e.kind = "Equal"
    <2>1. f[e.left] = g[e.left] /\ f[e.right] = g[e.right]
      BY <1>1, Parts DEF Subexpressions
    <2> QED
      BY <1>1, <2>1 DEF ValueFrom
  <1>2. CASE e.kind = "Choose"
    <2>1. /\ f[e.condition] = g[e.condition]
          /\ f[e.whenTrue] = g[e.whenTrue] /\ f[e.whenFalse] = g[e.whenFalse]
      BY <1>2, Parts DEF Subexpressions
    <2> QED
      BY <1>2, <2>1 DEF ValueFrom
  <1>3. CASE e.kind = "Succeed"
    <2>1. f[e.payload] = g[e.payload]
      BY <1>3, Parts DEF Subexpressions
    <2> QED
      BY <1>3, <2>1 DEF ValueFrom
  <1>4. CASE e.kind \in {"Name", "Fail"}
    BY <1>4 DEF ValueFrom
  <1> QED
    BY <1>1, <1>2, <1>3, <1>4, Parts

\* So a function obeys the rule of the evaluation of an expression.
LEMMA ValueRecursion ==
    ASSUME NEW env
    PROVE  \E f : f = [s \in Expressions |-> ValueFrom(f, s, env)]
  <1> DEFINE Good(f, n) == \A a \in Expressions : Height(a) < n => f[a] = ValueFrom(f, a, env)
             T == {n \in Nat : \E f : Good(f, n)}
  <1>0. MaxSize \in Nat /\ \A a \in Expressions : Height(a) \in 0..MaxSize
    BY SyntaxAssumption
  <1>1. 0 \in T
    <2>1. Good([a \in Expressions |-> Dead], 0)
      BY <1>0
    <2> QED
      BY <2>1
  <1>2. ASSUME NEW n \in Nat, n \in T PROVE n + 1 \in T
    <2>1. PICK f : Good(f, n)
      BY <1>2
    <2> DEFINE g == [a \in Expressions |-> ValueFrom(f, a, env)]
    <2>2. \A a \in Expressions : g[a] = ValueFrom(f, a, env) /\ (Height(a) < n => g[a] = f[a])
      BY <2>1
    <2> HIDE DEF g
    <2>3. ASSUME NEW a \in Expressions, Height(a) < n + 1 PROVE g[a] = ValueFrom(g, a, env)
      <3>1. \A b \in Expressions : Height(b) < Height(a) => Height(b) < n
        BY <1>0, <2>3
      <3>2. \A b \in Expressions : Height(b) < Height(a) => f[b] = g[b]
        BY <2>2, <3>1
      <3>3. ValueFrom(f, a, env) = ValueFrom(g, a, env)
        BY <3>2, ValueFromLocal
      <3> QED
        BY <2>2, <3>3
    <2>4. Good(g, n + 1)
      BY <2>3
    <2> QED
      BY <2>4
  <1> HIDE DEF T
  <1>3. MaxSize + 1 \in T
    BY <1>0, <1>1, <1>2, SetInduction
  <1>4. PICK f : Good(f, MaxSize + 1)
    BY <1>3 DEF T
  <1>5. \A a \in Expressions : f[a] = ValueFrom(f, a, env)
    BY <1>0, <1>4
  <1> DEFINE g == [a \in Expressions |-> ValueFrom(f, a, env)]
  <1>6. \A a \in Expressions : g[a] = f[a]
    BY <1>5
  <1>7. \A a \in Expressions : ValueFrom(f, a, env) = ValueFrom(g, a, env)
    <2> HIDE DEF g
    <2> QED
      BY <1>6, ValueFromLocal
  <1>8. g = [a \in Expressions |-> ValueFrom(g, a, env)]
    <2>1. \A h : (\A a \in Expressions : ValueFrom(f, a, env) = ValueFrom(h, a, env))
                   => [a \in Expressions |-> ValueFrom(f, a, env)] = [a \in Expressions |-> ValueFrom(h, a, env)]
      OBVIOUS
    <2> QED
      BY <1>7, <2>1
  <1> HIDE DEF g
  <1> QED
    BY <1>8

ValueOf(env) == CHOOSE value : value = [s \in Expressions |-> ValueFrom(value, s, env)]

\* The evaluation is that function.
LEMMA EvaluateIs ==
    ASSUME NEW env, NEW e PROVE Evaluate(e, env) = ValueOf(env)[e]
  BY DEF Evaluate, ValueOf

\* Evaluate obeys its rule.
LEMMA EvaluateRule ==
    ASSUME NEW env, NEW e \in Expressions
    PROVE  /\ Evaluate(e, env) = ValueOf(env)[e]
           /\ Evaluate(e, env) = ValueFrom(ValueOf(env), e, env)
  <1>1. ValueOf(env) = [s \in Expressions |-> ValueFrom(ValueOf(env), s, env)]
    BY ValueRecursion DEF ValueOf
  <1> QED
    BY <1>1, EvaluateIs

-----------------------------------------------------------------------------
(* Compiled statements.                                                    *)

Walks == Lists \X Scopes \X Results \X (0..1)

Sizes == [w \in Walks |-> Size(w[1])]

\* What Recursion asks of the sizes, for compileStatements.
LEMMA SizesAreNumbers ==
    \A w \in Walks : Sizes[w] \in 0..MaxSize /\ Sizes[w] \in Nat /\ Sizes[w] = Size(w[1])
  <1>1. \A w \in Walks : w[1] \in Lists
    BY DEF Walks
  <1>2. MaxSize \in Nat /\ \A list \in Lists : Size(list) \in 0..MaxSize
    BY SyntaxAssumption
  <1>3. \A w \in Walks : Sizes[w] = Size(w[1])
    BY DEF Sizes
  <1> QED
    BY <1>1, <1>2, <1>3

\* What a list begins with, one disjunct at a time.
LEMMA ListParts ==
    ASSUME NEW list \in Lists, list # << >>, NEW s, s = Head(list)
    PROVE  /\ Tail(list) \in Lists /\ Size(Tail(list)) < Size(list)
           /\ s.kind \in {"Const", "Return", "Unsupported", "Block", "If", "For"}
           /\ s.kind = "Const" => s.name \in Names /\ s.initializer \in Expressions
           /\ s.kind = "Return" => s.expression \in Expressions
           /\ s.kind = "Block" => s.body \in Lists /\ Size(s.body) < Size(list)
           /\ s.kind = "If" =>
                /\ s.condition \in Expressions
                /\ s.then \in Lists /\ Size(s.then) < Size(list)
                /\ s.orElse \in Lists /\ Size(s.orElse) < Size(list)
           /\ s.kind = "For" =>
                /\ s.name \in Names
                /\ s.iterations \in Seq(Int)
                /\ s.iterations # << >> =>
                     /\ s.body \in Lists /\ Size(s.body) < Size(list)
                     /\ AfterIteration(list) \in Lists /\ Size(AfterIteration(list)) < Size(list)
  <1>1. Sublists({Tail(list)}, list) /\ IsStatement(s, list)
    BY SyntaxAssumption
  <1> QED
    BY <1>1 DEF Sublists, IsStatement

\* The first induction value is a term.
LEMMA FirstIterationIs ==
    ASSUME NEW loop, loop.iterations \in Seq(Int), loop.iterations # << >>
    PROVE  /\ FirstIteration(loop) \in Terms
           /\ \A v \in Valuations : FirstIteration(loop).value[v] = Number(Head(loop.iterations))
  <1>1. Head(loop.iterations) \in Int
    OBVIOUS
  <1> QED
    BY <1>1, LiteralIs DEF FirstIteration

\* A list has a result, made from those of shorter lists alone.
LEMMA StatementsFromShorter ==
    ASSUME NEW f, NEW g, NEW list \in Lists, NEW scope \in Scopes, NEW fallback \in Results,
           NEW depth \in 0..1,
           \A w \in Walks : Size(w[1]) < Size(list) => f[w] \in Results /\ f[w] = g[w]
    PROVE  /\ StatementsFrom(f, list, scope, fallback, depth) \in Results
           /\ StatementsFrom(f, list, scope, fallback, depth)
                = StatementsFrom(g, list, scope, fallback, depth)
  <1>1. \A l \in Lists, names \in Scopes, rest \in Results, d \in 0..1 :
           Size(l) < Size(list) =>
             /\ f[<<l, names, rest, d>>] \in Results
             /\ f[<<l, names, rest, d>>] = g[<<l, names, rest, d>>]
    BY DEF Walks
  <1>2. Rejected \in Results /\ \A t \in Compiled : t \in Results
    BY DEF Results, Compiled
  <1>3. \A e \in Expressions : CompileExpression(e, scope) \in Compiled
    BY CompileExpressionRule
  <1>4. \A rest, t \in Results : Unless(rest, t) \in Results
    BY <1>2 DEF Unless
  <1>5. CASE list = << >>
    BY <1>5 DEF StatementsFrom
  <1>6. CASE list # << >>
    <2>1. PICK s : s = Head(list)
      OBVIOUS
    <2>2. PICK rest : rest = Tail(list)
      OBVIOUS
    <2>3. rest \in Lists /\ Size(rest) < Size(list)
      BY <1>6, <2>1, <2>2, ListParts
    <2>4. PICK after \in Results :
             /\ after = f[<<Tail(list), scope, fallback, depth>>]
             /\ after = g[<<Tail(list), scope, fallback, depth>>]
      BY <1>1, <2>2, <2>3
    <2>5. CASE s.kind = "Const"
      <3>1. PICK local : local = CompileExpression(s.initializer, scope)
        OBVIOUS
      <3>2. s.name \in Names /\ local \in Compiled
        BY <1>3, <1>6, <2>1, <2>5, <3>1, ListParts
      <3>3. CASE local = Rejected
        BY <1>2, <1>6, <2>1, <2>5, <3>1, <3>3 DEF StatementsFrom
      <3>4. CASE local # Rejected
        <4>1. PICK names : names = Bind(scope, s.name, local)
          OBVIOUS
        <4>2. names \in Scopes
          BY <3>2, <3>4, <4>1, BindIs DEF Compiled
        <4>3. /\ f[<<rest, names, fallback, depth>>] \in Results
              /\ f[<<rest, names, fallback, depth>>] = g[<<rest, names, fallback, depth>>]
          BY <1>1, <2>3, <4>2
        <4> QED
          BY <1>2, <1>6, <2>1, <2>2, <2>5, <3>1, <4>1, <4>3 DEF StatementsFrom
      <3> QED
        BY <3>3, <3>4
    <2>6. CASE s.kind \in {"Return", "Unsupported"}
      <3>1. s.kind = "Return" => CompileExpression(s.expression, scope) \in Results
        BY <1>2, <1>3, <1>6, <2>1, ListParts
      <3> QED
        BY <1>2, <1>6, <2>1, <2>6, <3>1 DEF StatementsFrom
    <2>7. CASE s.kind = "Block"
      <3>1. PICK body \in Lists : body = s.body /\ Size(body) < Size(list)
        BY <1>6, <2>1, <2>7, ListParts
      <3>2. /\ f[<<body, scope, after, depth>>] \in Results
            /\ f[<<body, scope, after, depth>>] = g[<<body, scope, after, depth>>]
        BY <1>1, <3>1
      <3>3. StatementsFrom(f, list, scope, fallback, depth) = Unless(after, f[<<body, scope, after, depth>>])
        BY <1>6, <2>1, <2>2, <2>4, <2>7, <3>1 DEF StatementsFrom
      <3>4. StatementsFrom(g, list, scope, fallback, depth) = Unless(after, g[<<body, scope, after, depth>>])
        BY <1>6, <2>1, <2>2, <2>4, <2>7, <3>1 DEF StatementsFrom
      <3> QED
        BY <1>4, <3>2, <3>3, <3>4
    <2>8. CASE s.kind = "If"
      <3>1. PICK then \in Lists, orElse \in Lists :
               /\ then = s.then /\ Size(then) < Size(list)
               /\ orElse = s.orElse /\ Size(orElse) < Size(list)
        BY <1>6, <2>1, <2>8, ListParts
      <3>2. /\ f[<<then, scope, after, depth>>] \in Results
            /\ f[<<then, scope, after, depth>>] = g[<<then, scope, after, depth>>]
            /\ f[<<orElse, scope, after, depth>>] \in Results
            /\ f[<<orElse, scope, after, depth>>] = g[<<orElse, scope, after, depth>>]
        BY <1>1, <3>1, ZenonT(60)
      <3>3. CompileExpression(s.condition, scope) \in Results
        BY <1>2, <1>3, <1>6, <2>1, <2>8, ListParts
      <3>4. StatementsFrom(f, list, scope, fallback, depth)
               = Unless(after, Merge(CompileExpression(s.condition, scope),
                                     f[<<then, scope, after, depth>>],
                                     f[<<orElse, scope, after, depth>>]))
        BY <1>6, <2>1, <2>2, <2>4, <2>8, <3>1 DEF StatementsFrom
      <3>6. StatementsFrom(g, list, scope, fallback, depth)
               = Unless(after, Merge(CompileExpression(s.condition, scope),
                                     g[<<then, scope, after, depth>>],
                                     g[<<orElse, scope, after, depth>>]))
        BY <1>6, <2>1, <2>2, <2>4, <2>8, <3>1 DEF StatementsFrom
      <3>5. Merge(CompileExpression(s.condition, scope), f[<<then, scope, after, depth>>],
                  f[<<orElse, scope, after, depth>>]) \in Results
        BY <1>2, <3>2, <3>3, MergeIs
      <3> QED
        BY <1>4, <3>2, <3>4, <3>5, <3>6
    <2>9. CASE s.kind = "For"
      <3>1. CASE s.iterations = << >>
        <4>1. StatementsFrom(f, list, scope, fallback, depth)
                 = IF depth > 0 \/ scope[s.name] # Undefined THEN Rejected ELSE after
          BY <1>6, <2>1, <2>2, <2>4, <2>9, <3>1 DEF StatementsFrom
        <4>2. StatementsFrom(g, list, scope, fallback, depth)
                 = IF depth > 0 \/ scope[s.name] # Undefined THEN Rejected ELSE after
          BY <1>6, <2>1, <2>2, <2>4, <2>9, <3>1 DEF StatementsFrom
        <4> QED
          BY <1>2, <4>1, <4>2
      <3>2. CASE s.iterations # << >>
        <4>1. PICK body \in Lists, next \in Lists :
                 /\ body = s.body /\ Size(body) < Size(list)
                 /\ next = AfterIteration(list) /\ Size(next) < Size(list)
          BY <1>6, <2>1, <2>9, <3>2, ListParts
        <4>2. PICK names : names = Bind(scope, s.name, FirstIteration(s))
          OBVIOUS
        <4>3. names \in Scopes
          <5>1. s.name \in Names /\ s.iterations \in Seq(Int)
            BY <1>6, <2>1, <2>9, ListParts
          <5>2. FirstIteration(s) \in Terms
            BY <3>2, <5>1, FirstIterationIs
          <5> QED
            BY <4>2, <5>1, <5>2, BindIs
        <4>4. PICK later \in Results :
                 /\ later = f[<<next, scope, fallback, depth>>]
                 /\ later = g[<<next, scope, fallback, depth>>]
          BY <1>1, <4>1
        <4>5. /\ f[<<body, names, later, 1>>] \in Results
              /\ f[<<body, names, later, 1>>] = g[<<body, names, later, 1>>]
          <5>1. 1 \in 0..1 /\ Size(body) < Size(list)
            BY <4>1
          <5> QED
            BY <1>1, <4>3, <5>1, ZenonT(60)
        <4>6. PICK iteration \in Results :
                 /\ iteration = f[<<body, names, later, 1>>]
                 /\ iteration = g[<<body, names, later, 1>>]
          BY <4>5
        <4>7. StatementsFrom(f, list, scope, fallback, depth)
                 = IF depth > 0 \/ scope[s.name] # Undefined THEN Rejected
                   ELSE Unless(later, IF IsTerm(iteration) THEN iteration ELSE Rejected)
          BY <1>6, <2>1, <2>2, <2>9, <3>2, <4>1, <4>2, <4>4, <4>6 DEF StatementsFrom
        <4>8. StatementsFrom(g, list, scope, fallback, depth)
                 = IF depth > 0 \/ scope[s.name] # Undefined THEN Rejected
                   ELSE Unless(later, IF IsTerm(iteration) THEN iteration ELSE Rejected)
          BY <1>6, <2>1, <2>2, <2>9, <3>2, <4>1, <4>2, <4>4, <4>6 DEF StatementsFrom
        <4> QED
          BY <1>2, <1>4, <4>7, <4>8
      <3> QED
        BY <3>1, <3>2
    <2> QED
      BY <1>6, <2>1, <2>5, <2>6, <2>7, <2>8, <2>9, ListParts
  <1> QED
    BY <1>5, <1>6

\* The walker is a function that obeys the rule.
LEMMA StatementsRecursion ==
    \E f \in [Walks -> Results] :
       f = [w \in Walks |-> StatementsFrom(f, w[1], w[2], w[3], w[4])]
  <1> DEFINE D == Walks
             R == Results
             H == [w \in D \X [D -> R] |-> StatementsFrom(w[2], w[1][1], w[1][2], w[1][3], w[1][4])]
  <1>1. ASSUME NEW a \in D, NEW f \in [D -> R]
        PROVE  H[<<a, f>>] = StatementsFrom(f, a[1], a[2], a[3], a[4])
    OBVIOUS
  <1> HIDE DEF H
  <1>2. \A a \in D : a[1] \in Lists /\ a[2] \in Scopes /\ a[3] \in Results /\ a[4] \in 0..1
    BY DEF Walks
  <1>3. Typed(H, D, R)
    <2> SUFFICES ASSUME NEW a \in D, NEW f \in [D -> R] PROVE H[<<a, f>>] \in R
      BY DEF Typed
    <2>1. \A w \in D : Size(w[1]) < Size(a[1]) => f[w] \in R /\ f[w] = f[w]
      OBVIOUS
    <2> QED
      BY <1>1, <1>2, <2>1, StatementsFromShorter
  <1>4. Local(H, D, R, Sizes)
    <2> SUFFICES ASSUME NEW a \in D, NEW f \in [D -> R], NEW g \in [D -> R],
                        \A b \in D : Sizes[b] < Sizes[a] => f[b] = g[b]
                 PROVE  H[<<a, f>>] = H[<<a, g>>]
      BY DEF Local
    <2>1. \A b \in D : Size(b[1]) < Size(a[1]) => f[b] \in R /\ f[b] = g[b]
      BY SizesAreNumbers
    <2>2. StatementsFrom(f, a[1], a[2], a[3], a[4]) = StatementsFrom(g, a[1], a[2], a[3], a[4])
      BY <1>2, <2>1, StatementsFromShorter
    <2> QED
      BY <1>1, <2>2
  <1>5. RuleOn(D, R, Sizes, H)
    BY <1>3, <1>4, SizesAreNumbers DEF RuleOn, Results
  <1> HIDE DEF D, R
  <1>6. PICK f \in [D -> R] : \A a \in D : f[a] = H[<<a, f>>]
    BY <1>5, Recursion
  <1>7. f = [w \in D |-> StatementsFrom(f, w[1], w[2], w[3], w[4])]
    BY <1>1, <1>6
  <1> QED
    BY <1>7 DEF D, R

WalkOf ==
    CHOOSE compile : compile = [w \in Walks |-> StatementsFrom(compile, w[1], w[2], w[3], w[4])]

\* compileStatements is the function that obeys its rule.
LEMMA CompileStatementsIs ==
    ASSUME NEW list, NEW scope, NEW fallback, NEW depth
    PROVE  CompileStatements(list, scope, fallback, depth) = WalkOf[<<list, scope, fallback, depth>>]
  BY DEF CompileStatements, WalkOf, Walks

\* CompileStatements obeys its rule.
LEMMA CompileStatementsRule ==
    \A w \in Walks :
       /\ WalkOf[w] \in Results
       /\ WalkOf[w] = StatementsFrom(WalkOf, w[1], w[2], w[3], w[4])
  <1>1. WalkOf = [w \in Walks |-> StatementsFrom(WalkOf, w[1], w[2], w[3], w[4])]
    BY StatementsRecursion DEF WalkOf
  <1> DEFINE T == {w \in Walks : WalkOf[w] \in Results}
  <1>2. ASSUME NEW w \in Walks,
               \A a \in Walks : Sizes[a] < Sizes[w] => a \in T
        PROVE  w \in T
    <2>1. \A a \in Walks : Size(a[1]) < Size(w[1]) => WalkOf[a] \in Results /\ WalkOf[a] = WalkOf[a]
      BY <1>2, SizesAreNumbers
    <2>2. w[1] \in Lists /\ w[2] \in Scopes /\ w[3] \in Results /\ w[4] \in 0..1
      BY DEF Walks
    <2>3. StatementsFrom(WalkOf, w[1], w[2], w[3], w[4]) \in Results
      BY <2>1, <2>2, StatementsFromShorter
    <2> QED
      BY <1>1, <2>3
  <1> HIDE DEF T
  <1>3. \A w \in Walks : w \in T
    BY <1>2, SizesAreNumbers, SizeInduction
  <1> QED
    BY <1>1, <1>3 DEF T

-----------------------------------------------------------------------------
(* Lowered statements.                                                     *)

EffectWalks == Lists \X Scopes \X Results

EffectSizes == [w \in EffectWalks |-> Size(w[1])]

\* The same for lowerEffectStatements.
LEMMA EffectSizesAreNumbers ==
    \A w \in EffectWalks :
       EffectSizes[w] \in 0..MaxSize /\ EffectSizes[w] \in Nat /\ EffectSizes[w] = Size(w[1])
  <1>1. \A w \in EffectWalks : w[1] \in Lists
    BY DEF EffectWalks
  <1>2. MaxSize \in Nat /\ \A list \in Lists : Size(list) \in 0..MaxSize
    BY SyntaxAssumption
  <1>3. \A w \in EffectWalks : EffectSizes[w] = Size(w[1])
    BY DEF EffectSizes
  <1> QED
    BY <1>1, <1>2, <1>3

\* An initializer has a term, an Effect or a rejection.
LEMMA LowerInitializerTyped ==
    ASSUME NEW scope \in Scopes, NEW e \in Expressions
    PROVE  LowerInitializer(e, scope) \in Compiled
  BY PlainIs, CompileExpressionRule, LowerEffectExpressionRule DEF LowerInitializer

\* A list has a result, made from those of shorter lists alone.
LEMMA EffectStatementsFromShorter ==
    ASSUME NEW f, NEW g, NEW list \in Lists, NEW scope \in Scopes, NEW fallback \in Results,
           \A w \in EffectWalks : Size(w[1]) < Size(list) => f[w] \in Results /\ f[w] = g[w]
    PROVE  /\ EffectStatementsFrom(f, list, scope, fallback) \in Results
           /\ EffectStatementsFrom(f, list, scope, fallback)
                = EffectStatementsFrom(g, list, scope, fallback)
  <1>1. \A l \in Lists, names \in Scopes, rest \in Results :
           Size(l) < Size(list) =>
             /\ f[<<l, names, rest>>] \in Results
             /\ f[<<l, names, rest>>] = g[<<l, names, rest>>]
    BY DEF EffectWalks
  <1>2. Rejected \in Results /\ \A t \in Compiled : t \in Results
    BY DEF Results, Compiled
  <1>3. Plain(scope) \in Scopes
    BY PlainIs
  <1>4. \A rest, t \in Results : Unless(rest, t) \in Results
    BY <1>2 DEF Unless
  <1>5. CASE list = << >>
    BY <1>5 DEF EffectStatementsFrom
  <1>6. CASE list # << >>
    <2>1. PICK s : s = Head(list)
      OBVIOUS
    <2>2. PICK rest : rest = Tail(list)
      OBVIOUS
    <2>3. rest \in Lists /\ Size(rest) < Size(list)
      BY <1>6, <2>1, <2>2, ListParts
    <2>4. PICK after \in Results :
             /\ after = f[<<Tail(list), scope, fallback>>]
             /\ after = g[<<Tail(list), scope, fallback>>]
      BY <1>1, <2>2, <2>3
    <2>5. CASE s.kind = "Const"
      <3>1. PICK local : local = LowerInitializer(s.initializer, scope)
        OBVIOUS
      <3>2. s.name \in Names /\ local \in Compiled
        BY <1>6, <2>1, <2>5, <3>1, ListParts, LowerInitializerTyped
      <3>3. CASE local = Rejected
        BY <1>2, <1>6, <2>1, <2>5, <3>1, <3>3 DEF EffectStatementsFrom
      <3>4. CASE local # Rejected
        <4>1. PICK names : names = Bind(scope, s.name, local)
          OBVIOUS
        <4>2. names \in Scopes
          BY <3>2, <3>4, <4>1, BindIs DEF Compiled
        <4>3. /\ f[<<rest, names, fallback>>] \in Results
              /\ f[<<rest, names, fallback>>] = g[<<rest, names, fallback>>]
          BY <1>1, <2>3, <4>2
        <4> QED
          BY <1>2, <1>6, <2>1, <2>2, <2>5, <3>1, <4>1, <4>3 DEF EffectStatementsFrom
      <3> QED
        BY <3>3, <3>4
    <2>6. CASE s.kind = "Return"
      <3>1. LowerEffectExpression(s.expression, scope) \in Results
        BY <1>2, <1>6, <2>1, <2>6, ListParts, LowerEffectExpressionRule
      <3> QED
        BY <1>6, <2>1, <2>6, <3>1 DEF EffectStatementsFrom
    <2>7. CASE s.kind \in {"Unsupported", "For"}
      BY <1>2, <1>6, <2>1, <2>7 DEF EffectStatementsFrom
    <2>8. CASE s.kind = "Block"
      <3>1. PICK body \in Lists : body = s.body /\ Size(body) < Size(list)
        BY <1>6, <2>1, <2>8, ListParts
      <3>2. /\ f[<<body, scope, after>>] \in Results
            /\ f[<<body, scope, after>>] = g[<<body, scope, after>>]
        BY <1>1, <3>1
      <3>3. EffectStatementsFrom(f, list, scope, fallback) = Unless(after, f[<<body, scope, after>>])
        BY <1>6, <2>1, <2>2, <2>4, <2>8, <3>1 DEF EffectStatementsFrom
      <3>4. EffectStatementsFrom(g, list, scope, fallback) = Unless(after, g[<<body, scope, after>>])
        BY <1>6, <2>1, <2>2, <2>4, <2>8, <3>1 DEF EffectStatementsFrom
      <3> QED
        BY <1>4, <3>2, <3>3, <3>4
    <2>9. CASE s.kind = "If"
      <3>1. PICK then \in Lists, orElse \in Lists :
               /\ then = s.then /\ Size(then) < Size(list)
               /\ orElse = s.orElse /\ Size(orElse) < Size(list)
        BY <1>6, <2>1, <2>9, ListParts
      <3>2. /\ f[<<then, scope, after>>] \in Results
            /\ f[<<then, scope, after>>] = g[<<then, scope, after>>]
            /\ f[<<orElse, scope, after>>] \in Results
            /\ f[<<orElse, scope, after>>] = g[<<orElse, scope, after>>]
        BY <1>1, <3>1
      <3>3. CompileExpression(s.condition, Plain(scope)) \in Results
        BY <1>2, <1>3, <1>6, <2>1, <2>9, ListParts, CompileExpressionRule
      <3>4. EffectStatementsFrom(f, list, scope, fallback)
               = Unless(after, Merge(CompileExpression(s.condition, Plain(scope)),
                                     f[<<then, scope, after>>], f[<<orElse, scope, after>>]))
        BY <1>6, <2>1, <2>2, <2>4, <2>9, <3>1 DEF EffectStatementsFrom
      <3>5. EffectStatementsFrom(g, list, scope, fallback)
               = Unless(after, Merge(CompileExpression(s.condition, Plain(scope)),
                                     g[<<then, scope, after>>], g[<<orElse, scope, after>>]))
        BY <1>6, <2>1, <2>2, <2>4, <2>9, <3>1 DEF EffectStatementsFrom
      <3>6. Merge(CompileExpression(s.condition, Plain(scope)),
                  f[<<then, scope, after>>], f[<<orElse, scope, after>>]) \in Results
        BY <1>2, <3>2, <3>3, MergeIs
      <3> QED
        BY <1>4, <3>2, <3>4, <3>5, <3>6
    <2> QED
      BY <1>6, <2>1, <2>5, <2>6, <2>7, <2>8, <2>9, ListParts
  <1> QED
    BY <1>5, <1>6

\* The walker is a function that obeys the rule.
LEMMA EffectStatementsRecursion ==
    \E f \in [EffectWalks -> Results] :
       f = [w \in EffectWalks |-> EffectStatementsFrom(f, w[1], w[2], w[3])]
  <1> DEFINE D == EffectWalks
             R == Results
             H == [w \in D \X [D -> R] |-> EffectStatementsFrom(w[2], w[1][1], w[1][2], w[1][3])]
  <1>1. ASSUME NEW a \in D, NEW f \in [D -> R]
        PROVE  H[<<a, f>>] = EffectStatementsFrom(f, a[1], a[2], a[3])
    OBVIOUS
  <1> HIDE DEF H
  <1>2. \A a \in D : a[1] \in Lists /\ a[2] \in Scopes /\ a[3] \in Results
    BY DEF EffectWalks
  <1>3. Typed(H, D, R)
    <2> SUFFICES ASSUME NEW a \in D, NEW f \in [D -> R] PROVE H[<<a, f>>] \in R
      BY DEF Typed
    <2>1. \A w \in D : Size(w[1]) < Size(a[1]) => f[w] \in R /\ f[w] = f[w]
      OBVIOUS
    <2> QED
      BY <1>1, <1>2, <2>1, EffectStatementsFromShorter
  <1>4. Local(H, D, R, EffectSizes)
    <2> SUFFICES ASSUME NEW a \in D, NEW f \in [D -> R], NEW g \in [D -> R],
                        \A b \in D : EffectSizes[b] < EffectSizes[a] => f[b] = g[b]
                 PROVE  H[<<a, f>>] = H[<<a, g>>]
      BY DEF Local
    <2>1. \A b \in D : Size(b[1]) < Size(a[1]) => f[b] \in R /\ f[b] = g[b]
      BY EffectSizesAreNumbers
    <2>2. EffectStatementsFrom(f, a[1], a[2], a[3]) = EffectStatementsFrom(g, a[1], a[2], a[3])
      BY <1>2, <2>1, EffectStatementsFromShorter
    <2> QED
      BY <1>1, <2>2
  <1>5. RuleOn(D, R, EffectSizes, H)
    BY <1>3, <1>4, EffectSizesAreNumbers DEF RuleOn, Results
  <1> HIDE DEF D, R
  <1>6. PICK f \in [D -> R] : \A a \in D : f[a] = H[<<a, f>>]
    BY <1>5, Recursion
  <1>7. f = [w \in D |-> EffectStatementsFrom(f, w[1], w[2], w[3])]
    BY <1>1, <1>6
  <1> QED
    BY <1>7 DEF D, R

EffectWalkOf ==
    CHOOSE lower : lower = [w \in EffectWalks |-> EffectStatementsFrom(lower, w[1], w[2], w[3])]

\* lowerEffectStatements is the function that obeys its rule.
LEMMA LowerEffectStatementsIs ==
    ASSUME NEW list, NEW scope, NEW fallback
    PROVE  LowerEffectStatements(list, scope, fallback) = EffectWalkOf[<<list, scope, fallback>>]
  BY DEF LowerEffectStatements, EffectWalkOf, EffectWalks

\* LowerEffectStatements obeys its rule.
LEMMA LowerEffectStatementsRule ==
    \A w \in EffectWalks :
       /\ EffectWalkOf[w] \in Results
       /\ EffectWalkOf[w] = EffectStatementsFrom(EffectWalkOf, w[1], w[2], w[3])
  <1>1. EffectWalkOf = [w \in EffectWalks |-> EffectStatementsFrom(EffectWalkOf, w[1], w[2], w[3])]
    BY EffectStatementsRecursion DEF EffectWalkOf
  <1> DEFINE T == {w \in EffectWalks : EffectWalkOf[w] \in Results}
  <1>2. ASSUME NEW w \in EffectWalks,
               \A a \in EffectWalks : EffectSizes[a] < EffectSizes[w] => a \in T
        PROVE  w \in T
    <2>1. \A a \in EffectWalks :
             Size(a[1]) < Size(w[1]) => EffectWalkOf[a] \in Results /\ EffectWalkOf[a] = EffectWalkOf[a]
      BY <1>2, EffectSizesAreNumbers
    <2>2. w[1] \in Lists /\ w[2] \in Scopes /\ w[3] \in Results
      BY DEF EffectWalks
    <2>3. EffectStatementsFrom(EffectWalkOf, w[1], w[2], w[3]) \in Results
      BY <2>1, <2>2, EffectStatementsFromShorter
    <2> QED
      BY <1>1, <2>3
  <1> HIDE DEF T
  <1>3. \A w \in EffectWalks : w \in T
    BY <1>2, EffectSizesAreNumbers, SizeInduction
  <1> QED
    BY <1>1, <1>3 DEF T

-----------------------------------------------------------------------------
(* What an expression compiles to is what it evaluates to.                 *)

\* The variables hold what the scope has for them.
Agrees(env, scope, v) ==
    \A n \in Names : scope[n] # Undefined => env[n] = <<scope[n].value[v]>>

\* A variable that holds a value is not dead.
LEMMA Alive == \A value : <<value>> # Dead /\ <<value>>[1] = value
  BY DEF Dead

\* An expression that is compiled has the value of its term, and does not throw.
LEMMA CompileExpressionAgrees ==
    ASSUME NEW scope \in Scopes, NEW env, NEW v \in Valuations, Agrees(env, scope, v)
    PROVE  \A e \in Expressions :
              CompileExpression(e, scope) # Rejected =>
                /\ CompileExpression(e, scope) \in Terms
                /\ Evaluate(e, env) = <<CompileExpression(e, scope).value[v]>>
  <1> DEFINE term == TermOf(scope)
             value == ValueOf(env)
             T == {e \in Expressions : term[e] # Rejected => value[e] = <<term[e].value[v]>>}
  <1>1. \A e \in Expressions : term[e] \in Compiled /\ term[e] = ExpressionFrom(term, e, scope)
    BY TermOfIs
  <1>2. \A e \in Expressions : value[e] = ValueFrom(value, e, env)
    BY EvaluateRule
  <1> HIDE DEF term, value
  <1>3. \A e \in Expressions : term[e] \in Results
    BY <1>1 DEF Compiled, Results
  <1>4. ASSUME NEW e \in Expressions,
               \A a \in Expressions : Heights[a] < Heights[e] => a \in T,
               term[e] # Rejected
        PROVE  value[e] = <<term[e].value[v]>>
    <2>1. \A a \in Expressions :
             Height(a) < Height(e) /\ term[a] \in Terms => value[a] = <<term[a].value[v]>>
      BY <1>4, HeightsAreNumbers, TermElim
    <2>2. CASE e.kind = "Name"
      <3>1. e.name \in Names
        BY <2>2, Parts
      <3>2. scope[e.name] # Undefined /\ term[e] = scope[e.name]
        BY <1>1, <1>4, <2>2 DEF ExpressionFrom
      <3>3. value[e] = env[e.name]
        BY <1>2, <2>2 DEF ValueFrom
      <3> QED
        BY <3>1, <3>2, <3>3 DEF Agrees
    <2>3. CASE e.kind = "Equal"
      <3>1. PICK l \in Expressions, r \in Expressions :
               l = e.left /\ r = e.right /\ Height(l) < Height(e) /\ Height(r) < Height(e)
        BY <2>3, Parts DEF Subexpressions
      <3>2. term[e] = Equate(term[l], term[r])
        BY <1>1, <2>3, <3>1 DEF ExpressionFrom
      <3>3. /\ term[l] \in Terms /\ term[r] \in Terms
            /\ term[e].value[v] = Boolean(term[l].value[v] = term[r].value[v])
        BY <1>3, <1>4, <3>2, EquateIs
      <3>4. value[l] = <<term[l].value[v]>> /\ value[r] = <<term[r].value[v]>>
        BY <2>1, <3>1, <3>3
      <3>5. value[e] = IF value[l] = Dead \/ value[r] = Dead THEN Dead
                       ELSE <<Boolean(value[l][1] = value[r][1])>>
        BY <1>2, <2>3, <3>1 DEF ValueFrom
      <3> QED
        BY <3>3, <3>4, <3>5, Alive
    <2>4. CASE e.kind = "Choose"
      <3>1. PICK c \in Expressions, t \in Expressions, f \in Expressions :
               /\ c = e.condition /\ t = e.whenTrue /\ f = e.whenFalse
               /\ Height(c) < Height(e) /\ Height(t) < Height(e) /\ Height(f) < Height(e)
        BY <2>4, Parts DEF Subexpressions
      <3>2. term[e] = Merge(term[c], term[t], term[f])
        BY <1>1, <2>4, <3>1 DEF ExpressionFrom
      <3>3. /\ term[c] \in Terms /\ term[t] \in Terms /\ term[f] \in Terms
            /\ term[e].value[v] = IF Holds(term[c].value[v]) THEN term[t].value[v] ELSE term[f].value[v]
        BY <1>3, <1>4, <3>2, MergeIs
      <3>4. /\ value[c] = <<term[c].value[v]>>
            /\ value[t] = <<term[t].value[v]>> /\ value[f] = <<term[f].value[v]>>
        BY <2>1, <3>1, <3>3
      <3>5. value[e] = IF value[c] = Dead THEN Dead
                       ELSE IF Holds(value[c][1]) THEN value[t] ELSE value[f]
        BY <1>2, <2>4, <3>1 DEF ValueFrom
      <3> QED
        BY <3>3, <3>4, <3>5, Alive
    <2>5. CASE e.kind \in {"Succeed", "Fail"}
      BY <1>1, <1>4, <2>5 DEF ExpressionFrom
    <2> QED
      BY <2>2, <2>3, <2>4, <2>5, Parts
  <1>5. \A e \in Expressions : (\A a \in Expressions : Heights[a] < Heights[e] => a \in T) => e \in T
    BY <1>4
  <1> HIDE DEF T
  <1>6. \A e \in Expressions : e \in T
    BY <1>5, HeightsAreNumbers, SizeInduction
  <1> QED
    BY <1>1, <1>6, CompileExpressionIs, EvaluateIs DEF T, term, value, Compiled

\* A plain expression sees some of the names alone.
LEMMA PlainAgrees ==
    ASSUME NEW scope \in Scopes, NEW env, NEW v, Agrees(env, scope, v)
    PROVE  Agrees(env, Plain(scope), v)
  BY PlainIs DEF Agrees

\* An expression lowered to an Effect has the Effect as its value.
LEMMA LowerEffectExpressionAgrees ==
    ASSUME NEW scope \in Scopes, NEW env, NEW v \in Valuations, Agrees(env, scope, v)
    PROVE  \A e \in Expressions :
              LowerEffectExpression(e, scope) # Rejected =>
                /\ LowerEffectExpression(e, scope) \in Terms
                /\ Evaluate(e, env) = <<LowerEffectExpression(e, scope).value[v]>>
  <1> DEFINE effect == EffectOf(scope)
             value == ValueOf(env)
             T == {e \in Expressions : effect[e] # Rejected => value[e] = <<effect[e].value[v]>>}
  <1>1. \A e \in Expressions : effect[e] \in Compiled /\ effect[e] = EffectFrom(effect, e, scope)
    BY LowerEffectExpressionRule
  <1>2. \A e \in Expressions : value[e] = ValueFrom(value, e, env)
    BY EvaluateRule
  <1>3. PICK names \in Scopes : names = Plain(scope)
    BY PlainIs
  <1>4. Agrees(env, names, v)
    BY <1>3, PlainAgrees
  <1>5. \A a \in Expressions :
           /\ CompileExpression(a, names) \in Results
           /\ CompileExpression(a, names) \in Terms =>
                value[a] = <<CompileExpression(a, names).value[v]>>
    <2>1. \A a \in Expressions : CompileExpression(a, names) \in Results
      BY CompileExpressionRule DEF Compiled, Results
    <2> QED
      BY <1>4, <2>1, CompileExpressionAgrees, EvaluateRule, TermElim
  <1> HIDE DEF effect, value
  <1>6. \A e \in Expressions : effect[e] \in Results
    BY <1>1 DEF Compiled, Results
  <1>7. ASSUME NEW e \in Expressions,
               \A a \in Expressions : Heights[a] < Heights[e] => a \in T,
               effect[e] # Rejected
        PROVE  value[e] = <<effect[e].value[v]>>
    <2>1. \A a \in Expressions :
             Height(a) < Height(e) /\ effect[a] \in Terms => value[a] = <<effect[a].value[v]>>
      BY <1>7, HeightsAreNumbers, TermElim
    <2>2. CASE e.kind = "Name"
      <3>1. e.name \in Names
        BY <2>2, Parts
      <3>2. scope[e.name].sort = "Effect" /\ effect[e] = scope[e.name]
        BY <1>1, <1>7, <2>2 DEF EffectFrom
      <3>3. value[e] = env[e.name]
        BY <1>2, <2>2 DEF ValueFrom
      <3>4. scope[e.name] # Undefined
        BY <3>2, Marks
      <3> QED
        BY <3>1, <3>2, <3>3, <3>4 DEF Agrees
    <2>3. CASE e.kind = "Choose"
      <3>1. PICK c \in Expressions, t \in Expressions, f \in Expressions :
               /\ c = e.condition /\ t = e.whenTrue /\ f = e.whenFalse
               /\ Height(c) < Height(e) /\ Height(t) < Height(e) /\ Height(f) < Height(e)
        BY <2>3, Parts DEF Subexpressions
      <3>2. PICK test \in Results : test = CompileExpression(c, names)
        BY <1>5
      <3>3. effect[e] = Merge(test, effect[t], effect[f])
        BY <1>1, <1>3, <2>3, <3>1, <3>2 DEF EffectFrom
      <3>4. /\ test \in Terms /\ effect[t] \in Terms /\ effect[f] \in Terms
            /\ effect[e].value[v] = IF Holds(test.value[v]) THEN effect[t].value[v] ELSE effect[f].value[v]
        BY <1>6, <1>7, <3>3, MergeIs
      <3>5. /\ value[c] = <<test.value[v]>>
            /\ value[t] = <<effect[t].value[v]>> /\ value[f] = <<effect[f].value[v]>>
        BY <1>5, <2>1, <3>1, <3>2, <3>4
      <3>6. value[e] = IF value[c] = Dead THEN Dead
                       ELSE IF Holds(value[c][1]) THEN value[t] ELSE value[f]
        BY <1>2, <2>3, <3>1 DEF ValueFrom
      <3> QED
        BY <3>4, <3>5, <3>6, Alive
    <2>4. CASE e.kind = "Succeed"
      <3>1. PICK a \in Expressions : a = e.payload
        BY <2>4, Parts DEF Subexpressions
      <3>2. PICK payload \in Results : payload = CompileExpression(a, names)
        BY <1>5
      <3>3. effect[e] = Successful(payload)
        BY <1>1, <1>3, <2>4, <3>1, <3>2 DEF EffectFrom
      <3>4. payload \in Terms /\ effect[e].value[v] = Succeeds(payload.value[v])
        BY <1>7, <3>3, SuccessfulIs
      <3>5. value[a] = <<payload.value[v]>>
        BY <1>5, <3>2, <3>4
      <3>6. value[e] = IF value[a] = Dead THEN Dead ELSE <<Succeeds(value[a][1])>>
        BY <1>2, <2>4, <3>1 DEF ValueFrom
      <3> QED
        BY <3>4, <3>5, <3>6, Alive
    <2>5. CASE e.kind = "Fail"
      <3>1. effect[e] = Failing(e.tag) /\ value[e] = <<Fails(e.tag)>>
        BY <1>1, <1>2, <2>5 DEF EffectFrom, ValueFrom
      <3> QED
        BY <1>7, <3>1, FailingIs
    <2>6. CASE e.kind = "Equal"
      BY <1>1, <1>7, <2>6 DEF EffectFrom
    <2> QED
      BY <2>2, <2>3, <2>4, <2>5, <2>6, Parts
  <1>8. \A e \in Expressions : (\A a \in Expressions : Heights[a] < Heights[e] => a \in T) => e \in T
    BY <1>7
  <1> HIDE DEF T
  <1>9. \A e \in Expressions : e \in T
    BY <1>8, HeightsAreNumbers, SizeInduction
  <1> QED
    BY <1>1, <1>9, LowerEffectExpressionIs, EvaluateIs DEF T, effect, value, Compiled

-----------------------------------------------------------------------------
(* Both walkers at once.  What a walker does not reject, it has looked     *)
(* into: its parts are not rejected either.                                *)

Kinds == {"SourceProof", "SourceEffectProof"}

Initial(kind, e, scope) ==
    IF kind = "SourceProof" THEN CompileExpression(e, scope) ELSE LowerInitializer(e, scope)

Returned(kind, e, scope) ==
    IF kind = "SourceProof" THEN CompileExpression(e, scope) ELSE LowerEffectExpression(e, scope)

Condition(kind, e, scope) ==
    IF kind = "SourceProof" THEN CompileExpression(e, scope) ELSE CompileExpression(e, Plain(scope))

Walk(kind, list, scope, fallback, depth) ==
    IF kind = "SourceProof"
      THEN CompileStatements(list, scope, fallback, depth)
      ELSE LowerEffectStatements(list, scope, fallback)

\* An expression of an accepted statement has the value of its term.
LEMMA ExpressionsAgree ==
    ASSUME NEW kind \in Kinds, NEW scope \in Scopes, NEW env, NEW v \in Valuations,
           Agrees(env, scope, v), NEW e \in Expressions,
           NEW term \in {Initial(kind, e, scope), Returned(kind, e, scope), Condition(kind, e, scope)},
           term # Rejected
    PROVE  term \in Terms /\ Evaluate(e, env) = <<term.value[v]>>
  <1>1. Plain(scope) \in Scopes /\ Agrees(env, Plain(scope), v)
    BY PlainIs, PlainAgrees
  <1>2. \/ term = CompileExpression(e, scope)
        \/ term = CompileExpression(e, Plain(scope))
        \/ term = LowerEffectExpression(e, scope)
    BY DEF Initial, Returned, Condition, LowerInitializer
  <1>3. CASE term = CompileExpression(e, scope)
    BY <1>3, CompileExpressionAgrees
  <1>4. CASE term = CompileExpression(e, Plain(scope))
    BY <1>1, <1>4, CompileExpressionAgrees
  <1>5. CASE term = LowerEffectExpression(e, scope)
    BY <1>5, LowerEffectExpressionAgrees
  <1> QED
    BY <1>2, <1>3, <1>4, <1>5

\* The same of each place an expression may have in a statement.
LEMMA PlacesAgree ==
    ASSUME NEW kind \in Kinds, NEW scope \in Scopes, NEW env, NEW v \in Valuations,
           Agrees(env, scope, v), NEW e \in Expressions, NEW term, term # Rejected
    PROVE  /\ term = Initial(kind, e, scope) => term \in Terms /\ Evaluate(e, env) = <<term.value[v]>>
           /\ term = Returned(kind, e, scope) => term \in Terms /\ Evaluate(e, env) = <<term.value[v]>>
           /\ term = Condition(kind, e, scope) => term \in Terms /\ Evaluate(e, env) = <<term.value[v]>>
  <1>1. ASSUME term \in {Initial(kind, e, scope), Returned(kind, e, scope), Condition(kind, e, scope)}
        PROVE  term \in Terms /\ Evaluate(e, env) = <<term.value[v]>>
    BY <1>1, ExpressionsAgree
  <1> QED
    BY <1>1

\* Each place of an expression has a term, or is rejected.
LEMMA ExpressionsTyped ==
    ASSUME NEW kind \in Kinds, NEW scope \in Scopes, NEW e \in Expressions
    PROVE  /\ Initial(kind, e, scope) \in Compiled
           /\ Returned(kind, e, scope) \in Compiled
           /\ Condition(kind, e, scope) \in Results
  BY PlainIs, CompileExpressionRule, LowerEffectExpressionRule, LowerInitializerTyped
     DEF Initial, Returned, Condition, Compiled, Results

\* The walker, by its rule.
LEMMA WalkRule ==
    ASSUME NEW kind \in Kinds, NEW list \in Lists, NEW scope \in Scopes,
           NEW fallback \in Results, NEW depth \in 0..1
    PROVE  /\ Walk(kind, list, scope, fallback, depth) \in Results
           /\ kind = "SourceProof" =>
                Walk(kind, list, scope, fallback, depth)
                  = StatementsFrom(WalkOf, list, scope, fallback, depth)
           /\ kind # "SourceProof" =>
                Walk(kind, list, scope, fallback, depth)
                  = EffectStatementsFrom(EffectWalkOf, list, scope, fallback)
  <1>1. PICK w \in Walks : w = <<list, scope, fallback, depth>>
    BY DEF Walks
  <1>2. w[1] = list /\ w[2] = scope /\ w[3] = fallback /\ w[4] = depth
    BY <1>1
  <1>3. PICK u \in EffectWalks : u = <<list, scope, fallback>>
    BY DEF EffectWalks
  <1>4. u[1] = list /\ u[2] = scope /\ u[3] = fallback
    BY <1>3
  <1>5. CASE kind = "SourceProof"
    BY <1>1, <1>2, <1>5, CompileStatementsIs, CompileStatementsRule DEF Walk
  <1>6. CASE kind # "SourceProof"
    BY <1>3, <1>4, <1>6, LowerEffectStatementsIs, LowerEffectStatementsRule DEF Walk
  <1> QED
    BY <1>5, <1>6

\* At the end of a list, what follows it goes on.
LEMMA WalkEmpty ==
    ASSUME NEW kind \in Kinds, NEW scope \in Scopes, NEW fallback \in Results, NEW depth \in 0..1,
           NEW list \in Lists, list = << >>
    PROVE  Walk(kind, list, scope, fallback, depth) = fallback
  BY WalkRule, ZenonT(60) DEF StatementsFrom, EffectStatementsFrom

\* A constant is bound for the statements after it, and hides no name.
LEMMA WalkConst ==
    ASSUME NEW kind \in Kinds, NEW scope \in Scopes, NEW fallback \in Results, NEW depth \in 0..1,
           NEW list \in Lists, list # << >>, NEW s, s = Head(list), s.kind = "Const",
           Walk(kind, list, scope, fallback, depth) # Rejected
    PROVE  /\ scope[s.name] = Undefined
           /\ Initial(kind, s.initializer, scope) # Rejected
           /\ Walk(kind, list, scope, fallback, depth)
                = Walk(kind, Tail(list), Bind(scope, s.name, Initial(kind, s.initializer, scope)),
                       fallback, depth)
  <1>1. CASE kind = "SourceProof"
    <2>1. Walk(kind, list, scope, fallback, depth) = StatementsFrom(WalkOf, list, scope, fallback, depth)
      BY <1>1, WalkRule
    <2>2. Walk(kind, Tail(list), Bind(scope, s.name, Initial(kind, s.initializer, scope)), fallback, depth)
            = WalkOf[<<Tail(list), Bind(scope, s.name, Initial(kind, s.initializer, scope)), fallback, depth>>]
      BY <1>1, CompileStatementsIs, Zenon DEF Walk
    <2> QED
      BY <1>1, <2>1, <2>2 DEF StatementsFrom, Initial
  <1>2. CASE kind = "SourceEffectProof"
    <2>1. Walk(kind, list, scope, fallback, depth) = EffectStatementsFrom(EffectWalkOf, list, scope, fallback)
      BY <1>2, WalkRule
    <2>2. Walk(kind, Tail(list), Bind(scope, s.name, Initial(kind, s.initializer, scope)), fallback, depth)
            = EffectWalkOf[<<Tail(list), Bind(scope, s.name, Initial(kind, s.initializer, scope)), fallback>>]
      BY <1>2, LowerEffectStatementsIs, Zenon DEF Walk
    <2> QED
      BY <1>2, <2>1, <2>2 DEF EffectStatementsFrom, Initial
  <1> QED
    BY <1>1, <1>2 DEF Kinds

\* A return has the term of its expression; nothing else that leaves the function is accepted.
LEMMA WalkReturn ==
    ASSUME NEW kind \in Kinds, NEW scope \in Scopes, NEW fallback \in Results, NEW depth \in 0..1,
           NEW list \in Lists, list # << >>, NEW s, s = Head(list), s.kind \in {"Return", "Unsupported"},
           Walk(kind, list, scope, fallback, depth) # Rejected
    PROVE  /\ s.kind = "Return"
           /\ Walk(kind, list, scope, fallback, depth) = Returned(kind, s.expression, scope)
  <1>1. CASE kind = "SourceProof"
    <2>1. Walk(kind, list, scope, fallback, depth) = StatementsFrom(WalkOf, list, scope, fallback, depth)
      BY <1>1, WalkRule
    <2> QED
      BY <1>1, <2>1 DEF StatementsFrom, Returned
  <1>2. CASE kind = "SourceEffectProof"
    <2>1. Walk(kind, list, scope, fallback, depth) = EffectStatementsFrom(EffectWalkOf, list, scope, fallback)
      BY <1>2, WalkRule
    <2> QED
      BY <1>2, <2>1 DEF EffectStatementsFrom, Returned
  <1> QED
    BY <1>1, <1>2 DEF Kinds

\* A block is followed by what follows it, which is accepted as well.
LEMMA WalkBlock ==
    ASSUME NEW kind \in Kinds, NEW scope \in Scopes, NEW fallback \in Results, NEW depth \in 0..1,
           NEW list \in Lists, list # << >>, NEW s, s = Head(list), s.kind = "Block",
           NEW after, after = Walk(kind, Tail(list), scope, fallback, depth),
           Walk(kind, list, scope, fallback, depth) # Rejected
    PROVE  /\ after # Rejected
           /\ Walk(kind, list, scope, fallback, depth) = Walk(kind, s.body, scope, after, depth)
  <1>1. CASE kind = "SourceProof"
    <2>1. Walk(kind, list, scope, fallback, depth) = StatementsFrom(WalkOf, list, scope, fallback, depth)
      BY <1>1, WalkRule
    <2>2. Walk(kind, Tail(list), scope, fallback, depth)
            = WalkOf[<<Tail(list), scope, fallback, depth>>]
      BY <1>1, CompileStatementsIs, Zenon DEF Walk
    <2>3. Walk(kind, s.body, scope, after, depth) = WalkOf[<<s.body, scope, after, depth>>]
      BY <1>1, CompileStatementsIs, Zenon DEF Walk
    <2> QED
      BY <1>1, <2>1, <2>2, <2>3 DEF StatementsFrom, Unless
  <1>2. CASE kind = "SourceEffectProof"
    <2>1. Walk(kind, list, scope, fallback, depth) = EffectStatementsFrom(EffectWalkOf, list, scope, fallback)
      BY <1>2, WalkRule
    <2>2. Walk(kind, Tail(list), scope, fallback, depth)
            = EffectWalkOf[<<Tail(list), scope, fallback>>]
      BY <1>2, LowerEffectStatementsIs, Zenon DEF Walk
    <2>3. Walk(kind, s.body, scope, after, depth) = EffectWalkOf[<<s.body, scope, after>>]
      BY <1>2, LowerEffectStatementsIs, Zenon DEF Walk
    <2> QED
      BY <1>2, <2>1, <2>2, <2>3 DEF EffectStatementsFrom, Unless
  <1> QED
    BY <1>1, <1>2 DEF Kinds

\* Both branches are followed by what follows the conditional, which is accepted as well.
LEMMA WalkIf ==
    ASSUME NEW kind \in Kinds, NEW scope \in Scopes, NEW fallback \in Results, NEW depth \in 0..1,
           NEW list \in Lists, list # << >>, NEW s, s = Head(list), s.kind = "If",
           NEW after, after = Walk(kind, Tail(list), scope, fallback, depth),
           Walk(kind, list, scope, fallback, depth) # Rejected
    PROVE  /\ after # Rejected
           /\ Walk(kind, list, scope, fallback, depth)
                = Merge(Condition(kind, s.condition, scope),
                        Walk(kind, s.then, scope, after, depth),
                        Walk(kind, s.orElse, scope, after, depth))
  <1>1. CASE kind = "SourceProof"
    <2>1. Walk(kind, list, scope, fallback, depth) = StatementsFrom(WalkOf, list, scope, fallback, depth)
      BY <1>1, WalkRule
    <2>2. Walk(kind, Tail(list), scope, fallback, depth)
            = WalkOf[<<Tail(list), scope, fallback, depth>>]
      BY <1>1, CompileStatementsIs, Zenon DEF Walk
    <2>3. Walk(kind, s.then, scope, after, depth) = WalkOf[<<s.then, scope, after, depth>>]
      BY <1>1, CompileStatementsIs, Zenon DEF Walk
    <2>4. Walk(kind, s.orElse, scope, after, depth) = WalkOf[<<s.orElse, scope, after, depth>>]
      BY <1>1, CompileStatementsIs, Zenon DEF Walk
    <2> QED
      BY <1>1, <2>1, <2>2, <2>3, <2>4 DEF StatementsFrom, Unless, Condition
  <1>2. CASE kind = "SourceEffectProof"
    <2>1. Walk(kind, list, scope, fallback, depth) = EffectStatementsFrom(EffectWalkOf, list, scope, fallback)
      BY <1>2, WalkRule
    <2>2. Walk(kind, Tail(list), scope, fallback, depth)
            = EffectWalkOf[<<Tail(list), scope, fallback>>]
      BY <1>2, LowerEffectStatementsIs, Zenon DEF Walk
    <2>3. Walk(kind, s.then, scope, after, depth) = EffectWalkOf[<<s.then, scope, after>>]
      BY <1>2, LowerEffectStatementsIs, Zenon DEF Walk
    <2>4. Walk(kind, s.orElse, scope, after, depth) = EffectWalkOf[<<s.orElse, scope, after>>]
      BY <1>2, LowerEffectStatementsIs, Zenon DEF Walk
    <2> QED
      BY <1>2, <2>1, <2>2, <2>3, <2>4 DEF EffectStatementsFrom, Unless, Condition
  <1> QED
    BY <1>1, <1>2 DEF Kinds

\* The first iteration is followed by the later ones, in the one walker that has loops.
LEMMA WalkFor ==
    ASSUME NEW kind \in Kinds, NEW scope \in Scopes, NEW fallback \in Results, NEW depth \in 0..1,
           NEW list \in Lists, list # << >>, NEW s, s = Head(list), s.kind = "For",
           NEW later, later = Walk(kind, AfterIteration(list), scope, fallback, depth),
           Walk(kind, list, scope, fallback, depth) # Rejected
    PROVE  /\ kind = "SourceProof"
           /\ depth = 0
           /\ scope[s.name] = Undefined
           /\ s.iterations = << >> =>
                Walk(kind, list, scope, fallback, depth) = Walk(kind, Tail(list), scope, fallback, depth)
           /\ s.iterations # << >> =>
                /\ later # Rejected
                /\ IsTerm(Walk(kind, list, scope, fallback, depth))
                /\ Walk(kind, list, scope, fallback, depth)
                     = Walk(kind, s.body, Bind(scope, s.name, FirstIteration(s)), later, 1)
  <1>1. CASE kind = "SourceProof"
    <2>1. PICK rest, next, body, names :
             /\ rest = Tail(list) /\ next = AfterIteration(list) /\ body = s.body
             /\ names = Bind(scope, s.name, FirstIteration(s))
      OBVIOUS
    <2>2. PICK result : result = Walk(kind, list, scope, fallback, depth)
      OBVIOUS
    <2>3. result = StatementsFrom(WalkOf, list, scope, fallback, depth)
      BY <1>1, <2>2, WalkRule
    <2>4. PICK after : after = Walk(kind, rest, scope, fallback, depth)
      OBVIOUS
    <2>5. PICK iteration : iteration = Walk(kind, body, names, later, 1)
      OBVIOUS
    <2>6. after = WalkOf[<<rest, scope, fallback, depth>>]
      BY <1>1, <2>4, CompileStatementsIs, Zenon DEF Walk
    <2>7. later = WalkOf[<<next, scope, fallback, depth>>]
      BY <1>1, <2>1, CompileStatementsIs, Zenon DEF Walk
    <2>8. iteration = WalkOf[<<body, names, later, 1>>]
      BY <1>1, <2>5, CompileStatementsIs, Zenon DEF Walk
    <2>9. result = IF depth > 0 \/ scope[s.name] # Undefined THEN Rejected
                   ELSE IF s.iterations = << >> THEN after
                   ELSE Unless(later, IF IsTerm(iteration) THEN iteration ELSE Rejected)
      BY <2>1, <2>3, <2>6, <2>7, <2>8 DEF StatementsFrom
    <2>10. /\ depth = 0
           /\ scope[s.name] = Undefined
           /\ s.iterations = << >> => result = after
           /\ s.iterations # << >> => later # Rejected /\ IsTerm(result) /\ result = iteration
      BY <2>2, <2>9 DEF Unless
    <2> QED
      BY <1>1, <2>1, <2>2, <2>4, <2>5, <2>10
  <1>2. CASE kind = "SourceEffectProof"
    <2>1. Walk(kind, list, scope, fallback, depth) = EffectStatementsFrom(EffectWalkOf, list, scope, fallback)
      BY <1>2, WalkRule
    <2>2. Walk(kind, Tail(list), scope, fallback, depth)
            = EffectWalkOf[<<Tail(list), scope, fallback>>]
      BY <1>2, LowerEffectStatementsIs, Zenon DEF Walk
    <2>3. Walk(kind, AfterIteration(list), scope, fallback, depth)
            = EffectWalkOf[<<AfterIteration(list), scope, fallback>>]
      BY <1>2, LowerEffectStatementsIs, Zenon DEF Walk
    <2>4. Walk(kind, s.body, Bind(scope, s.name, FirstIteration(s)), later, 1)
            = EffectWalkOf[<<s.body, Bind(scope, s.name, FirstIteration(s)), later>>]
      BY <1>2, LowerEffectStatementsIs, Zenon DEF Walk
    <2> QED
      BY <1>2, <2>1, <2>2, <2>3, <2>4 DEF EffectStatementsFrom, Unless
  <1> QED
    BY <1>1, <1>2 DEF Kinds

-----------------------------------------------------------------------------
(* The constants of a list.                                                *)

\* What a list declares, its first statement or the others declare.
LEMMA DeclaredIs ==
    ASSUME NothingBehindReturn, NEW list \in Lists, list # << >>, NEW n \in Declared(list)
    PROVE  /\ (Head(list).kind = "Const" /\ n = Head(list).name) \/ n \in Declared(Tail(list))
           /\ Head(list).kind = "For" => n \in Declared(AfterIteration(list))
           /\ Head(list).kind # "Return"
  <1>1. PICK k \in DOMAIN list : list[k].kind = "Const" /\ n = list[k].name
    BY DEF Declared
  <1>2. PICK S : list \in Seq(S)
    BY SyntaxAssumption
  <1>3. NoLateConst(list)
    BY DEF NothingBehindReturn
  <1>4. k \in 1..Len(list) /\ DOMAIN list = 1..Len(list) /\ Len(list) \in Nat
    BY <1>2
  <1>5. k = 1 => list[k] = Head(list)
    BY <1>2, <1>4
  <1>6. ASSUME k # 1 PROVE n \in Declared(Tail(list))
    <2>1. PICK rest : rest = Tail(list)
      OBVIOUS
    <2>2. k - 1 \in DOMAIN rest /\ rest[k - 1] = list[k]
      BY <1>2, <1>4, <1>6, <2>1
    <2>3. n \in Declared(rest)
      BY <1>1, <2>2 DEF Declared
    <2> QED
      BY <2>1, <2>3
  <1>7. ASSUME Head(list).kind = "For" PROVE n \in Declared(AfterIteration(list))
    <2>0. Tail(list) \in Seq(S)
      BY <1>2
    <2>1. PICK rest \in Seq(S) : rest = Tail(list)
      BY <2>0, Zenon
    <2>2. PICK next : next = For(Head(list).name, Tail(Head(list).iterations), Head(list).body)
      OBVIOUS
    <2>3. k - 1 \in 1..Len(rest) /\ rest[k - 1] = list[k] /\ Len(rest) \in Nat
      BY <1>1, <1>2, <1>4, <1>5, <1>7, <2>1
    <2>4. DOMAIN (<<next>> \o rest) = 1..(1 + Len(rest)) /\ (<<next>> \o rest)[k] = rest[k - 1]
      BY <2>1, <2>3
    <2>5. k \in DOMAIN AfterIteration(list) /\ AfterIteration(list)[k] = list[k]
      BY <1>4, <2>1, <2>2, <2>3, <2>4 DEF AfterIteration
    <2> QED
      BY <1>1, <2>5 DEF Declared
  <1>8. Head(list).kind # "Return"
    <2>1. 1 \in DOMAIN list /\ list[1] = Head(list)
      BY <1>2, <1>4
    <2> QED
      BY <1>1, <1>3, <1>4, <1>5, <2>1 DEF NoLateConst
  <1> QED
    BY <1>1, <1>5, <1>6, <1>7, <1>8

ListSizes == [list \in Lists |-> Size(list)]

\* What SizeInduction asks of the sizes.
LEMMA ListSizesAreNumbers == \A list \in Lists : ListSizes[list] \in Nat /\ ListSizes[list] = Size(list)
  <1>1. MaxSize \in Nat /\ \A list \in Lists : Size(list) \in 0..MaxSize
    BY SyntaxAssumption
  <1> QED
    BY <1>1 DEF ListSizes

\* No name a list declares is in scope.
Unbound(list, scope) == \A n \in Declared(list) : n \in Names => scope[n] = Undefined

\* An accepted list declares no name that is in scope: it hides none.
LEMMA NoShadow ==
    ASSUME NothingBehindReturn, NEW kind \in Kinds
    PROVE  \A list \in Lists : \A scope \in Scopes, fallback \in Results, depth \in 0..1 :
              Walk(kind, list, scope, fallback, depth) # Rejected => Unbound(list, scope)
  <1> DEFINE Safe(list) ==
               \A scope \in Scopes, fallback \in Results, depth \in 0..1 :
                  Walk(kind, list, scope, fallback, depth) # Rejected => Unbound(list, scope)
             T == {list \in Lists : Safe(list)}
  <1>1. ASSUME NEW list \in Lists,
               \A l \in Lists : ListSizes[l] < ListSizes[list] => l \in T,
               NEW scope \in Scopes, NEW fallback \in Results, NEW depth \in 0..1,
               Walk(kind, list, scope, fallback, depth) # Rejected,
               NEW n \in Declared(list), n \in Names
        PROVE  scope[n] = Undefined
    <2>1. \A l \in Lists : Size(l) < Size(list) => Safe(l)
      BY <1>1, ListSizesAreNumbers
    <2> HIDE DEF Safe
    <2>2. list # << >>
      BY DEF Declared
    <2>3. PICK s, rest : s = Head(list) /\ rest = Tail(list)
      OBVIOUS
    <2>4. rest \in Lists /\ Safe(rest)
      BY <2>1, <2>2, <2>3, ListParts
    <2>5. CASE s.kind = "Const"
      <3>1. PICK local : local = Initial(kind, s.initializer, scope)
        OBVIOUS
      <3>2. /\ scope[s.name] = Undefined /\ local # Rejected
            /\ Walk(kind, rest, Bind(scope, s.name, local), fallback, depth) # Rejected
        BY <1>1, <2>2, <2>3, <2>5, <3>1, WalkConst
      <3>3. s.name \in Names /\ local \in Terms
        BY <2>2, <2>3, <2>5, <3>1, <3>2, ListParts, ExpressionsTyped DEF Compiled
      <3>4. PICK names \in Scopes : names = Bind(scope, s.name, local)
        BY <3>3, BindIs
      <3>5. n = s.name \/ n \in Declared(rest)
        BY <2>2, <2>3, DeclaredIs
      <3>6. ASSUME n # s.name PROVE names[n] = Undefined /\ names[n] = scope[n]
        <4>1. names[n] = scope[n]
          BY <1>1, <3>3, <3>4, <3>6, BindIs
        <4>2. Unbound(rest, names)
          BY <2>4, <3>2, <3>4 DEF Safe
        <4> QED
          BY <1>1, <3>5, <3>6, <4>1, <4>2 DEF Unbound
      <3> QED
        BY <3>2, <3>6
    <2>6. CASE s.kind \in {"Return", "Unsupported"}
      BY <1>1, <2>2, <2>3, <2>6, WalkReturn, DeclaredIs
    <2>7. CASE s.kind \in {"Block", "If"} \/ (s.kind = "For" /\ s.iterations = << >>)
      <3>1. Walk(kind, rest, scope, fallback, depth) # Rejected
        BY <1>1, <2>2, <2>3, <2>7, WalkBlock, WalkIf, WalkFor
      <3>2. n \in Declared(rest)
        BY <2>2, <2>3, <2>7, DeclaredIs
      <3> QED
        BY <1>1, <2>4, <3>1, <3>2 DEF Safe, Unbound
    <2>8. CASE s.kind = "For" /\ s.iterations # << >>
      <3>1. PICK next \in Lists : next = AfterIteration(list) /\ Safe(next)
        BY <2>1, <2>2, <2>3, <2>8, ListParts
      <3>2. Walk(kind, next, scope, fallback, depth) # Rejected
        BY <1>1, <2>2, <2>3, <2>8, <3>1, WalkFor
      <3>3. n \in Declared(next)
        BY <2>2, <2>3, <2>8, <3>1, DeclaredIs
      <3> QED
        BY <1>1, <3>1, <3>2, <3>3 DEF Safe, Unbound
    <2> QED
      BY <2>2, <2>3, <2>5, <2>6, <2>7, <2>8, ListParts
  <1>2. \A list \in Lists : (\A l \in Lists : ListSizes[l] < ListSizes[list] => l \in T) => list \in T
    BY <1>1 DEF Unbound
  <1> HIDE DEF T
  <1>3. \A list \in Lists : list \in T
    BY <1>2, ListSizesAreNumbers, SizeInduction
  <1> QED
    BY <1>3 DEF T

\* So its block starts with the names in scope unhidden.
LEMMA FrameAgrees ==
    ASSUME NothingBehindReturn,
           NEW kind \in Kinds, NEW list \in Lists, NEW scope \in Scopes, NEW fallback \in Results,
           NEW depth \in 0..1, Walk(kind, list, scope, fallback, depth) # Rejected,
           NEW env, NEW v, Agrees(env, scope, v)
    PROVE  Agrees(Frame(list, env).env, scope, v)
  <1>1. \A n \in Names :
           Frame(list, env).env[n] = IF n \in Declared(list) THEN Dead ELSE env[n]
    BY DEF Frame
  <1>2. Unbound(list, scope)
    BY NoShadow
  <1> QED
    BY <1>1, <1>2 DEF Agrees, Unbound

-----------------------------------------------------------------------------
(* The blocks of a call.  Each has the scope its statements were compiled  *)
(* in, their term, and the loops around them; what follows the statements  *)
(* of a block is what the block below it has left.                         *)

Slots == {Dead} \cup {<<value>> : value \in Universe("Int") \cup Universe("Bool") \cup Effects}

Environments == [Names -> Slots]

Frames == [statements : Lists, env : Environments]

Ghosts == [scope : Scopes, term : Results, depth : 0..1]

\* The walker made the ghost of what is left of the block, and the variables agree.
Accepted(kind, frame, ghost, below, v) ==
    /\ ghost.term = Walk(kind, frame.statements, ghost.scope, below, ghost.depth)
    /\ ghost.term # Rejected
    /\ Agrees(frame.env, ghost.scope, v)

\* The term of what follows the k-th block.
Below(ghosts, k) == IF k = 1 THEN Undefined ELSE ghosts[k - 1].term

Fits(kind, stack, ghosts, v) ==
    /\ stack \in Seq(Frames)
    /\ ghosts \in Seq(Ghosts)
    /\ Len(ghosts) = Len(stack)
    /\ \A k \in 1..Len(stack) : Accepted(kind, stack[k], ghosts[k], Below(ghosts, k), v)

\* The blocks will return this value.
WillReturn(kind, stack, v, value) ==
    \E ghosts :
       /\ Fits(kind, stack, ghosts, v)
       /\ stack # << >>
       /\ IsTerm(ghosts[Len(stack)].term)
       /\ ghosts[Len(stack)].term.value[v] = value

\* What is known of the innermost block, and of what follows it.
LEMMA TopFits ==
    ASSUME NEW kind, NEW stack, NEW ghosts, NEW v, Fits(kind, stack, ghosts, v), stack # << >>
    PROVE  /\ Len(stack) \in Nat /\ Len(stack) >= 1
           /\ stack[Len(stack)] \in Frames
           /\ ghosts[Len(stack)] \in Ghosts
           /\ Below(ghosts, Len(stack)) \in Results
           /\ Accepted(kind, stack[Len(stack)], ghosts[Len(stack)], Below(ghosts, Len(stack)), v)
  <1>1. stack \in Seq(Frames) /\ ghosts \in Seq(Ghosts) /\ Len(ghosts) = Len(stack)
    BY DEF Fits
  <1>2. Len(stack) \in Nat /\ Len(stack) >= 1
    BY <1>1
  <1>3. stack[Len(stack)] \in Frames /\ ghosts[Len(stack)] \in Ghosts
    BY <1>1, <1>2
  <1>4. ASSUME Len(stack) # 1 PROVE ghosts[Len(stack) - 1] \in Ghosts
    BY <1>1, <1>2, <1>4
  <1>5. Below(ghosts, Len(stack)) \in Results
    BY <1>4 DEF Below, Ghosts, Results
  <1> QED
    BY <1>2, <1>3, <1>5 DEF Fits

\* The four changes of the stack, as the engine makes them.
Replaced(stack, frame) == [stack EXCEPT ![Len(stack)] = frame]

Left(statements, env) == [statements |-> statements, env |-> env]

Pushed(stack, frame) == Append(stack, frame)

Popped(stack) == SubSeq(stack, 1, Len(stack) - 1)

\* The innermost block goes on.
LEMMA ReplaceFits ==
    ASSUME NEW kind, NEW stack, NEW ghosts, NEW v, Fits(kind, stack, ghosts, v), stack # << >>,
           NEW frame \in Frames, NEW ghost \in Ghosts,
           Accepted(kind, frame, ghost, Below(ghosts, Len(stack)), v),
           NEW next, next = Replaced(stack, frame)
    PROVE  \E others :
              /\ Fits(kind, next, others, v)
              /\ next # << >>
              /\ others[Len(next)] = ghost
  <1>1. stack \in Seq(Frames) /\ ghosts \in Seq(Ghosts) /\ Len(ghosts) = Len(stack)
    BY DEF Fits
  <1>2. PICK n \in Nat : n = Len(stack) /\ n >= 1
    BY TopFits
  <1>3. PICK others : others = [ghosts EXCEPT ![n] = ghost]
    OBVIOUS
  <1>4. /\ next \in Seq(Frames) /\ Len(next) = n /\ next[n] = frame
        /\ \A k \in 1..n : k # n => next[k] = stack[k]
    BY <1>1, <1>2 DEF Replaced
  <1>5. /\ others \in Seq(Ghosts) /\ Len(others) = n /\ others[n] = ghost
        /\ \A k \in 1..n : k # n => others[k] = ghosts[k]
    BY <1>1, <1>2, <1>3
  <1>6. \A k \in 1..n : Below(others, k) = Below(ghosts, k)
    BY <1>2, <1>5 DEF Below
  <1>7. ASSUME NEW k \in 1..n PROVE Accepted(kind, next[k], others[k], Below(others, k), v)
    <2>1. CASE k = n
      BY <1>2, <1>4, <1>5, <1>6, <2>1
    <2>2. CASE k # n
      <3>1. Accepted(kind, stack[k], ghosts[k], Below(ghosts, k), v)
        BY <1>2 DEF Fits
      <3> QED
        BY <1>4, <1>5, <1>6, <2>2, <3>1
    <2> QED
      BY <2>1, <2>2
  <1>8. Fits(kind, next, others, v)
    BY <1>4, <1>5, <1>7 DEF Fits
  <1>9. next # << >>
    BY <1>2, <1>4
  <1> QED
    BY <1>4, <1>5, <1>8, <1>9

\* A block is entered.
LEMMA PushFits ==
    ASSUME NEW kind, NEW stack, NEW ghosts, NEW v, Fits(kind, stack, ghosts, v), stack # << >>,
           NEW frame \in Frames, NEW ghost \in Ghosts,
           Accepted(kind, frame, ghost, ghosts[Len(stack)].term, v),
           NEW next, next = Pushed(stack, frame)
    PROVE  \E others :
              /\ Fits(kind, next, others, v)
              /\ next # << >>
              /\ others[Len(next)] = ghost
  <1>1. stack \in Seq(Frames) /\ ghosts \in Seq(Ghosts) /\ Len(ghosts) = Len(stack)
    BY DEF Fits
  <1>2. PICK n \in Nat : n = Len(stack) /\ n >= 1
    BY TopFits
  <1>3. PICK others : others = Append(ghosts, ghost)
    OBVIOUS
  <1>4. /\ next \in Seq(Frames) /\ Len(next) = n + 1 /\ next[n + 1] = frame
        /\ \A k \in 1..n : next[k] = stack[k]
    BY <1>1, <1>2 DEF Pushed
  <1>5. /\ others \in Seq(Ghosts) /\ Len(others) = n + 1 /\ others[n + 1] = ghost
        /\ \A k \in 1..n : others[k] = ghosts[k]
    BY <1>1, <1>2, <1>3
  <1>6. ASSUME NEW k \in 1..(n + 1) PROVE Accepted(kind, next[k], others[k], Below(others, k), v)
    <2>1. CASE k = n + 1
      <3>1. Below(others, k) = ghosts[n].term
        BY <1>2, <1>5, <2>1 DEF Below
      <3> QED
        BY <1>2, <1>4, <1>5, <2>1, <3>1
    <2>2. CASE k # n + 1
      <3>1. k \in 1..n
        BY <1>2, <2>2
      <3>2. Accepted(kind, stack[k], ghosts[k], Below(ghosts, k), v)
        BY <1>2, <3>1 DEF Fits
      <3>3. Below(others, k) = Below(ghosts, k)
        BY <1>2, <1>5, <3>1 DEF Below
      <3> QED
        BY <1>4, <1>5, <3>1, <3>2, <3>3
    <2> QED
      BY <2>1, <2>2
  <1>7. Fits(kind, next, others, v)
    BY <1>4, <1>5, <1>6 DEF Fits
  <1>8. next # << >>
    BY <1>4
  <1> QED
    BY <1>4, <1>5, <1>7, <1>8

\* A block is left.
LEMMA PopFits ==
    ASSUME NEW kind, NEW stack, NEW ghosts, NEW v, Fits(kind, stack, ghosts, v), stack # << >>,
           Len(stack) # 1, NEW next, next = Popped(stack)
    PROVE  \E others :
              /\ Fits(kind, next, others, v)
              /\ next # << >>
              /\ others[Len(next)].term = Below(ghosts, Len(stack))
  <1>1. stack \in Seq(Frames) /\ ghosts \in Seq(Ghosts) /\ Len(ghosts) = Len(stack)
    BY DEF Fits
  <1>2. PICK n \in Nat : n = Len(stack) - 1 /\ n >= 1
    <2>1. PICK m \in Nat : m = Len(stack) /\ m >= 1 /\ m # 1
      BY TopFits, Zenon
    <2>2. m - 1 \in Nat /\ m - 1 >= 1
      BY <2>1
    <2> QED
      BY <2>1, <2>2, Zenon
  <1>3. PICK others : others = SubSeq(ghosts, 1, n)
    OBVIOUS
  <1>4. /\ next \in Seq(Frames) /\ Len(next) = n
        /\ \A k \in 1..n : next[k] = stack[k]
    BY <1>1, <1>2 DEF Popped
  <1>5. /\ others \in Seq(Ghosts) /\ Len(others) = n
        /\ \A k \in 1..n : others[k] = ghosts[k]
    BY <1>1, <1>2, <1>3
  <1>6. ASSUME NEW k \in 1..n PROVE Accepted(kind, next[k], others[k], Below(others, k), v)
    <2>1. Accepted(kind, stack[k], ghosts[k], Below(ghosts, k), v)
      <3>1. k \in 1..Len(stack)
        BY <1>1, <1>2
      <3> QED
        BY <3>1 DEF Fits
    <2>2. Below(others, k) = Below(ghosts, k)
      BY <1>5 DEF Below
    <2> QED
      BY <1>4, <1>5, <2>1, <2>2
  <1>7. Fits(kind, next, others, v)
    BY <1>4, <1>5, <1>6 DEF Fits
  <1>8. next # << >> /\ others[Len(next)].term = Below(ghosts, Len(stack))
    <2>1. others[n] = ghosts[n]
      BY <1>2, <1>5
    <2>2. Below(ghosts, Len(stack)) = ghosts[n].term
      BY <1>2 DEF Below
    <2>3. Len(next) # 0
      BY <1>2, <1>4
    <2>4. ASSUME next = << >> PROVE FALSE
      BY <2>3, <2>4
    <2> QED
      BY <1>4, <2>1, <2>2, <2>4
  <1> QED
    BY <1>7, <1>8

-----------------------------------------------------------------------------
(* The steps of the engine.                                                *)

\* A constant has the value of its term.
LEMMA BindAgrees ==
    ASSUME NEW env \in Environments, NEW scope \in Scopes, NEW v \in Valuations,
           Agrees(env, scope, v), NEW n \in Names, NEW t \in Terms,
           NEW slot, slot = <<t.value[v]>>
    PROVE  /\ Bind(env, n, slot) \in Environments
           /\ Bind(scope, n, t) \in Scopes
           /\ Agrees(Bind(env, n, slot), Bind(scope, n, t), v)
  <1>1. t.value[v] \in Universe("Int") \cup Universe("Bool") \cup Effects
    BY DEF Terms
  <1>2. PICK x \in Slots : x = slot
    BY <1>1 DEF Slots
  <1>3. /\ Bind(env, n, x) \in Environments
        /\ \A m \in Names : Bind(env, n, x)[m] = IF m = n THEN x ELSE env[m]
    BY <1>2 DEF Bind, Environments
  <1>4. /\ Bind(scope, n, t) \in Scopes
        /\ \A m \in Names : Bind(scope, n, t)[m] = IF m = n THEN t ELSE scope[m]
    BY BindIs
  <1>5. ASSUME NEW m \in Names, Bind(scope, n, t)[m] # Undefined
        PROVE  Bind(env, n, x)[m] = <<Bind(scope, n, t)[m].value[v]>>
    <2>1. CASE m = n
      BY <1>2, <1>3, <1>4, <2>1
    <2>2. CASE m # n
      BY <1>3, <1>4, <1>5, <2>2 DEF Agrees
    <2> QED
      BY <2>1, <2>2
  <1> QED
    BY <1>2, <1>3, <1>4, <1>5 DEF Agrees

\* A block that is entered is a block.
LEMMA FrameIs ==
    ASSUME NEW list \in Lists, NEW env \in Environments
    PROVE  /\ Frame(list, env) \in Frames
           /\ Frame(list, env).statements = list
  <1>1. Dead \in Slots /\ \A n \in Names : env[n] \in Slots
    BY DEF Slots, Environments
  <1>2. [n \in Names |-> IF n \in Declared(list) THEN Dead ELSE env[n]] \in Environments
    BY <1>1 DEF Environments
  <1> QED
    BY <1>2 DEF Frame, Frames

\* Statements left with the term of the block: it goes on with them.
LEMMA GoesOn ==
    ASSUME NEW kind \in Kinds, NEW v \in Valuations, NEW stack, NEW ghosts,
           Fits(kind, stack, ghosts, v), stack # << >>,
           NEW rest \in Lists, NEW env \in Environments, NEW scope \in Scopes, Agrees(env, scope, v),
           NEW term, term = Walk(kind, rest, scope, Below(ghosts, Len(stack)), ghosts[Len(stack)].depth),
           term # Rejected,
           NEW next, next = Replaced(stack, Left(rest, env))
    PROVE  \E others : Fits(kind, next, others, v) /\ next # << >> /\ others[Len(next)].term = term
  <1>1. ghosts[Len(stack)].depth \in 0..1 /\ Below(ghosts, Len(stack)) \in Results
    BY TopFits DEF Ghosts
  <1>2. term \in Results
    BY <1>1, WalkRule
  <1>3. PICK frame \in Frames : frame = Left(rest, env) /\ frame.statements = rest /\ frame.env = env
    BY DEF Frames, Left
  <1>4. PICK ghost \in Ghosts :
           ghost = [scope |-> scope, term |-> term, depth |-> ghosts[Len(stack)].depth]
    BY <1>1, <1>2 DEF Ghosts
  <1>5. Accepted(kind, frame, ghost, Below(ghosts, Len(stack)), v)
    BY <1>3, <1>4 DEF Accepted
  <1>6. PICK others : Fits(kind, next, others, v) /\ next # << >> /\ others[Len(next)] = ghost
    BY <1>3, <1>5, ReplaceFits
  <1> QED
    BY <1>4, <1>6

\* A block is entered with the term of the statement.
LEMMA Enters ==
    ASSUME NothingBehindReturn,
           NEW kind \in Kinds, NEW v \in Valuations, NEW value, NEW stack, NEW ghosts,
           Fits(kind, stack, ghosts, v), stack # << >>,
           NEW rest \in Lists, NEW env \in Environments, NEW scope \in Scopes, Agrees(env, scope, v),
           NEW after, after = Walk(kind, rest, scope, Below(ghosts, Len(stack)), ghosts[Len(stack)].depth),
           after # Rejected,
           NEW body \in Lists, NEW inside \in Environments, NEW names \in Scopes,
           Agrees(inside, names, v), NEW depth \in 0..1,
           NEW term, term = Walk(kind, body, names, after, depth),
           IsTerm(term), term.value[v] = value,
           NEW left, left = Replaced(stack, Left(rest, env)),
           NEW next, next = Pushed(left, Frame(body, inside))
    PROVE  WillReturn(kind, next, v, value)
  <1>1. ghosts[Len(stack)].depth \in 0..1 /\ Below(ghosts, Len(stack)) \in Results
    BY TopFits DEF Ghosts
  <1>2. after \in Results
    BY <1>1, WalkRule
  <1>3. term \in Results /\ term # Rejected
    BY <1>2, WalkRule, Marks
  <1>4. PICK some : Fits(kind, left, some, v) /\ left # << >> /\ some[Len(left)].term = after
    BY GoesOn
  <1>5. PICK frame \in Frames : frame = Frame(body, inside) /\ frame.statements = body
    BY FrameIs
  <1>6. PICK ghost \in Ghosts : ghost = [scope |-> names, term |-> term, depth |-> depth]
    BY <1>3 DEF Ghosts
  <1>7. Agrees(frame.env, names, v)
    BY <1>2, <1>3, <1>5, FrameAgrees
  <1>8. Accepted(kind, frame, ghost, some[Len(left)].term, v)
    BY <1>3, <1>4, <1>5, <1>6, <1>7 DEF Accepted
  <1>9. PICK others : Fits(kind, next, others, v) /\ next # << >> /\ others[Len(next)] = ghost
    BY <1>4, <1>5, <1>8, PushFits
  <1> QED
    BY <1>6, <1>9 DEF WillReturn

\* The innermost block, with the ghosts that show what it will return.
Known(kind, stack, list, env, v, value, ghosts, scope, depth, below) ==
    /\ Fits(kind, stack, ghosts, v)
    /\ below = Below(ghosts, Len(stack)) /\ depth = ghosts[Len(stack)].depth
    /\ Agrees(env, scope, v)
    /\ Walk(kind, list, scope, below, depth) # Rejected
    /\ IsTerm(Walk(kind, list, scope, below, depth))
    /\ Walk(kind, list, scope, below, depth).value[v] = value

\* What is known of the innermost block.
LEMMA Running ==
    ASSUME NEW kind, NEW v, NEW value, NEW stack, WillReturn(kind, stack, v, value),
           NEW top, top = stack[Len(stack)]
    PROVE  /\ stack # << >>
           /\ Len(stack) \in Nat
           /\ top.statements \in Lists /\ top.env \in Environments
           /\ \E ghosts : \E scope \in Scopes, depth \in 0..1, below \in Results :
                 Known(kind, stack, top.statements, top.env, v, value, ghosts, scope, depth, below)
  <1>1. PICK ghosts :
           /\ Fits(kind, stack, ghosts, v)
           /\ stack # << >>
           /\ IsTerm(ghosts[Len(stack)].term)
           /\ ghosts[Len(stack)].term.value[v] = value
    BY DEF WillReturn
  <1>2. PICK ghost, below : ghost = ghosts[Len(stack)] /\ below = Below(ghosts, Len(stack))
    OBVIOUS
  <1>3. /\ Len(stack) \in Nat
        /\ top \in Frames /\ ghost \in Ghosts /\ below \in Results
        /\ Accepted(kind, top, ghost, below, v)
    BY <1>1, <1>2, TopFits
  <1>4. ghost.scope \in Scopes /\ ghost.depth \in 0..1
    BY <1>3 DEF Ghosts
  <1>5. top.statements \in Lists /\ top.env \in Environments
    BY <1>3 DEF Frames
  <1>6. /\ ghost.term = Walk(kind, top.statements, ghost.scope, below, ghost.depth)
        /\ ghost.term # Rejected
        /\ Agrees(top.env, ghost.scope, v)
    BY <1>3 DEF Accepted
  <1> QED
    BY <1>1, <1>2, <1>3, <1>4, <1>5, <1>6 DEF Known

\* The constant gets a value, and the block goes on with it.
Declares(kind, v, value, stack, list, env, n, e) ==
    \E x : /\ Evaluate(e, env) = <<x>>
           /\ WillReturn(kind, Replaced(stack, Left(Tail(list), Bind(env, n, <<x>>))), v, value)

\* A constant is declared, and its initializer does not throw.
LEMMA DeclareStep ==
    ASSUME NEW kind \in Kinds, NEW v \in Valuations, NEW value, NEW stack,
           WillReturn(kind, stack, v, value),
           NEW top, top = stack[Len(stack)], NEW list, list = top.statements, list # << >>,
           NEW s, s = Head(list), s.kind = "Const"
    PROVE  Declares(kind, v, value, stack, list, top.env, s.name, s.initializer)
  <1>1. PICK ghosts : \E scope \in Scopes, depth \in 0..1, below \in Results :
           Known(kind, stack, list, top.env, v, value, ghosts, scope, depth, below)
    BY Running
  <1>2. PICK scope \in Scopes, depth \in 0..1, below \in Results :
           Known(kind, stack, list, top.env, v, value, ghosts, scope, depth, below)
    BY <1>1
  <1>0. /\ Fits(kind, stack, ghosts, v)
        /\ below = Below(ghosts, Len(stack)) /\ depth = ghosts[Len(stack)].depth
        /\ Agrees(top.env, scope, v)
        /\ Walk(kind, list, scope, below, depth) # Rejected
        /\ IsTerm(Walk(kind, list, scope, below, depth))
        /\ Walk(kind, list, scope, below, depth).value[v] = value
    BY <1>2 DEF Known
  <1>3. stack # << >> /\ list \in Lists /\ top.env \in Environments
    BY Running
  <1>4. PICK rest, local : rest = Tail(list) /\ local = Initial(kind, s.initializer, scope)
    OBVIOUS
  <1>5. rest \in Lists /\ s.name \in Names /\ s.initializer \in Expressions
    BY <1>3, <1>4, ListParts
  <1>6. /\ local # Rejected
        /\ Walk(kind, list, scope, below, depth) = Walk(kind, rest, Bind(scope, s.name, local), below, depth)
    BY <1>0, <1>3, <1>4, WalkConst
  <1>7. local \in Terms /\ Evaluate(s.initializer, top.env) = <<local.value[v]>>
    <2>1. Agrees(top.env, scope, v) /\ local # Rejected /\ local = Initial(kind, s.initializer, scope)
      BY <1>0, <1>4, <1>6
    <2> QED
      BY <1>5, <2>1, PlacesAgree
  <1>8. PICK slot, env, names :
           /\ slot = <<local.value[v]>>
           /\ env = Bind(top.env, s.name, slot) /\ names = Bind(scope, s.name, local)
    OBVIOUS
  <1>9. env \in Environments /\ names \in Scopes /\ Agrees(env, names, v)
    BY <1>0, <1>3, <1>5, <1>7, <1>8, BindAgrees
  <1>10. PICK next, term :
            next = Replaced(stack, Left(rest, env)) /\ term = Walk(kind, rest, names, below, depth)
    OBVIOUS
  <1>11. term # Rejected /\ IsTerm(term) /\ term.value[v] = value
    BY <1>0, <1>6, <1>8, <1>10
  <1>12. term = Walk(kind, rest, names, Below(ghosts, Len(stack)), ghosts[Len(stack)].depth)
    BY <1>0, <1>10
  <1>13. PICK others : Fits(kind, next, others, v) /\ next # << >> /\ others[Len(next)].term = term
    BY <1>0, <1>3, <1>5, <1>9, <1>10, <1>11, <1>12, GoesOn
  <1>14. WillReturn(kind, next, v, value)
    BY <1>11, <1>13 DEF WillReturn
  <1> QED
    BY <1>4, <1>7, <1>8, <1>10, <1>14 DEF Declares

\* A return returns the value; nothing else ends a call.
LEMMA ReturnStep ==
    ASSUME NEW kind \in Kinds, NEW v \in Valuations, NEW value, NEW stack,
           WillReturn(kind, stack, v, value),
           NEW top, top = stack[Len(stack)], NEW list, list = top.statements, list # << >>,
           NEW s, s = Head(list), s.kind \in {"Return", "Unsupported"}
    PROVE  s.kind = "Return" /\ Evaluate(s.expression, top.env) = <<value>>
  <1>1. PICK scope \in Scopes, depth \in 0..1, below \in Results :
           /\ Agrees(top.env, scope, v)
           /\ Walk(kind, list, scope, below, depth) # Rejected
           /\ Walk(kind, list, scope, below, depth).value[v] = value
    BY Running DEF Known
  <1>2. list \in Lists
    BY Running
  <1>3. s.kind = "Return" /\ Walk(kind, list, scope, below, depth) = Returned(kind, s.expression, scope)
    BY <1>1, <1>2, WalkReturn
  <1>4. s.expression \in Expressions
    BY <1>2, <1>3, ListParts
  <1>5. Evaluate(s.expression, top.env) = <<Returned(kind, s.expression, scope).value[v]>>
    BY <1>1, <1>3, <1>4, ExpressionsAgree
  <1> QED
    BY <1>1, <1>3, <1>5

\* These statements are left of the innermost block, with this term.
HasLeft(kind, v, stack, rest, env, after) ==
    \E ghosts : \E scope \in Scopes, depth \in 0..1, below \in Results :
       /\ Fits(kind, stack, ghosts, v)
       /\ below = Below(ghosts, Len(stack)) /\ depth = ghosts[Len(stack)].depth
       /\ stack # << >>
       /\ rest \in Lists /\ env \in Environments
       /\ Agrees(env, scope, v)
       /\ after = Walk(kind, rest, scope, below, depth)
       /\ after # Rejected

\* This block has the value, if this term follows it.
HasValue(kind, v, value, body, inside, after) ==
    \E names \in Scopes, loop \in 0..1 :
       /\ body \in Lists /\ inside \in Environments
       /\ Agrees(inside, names, v)
       /\ IsTerm(Walk(kind, body, names, after, loop))
       /\ Walk(kind, body, names, after, loop).value[v] = value

\* Enters, with its hypotheses named.
LEMMA EntersStep ==
    ASSUME NothingBehindReturn,
           NEW kind \in Kinds, NEW v \in Valuations, NEW value, NEW stack,
           NEW rest, NEW env, NEW after, HasLeft(kind, v, stack, rest, env, after),
           NEW body, NEW inside, HasValue(kind, v, value, body, inside, after),
           NEW left, left = Replaced(stack, Left(rest, env)),
           NEW next, next = Pushed(left, Frame(body, inside))
    PROVE  WillReturn(kind, next, v, value)
  <1>1. PICK ghosts : \E scope \in Scopes, depth \in 0..1, below \in Results :
           /\ Fits(kind, stack, ghosts, v)
           /\ below = Below(ghosts, Len(stack)) /\ depth = ghosts[Len(stack)].depth
           /\ stack # << >>
           /\ rest \in Lists /\ env \in Environments
           /\ Agrees(env, scope, v)
           /\ after = Walk(kind, rest, scope, below, depth)
           /\ after # Rejected
    BY DEF HasLeft
  <1>2. PICK scope \in Scopes :
           /\ Fits(kind, stack, ghosts, v)
           /\ stack # << >>
           /\ rest \in Lists /\ env \in Environments
           /\ Agrees(env, scope, v)
           /\ after = Walk(kind, rest, scope, Below(ghosts, Len(stack)), ghosts[Len(stack)].depth)
           /\ after # Rejected
    BY <1>1
  <1>3. PICK names \in Scopes, loop \in 0..1 :
           /\ body \in Lists /\ inside \in Environments
           /\ Agrees(inside, names, v)
           /\ IsTerm(Walk(kind, body, names, after, loop))
           /\ Walk(kind, body, names, after, loop).value[v] = value
    BY DEF HasValue
  <1>4. PICK term : term = Walk(kind, body, names, after, loop)
    OBVIOUS
  <1>5. IsTerm(term) /\ term.value[v] = value
    BY <1>3, <1>4
  <1> QED
    BY <1>2, <1>3, <1>4, <1>5, Enters

\* A block is entered.
LEMMA BlockStep ==
    ASSUME NothingBehindReturn,
           NEW kind \in Kinds, NEW v \in Valuations, NEW value, NEW stack,
           WillReturn(kind, stack, v, value),
           NEW top, top = stack[Len(stack)], NEW list, list = top.statements, list # << >>,
           NEW s, s = Head(list), s.kind = "Block"
    PROVE  WillReturn(kind, Pushed(Replaced(stack, Left(Tail(list), top.env)), Frame(s.body, top.env)),
                      v, value)
  <1>1. PICK ghosts : \E scope \in Scopes, depth \in 0..1, below \in Results :
           Known(kind, stack, list, top.env, v, value, ghosts, scope, depth, below)
    BY Running
  <1>2. PICK scope \in Scopes, depth \in 0..1, below \in Results :
           Known(kind, stack, list, top.env, v, value, ghosts, scope, depth, below)
    BY <1>1
  <1>3. stack # << >> /\ list \in Lists /\ top.env \in Environments
    BY Running
  <1>4. PICK rest, body, after, term :
           /\ rest = Tail(list) /\ body = s.body
           /\ after = Walk(kind, rest, scope, below, depth)
           /\ term = Walk(kind, body, scope, after, depth)
    OBVIOUS
  <1>5. rest \in Lists /\ body \in Lists
    BY <1>3, <1>4, ListParts
  <1>6. /\ Agrees(top.env, scope, v)
        /\ Walk(kind, list, scope, below, depth) # Rejected
        /\ IsTerm(Walk(kind, list, scope, below, depth))
        /\ Walk(kind, list, scope, below, depth).value[v] = value
    BY <1>2 DEF Known
  <1>7. after # Rejected /\ term = Walk(kind, list, scope, below, depth)
    BY <1>3, <1>4, <1>6, WalkBlock
  <1>8. PICK left, next :
           left = Replaced(stack, Left(rest, top.env)) /\ next = Pushed(left, Frame(body, top.env))
    OBVIOUS
  <1>9. HasLeft(kind, v, stack, rest, top.env, after)
    BY <1>2, <1>3, <1>4, <1>5, <1>6, <1>7 DEF Known, HasLeft
  <1>10. HasValue(kind, v, value, body, top.env, after)
    BY <1>3, <1>4, <1>5, <1>6, <1>7 DEF HasValue
  <1>11. WillReturn(kind, next, v, value)
    BY <1>8, <1>9, <1>10, EntersStep
  <1> QED
    BY <1>4, <1>8, <1>11

\* The condition has a value, and the branch it takes is entered.
LEMMA BranchStep ==
    ASSUME NothingBehindReturn,
           NEW kind \in Kinds, NEW v \in Valuations, NEW value, NEW stack,
           WillReturn(kind, stack, v, value),
           NEW top, top = stack[Len(stack)], NEW list, list = top.statements, list # << >>,
           NEW s, s = Head(list), s.kind = "If"
    PROVE  \E c :
              /\ Evaluate(s.condition, top.env) = <<c>>
              /\ WillReturn(kind, Pushed(Replaced(stack, Left(Tail(list), top.env)),
                                         Frame(IF Holds(c) THEN s.then ELSE s.orElse, top.env)),
                            v, value)
  <1>1. PICK ghosts : \E scope \in Scopes, depth \in 0..1, below \in Results :
           Known(kind, stack, list, top.env, v, value, ghosts, scope, depth, below)
    BY Running
  <1>2. PICK scope \in Scopes, depth \in 0..1, below \in Results :
           Known(kind, stack, list, top.env, v, value, ghosts, scope, depth, below)
    BY <1>1
  <1>3. stack # << >> /\ list \in Lists /\ top.env \in Environments
    BY Running
  <1>4. PICK rest, then, orElse, after :
           /\ rest = Tail(list) /\ then = s.then /\ orElse = s.orElse
           /\ after = Walk(kind, rest, scope, below, depth)
    OBVIOUS
  <1>5. rest \in Lists /\ then \in Lists /\ orElse \in Lists /\ s.condition \in Expressions
    BY <1>3, <1>4, ListParts
  <1>6. /\ Agrees(top.env, scope, v)
        /\ Walk(kind, list, scope, below, depth) # Rejected
        /\ Walk(kind, list, scope, below, depth).value[v] = value
    BY <1>2 DEF Known
  <1>7. PICK c, t, f :
           /\ c = Condition(kind, s.condition, scope)
           /\ t = Walk(kind, then, scope, after, depth)
           /\ f = Walk(kind, orElse, scope, after, depth)
    OBVIOUS
  <1>8. after # Rejected /\ Walk(kind, list, scope, below, depth) = Merge(c, t, f)
    BY <1>3, <1>4, <1>6, <1>7, WalkIf
  <1>9. after \in Results
    BY <1>4, <1>5, WalkRule
  <1>10. c \in Results /\ t \in Results /\ f \in Results
    BY <1>5, <1>7, <1>9, ExpressionsTyped, WalkRule
  <1>11. /\ c \in Terms /\ t \in Terms /\ f \in Terms
         /\ value = IF Holds(c.value[v]) THEN t.value[v] ELSE f.value[v]
    BY <1>6, <1>8, <1>10, MergeIs
  <1>12. Evaluate(s.condition, top.env) = <<c.value[v]>>
    <2>1. c # Rejected
      BY <1>11, TermElim
    <2>2. Agrees(top.env, scope, v) /\ c = Condition(kind, s.condition, scope)
      BY <1>6, <1>7
    <2> QED
      BY <1>5, <2>1, <2>2, PlacesAgree
  <1>15. HasLeft(kind, v, stack, rest, top.env, after)
    BY <1>2, <1>3, <1>4, <1>5, <1>6, <1>8 DEF Known, HasLeft
  <1>13. CASE Holds(c.value[v])
    <2>1. IsTerm(t) /\ t.value[v] = value
      BY <1>11, <1>13, TermElim
    <2>2. PICK left, next :
             left = Replaced(stack, Left(rest, top.env)) /\ next = Pushed(left, Frame(then, top.env))
      OBVIOUS
    <2>3. HasValue(kind, v, value, then, top.env, after)
      BY <1>3, <1>5, <1>6, <1>7, <2>1 DEF HasValue
    <2>4. WillReturn(kind, next, v, value)
      BY <1>15, <2>2, <2>3, EntersStep
    <2> QED
      BY <1>4, <1>12, <1>13, <2>2, <2>4
  <1>14. CASE ~Holds(c.value[v])
    <2>1. IsTerm(f) /\ f.value[v] = value
      BY <1>11, <1>14, TermElim
    <2>2. PICK left, next :
             left = Replaced(stack, Left(rest, top.env)) /\ next = Pushed(left, Frame(orElse, top.env))
      OBVIOUS
    <2>3. HasValue(kind, v, value, orElse, top.env, after)
      BY <1>3, <1>5, <1>6, <1>7, <2>1 DEF HasValue
    <2>4. WillReturn(kind, next, v, value)
      BY <1>15, <2>2, <2>3, EntersStep
    <2> QED
      BY <1>4, <1>12, <1>14, <2>2, <2>4
  <1> QED
    BY <1>13, <1>14

\* The next iteration is entered, with its induction value.
LEMMA IterateStep ==
    ASSUME NothingBehindReturn,
           NEW kind \in Kinds, NEW v \in Valuations, NEW value, NEW stack,
           WillReturn(kind, stack, v, value),
           NEW top, top = stack[Len(stack)], NEW list, list = top.statements, list # << >>,
           NEW s, s = Head(list), s.kind = "For", s.iterations # << >>
    PROVE  WillReturn(kind, Pushed(Replaced(stack, Left(AfterIteration(list), top.env)),
                                   Frame(s.body, Bind(top.env, s.name, <<Number(Head(s.iterations))>>))),
                      v, value)
  <1>1. PICK ghosts : \E scope \in Scopes, depth \in 0..1, below \in Results :
           Known(kind, stack, list, top.env, v, value, ghosts, scope, depth, below)
    BY Running
  <1>2. PICK scope \in Scopes, depth \in 0..1, below \in Results :
           Known(kind, stack, list, top.env, v, value, ghosts, scope, depth, below)
    BY <1>1
  <1>3. stack # << >> /\ list \in Lists /\ top.env \in Environments
    BY Running
  <1>4. PICK rest, body, slot, inside, first :
           /\ rest = AfterIteration(list) /\ body = s.body
           /\ slot = <<Number(Head(s.iterations))>>
           /\ inside = Bind(top.env, s.name, slot)
           /\ first = FirstIteration(s)
    OBVIOUS
  <1>5. /\ rest \in Lists /\ body \in Lists /\ s.name \in Names
        /\ s.iterations \in Seq(Int)
    BY <1>3, <1>4, ListParts
  <1>6. /\ Agrees(top.env, scope, v)
        /\ Walk(kind, list, scope, below, depth) # Rejected
        /\ IsTerm(Walk(kind, list, scope, below, depth))
        /\ Walk(kind, list, scope, below, depth).value[v] = value
    BY <1>2 DEF Known
  <1>7. first \in Terms /\ slot = <<first.value[v]>>
    BY <1>4, <1>5, FirstIterationIs
  <1>8. PICK names, after, term :
           /\ names = Bind(scope, s.name, first)
           /\ after = Walk(kind, rest, scope, below, depth)
           /\ term = Walk(kind, body, names, after, 1)
    OBVIOUS
  <1>9. inside \in Environments /\ names \in Scopes /\ Agrees(inside, names, v)
    BY <1>3, <1>4, <1>5, <1>6, <1>7, <1>8, BindAgrees, ZenonT(60)
  <1>10. after # Rejected /\ term = Walk(kind, list, scope, below, depth)
    <2>1. /\ after = Walk(kind, AfterIteration(list), scope, below, depth)
          /\ term = Walk(kind, s.body, Bind(scope, s.name, FirstIteration(s)), after, 1)
      BY <1>4, <1>8
    <2>2. Walk(kind, list, scope, below, depth) # Rejected
      BY <1>6
    <2> QED
      BY <1>3, <2>1, <2>2, WalkFor
  <1>11. 1 \in 0..1
    OBVIOUS
  <1>12. PICK left, next :
            left = Replaced(stack, Left(rest, top.env)) /\ next = Pushed(left, Frame(body, inside))
    OBVIOUS
  <1>13. HasLeft(kind, v, stack, rest, top.env, after)
    BY <1>2, <1>3, <1>5, <1>6, <1>8, <1>10 DEF Known, HasLeft
  <1>14. HasValue(kind, v, value, body, inside, after)
    BY <1>5, <1>6, <1>8, <1>9, <1>10, <1>11 DEF HasValue
  <1>15. WillReturn(kind, next, v, value)
    BY <1>12, <1>13, <1>14, EntersStep
  <1> QED
    BY <1>4, <1>12, <1>15

\* A loop without iterations left is skipped.
LEMMA LeaveLoopStep ==
    ASSUME NEW kind \in Kinds, NEW v \in Valuations, NEW value, NEW stack,
           WillReturn(kind, stack, v, value),
           NEW top, top = stack[Len(stack)], NEW list, list = top.statements, list # << >>,
           NEW s, s = Head(list), s.kind = "For", s.iterations = << >>
    PROVE  WillReturn(kind, Replaced(stack, Left(Tail(list), top.env)), v, value)
  <1>1. PICK ghosts : \E scope \in Scopes, depth \in 0..1, below \in Results :
           Known(kind, stack, list, top.env, v, value, ghosts, scope, depth, below)
    BY Running
  <1>2. PICK scope \in Scopes, depth \in 0..1, below \in Results :
           Known(kind, stack, list, top.env, v, value, ghosts, scope, depth, below)
    BY <1>1
  <1>3. stack # << >> /\ list \in Lists /\ top.env \in Environments
    BY Running
  <1>4. PICK rest, next, term :
           /\ rest = Tail(list) /\ next = Replaced(stack, Left(rest, top.env))
           /\ term = Walk(kind, rest, scope, below, depth)
    OBVIOUS
  <1>5. rest \in Lists
    BY <1>3, <1>4, ListParts
  <1>6. /\ Fits(kind, stack, ghosts, v)
        /\ below = Below(ghosts, Len(stack)) /\ depth = ghosts[Len(stack)].depth
        /\ Agrees(top.env, scope, v)
        /\ Walk(kind, list, scope, below, depth) # Rejected
        /\ IsTerm(Walk(kind, list, scope, below, depth))
        /\ Walk(kind, list, scope, below, depth).value[v] = value
    BY <1>2 DEF Known
  <1>7. term = Walk(kind, list, scope, below, depth)
    BY <1>3, <1>4, <1>6, WalkFor
  <1>8. term = Walk(kind, rest, scope, Below(ghosts, Len(stack)), ghosts[Len(stack)].depth)
    BY <1>4, <1>6
  <1>9. PICK others : Fits(kind, next, others, v) /\ next # << >> /\ others[Len(next)].term = term
    BY <1>3, <1>4, <1>5, <1>6, <1>7, <1>8, GoesOn
  <1>10. WillReturn(kind, next, v, value)
    BY <1>6, <1>7, <1>9 DEF WillReturn
  <1> QED
    BY <1>4, <1>10

\* A block that ends is not the function, and what follows it has the same value.
LEMMA LeaveBlockStep ==
    ASSUME NEW kind \in Kinds, NEW v \in Valuations, NEW value, NEW stack,
           WillReturn(kind, stack, v, value), stack[Len(stack)].statements = << >>
    PROVE  /\ Len(stack) # 1
           /\ WillReturn(kind, Popped(stack), v, value)
  <1>1. PICK top, list : top = stack[Len(stack)] /\ list = top.statements
    OBVIOUS
  <1>2. PICK ghosts : \E scope \in Scopes, depth \in 0..1, below \in Results :
           Known(kind, stack, list, top.env, v, value, ghosts, scope, depth, below)
    BY <1>1, Running
  <1>3. PICK scope \in Scopes, depth \in 0..1, below \in Results :
           Known(kind, stack, list, top.env, v, value, ghosts, scope, depth, below)
    BY <1>2
  <1>4. stack # << >> /\ list \in Lists /\ list = << >>
    BY <1>1, Running
  <1>5. /\ Fits(kind, stack, ghosts, v)
        /\ below = Below(ghosts, Len(stack))
        /\ IsTerm(Walk(kind, list, scope, below, depth))
        /\ Walk(kind, list, scope, below, depth).value[v] = value
    BY <1>3 DEF Known
  <1>6. IsTerm(below) /\ below.value[v] = value
    BY <1>4, <1>5, WalkEmpty
  <1>7. Len(stack) # 1
    BY <1>5, <1>6, Marks DEF Below
  <1>8. PICK next : next = Popped(stack)
    OBVIOUS
  <1>9. PICK others : /\ Fits(kind, next, others, v)
                      /\ next # << >>
                      /\ others[Len(next)].term = Below(ghosts, Len(stack))
    BY <1>4, <1>5, <1>7, <1>8, PopFits
  <1>10. WillReturn(kind, next, v, value)
    BY <1>5, <1>6, <1>9 DEF WillReturn
  <1> QED
    BY <1>7, <1>8, <1>10

-----------------------------------------------------------------------------
(* The call, and the theorem.                                              *)

\* The arguments of the call are what the compiler takes the parameters for.
LEMMA InputAgrees ==
    ASSUME NEW v \in Valuations,
           NEW env, env = [n \in Names |-> IF n \in DOMAIN v THEN <<v[n]>> ELSE Dead]
    PROVE  /\ InputScope \in Scopes
           /\ env \in Environments
           /\ Agrees(env, InputScope, v)
  <1>1. /\ \A u \in Valuations : DOMAIN u = DOMAIN Parameters
        /\ \A u \in Valuations : \A n \in DOMAIN Parameters : u[n] \in Universe(Parameters[n])
        /\ \A n \in DOMAIN Parameters : Parameters[n] \in {"Int", "Bool"}
    BY SignatureAssumption
  <1>2. ASSUME NEW n \in Names
        PROVE  /\ n \in DOMAIN Parameters =>
                    /\ InputScope[n] \in Terms
                    /\ InputScope[n].value[v] = v[n]
               /\ n \notin DOMAIN Parameters => InputScope[n] = Undefined
    <2>1. CASE n \in DOMAIN Parameters
      <3>1. PICK value : value = [u \in Valuations |-> u[n]]
        OBVIOUS
      <3>2. value \in [Valuations -> Carrier(Parameters[n])] /\ value[v] = v[n]
        BY <1>1, <2>1, <3>1 DEF Carrier
      <3>3. InputScope[n] = Term(Parameters[n], value)
        BY <2>1, <3>1 DEF InputScope
      <3> QED
        BY <1>1, <2>1, <3>2, <3>3, TermIntro
    <2>2. CASE n \notin DOMAIN Parameters
      BY <2>2 DEF InputScope
    <2> QED
      BY <2>1, <2>2
  <1>3. InputScope = [n \in Names |-> InputScope[n]]
    BY DEF InputScope
  <1>4. InputScope \in Scopes
    BY <1>2, <1>3 DEF Scopes
  <1>5. ASSUME NEW n \in Names
        PROVE  /\ env[n] = IF n \in DOMAIN v THEN <<v[n]>> ELSE Dead
               /\ env[n] \in Slots
    <2>1. n \in DOMAIN v => v[n] \in Universe("Int") \cup Universe("Bool")
      BY <1>1
    <2> QED
      BY <2>1 DEF Slots
  <1>6. env \in Environments
    BY <1>5 DEF Environments
  <1>7. Agrees(env, InputScope, v)
    BY <1>1, <1>2, <1>5 DEF Agrees
  <1> QED
    BY <1>4, <1>6, <1>7

\* The stack of a call that begins.
Single(frame) == <<frame>>

\* The first block of a call.
LEMMA CallFits ==
    ASSUME NEW kind, NEW v, NEW frame \in Frames, NEW ghost \in Ghosts,
           Accepted(kind, frame, ghost, Undefined, v), IsTerm(ghost.term),
           NEW stack, stack = Single(frame)
    PROVE  WillReturn(kind, stack, v, ghost.term.value[v])
  <1>1. PICK ghosts : ghosts = <<ghost>>
    OBVIOUS
  <1>2. stack \in Seq(Frames) /\ Len(stack) = 1 /\ stack[1] = frame
    BY DEF Single
  <1>3. ghosts \in Seq(Ghosts) /\ Len(ghosts) = 1 /\ ghosts[1] = ghost
    BY <1>1
  <1>4. ASSUME NEW k \in 1..1 PROVE Accepted(kind, stack[k], ghosts[k], Below(ghosts, k), v)
    <2>1. k = 1
      OBVIOUS
    <2> QED
      BY <1>2, <1>3, <2>1 DEF Below
  <1>5. Fits(kind, stack, ghosts, v)
    BY <1>2, <1>3, <1>4 DEF Fits
  <1> QED
    BY <1>2, <1>3, <1>5 DEF WillReturn

\* A call of an accepted function will return the value of its term.
LEMMA CallReturns ==
    ASSUME NothingBehindReturn,
           NEW kind \in Kinds, NEW v \in Valuations, NEW body \in Lists,
           NEW term, term = Walk(kind, body, InputScope, Undefined, 0), IsTerm(term),
           NEW env, env = [n \in Names |-> IF n \in DOMAIN v THEN <<v[n]>> ELSE Dead],
           NEW stack, stack = Single(Frame(body, env))
    PROVE  WillReturn(kind, stack, v, term.value[v])
  <1>1. InputScope \in Scopes /\ env \in Environments /\ Agrees(env, InputScope, v)
    BY InputAgrees
  <1>2. Undefined \in Results /\ 0 \in 0..1
    BY DEF Results
  <1>3. term \in Results /\ term # Rejected
    BY <1>1, <1>2, WalkRule, Marks
  <1>4. PICK frame \in Frames : frame = Frame(body, env) /\ frame.statements = body
    BY <1>1, FrameIs
  <1>5. Agrees(frame.env, InputScope, v)
    BY <1>1, <1>2, <1>3, <1>4, FrameAgrees
  <1>6. PICK ghost \in Ghosts : ghost = [scope |-> InputScope, term |-> term, depth |-> 0]
    BY <1>1, <1>2, <1>3 DEF Ghosts
  <1>7. Accepted(kind, frame, ghost, Undefined, v)
    BY <1>3, <1>4, <1>5, <1>6 DEF Accepted
  <1>8. stack = Single(frame)
    BY <1>4
  <1>9. IsTerm(ghost.term) /\ ghost.term = term
    BY <1>6
  <1> QED
    BY <1>7, <1>8, <1>9, CallFits

-----------------------------------------------------------------------------
(* The inductive invariant: an accepted function has the term its walker   *)
(* made, and what is left of a call will return its value.                 *)

IInv ==
    /\ source.kind \in Kinds /\ source.body \in Lists
    /\ input \in Valuations
    /\ IsTerm(compiled) => compiled = Walk(source.kind, source.body, InputScope, Undefined, 0)
    /\ frames # << >> =>
         IsTerm(compiled) /\ WillReturn(source.kind, frames, input, compiled.value[input])
    /\ outcome # None => IsTerm(compiled) /\ outcome = Returns(compiled.value[input])

\* Nothing is compiled or running at first.
LEMMA InitInvariant == Init => IInv
  <1> SUFFICES ASSUME Init PROVE IInv
    OBVIOUS
  <1>1. source.kind \in Kinds /\ source.body \in Lists
    BY SourceAssumption DEF Init, Kinds
  <1>2. ~IsTerm(compiled)
    BY Marks DEF Init
  <1> QED
    BY <1>1, <1>2 DEF Init, IInv

\* The compiler: an accepted function has the term of its walker.
LEMMA CompileInvariant ==
    ASSUME IInv, CompileSourceProof \/ CompileSourceEffectProof PROVE IInv'
  <1>1. UNCHANGED <<source, input, frames, outcome>> /\ ~IsTerm(compiled)
    BY Marks DEF CompileSourceProof, CompileSourceEffectProof, Compile, engine
  <1>2. frames = << >> /\ outcome = None
    BY <1>1 DEF IInv
  <1>3. IsTerm(compiled') => compiled' = Walk(source.kind, source.body, InputScope, Undefined, 0)
    <2>1. CASE CompileSourceProof
      BY <2>1, Marks DEF CompileSourceProof, Compile, CompileFunctionBody, Walk
    <2>2. CASE CompileSourceEffectProof
      BY <2>2, Marks DEF CompileSourceEffectProof, Compile, LowerEffectBody, Walk
    <2> QED
      BY <2>1, <2>2
  <1> QED
    BY <1>1, <1>2, <1>3 DEF IInv

\* The call of an accepted function.
LEMMA CallInvariant ==
    ASSUME NothingBehindReturn, IInv, CallSource PROVE IInv'
  <1>1. /\ UNCHANGED <<source, compiled, input, outcome>> /\ IsTerm(compiled) /\ outcome = None
        /\ frames' = <<Frame(source.body, [n \in Names |->
                         IF n \in DOMAIN input THEN <<input[n]>> ELSE Dead])>>
    BY DEF CallSource, Call, function
  <1>2. PICK env : env = [n \in Names |-> IF n \in DOMAIN input THEN <<input[n]>> ELSE Dead]
    OBVIOUS
  <1>3. PICK stack : stack = Single(Frame(source.body, env))
    OBVIOUS
  <1>4. WillReturn(source.kind, stack, input, compiled.value[input])
    BY <1>1, <1>2, <1>3, CallReturns DEF IInv
  <1>5. frames' = stack
    BY <1>1, <1>2, <1>3 DEF Single
  <1> QED
    BY <1>1, <1>4, <1>5 DEF IInv

\* The engine, a step at a time.
LEMMA StepInvariant ==
    ASSUME NothingBehindReturn, IInv, StepSource PROVE IInv'
  <1>1. UNCHANGED <<source, compiled, input>> /\ Step
    BY DEF StepSource, function
  <1>2. /\ source.kind \in Kinds /\ input \in Valuations
        /\ frames # << >> =>
             IsTerm(compiled) /\ WillReturn(source.kind, frames, input, compiled.value[input])
    BY DEF IInv
  <1>3. PICK top, list, s : top = frames[Len(frames)] /\ list = top.statements /\ s = Head(list)
    OBVIOUS
  <1>4. PICK value : value = compiled.value[input]
    OBVIOUS
  <1>5. SUFFICES
           \/ /\ frames # << >> /\ frames' # << >> /\ outcome' = outcome
              /\ WillReturn(source.kind, frames', input, value)
           \/ frames # << >> /\ frames' = << >> /\ outcome' = Returns(value)
    BY <1>1, <1>2, <1>4, <1>5 DEF IInv
  <1>6. frames # << >> => WillReturn(source.kind, frames, input, value)
    BY <1>2, <1>4
  <1>7. \A stack : WillReturn(source.kind, stack, input, value) => stack # << >>
    BY DEF WillReturn
  <1>8. \A statements, env : GoOn(statements, env) = Replaced(frames, Left(statements, env))
    BY DEF GoOn, Replaced, Left
  <1>9. \A stack, frame : Append(stack, frame) = Pushed(stack, frame)
    BY DEF Pushed
  <1>10. Dead # <<value>> /\ \A x : <<x>> # Dead /\ <<x>>[1] = x
    BY Alive
  <1>11. CASE Declare
    <2>1. frames # << >> /\ list # << >> /\ s.kind = "Const"
      BY <1>3, <1>11 DEF Declare, At, Top, Statement
    <2>2. Declares(source.kind, input, value, frames, list, top.env, s.name, s.initializer)
      BY <1>2, <1>3, <1>6, <2>1, DeclareStep
    <2>3. PICK x : /\ Evaluate(s.initializer, top.env) = <<x>>
                   /\ WillReturn(source.kind, Replaced(frames, Left(Tail(list), Bind(top.env, s.name, <<x>>))),
                                 input, value)
      BY <2>2 DEF Declares
    <2>4. outcome' = outcome /\ frames' = GoOn(Tail(list), Bind(top.env, s.name, <<x>>))
      BY <1>3, <1>10, <1>11, <2>3 DEF Declare, With, Top, Statement
    <2> QED
      BY <1>7, <1>8, <2>1, <2>3, <2>4
  <1>12. CASE LeaveFunction
    <2>1. frames # << >> /\ list # << >> /\ s.kind \in {"Return", "Unsupported"}
      BY <1>3, <1>12 DEF LeaveFunction, Top, Statement
    <2>2. s.kind = "Return" /\ Evaluate(s.expression, top.env) = <<value>>
      BY <1>2, <1>3, <1>6, <2>1, ReturnStep
    <2>3. frames' = << >> /\ outcome' = Returns(value)
      BY <1>3, <1>10, <1>12, <2>2 DEF LeaveFunction, With, Ends, Top, Statement
    <2> QED
      BY <2>1, <2>3
  <1>13. CASE EnterBlock
    <2>1. frames # << >> /\ list # << >> /\ s.kind = "Block"
      BY <1>3, <1>13 DEF EnterBlock, At, Top, Statement
    <2>2. outcome' = outcome /\ frames' = Append(GoOn(Tail(list), top.env), Frame(s.body, top.env))
      BY <1>3, <1>13 DEF EnterBlock, Top, Statement
    <2>3. WillReturn(source.kind, frames', input, value)
      BY <1>2, <1>3, <1>6, <1>8, <1>9, <2>1, <2>2, BlockStep
    <2> QED
      BY <1>7, <2>1, <2>2, <2>3
  <1>14. CASE Branch
    <2>1. frames # << >> /\ list # << >> /\ s.kind = "If"
      BY <1>3, <1>14 DEF Branch, At, Top, Statement
    <2>2. PICK c :
             /\ Evaluate(s.condition, top.env) = <<c>>
             /\ WillReturn(source.kind, Pushed(Replaced(frames, Left(Tail(list), top.env)),
                                               Frame(IF Holds(c) THEN s.then ELSE s.orElse, top.env)),
                           input, value)
      BY <1>2, <1>3, <1>6, <2>1, BranchStep
    <2>3. /\ outcome' = outcome
          /\ frames' = Append(GoOn(Tail(list), top.env),
                              Frame(IF Holds(c) THEN s.then ELSE s.orElse, top.env))
      BY <1>3, <1>10, <1>14, <2>2 DEF Branch, With, Top, Statement
    <2> QED
      BY <1>7, <1>8, <1>9, <2>1, <2>2, <2>3
  <1>15. CASE Iterate
    <2>1. frames # << >> /\ list # << >> /\ s.kind = "For" /\ s.iterations # << >>
      BY <1>3, <1>15 DEF Iterate, At, Top, Statement
    <2>2. /\ outcome' = outcome
          /\ frames' = Append(GoOn(AfterIteration(list), top.env),
                              Frame(s.body, Bind(top.env, s.name, <<Number(Head(s.iterations))>>)))
      BY <1>3, <1>15 DEF Iterate, Top, Statement
    <2>3. WillReturn(source.kind, frames', input, value)
      BY <1>2, <1>3, <1>6, <1>8, <1>9, <2>1, <2>2, IterateStep, ZenonT(60)
    <2> QED
      BY <1>7, <2>1, <2>2, <2>3
  <1>16. CASE LeaveLoop
    <2>1. frames # << >> /\ list # << >> /\ s.kind = "For" /\ s.iterations = << >>
      BY <1>3, <1>16 DEF LeaveLoop, At, Top, Statement
    <2>2. outcome' = outcome /\ frames' = GoOn(Tail(list), top.env)
      BY <1>3, <1>16 DEF LeaveLoop, Top, Statement
    <2>3. WillReturn(source.kind, frames', input, value)
      BY <1>2, <1>3, <1>6, <1>8, <2>1, <2>2, LeaveLoopStep
    <2> QED
      BY <1>7, <2>1, <2>2, <2>3
  <1>17. CASE LeaveBlock
    <2>1. frames # << >> /\ frames[Len(frames)].statements = << >>
      BY <1>17 DEF LeaveBlock, Top
    <2>2. Len(frames) # 1 /\ WillReturn(source.kind, Popped(frames), input, value)
      BY <1>2, <1>6, <2>1, LeaveBlockStep
    <2>3. outcome' = outcome /\ frames' = Popped(frames)
      BY <1>17, <2>2 DEF LeaveBlock, Popped
    <2> QED
      BY <1>7, <2>1, <2>2, <2>3
  <1> QED
    BY <1>1, <1>11, <1>12, <1>13, <1>14, <1>15, <1>16, <1>17 DEF Step

(***************************************************************************)
(* A function that a walker accepts returns, whatever paths a call takes,  *)
(* the value of the term the walker made of it: for every program over the *)
(* statements of the language, every signature and every argument.         *)
(***************************************************************************)
THEOREM PathsAgreeTheorem ==
    ASSUME NothingBehindReturn PROVE Spec => []PathsAgree
  <1>1. Init => IInv
    BY InitInvariant
  <1>2. IInv /\ [Next]_vars => IInv'
    <2> SUFFICES ASSUME IInv, [Next]_vars PROVE IInv'
      OBVIOUS
    <2>1. CASE UNCHANGED vars
      BY <2>1 DEF vars, function, engine, IInv
    <2> QED
      BY <2>1, CompileInvariant, CallInvariant, StepInvariant DEF Next
  <1>3. IInv => PathsAgree
    BY DEF IInv, PathsAgree
  <1> QED
    BY <1>1, <1>2, <1>3, PTL DEF Spec
=============================================================================
