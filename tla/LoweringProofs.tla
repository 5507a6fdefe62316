--------------------------- MODULE LoweringProofs ---------------------------
(***************************************************************************)
(* What the TypeScript frontend makes of JavaScript arithmetic is exact.   *)
(*                                                                         *)
(* For expressions of every size and shape, every scope and precision:     *)
(* intervals enclose values, and what the solver is told is what a         *)
(* JavaScript engine computes.  For counted loops of any bounds, step and  *)
(* limit: the engine runs them with the induction values they were unrolled*)
(* for, and neither limit is off by one.                                   *)
(***************************************************************************)
EXTENDS Lowering, Loop, SequenceTheorems, TLAPS

-----------------------------------------------------------------------------
(* The inductive invariant: the stack holds sound terms only.              *)

SoundTerm ==
    {t \in Term :
        /\ t.smt = t.js
        /\ t.sort = "Int" => /\ t.minimum <= t.smt /\ t.smt <= t.maximum
                             /\ -MaxSafe <= t.minimum /\ t.maximum <= MaxSafe}

LInv ==
    /\ inputs \in Scopes
    /\ stack \in Seq(SoundTerm)
    /\ rejected \in BOOLEAN
    /\ nodes \in 0..MaxNodes

-----------------------------------------------------------------------------
(* Facts about terms.                                                      *)

\* What soundness of an integer term comes down to.
LEMMA SoundInt ==
    ASSUME NEW t \in SoundTerm, t.sort = "Int"
    PROVE  /\ t.minimum \in Int /\ t.maximum \in Int /\ t.smt \in Int /\ t.js = t.smt
           /\ t.minimum <= t.smt /\ t.smt <= t.maximum
           /\ -MaxSafe <= t.minimum /\ t.maximum <= MaxSafe
BY DEF SoundTerm, Term

\* What soundness of a boolean term comes down to.
LEMMA SoundBool ==
    ASSUME NEW t \in SoundTerm, t.sort = "Bool"
    PROVE  t.smt \in BOOLEAN /\ t.js = t.smt
BY DEF SoundTerm, Term

\* A sound term has one of the two sorts.
LEMMA SoundSort ==
    ASSUME NEW t \in SoundTerm
    PROVE  t.sort = "Int" \/ t.sort = "Bool"
BY DEF SoundTerm, Term

\* A boolean term is sound when both sides agree on it.
LEMMA BoolTermSound ==
    ASSUME NEW b \in BOOLEAN
    PROVE  BoolTerm(b, b) \in SoundTerm
BY DEF BoolTerm, SoundTerm, Term

\* Inside the safe interval rounding changes nothing.
LEMMA IntTermSound ==
    ASSUME NEW minimum \in Int, NEW maximum \in Int, NEW v \in Int,
           minimum <= v, v <= maximum, -MaxSafe <= minimum, maximum <= MaxSafe
    PROVE  /\ IntTerm(minimum, maximum, v, v) \in SoundTerm
           /\ IntTerm(minimum, maximum, v, Round(v)) \in SoundTerm
<1>1. v \in -MaxSafe..MaxSafe
  BY LoweringAssumption, MaxSafeAssumption
<1>2. Round(v) = v
  BY <1>1, RoundAssumption
<1>3. IntTerm(minimum, maximum, v, v) \in SoundTerm
  BY DEF IntTerm, SoundTerm, Term
<1> QED
  BY <1>2, <1>3

\* A parameter inside its declared domain is sound.
LEMMA InputSound ==
    ASSUME NEW scope \in Scopes, NEW n \in Names, scope[n] # Unbound
    PROVE  scope[n] \in SoundTerm
<1>1. scope[n] \in Input
  BY LoweringAssumption, MaxSafeAssumption
<1> QED
  BY <1>1 DEF Input, SoundTerm, Safe

-----------------------------------------------------------------------------
(* The interval of a product.                                              *)

\* Of four integers there is a least and a greatest.
LEMMA LeastGreatest ==
    ASSUME NEW a \in Int, NEW b \in Int, NEW c \in Int, NEW d \in Int
    PROVE  /\ Least({a, b, c, d}) \in Int
           /\ \A k \in {a, b, c, d} : Least({a, b, c, d}) <= k
           /\ Greatest({a, b, c, d}) \in Int
           /\ \A k \in {a, b, c, d} : k <= Greatest({a, b, c, d})
<1> DEFINE S == {a, b, c, d}
<1>1. \E m \in S : \A k \in S : m <= k
  OBVIOUS
<1>2. \E m \in S : \A k \in S : k <= m
  OBVIOUS
<1>3. S \subseteq Int
  OBVIOUS
<1> HIDE DEF S
<1>4. Least(S) \in S /\ \A k \in S : Least(S) <= k
  BY <1>1 DEF Least
<1>5. Greatest(S) \in S /\ \A k \in S : k <= Greatest(S)
  BY <1>2 DEF Greatest
<1>6. Least(S) \in Int /\ Greatest(S) \in Int
  BY <1>3, <1>4, <1>5
<1> QED
  BY <1>4, <1>5, <1>6 DEF S

\* Multiplication by v is monotone or antitone, according to its sign.
LEMMA ProductBetween ==
    ASSUME NEW a \in Int, NEW b \in Int, NEW u \in Int, NEW v \in Int,
           a <= u, u <= b
    PROVE  /\ u * v \in Int
           /\ v >= 0 => a * v <= u * v /\ u * v <= b * v
           /\ v <= 0 => b * v <= u * v /\ u * v <= a * v
<1>1. \A p, q, r \in Int : p <= q /\ r >= 0 => p * r <= q * r
  OBVIOUS
<1>2. \A p, q, r \in Int : p <= q /\ r <= 0 => q * r <= p * r
  OBVIOUS
<1> QED
  BY <1>1, <1>2

\* The product of two values lies between two products of bounds.
LEMMA ProductEnclosed ==
    ASSUME NEW a \in Int, NEW b \in Int, NEW u \in Int, a <= u, u <= b,
           NEW c \in Int, NEW d \in Int, NEW v \in Int, c <= v, v <= d
    PROVE  /\ \E k \in {a * c, a * d, b * c, b * d} : k <= u * v
           /\ \E k \in {a * c, a * d, b * c, b * d} : u * v <= k
<1>1. /\ a * v \in Int /\ b * v \in Int /\ u * v \in Int
      /\ a * c \in Int /\ a * d \in Int /\ b * c \in Int /\ b * d \in Int
  OBVIOUS
<1>2. \/ a * v <= u * v /\ u * v <= b * v
      \/ b * v <= u * v /\ u * v <= a * v
  BY ProductBetween
<1>3. \/ a * c <= a * v /\ a * v <= a * d
      \/ a * d <= a * v /\ a * v <= a * c
  <2>1. \/ c * a <= v * a /\ v * a <= d * a
        \/ d * a <= v * a /\ v * a <= c * a
    BY ProductBetween
  <2>2. c * a = a * c /\ v * a = a * v /\ d * a = a * d
    OBVIOUS
  <2> QED
    BY <2>1, <2>2
<1>4. \/ b * c <= b * v /\ b * v <= b * d
      \/ b * d <= b * v /\ b * v <= b * c
  <2>1. \/ c * b <= v * b /\ v * b <= d * b
        \/ d * b <= v * b /\ v * b <= c * b
    BY ProductBetween
  <2>2. c * b = b * c /\ v * b = b * v /\ d * b = b * d
    OBVIOUS
  <2> QED
    BY <2>1, <2>2
<1> DEFINE ac == a * c
           ad == a * d
           bc == b * c
           bd == b * d
           av == a * v
           bv == b * v
           uv == u * v
<1> HIDE DEF ac, ad, bc, bd, av, bv, uv
<1>5. /\ ac \in Int /\ ad \in Int /\ bc \in Int /\ bd \in Int
      /\ av \in Int /\ bv \in Int /\ uv \in Int
      /\ (av <= uv /\ uv <= bv) \/ (bv <= uv /\ uv <= av)
      /\ (ac <= av /\ av <= ad) \/ (ad <= av /\ av <= ac)
      /\ (bc <= bv /\ bv <= bd) \/ (bd <= bv /\ bv <= bc)
  BY <1>1, <1>2, <1>3, <1>4 DEF ac, ad, bc, bd, av, bv, uv
<1>6. /\ \E k \in {ac, ad, bc, bd} : k <= uv
      /\ \E k \in {ac, ad, bc, bd} : uv <= k
  BY <1>5
<1> QED
  BY <1>6 DEF ac, ad, bc, bd, uv

\* The interval of Mul encloses the product, in exact arithmetic.
LEMMA ProductInterval ==
    ASSUME NEW l \in SoundTerm, l.sort = "Int", NEW r \in SoundTerm, r.sort = "Int"
    PROVE  /\ Least(Products(l, r)) \in Int /\ Greatest(Products(l, r)) \in Int
           /\ Least(Products(l, r)) <= l.smt * r.smt
           /\ l.smt * r.smt <= Greatest(Products(l, r))
           /\ l.smt * r.smt \in Int
<1> DEFINE a == l.minimum
           b == l.maximum
           c == r.minimum
           d == r.maximum
           u == l.smt
           v == r.smt
<1>1. /\ a \in Int /\ b \in Int /\ c \in Int /\ d \in Int /\ u \in Int /\ v \in Int
      /\ a <= u /\ u <= b /\ c <= v /\ v <= d
  BY SoundInt
<1>2. Products(l, r) = {a * c, a * d, b * c, b * d}
  BY DEF Products
<1> HIDE DEF a, b, c, d, u, v
<1>3. /\ a * c \in Int /\ a * d \in Int /\ b * c \in Int /\ b * d \in Int /\ u * v \in Int
  BY <1>1
<1> DEFINE least == Least({a * c, a * d, b * c, b * d})
           greatest == Greatest({a * c, a * d, b * c, b * d})
<1>4. /\ least \in Int /\ \A k \in {a * c, a * d, b * c, b * d} : least <= k
      /\ greatest \in Int /\ \A k \in {a * c, a * d, b * c, b * d} : k <= greatest
  BY <1>3, LeastGreatest
<1> HIDE DEF least, greatest
<1>5. PICK k \in {a * c, a * d, b * c, b * d} : k <= u * v
  BY <1>1, ProductEnclosed
<1>6. PICK m \in {a * c, a * d, b * c, b * d} : u * v <= m
  BY <1>1, ProductEnclosed
<1>7. k \in Int /\ m \in Int /\ least <= k /\ m <= greatest
  BY <1>3, <1>4, <1>5, <1>6
<1>8. least <= u * v /\ u * v <= greatest
  BY <1>3, <1>4, <1>5, <1>6, <1>7
<1> QED
  BY <1>2, <1>3, <1>4, <1>8 DEF least, greatest, u, v

-----------------------------------------------------------------------------
(* Every node leaves a sound term or none.                                 *)

\* The operands on the stack are sound terms.
LEMMA OperandSound ==
    ASSUME LInv, NEW n \in Nat, Len(stack) >= n, NEW k \in 1..n
    PROVE  Operand(n, k) \in SoundTerm
<1>1. Len(stack) - n + k \in 1..Len(stack)
  BY DEF LInv
<1> QED
  BY <1>1 DEF LInv, Operand

\* Leaving a sound term keeps the stack sound.
LEMMA LeaveLInv ==
    ASSUME LInv, NEW n \in Nat, Compile(n), NEW t \in SoundTerm, Leave(n, t)
    PROVE  LInv'
<1> USE DEF Compile, Leave
<1> DEFINE rest == SubSeq(stack, 1, Len(stack) - n)
<1>1. Len(stack) \in Nat /\ Len(stack) - n \in Int /\ 1 \in Int
  BY DEF LInv
<1>2. \A i \in 1..(Len(stack) - n) : stack[i] \in SoundTerm
  BY DEF LInv
<1>3. rest \in Seq(SoundTerm)
  BY <1>1, <1>2, SubSeqProperties
<1> HIDE DEF rest
<1>4. Append(rest, t) \in Seq(SoundTerm)
  BY <1>3, AppendProperties
<1>5. stack' \in Seq(SoundTerm)
  BY <1>4 DEF rest
<1>6. nodes' \in 0..MaxNodes
  BY LoweringAssumption, MaxSafeAssumption DEF LInv
<1> QED
  BY <1>5, <1>6 DEF LInv

\* Reporting an error leaves the stack as it was.
LEMMA ReportLInv ==
    ASSUME LInv, NEW n \in Nat, Compile(n), Report
    PROVE  LInv'
<1>1. nodes' \in 0..MaxNodes
  BY LoweringAssumption, MaxSafeAssumption DEF LInv, Compile
<1> QED
  BY <1>1 DEF LInv, Compile, Report

\* Literals and identifiers keep the stack sound.
LEMMA LeafLInv ==
    ASSUME LInv,
           \/ \E v \in Literals : NumericLiteral(v)
           \/ \E b \in BOOLEAN : BooleanLiteral(b)
           \/ \E n \in Names : Identifier(n)
           \/ Unsupported
    PROVE  LInv'
<1>1. ASSUME NEW v \in Literals, NumericLiteral(v) PROVE LInv'
  <2>1. v \in Int /\ MaxSafe \in Nat
    BY LoweringAssumption, MaxSafeAssumption
  <2>2. Safe(v) => IntTerm(v, v, v, v) \in SoundTerm
    BY <2>1, IntTermSound DEF Safe
  <2> QED
    BY <1>1, <2>2, LeaveLInv, ReportLInv DEF NumericLiteral
<1>2. ASSUME NEW b \in BOOLEAN, BooleanLiteral(b) PROVE LInv'
  BY <1>2, BoolTermSound, LeaveLInv DEF BooleanLiteral
<1>3. ASSUME NEW n \in Names, Identifier(n) PROVE LInv'
  <2>1. inputs[n] # Unbound => inputs[n] \in SoundTerm
    BY InputSound DEF LInv
  <2> QED
    BY <1>3, <2>1, LeaveLInv, ReportLInv DEF Identifier
<1>4. CASE Unsupported
  BY <1>4, ReportLInv DEF Unsupported
<1> QED
  BY <1>1, <1>2, <1>3, <1>4

\* Unary operators keep the stack sound.
LEMMA UnaryLInv ==
    ASSUME LInv, LogicalNot \/ UnaryPlus \/ UnaryMinus
    PROVE  LInv'
<1> DEFINE t == Operand(1, 1)
<1>1. Compile(1) /\ t \in SoundTerm
  BY OperandSound DEF LogicalNot, UnaryPlus, UnaryMinus, Compile
<1> HIDE DEF t
<1>2. CASE LogicalNot
  <2>1. t.sort = "Bool" => BoolTerm(~t.smt, ~t.js) \in SoundTerm
    BY <1>1, SoundBool, BoolTermSound
  <2> QED
    BY <1>1, <1>2, <2>1, LeaveLInv, ReportLInv DEF LogicalNot, t
<1>3. CASE UnaryPlus
  BY <1>1, <1>3, LeaveLInv, ReportLInv DEF UnaryPlus, t
<1>4. CASE UnaryMinus
  <2> DEFINE neg == IntTerm(-t.maximum, -t.minimum, 0 - t.smt, Round(-t.js))
  <2>1. CASE t.sort = "Int"
    <3>1. /\ -t.maximum \in Int /\ -t.minimum \in Int /\ 0 - t.smt \in Int
          /\ -t.maximum <= 0 - t.smt /\ 0 - t.smt <= -t.minimum
          /\ -t.js = 0 - t.smt
          /\ MaxSafe \in Nat
          /\ -MaxSafe <= -t.maximum /\ -t.minimum <= MaxSafe
      BY <1>1, <2>1, SoundInt, LoweringAssumption, MaxSafeAssumption
    <3>2. neg \in SoundTerm
      BY <3>1, IntTermSound
    <3> QED
      BY <1>1, <1>4, <2>1, <3>2, LeaveLInv, ReportLInv DEF UnaryMinus, LeaveIfSafe, t
  <2>2. CASE t.sort # "Int"
    BY <1>1, <1>4, <2>2, ReportLInv DEF UnaryMinus, t
  <2> QED
    BY <2>1, <2>2
<1> QED
  BY <1>2, <1>3, <1>4

\* Logical operators and comparisons keep the stack sound.
LEMMA LogicalLInv ==
    ASSUME LInv, Conjunction \/ Disjunction
    PROVE  LInv'
<1> DEFINE l == Operand(2, 1)
           r == Operand(2, 2)
<1>1. Compile(2) /\ l \in SoundTerm /\ r \in SoundTerm
  <2>1. Compile(2) /\ Len(stack) >= 2
    BY DEF Conjunction, Disjunction, Compile
  <2>2. \A k \in 1..2 : Operand(2, k) \in SoundTerm
    BY <2>1, OperandSound
  <2> QED
    BY <2>1, <2>2
<1> HIDE DEF l, r
<1>2. CASE l.sort = "Bool" /\ r.sort = "Bool"
  <2>1. l.smt \in BOOLEAN /\ r.smt \in BOOLEAN /\ l.js = l.smt /\ r.js = r.smt
    BY <1>1, <1>2, SoundBool
  <2>2. BoolTerm(l.smt /\ r.smt, IF l.js THEN r.js ELSE FALSE) \in SoundTerm
    <3>1. (l.smt /\ r.smt) \in BOOLEAN
          /\ (IF l.js THEN r.js ELSE FALSE) = (l.smt /\ r.smt)
      BY <2>1
    <3> QED
      BY <3>1, BoolTermSound
  <2>3. BoolTerm(l.smt \/ r.smt, IF l.js THEN TRUE ELSE r.js) \in SoundTerm
    <3>1. (l.smt \/ r.smt) \in BOOLEAN
          /\ (IF l.js THEN TRUE ELSE r.js) = (l.smt \/ r.smt)
      BY <2>1
    <3> QED
      BY <3>1, BoolTermSound
  <2> QED
    BY <1>1, <1>2, <2>2, <2>3, LeaveLInv DEF Conjunction, Disjunction, l, r
<1>3. CASE ~(l.sort = "Bool" /\ r.sort = "Bool")
  BY <1>1, <1>3, ReportLInv DEF Conjunction, Disjunction, l, r
<1> QED
  BY <1>2, <1>3

\* Each arithmetic operator encloses its exact result.
LEMMA ArithmeticSound ==
    ASSUME NEW l \in SoundTerm, l.sort = "Int", NEW r \in SoundTerm, r.sort = "Int",
           NEW t \in {Add(l, r), Sub(l, r), Mul(l, r)},
           -MaxSafe <= t.minimum, t.maximum <= MaxSafe
    PROVE  t \in SoundTerm
<1>1. /\ l.minimum \in Int /\ l.maximum \in Int /\ l.smt \in Int /\ l.js = l.smt
      /\ r.minimum \in Int /\ r.maximum \in Int /\ r.smt \in Int /\ r.js = r.smt
      /\ l.minimum <= l.smt /\ l.smt <= l.maximum
      /\ r.minimum <= r.smt /\ r.smt <= r.maximum
  BY SoundInt
<1>2. CASE t = Add(l, r)
  <2>1. /\ t.minimum = l.minimum + r.minimum /\ t.maximum = l.maximum + r.maximum
        /\ t = IntTerm(l.minimum + r.minimum, l.maximum + r.maximum,
                       l.smt + r.smt, Round(l.smt + r.smt))
    BY <1>1, <1>2 DEF Add, IntTerm
  <2>2. /\ l.minimum + r.minimum \in Int /\ l.maximum + r.maximum \in Int
        /\ l.smt + r.smt \in Int
        /\ l.minimum + r.minimum <= l.smt + r.smt
        /\ l.smt + r.smt <= l.maximum + r.maximum
    BY <1>1
  <2> QED
    BY <2>1, <2>2, IntTermSound
<1>3. CASE t = Sub(l, r)
  <2>1. /\ t.minimum = l.minimum - r.maximum /\ t.maximum = l.maximum - r.minimum
        /\ t = IntTerm(l.minimum - r.maximum, l.maximum - r.minimum,
                       l.smt - r.smt, Round(l.smt - r.smt))
    BY <1>1, <1>3 DEF Sub, IntTerm
  <2>2. /\ l.minimum - r.maximum \in Int /\ l.maximum - r.minimum \in Int
        /\ l.smt - r.smt \in Int
        /\ l.minimum - r.maximum <= l.smt - r.smt
        /\ l.smt - r.smt <= l.maximum - r.minimum
    BY <1>1
  <2> QED
    BY <2>1, <2>2, IntTermSound
<1>4. CASE t = Mul(l, r)
  <2>1. /\ t.minimum = Least(Products(l, r)) /\ t.maximum = Greatest(Products(l, r))
        /\ t = IntTerm(Least(Products(l, r)), Greatest(Products(l, r)),
                       l.smt * r.smt, Round(l.smt * r.smt))
    BY <1>1, <1>4 DEF Mul, IntTerm
  <2> QED
    BY <2>1, ProductInterval, IntTermSound
<1> QED
  BY <1>2, <1>3, <1>4

\* Arithmetic checked against the safe range is never rounded.
LEMMA ArithmeticLInv ==
    ASSUME LInv, Arithmetic \/ Comparison
    PROVE  LInv'
<1> DEFINE l == Operand(2, 1)
           r == Operand(2, 2)
<1>1. Compile(2) /\ l \in SoundTerm /\ r \in SoundTerm
  <2>1. Compile(2) /\ Len(stack) >= 2
    BY DEF Arithmetic, Comparison, Compile
  <2>2. \A k \in 1..2 : Operand(2, k) \in SoundTerm
    BY <2>1, OperandSound
  <2> QED
    BY <2>1, <2>2
<1> HIDE DEF l, r
<1>2. CASE l.sort = "Int" /\ r.sort = "Int"
  <2>1. CASE Arithmetic
    <3>1. PICK t \in {Add(l, r), Sub(l, r), Mul(l, r)} : LeaveIfSafe(2, t)
      BY <1>2, <2>1 DEF Arithmetic, l, r
    <3>2. -MaxSafe <= t.minimum /\ t.maximum <= MaxSafe => t \in SoundTerm
      BY <1>1, <1>2, ArithmeticSound
    <3> QED
      BY <1>1, <3>1, <3>2, LeaveLInv, ReportLInv DEF LeaveIfSafe
  <2>2. CASE Comparison
    <3>1. PICK t \in Comparisons(l, r) : Leave(2, t)
      BY <1>2, <2>2 DEF Comparison, l, r
    <3>2. l.smt \in Int /\ r.smt \in Int /\ l.js = l.smt /\ r.js = r.smt
      BY <1>1, <1>2, SoundInt
    <3>3. \E b \in BOOLEAN : t = BoolTerm(b, b)
      <4>1. /\ (l.smt < r.smt) \in BOOLEAN /\ (l.smt <= r.smt) \in BOOLEAN
            /\ (l.smt > r.smt) \in BOOLEAN /\ (l.smt >= r.smt) \in BOOLEAN
            /\ (l.smt = r.smt) \in BOOLEAN /\ (l.smt # r.smt) \in BOOLEAN
        BY <3>2
      <4>2. t \in {BoolTerm(l.smt < r.smt, l.smt < r.smt),
                   BoolTerm(l.smt <= r.smt, l.smt <= r.smt),
                   BoolTerm(l.smt > r.smt, l.smt > r.smt),
                   BoolTerm(l.smt >= r.smt, l.smt >= r.smt),
                   BoolTerm(l.smt = r.smt, l.smt = r.smt),
                   BoolTerm(l.smt # r.smt, l.smt # r.smt)}
        BY <3>1, <3>2, Zenon DEF Comparisons
      <4> QED
        BY <4>1, <4>2, Zenon
    <3> QED
      BY <1>1, <3>1, <3>3, BoolTermSound, LeaveLInv
  <2> QED
    BY <2>1, <2>2
<1>3. CASE ~(l.sort = "Int" /\ r.sort = "Int")
  BY <1>1, <1>3, ReportLInv DEF Arithmetic, Comparison, l, r
<1> QED
  BY <1>2, <1>3

\* A conditional of sound branches is sound.
LEMMA MergeSound ==
    ASSUME NEW c \in SoundTerm, c.sort = "Bool", NEW t \in SoundTerm,
           NEW f \in SoundTerm, t.sort = f.sort
    PROVE  Merge(c, t, f) \in SoundTerm
<1>1. c.smt \in BOOLEAN /\ c.js = c.smt
  BY SoundBool
<1>2. CASE t.sort = "Int"
  <2>1. /\ t.minimum \in Int /\ t.maximum \in Int /\ t.smt \in Int /\ t.js = t.smt
        /\ t.minimum <= t.smt /\ t.smt <= t.maximum
        /\ -MaxSafe <= t.minimum /\ t.maximum <= MaxSafe
    BY <1>2, SoundInt
  <2>2. /\ f.minimum \in Int /\ f.maximum \in Int /\ f.smt \in Int /\ f.js = f.smt
        /\ f.minimum <= f.smt /\ f.smt <= f.maximum
        /\ -MaxSafe <= f.minimum /\ f.maximum <= MaxSafe
    BY <1>2, SoundInt
  <2> DEFINE low == LowerOf(t.minimum, f.minimum)
             high == UpperOf(t.maximum, f.maximum)
             taken == IF c.smt THEN t.smt ELSE f.smt
  <2>3. /\ low \in Int /\ high \in Int /\ taken \in Int
        /\ low <= taken /\ taken <= high /\ -MaxSafe <= low /\ high <= MaxSafe
    BY <2>1, <2>2, LoweringAssumption, MaxSafeAssumption DEF LowerOf, UpperOf
  <2>4. Merge(c, t, f) = IntTerm(low, high, taken, taken)
    BY <1>1, <1>2, <2>1, <2>2 DEF Merge
  <2> HIDE DEF low, high, taken
  <2> QED
    BY <2>3, <2>4, IntTermSound
<1>3. CASE t.sort # "Int"
  <2>1. t.sort = "Bool" /\ f.sort = "Bool"
    BY <1>3, SoundSort
  <2>2. t.smt \in BOOLEAN /\ t.js = t.smt /\ f.smt \in BOOLEAN /\ f.js = f.smt
    BY <2>1, SoundBool
  <2> DEFINE taken == IF c.smt THEN t.smt ELSE f.smt
  <2>3. taken \in BOOLEAN
    BY <2>2
  <2>4. Merge(c, t, f) = BoolTerm(taken, taken)
    BY <1>1, <1>3, <2>2 DEF Merge
  <2> QED
    BY <2>3, <2>4, BoolTermSound
<1> QED
  BY <1>2, <1>3

\* Conditionals keep the stack sound.
LEMMA ConditionalLInv ==
    ASSUME LInv, Conditional
    PROVE  LInv'
<1> DEFINE c == Operand(3, 1)
           t == Operand(3, 2)
           f == Operand(3, 3)
<1>1. Compile(3) /\ c \in SoundTerm /\ t \in SoundTerm /\ f \in SoundTerm
  <2>1. Compile(3) /\ Len(stack) >= 3
    BY DEF Conditional, Compile
  <2>2. \A k \in 1..3 : Operand(3, k) \in SoundTerm
    BY <2>1, OperandSound
  <2> QED
    BY <2>1, <2>2
<1> HIDE DEF c, t, f
<1>2. CASE c.sort = "Bool" /\ t.sort = f.sort
  <2>1. Merge(c, t, f) \in SoundTerm
    BY <1>1, <1>2, MergeSound
  <2>2. Leave(3, Merge(c, t, f)) \/ Report
    BY <1>2 DEF Conditional, LeaveIfSafe, c, t, f
  <2> QED
    BY <1>1, <2>1, <2>2, LeaveLInv, ReportLInv
<1>3. CASE ~(c.sort = "Bool" /\ t.sort = f.sort)
  BY <1>1, <1>3, ReportLInv DEF Conditional, c, t, f
<1> QED
  BY <1>2, <1>3

\* Every compiled node preserves the invariant.
LEMMA NextLInv == LInv /\ [Next]_vars => LInv'
<1> SUFFICES ASSUME LInv, [Next]_vars PROVE LInv'
  OBVIOUS
<1>1. CASE UNCHANGED vars
  BY <1>1 DEF vars, LInv
<1>2. CASE Next
  BY <1>2, LeafLInv, UnaryLInv, LogicalLInv, ArithmeticLInv, ConditionalLInv DEF Next
<1> QED
  BY <1>1, <1>2

\* The empty stack is sound.
LEMMA InitLInv == Init => LInv
<1>1. << >> \in Seq(SoundTerm)
  OBVIOUS
<1>2. 0 \in 0..MaxNodes
  BY LoweringAssumption, MaxSafeAssumption
<1> QED
  BY <1>1, <1>2 DEF Init, LInv

\* The invariant holds however the expression is built.
LEMMA AlwaysLInv == Spec => []LInv
BY InitLInv, NextLInv, PTL DEF Spec

-----------------------------------------------------------------------------
(* The theorems.                                                           *)

\* Type correctness of the lowering.
THEOREM LoweringTypeCorrect == Spec => []TypeOK
<1>1. LInv => TypeOK
  <2>1. SoundTerm \subseteq Term
    BY DEF SoundTerm
  <2> QED
    BY <2>1 DEF LInv, TypeOK
<1> QED
  BY <1>1, AlwaysLInv, PTL

\* Interval analysis is sound for expressions of any size.
THEOREM LoweringIntervalSound == Spec => []IntervalSound
<1>1. LInv => IntervalSound
  BY SoundInt DEF LInv, IntervalSound
<1> QED
  BY <1>1, AlwaysLInv, PTL

\* An accepted expression means the same to the solver and to JavaScript.
THEOREM LoweringIsFaithful == Spec => []LoweringFaithful
<1>1. LInv => LoweringFaithful
  BY DEF LInv, LoweringFaithful, SoundTerm
<1> QED
  BY <1>1, AlwaysLInv, PTL

-----------------------------------------------------------------------------
(***************************************************************************)
(* Counted loops.                                                          *)
(*                                                                         *)
(* The argument: the direction the compiler takes from the step is that    *)
(* of the condition; the values unrolled so far and the one about to be    *)
(* tested form an arithmetic progression from the start, all of it safe    *)
(* but perhaps its first member; so no addition the engine performs is     *)
(* rounded, and its counter walks along the same progression.              *)
(* The position in the progression also is the number of iterations, which *)
(* makes the verdict of the compiler a statement about the loop alone.     *)
(***************************************************************************)

\* The k-th value of the progression, the one about to be tested included.
At(k) == IF k <= Len(iterations) THEN iterations[k] ELSE value

Progression ==
    /\ At(1) = spec.start
    /\ \A k \in 1..Len(iterations) :
          /\ Test(iterations[k])
          /\ At(k + 1) = iterations[k] + spec.step
          /\ Safe(At(k + 1))

InStep ==
    /\ Len(ran) <= Len(iterations)
    /\ \A k \in 1..Len(ran) : ran[k] = iterations[k]
    /\ counter = At(Len(ran) + 1)

CInv ==
    /\ LoopTypeOK
    /\ Progression
    /\ InStep
    /\ pc \in {"unrolling", "accepted"} => Canonical(spec)
    /\ pc = "accepted" => ~Test(value)
    /\ pc # "accepted" => ran = << >>

\* The numbers of a loop are integers.
LEMMA LoopTyped ==
    ASSUME spec \in Loops
    PROVE  spec.start \in Int /\ spec.end \in Int /\ spec.step \in Int
BY LoopAssumption, MaxSafeAssumption DEF LoopSpecification

\* The compiler's test of a canonical loop is the condition of its source.
LEMMA TestIsCondition ==
    ASSUME Canonical(spec), NEW v
    PROVE  Test(v) <=> Continues(v)
BY DEF Canonical, Test, Continues

\* Before anything is unrolled the progression is the start alone.
LEMMA InitCInv == LoopInit => CInv
<1> SUFFICES ASSUME LoopInit PROVE CInv
  OBVIOUS
<1>1. << >> \in Seq(Int) /\ Len(<< >>) = 0
  OBVIOUS
<1>2. LoopTypeOK
  BY <1>1, LoopTyped, LoopAssumption, MaxSafeAssumption DEF LoopInit, LoopTypeOK
<1> QED
  BY <1>1, <1>2 DEF LoopInit, CInv, Progression, InStep, At

\* Compilation steps that unroll nothing leave the progression as it was.
LEMMA DecideCInv ==
    ASSUME CInv, Specify \/ Accept
    PROVE  CInv'
<1>1. LoopTypeOK'
  BY DEF CInv, LoopTypeOK, Specify, Accept
<1>2. Progression' /\ InStep'
  BY DEF CInv, Progression, InStep, At, Test, Specify, Accept
<1>3. (pc = "accepted" => ~Test(value))' /\ (pc # "accepted" => ran = << >>)'
  BY DEF CInv, Test, Specify, Accept
<1>4. (pc \in {"unrolling", "accepted"} => Canonical(spec))'
  BY DEF CInv, Canonical, Safe, Specify, Accept
<1> QED
  BY <1>1, <1>2, <1>3, <1>4 DEF CInv

\* Unrolling moves the tested value into the progression.
LEMMA UnrollCInv ==
    ASSUME CInv, Unroll
    PROVE  CInv'
<1>1. CASE ~Unrollable
  <2>1. (pc \in {"unrolling", "accepted"} => Canonical(spec))'
    BY <1>1 DEF Unroll
  <2>2. /\ UNCHANGED <<spec, value, iterations, counter, ran>>
        /\ pc = "unrolling" /\ pc' = "rejected"
    BY <1>1 DEF Unroll
  <2>3. LoopTypeOK'
    BY <2>2 DEF CInv, LoopTypeOK
  <2>4. Progression' /\ InStep'
    BY <2>2 DEF CInv, Progression, InStep, At, Test, Safe
  <2> QED
    BY <2>1, <2>2, <2>3, <2>4 DEF CInv
<1>2. CASE Unrollable
  <2>1. /\ spec.step \in Int /\ value \in Int /\ iterations \in Seq(Int)
        /\ Len(iterations) \in Nat /\ MaxIterations \in Nat
        /\ Len(iterations) <= MaxIterations
    BY LoopTyped, LoopAssumption, MaxSafeAssumption DEF CInv, LoopTypeOK
  <2>2. /\ iterations' \in Seq(Int)
        /\ Len(iterations') = Len(iterations) + 1
        /\ \A k \in 1..Len(iterations) : iterations'[k] = iterations[k]
        /\ iterations'[Len(iterations) + 1] = value
    BY <1>2, <2>1, AppendProperties DEF Unroll
  <2>3. UNCHANGED <<spec, pc, counter, ran>> /\ value' = value + spec.step
    BY <1>2 DEF Unroll
  <2>4. LoopTypeOK'
    BY <1>2, <2>1, <2>2, <2>3 DEF CInv, LoopTypeOK, Unrollable
  <2>5. /\ \A k \in 1..(Len(iterations) + 1) : At(k)' = At(k)
        /\ \A k : k = Len(iterations) + 2 => At(k)' = value + spec.step
    BY <2>1, <2>2, <2>3 DEF At
  <2>6. Progression'
    <3>1. (At(1) = spec.start)'
      BY <2>1, <2>3, <2>5 DEF CInv, Progression
    <3>2. ASSUME NEW k \in 1..Len(iterations)
          PROVE  /\ Test(iterations'[k])
                 /\ At(k + 1)' = iterations'[k] + spec.step
                 /\ Safe(At(k + 1)')
      <4>1. k + 1 \in 1..(Len(iterations) + 1)
        BY <2>1
      <4>2. At(k + 1)' = At(k + 1) /\ iterations'[k] = iterations[k]
        BY <2>2, <2>5, <4>1
      <4> QED
        BY <4>2 DEF CInv, Progression
    <3>3. ASSUME NEW k, k = Len(iterations) + 1
          PROVE  /\ Test(iterations'[k])
                 /\ At(k + 1)' = iterations'[k] + spec.step
                 /\ Safe(At(k + 1)')
      <4>1. k + 1 = Len(iterations) + 2
        BY <2>1, <3>3
      <4> QED
        BY <1>2, <2>2, <2>5, <3>3, <4>1 DEF Unroll, Unrollable
    <3>4. ASSUME NEW k \in 1..Len(iterations')
          PROVE  /\ Test(iterations[k])'
                 /\ (At(k + 1) = iterations[k] + spec.step)'
                 /\ Safe(At(k + 1))'
      <4>1. k \in 1..Len(iterations) \/ k = Len(iterations) + 1
        BY <2>1, <2>2
      <4>2. Test(iterations'[k]) => Test(iterations[k])'
        BY <2>3 DEF Test
      <4>3. CASE k \in 1..Len(iterations)
        BY <2>3, <3>2, <4>2, <4>3 DEF Safe
      <4>4. CASE k = Len(iterations) + 1
        BY <2>3, <3>3, <4>2, <4>4 DEF Safe
      <4> QED
        BY <4>1, <4>3, <4>4
    <3> QED
      BY <3>1, <3>4 DEF Progression
  <2>7. InStep'
    <3>1. ran = << >> /\ Len(ran) = 0 /\ counter = At(1)
      BY DEF CInv, InStep, Unroll
    <3> QED
      BY <2>1, <2>2, <2>3, <2>5, <3>1 DEF InStep
  <2>8. (pc \in {"unrolling", "accepted"} => Canonical(spec))'
    BY <2>3 DEF CInv, Canonical, Safe
  <2> QED
    BY <2>3, <2>4, <2>6, <2>7, <2>8 DEF CInv, Unroll
<1> QED
  BY <1>1, <1>2

\* The engine's addition is exact, so its counter takes the next value.
LEMMA RunCInv ==
    ASSUME CInv, Run
    PROVE  CInv'
<1> DEFINE n == Len(ran)
<1>1. /\ spec.step \in Int /\ value \in Int /\ iterations \in Seq(Int)
      /\ ran \in Seq(Int) /\ counter \in Int
      /\ n \in Nat /\ Len(iterations) \in Nat /\ n <= Len(iterations)
      /\ counter = At(n + 1)
  BY LoopTyped DEF CInv, LoopTypeOK, InStep
<1>2. UNCHANGED <<spec, pc, value, iterations>> /\ ran' = Append(ran, counter)
  BY DEF Run
<1>3. /\ ran' \in Seq(Int) /\ Len(ran') = n + 1
      /\ \A k \in 1..n : ran'[k] = ran[k]
      /\ ran'[n + 1] = counter
  BY <1>1, <1>2, AppendProperties
<1>4. n < Len(iterations) /\ counter = iterations[n + 1]
  <2>1. n # Len(iterations)
    <3>1. ASSUME n = Len(iterations) PROVE FALSE
      <4>1. counter = value
        BY <1>1, <3>1 DEF At
      <4>2. Test(counter)
        BY TestIsCondition DEF CInv, Run
      <4> QED
        BY <4>1, <4>2 DEF CInv, Run
    <3> QED
      BY <3>1
  <2> QED
    BY <1>1, <2>1 DEF At
<1>5. /\ At((n + 1) + 1) = iterations[n + 1] + spec.step
      /\ Safe(At((n + 1) + 1))
  <2>1. n + 1 \in 1..Len(iterations)
    BY <1>1, <1>4
  <2> QED
    BY <2>1 DEF CInv, Progression
<1>6. counter' = At((n + 1) + 1) /\ counter' \in Int
  <2>1. counter + spec.step \in Int
    BY <1>1
  <2>2. counter + spec.step \in -MaxSafe..MaxSafe
    BY <1>4, <1>5, <2>1, LoopAssumption, MaxSafeAssumption DEF Safe
  <2> QED
    BY <1>4, <1>5, <2>1, <2>2, RoundAssumption DEF Run
<1>7. LoopTypeOK'
  BY <1>2, <1>3, <1>6 DEF CInv, LoopTypeOK
<1>8. \A k : At(k)' = At(k)
  BY <1>2 DEF At
<1>9. Progression'
  BY <1>2, <1>8 DEF CInv, Progression, Test, Safe
<1>10. InStep'
  <2>1. (counter = At(Len(ran) + 1))'
    BY <1>3, <1>6, <1>8
  <2>2. \A k \in 1..(n + 1) : ran'[k] = iterations'[k]
    BY <1>1, <1>2, <1>3, <1>4 DEF CInv, InStep
  <2> QED
    BY <1>1, <1>2, <1>3, <1>4, <2>1, <2>2 DEF InStep
<1> QED
  BY <1>2, <1>7, <1>9, <1>10 DEF CInv, Run, Test, Canonical, Safe

\* Every step of the compiler and of the engine preserves the invariant.
LEMMA NextCInv == CInv /\ [LoopNext]_loopVars => CInv'
<1> SUFFICES ASSUME CInv, [LoopNext]_loopVars PROVE CInv'
  OBVIOUS
<1>1. CASE UNCHANGED loopVars
  BY <1>1 DEF loopVars, CInv, LoopTypeOK, Progression, InStep, At, Test, Canonical, Safe
<1> QED
  BY <1>1, DecideCInv, UnrollCInv, RunCInv DEF LoopNext

\* The invariant holds throughout.
LEMMA AlwaysCInv == LoopSpec => []CInv
BY InitCInv, NextCInv, PTL DEF LoopSpec

\* Type correctness, with the limit on the iterations.
THEOREM LoopTypeCorrect == LoopSpec => []LoopTypeOK
<1>1. CInv => LoopTypeOK
  BY DEF CInv
<1> QED
  BY <1>1, AlwaysCInv, PTL

\* The engine runs an accepted loop exactly as it was unrolled.
THEOREM LoopUnrollingExact == LoopSpec => []UnrollingExact
<1>1. CInv => UnrollingExact
  <2> SUFFICES ASSUME CInv, pc = "accepted"
               PROVE  Test(counter) <=> Len(ran) < Len(iterations)
    BY TestIsCondition DEF CInv, InStep, UnrollingExact
  <2>1. Len(ran) \in Nat /\ Len(iterations) \in Nat /\ Len(ran) <= Len(iterations)
    BY DEF CInv, LoopTypeOK, InStep
  <2>2. CASE Len(ran) < Len(iterations)
    <3>1. counter = iterations[Len(ran) + 1] /\ Len(ran) + 1 \in 1..Len(iterations)
      BY <2>1, <2>2 DEF CInv, InStep, At
    <3> QED
      BY <2>2, <3>1 DEF CInv, Progression
  <2>3. CASE Len(ran) = Len(iterations)
    <3>1. counter = value
      BY <2>1, <2>3 DEF CInv, InStep, At
    <3> QED
      BY <2>1, <2>3, <3>1 DEF CInv
  <2> QED
    BY <2>1, <2>2, <2>3
<1> QED
  BY <1>1, AlwaysCInv, PTL

-----------------------------------------------------------------------------
(* The limits: a loop is rejected only for what it is, not for where the   *)
(* compiler got to.  Count, a closed form, is what the compiler counts.    *)

\* Products keep the order of their first factor.
LEMMA TimesMonotone ==
    ASSUME NEW m \in Int, NEW n \in Int, NEW d \in Int, d > 0, m <= n
    PROVE  m * d <= n * d
<1>1. n * d = m * d + (n - m) * d
  OBVIOUS
<1>2. (n - m) * d >= 0
  BY SMT
<1>3. m * d \in Int /\ n * d \in Int /\ (n - m) * d \in Int
  OBVIOUS
<1> QED
  BY <1>1, <1>2, <1>3

\* One more step is one more summand.
LEMMA TimesNext ==
    ASSUME NEW n \in Int, NEW d \in Int
    PROVE  (n + 1) * d = n * d + d /\ n * d \in Int
OBVIOUS

\* The quotient rounded up is the number of multiples below.
LEMMA QuotientCounts ==
    ASSUME NEW span \in Int, NEW d \in Int, d > 0, NEW n \in Nat, span > 0
    PROVE  /\ (span + d - 1) \div d \in Nat
           /\ n * d < span <=> n < (span + d - 1) \div d
<1> DEFINE a == span + d - 1
           q == a \div d
<1>1. a \in Int /\ a > 0
  OBVIOUS
<1>2. q \in Int /\ q * d <= a /\ a < q * d + d
  BY <1>1, SMT
<1> HIDE DEF q
<1>3. q >= 0
  <2>1. ASSUME q <= -1 PROVE FALSE
    <3>1. q * d <= (-1) * d
      BY <1>2, <2>1, TimesMonotone
    <3> QED
      BY <1>1, <1>2, <3>1
  <2> QED
    BY <1>2, <2>1
<1>4. ASSUME n < q PROVE n * d < span
  <2>1. (n + 1) * d <= q * d
    BY <1>2, <1>4, TimesMonotone
  <2>2. (n + 1) * d = n * d + d
    OBVIOUS
  <2>3. n * d \in Int /\ q * d \in Int
    BY <1>2
  <2> QED
    BY <1>2, <2>1, <2>2, <2>3
<1>5. ASSUME q <= n PROVE span <= n * d
  <2>1. q * d <= n * d
    BY <1>2, <1>5, TimesMonotone
  <2>2. n * d \in Int /\ q * d \in Int
    BY <1>2
  <2> QED
    BY <1>2, <2>1, <2>2
<1>6. n * d \in Int
  OBVIOUS
<1>7. n * d < span <=> n < q
  BY <1>2, <1>4, <1>5, <1>6
<1> QED
  BY <1>2, <1>3, <1>7 DEF q

\* The n-th value of a canonical loop passes the test exactly below Count.
LEMMA TestIffBelowCount ==
    ASSUME spec \in Loops, Canonical(spec), NEW n \in Nat
    PROVE  /\ Count \in Nat
           /\ Test(spec.start + n * spec.step) <=> n < Count
<1> DEFINE distance == IF spec.step > 0 THEN spec.end - spec.start
                                        ELSE spec.start - spec.end
           span     == IF spec.inclusive THEN distance + 1 ELSE distance
           stride   == IF spec.step > 0 THEN spec.step ELSE -spec.step
<1>1. /\ spec.start \in Int /\ spec.end \in Int /\ spec.step \in Int
      /\ spec.step # 0
  BY LoopTyped DEF Canonical
<1>2. Count = IF span <= 0 THEN 0 ELSE (span + stride - 1) \div stride
  BY DEF Count
<1>3. stride \in Int /\ stride > 0 /\ span \in Int
  BY <1>1
<1>4. Test(spec.start + n * spec.step) <=> n * stride < span
  <2>1. n * spec.step \in Int /\ n * (-spec.step) = -(n * spec.step)
    BY <1>1
  <2>2. CASE spec.step > 0
    BY <1>1, <2>1, <2>2 DEF Test
  <2>3. CASE ~(spec.step > 0)
    <3>1. n * stride = -(n * spec.step)
      BY <2>1, <2>3
    <3>2. span = IF spec.inclusive THEN spec.start - spec.end + 1
                                   ELSE spec.start - spec.end
      BY <2>3
    <3> HIDE DEF span, stride
    <3> QED
      BY <1>1, <2>1, <2>3, <3>1, <3>2 DEF Test
  <2> QED
    BY <2>2, <2>3
<1> HIDE DEF span, stride
<1>5. CASE span <= 0
  <2>1. 0 * stride <= n * stride /\ n * stride \in Int
    BY <1>3, TimesMonotone
  <2>2. Count = 0
    BY <1>2, <1>5
  <2> QED
    BY <1>3, <1>4, <1>5, <2>1, <2>2
<1>6. CASE span > 0
  <2>1. Count = (span + stride - 1) \div stride
    BY <1>2, <1>3, <1>6
  <2> QED
    BY <1>3, <1>4, <1>6, <2>1, QuotientCounts
<1> QED
  BY <1>3, <1>5, <1>6

\* What AcceptsExactly says of an accepted loop, and denies of a rejected one.
Acceptable ==
    /\ Canonical(spec)
    /\ Count <= MaxIterations
    /\ Count > 0 => Safe(spec.start + Count * spec.step)

RInv ==
    /\ CInv
    /\ value = spec.start + Len(iterations) * spec.step
    /\ pc = "parsed" => iterations = << >>
    /\ pc \in {"unrolling", "accepted"} => Len(iterations) <= Count
    /\ pc = "accepted" => Acceptable /\ Len(iterations) = Count
    /\ pc = "rejected" => ~Acceptable

\* A loop that cannot be unrolled once more is not acceptable.
LEMMA StuckIsUnacceptable ==
    ASSUME RInv, pc = "unrolling", Test(value), ~Unrollable
    PROVE  ~Acceptable
<1> DEFINE n == Len(iterations)
<1>1. /\ spec.start \in Int /\ spec.end \in Int /\ spec.step \in Int
      /\ value \in Int /\ n \in Nat /\ n <= MaxIterations
      /\ MaxIterations \in Nat /\ MaxSafe \in Nat
  BY LoopTyped, LoopAssumption, MaxSafeAssumption DEF RInv, CInv, LoopTypeOK
<1>2. Canonical(spec) /\ spec \in Loops
  BY DEF RInv, CInv, LoopTypeOK
<1>3. n < Count /\ Count \in Nat
  BY <1>1, <1>2, TestIffBelowCount DEF RInv
<1>4. Safe(value)
  <2>1. CASE n = 0
    <3>1. value = spec.start
      BY <1>1, <2>1 DEF RInv, CInv, Progression, At
    <3> QED
      BY <1>2, <3>1 DEF Canonical
  <2>2. CASE n > 0
    <3>1. n \in 1..Len(iterations) /\ At(n + 1) = value
      BY <1>1, <2>2 DEF At
    <3> QED
      BY <3>1 DEF RInv, CInv, Progression
  <2> QED
    BY <1>1, <2>1, <2>2
<1>5. CASE n = MaxIterations
  BY <1>1, <1>3, <1>5 DEF Acceptable
<1>6. CASE ~Safe(value + spec.step)
  <2> DEFINE next == spec.start + (n + 1) * spec.step
             last == spec.start + Count * spec.step
  <2>1. value + spec.step = next /\ next \in Int /\ last \in Int
    <3>1. n \in Int /\ spec.step \in Int /\ Count \in Int
      BY <1>1, <1>3
    <3> HIDE DEF n
    <3>2. (n + 1) * spec.step = n * spec.step + spec.step
      BY <3>1, TimesNext
    <3>3. n * spec.step \in Int /\ Count * spec.step \in Int
      BY <3>1, TimesNext
    <3>4. value = spec.start + n * spec.step
      BY DEF RInv, n
    <3> QED
      BY <1>1, <3>2, <3>3, <3>4
  <2>2. n + 1 <= Count /\ n + 1 \in Int /\ Count \in Int
    BY <1>1, <1>3
  <2>3. CASE spec.step > 0
    <3>1. (n + 1) * spec.step <= Count * spec.step
      BY <1>1, <2>2, <2>3, TimesMonotone
    <3>2. next <= last
      <4>1. (n + 1) * spec.step \in Int /\ Count * spec.step \in Int
        BY <1>1, <2>2
      <4> QED
        BY <1>1, <3>1, <4>1
    <3>3. value <= next
      BY <1>1, <2>1, <2>3
    <3> HIDE DEF next, last
    <3> QED
      BY <1>1, <1>3, <1>4, <1>6, <2>1, <3>2, <3>3 DEF Acceptable, Safe, last
  <2>4. CASE spec.step < 0
    <3>1. (n + 1) * (-spec.step) <= Count * (-spec.step)
      BY <1>1, <2>2, <2>4, TimesMonotone
    <3>2. last <= next
      <4>1. /\ (n + 1) * spec.step \in Int /\ Count * spec.step \in Int
            /\ (n + 1) * (-spec.step) = -((n + 1) * spec.step)
            /\ Count * (-spec.step) = -(Count * spec.step)
        BY <1>1, <2>2
      <4> QED
        BY <1>1, <3>1, <4>1
    <3>3. next <= value
      BY <1>1, <2>1, <2>4
    <3> HIDE DEF next, last
    <3> QED
      BY <1>1, <1>3, <1>4, <1>6, <2>1, <3>2, <3>3 DEF Acceptable, Safe, last
  <2> QED
    BY <1>1, <1>2, <2>3, <2>4 DEF Canonical
<1> QED
  BY <1>4, <1>5, <1>6 DEF Unrollable

\* A loop that has left its bound behind has run Count times, all safe.
LEMMA FinishedIsAcceptable ==
    ASSUME RInv, pc = "unrolling", ~Test(value)
    PROVE  Acceptable /\ Len(iterations) = Count
<1> DEFINE n == Len(iterations)
<1>1. /\ spec.start \in Int /\ spec.step \in Int
      /\ n \in Nat /\ n <= MaxIterations
  BY LoopTyped DEF RInv, CInv, LoopTypeOK
<1>2. Canonical(spec) /\ spec \in Loops
  BY DEF RInv, CInv, LoopTypeOK
<1>3. n = Count
  BY <1>1, <1>2, TestIffBelowCount DEF RInv
<1>4. ASSUME Count > 0 PROVE Safe(spec.start + Count * spec.step)
  <2>1. n \in 1..Len(iterations) /\ At(n + 1) = value
    BY <1>1, <1>3, <1>4 DEF At
  <2> QED
    BY <1>3, <2>1 DEF RInv, CInv, Progression
<1> QED
  BY <1>1, <1>2, <1>3, <1>4 DEF Acceptable

\* Nothing is unrolled at first.
LEMMA InitRInv == LoopInit => RInv
<1> SUFFICES ASSUME LoopInit PROVE RInv
  OBVIOUS
<1>1. spec.start \in Int /\ spec.step \in Int
  BY LoopTyped DEF LoopInit
<1>2. Len(<< >>) = 0 /\ 0 * spec.step = 0
  BY <1>1
<1> QED
  BY <1>1, <1>2, InitCInv DEF LoopInit, RInv

\* The count is kept by every step of the compiler and of the engine.
LEMMA NextRInv == RInv /\ [LoopNext]_loopVars => RInv'
<1> SUFFICES ASSUME RInv, [LoopNext]_loopVars PROVE RInv'
  OBVIOUS
<1>1. CInv'
  BY NextCInv DEF RInv
<1>2. spec' = spec
  BY DEF LoopNext, loopVars, Specify, Unroll, Accept, Run
<1>3. Count' = Count /\ (Acceptable <=> Acceptable')
  BY <1>2 DEF Count, Acceptable, Canonical, Safe
<1>4. spec.start \in Int /\ spec.step \in Int /\ Len(iterations) \in Nat
  BY LoopTyped DEF RInv, CInv, LoopTypeOK
<1>5. CASE UNCHANGED <<pc, value, iterations>>
  BY <1>1, <1>2, <1>3, <1>5 DEF RInv
<1>6. CASE Specify
  <2>1. UNCHANGED <<value, iterations>> /\ pc = "parsed"
    BY <1>6 DEF Specify
  <2>2. CASE Canonical(spec)
    <3>1. pc' = "unrolling" /\ iterations = << >> /\ Len(iterations) = 0
      BY <1>6, <2>2 DEF Specify, RInv
    <3>2. Count \in Nat
      BY <2>2, TestIffBelowCount DEF RInv, CInv, LoopTypeOK
    <3> QED
      BY <1>1, <1>2, <1>3, <2>1, <3>1, <3>2 DEF RInv
  <2>3. CASE ~Canonical(spec)
    <3>1. pc' = "rejected" /\ ~Acceptable
      BY <1>6, <2>3 DEF Specify, Acceptable
    <3> QED
      BY <1>1, <1>2, <1>3, <2>1, <3>1 DEF RInv
  <2> QED
    BY <2>2, <2>3
<1>7. CASE Unroll /\ ~Unrollable
  <2>1. pc = "unrolling" /\ pc' = "rejected" /\ UNCHANGED <<value, iterations>>
    BY <1>7 DEF Unroll
  <2>2. ~Acceptable
    BY <1>7, StuckIsUnacceptable DEF Unroll
  <2> QED
    BY <1>1, <1>2, <1>3, <2>1, <2>2 DEF RInv
<1>8. CASE Unroll /\ Unrollable
  <2>1. /\ pc = "unrolling" /\ pc' = "unrolling" /\ Test(value)
        /\ iterations' = Append(iterations, value)
        /\ value' = value + spec.step
    BY <1>8 DEF Unroll
  <2>2. Len(iterations') = Len(iterations) + 1
    BY <2>1, AppendProperties DEF RInv, CInv, LoopTypeOK
  <2>3. Len(iterations) < Count /\ Count \in Nat
    BY <1>4, <2>1, TestIffBelowCount DEF RInv, CInv, LoopTypeOK
  <2>4. value' = spec'.start + Len(iterations') * spec'.step
    <3>1. /\ (Len(iterations) + 1) * spec.step
                = Len(iterations) * spec.step + spec.step
          /\ Len(iterations) * spec.step \in Int
      BY <1>4
    <3> QED
      BY <1>2, <1>4, <2>1, <2>2, <3>1 DEF RInv
  <2> QED
    BY <1>1, <1>3, <1>4, <2>1, <2>2, <2>3, <2>4 DEF RInv
<1>9. CASE Accept
  <2>1. pc = "unrolling" /\ pc' = "accepted" /\ UNCHANGED <<value, iterations>>
    BY <1>9 DEF Accept
  <2>2. Acceptable /\ Len(iterations) = Count
    BY <1>9, FinishedIsAcceptable DEF Accept
  <2> QED
    BY <1>1, <1>2, <1>3, <2>1, <2>2 DEF RInv
<1>10. CASE Run
  BY <1>5, <1>10 DEF Run
<1> QED
  BY <1>5, <1>6, <1>7, <1>8, <1>9, <1>10 DEF LoopNext, loopVars

\* The two limits of loop unrolling are exact: a loop is accepted when its
\* closed-form count is within the limit and its exit value safe, no other.
THEOREM LoopAcceptsExactly == LoopSpec => []AcceptsExactly
<1>1. RInv => AcceptsExactly
  BY DEF RInv, AcceptsExactly, Acceptable
<1> QED
  BY <1>1, InitRInv, NextRInv, PTL DEF LoopSpec
=============================================================================
