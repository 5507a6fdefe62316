---------------------------- MODULE SchemaProofs ----------------------------
(***************************************************************************)
(* What anySchema draws for a schema ranges over what the schema decodes,  *)
(* but for unsafe integers where there is no bound, and of the chains of   *)
(* modelled filters exactly the empty ones are refused: for any numbers,   *)
(* filters, unions, field names and safe range, and schemas of any size.   *)
(*                                                                         *)
(* One lemma is about one filter: among integers, Effect's predicate and   *)
(* the bound that Endpoint computes say the same.  Limits and decoded      *)
(* values are intersections, so that agreement is kept whatever came       *)
(* before, and it is what an empty or unsafe bound is judged by.           *)
(*                                                                         *)
(* Then leaves: the domain and choice of each leave what it decodes        *)
(* (LeafSound), which a longer path and a wider record do not change.  And *)
(* the drawing: the k-th variable leaf is the k-th variable, and the       *)
(* conditions on its symbol are its own (Drawn), by induction on leaves.   *)
(***************************************************************************)
EXTENDS SchemaPlan, SequenceTheorems, FiniteSetTheorems, WellFoundedInduction, TLAPS

\* A node as the functions of the source return it.
WellTyped(l) ==
    /\ l.isInteger \in BOOLEAN
    /\ l.minimum \in Int \cup {None}
    /\ l.maximum \in Int \cup {None}
    /\ Safe(l.minimum) /\ Safe(l.maximum)
    /\ l.decodes \subseteq Numbers
    /\ l.isInteger => \A v \in l.decodes : IsWhole(v)

Exact(l) == Within(l) = {v \in l.decodes : IsWhole(v)}

\* What the domain and the choice of a variable leaf leave of a value.
Allowed(leaf, x) ==
    LET domain == DomainOf(leaf.request)
    IN  /\ domain.minimum = None \/ x >= 2 * domain.minimum
        /\ domain.maximum = None \/ x <= 2 * domain.maximum
        /\ leaf.choice = None \/ x \in leaf.choice

Ranges(leaf, x) == Allowed(leaf, x) /\ ~Beyond(DomainOf(leaf.request), x)

\* It is what the schema of the leaf decodes.
LeafSound(leaf) ==
    /\ leaf = [name |-> leaf.name, sort |-> leaf.sort, request |-> leaf.request,
               choice |-> leaf.choice, decodes |-> leaf.decodes]
    /\ leaf.name \in Seq(Characters)
    /\ leaf.decodes # {}
    /\ leaf.request # None =>
          /\ leaf.sort \in {"Bool", "Int", "String"}
          /\ DomainOf(leaf.request).sort = leaf.sort
          /\ leaf.decodes = {x \in Universe(leaf.sort) : Ranges(leaf, x)}

LeavesSound(leaves) == \E L : leaves \in Seq(L) /\ \A leaf \in L : LeafSound(leaf)

Sound(node) ==
    /\ node.kind = "limits" => WellTyped(node) /\ Exact(node)
    /\ node.kind = "plan" => LeavesSound(node.leaves)

\* Plans are of no set in particular, the stack is a sequence over some.
SInv ==
    /\ \E S : stack \in Seq(S) /\ \A node \in S : Sound(node)
    /\ RefusesOnlyEmpty

-----------------------------------------------------------------------------
(* Numbers.                                                                *)

\* The greatest safe integer is an integer.
LEMMA MaxSafeIsInt == MaxSafe \in Int
  BY BuilderAssumption

\* What is whole is twice an integer, its half.
LEMMA WholeIsTwice ==
    ASSUME NEW v \in Int, IsWhole(v)
    PROVE  v \div 2 \in Int /\ v = 2 * (v \div 2)
  BY DEF IsWhole

\* Even numbers are whole when they are not past the safe integers.
LEMMA EvenIsWhole ==
    ASSUME NEW v \in Int, v % 2 = 0
    PROVE  IsWhole(v) <=> -2 * MaxSafe <= v /\ v <= 2 * MaxSafe
  <1> DEFINE n == v \div 2
  <1>1. n \in Int /\ v = 2 * n
    OBVIOUS
  <1>2. IsWhole(v) <=> -MaxSafe <= n /\ n <= MaxSafe
    BY DEF IsWhole, SafeInteger
  <1> HIDE DEF n
  <1> QED
    BY <1>1, <1>2, MaxSafeIsInt

\* Twice a safe integer is whole.
LEMMA TwiceIsWhole ==
    ASSUME NEW n \in -MaxSafe..MaxSafe PROVE 2 * n \in Numbers /\ IsWhole(2 * n)
  <1>1. n \in Int /\ 2 * n \in Numbers /\ 2 * n \in Int
    BY SchemaAssumption, MaxSafeIsInt
  <1>2. (2 * n) % 2 = 0
    BY <1>1
  <1>3. -2 * MaxSafe <= 2 * n /\ 2 * n <= 2 * MaxSafe
    BY MaxSafeIsInt
  <1> QED
    BY <1>1, <1>2, <1>3, EvenIsWhole

(***************************************************************************)
(* Effect's predicate and the bound agree on integers.                     *)
(***************************************************************************)
AtLeast(r) == r.id \in {"greaterThanOrEqualTo", "greaterThan"}

AtMost(r) == r.id \in {"lessThanOrEqualTo", "lessThan"}

\* A bound of whole numbers is a number of its own.
LEMMA EndpointIsInt ==
    ASSUME NEW r \in Refinements PROVE Endpoint(r) \in Int
  <1>1. r.bound \in Int /\ r.bound \div 2 \in Int
    BY SchemaAssumption
  <1> QED
    BY <1>1 DEF Endpoint

\* A filter from below, on whole numbers, is a comparison with its endpoint.
LEMMA AtLeastExact ==
    ASSUME NEW r \in Refinements, NEW v \in Int, AtLeast(r), IsWhole(r.bound), IsWhole(v)
    PROVE  Passes(r, v) <=> 2 * Endpoint(r) <= v
  <1>1. r.bound \in Int
    BY SchemaAssumption
  <1> DEFINE n == v \div 2
             m == r.bound \div 2
  <1>2. n \in Int /\ v = 2 * n /\ m \in Int /\ r.bound = 2 * m
    BY <1>1, WholeIsTwice
  <1> HIDE DEF n, m
  <1>3. CASE r.id = "greaterThanOrEqualTo"
    <2>1. Endpoint(r) = m
      BY <1>3 DEF Endpoint, m
    <2>2. Passes(r, v) <=> v >= r.bound
      BY <1>3 DEF Passes
    <2> QED
      BY <1>2, <2>1, <2>2
  <1>4. CASE r.id = "greaterThan"
    <2>1. Endpoint(r) = m + 1
      BY <1>4 DEF Endpoint, m
    <2>2. Passes(r, v) <=> v > r.bound
      BY <1>4 DEF Passes
    <2> QED
      BY <1>2, <2>1, <2>2
  <1> QED
    BY <1>3, <1>4 DEF AtLeast

\* And a filter from above.
LEMMA AtMostExact ==
    ASSUME NEW r \in Refinements, NEW v \in Int, AtMost(r), IsWhole(r.bound), IsWhole(v)
    PROVE  Passes(r, v) <=> v <= 2 * Endpoint(r)
  <1>1. r.bound \in Int
    BY SchemaAssumption
  <1> DEFINE n == v \div 2
             m == r.bound \div 2
  <1>2. n \in Int /\ v = 2 * n /\ m \in Int /\ r.bound = 2 * m
    BY <1>1, WholeIsTwice
  <1> HIDE DEF n, m
  <1>3. CASE r.id = "lessThanOrEqualTo"
    <2>1. Endpoint(r) = m
      BY <1>3 DEF Endpoint, m
    <2>2. Passes(r, v) <=> v <= r.bound
      BY <1>3 DEF Passes
    <2> QED
      BY <1>2, <2>1, <2>2
  <1>4. CASE r.id = "lessThan"
    <2>1. Endpoint(r) = m - 1
      BY <1>4 DEF Endpoint, m
    <2>2. Passes(r, v) <=> v < r.bound
      BY <1>4 DEF Passes
    <2> QED
      BY <1>2, <2>1, <2>2
  <1> QED
    BY <1>3, <1>4 DEF AtMost

\* A number is at least the greater of two bounds when it is at least both.
LEMMA ApplyMinimumExact ==
    ASSUME NEW current \in Int \cup {None}, NEW next \in Int, NEW v \in Int
    PROVE  /\ ApplyMinimum(current, next) \in Int
           /\ 2 * ApplyMinimum(current, next) <= v
                <=> (current = None \/ 2 * current <= v) /\ 2 * next <= v
  BY BuilderAssumption DEF ApplyMinimum

\* And at most the smaller when it is at most both.
LEMMA ApplyMaximumExact ==
    ASSUME NEW current \in Int \cup {None}, NEW next \in Int, NEW v \in Int
    PROVE  /\ ApplyMaximum(current, next) \in Int
           /\ v <= 2 * ApplyMaximum(current, next)
                <=> (current = None \/ v <= 2 * current) /\ v <= 2 * next
  BY BuilderAssumption DEF ApplyMaximum

-----------------------------------------------------------------------------
(* One filter.                                                             *)

Between(l, v) ==
    /\ l.minimum = None \/ 2 * l.minimum <= v
    /\ l.maximum = None \/ v <= 2 * l.maximum

\* The conditions Within puts on a number are what is left of its limits.
LEMMA WithinExact ==
    ASSUME NEW l, WellTyped(l), Exact(l), NEW v \in Numbers, IsWhole(v)
    PROVE  v \in l.decodes <=> Between(l, v)
  BY DEF Exact, Within, WellTyped, Between

\* A modelled filter keeps limits and decoded values in agreement.
LEMMA RefinementSound ==
    ASSUME NEW base, WellTyped(base), Exact(base), NEW r \in Refinements, Modeled(r)
    PROVE  WellTyped(RefinementLimits(base, r)) /\ Exact(RefinementLimits(base, r))
  <1> DEFINE kept == {v \in base.decodes : Passes(r, v)}
             l == RefinementLimits(base, r)
  <1>0. /\ r.id \in {"int", "greaterThanOrEqualTo", "lessThanOrEqualTo",
                     "greaterThan", "lessThan", "other"}
        /\ Endpoint(r) \in Int
        /\ Numbers \subseteq Int
    BY SchemaAssumption, EndpointIsInt
  <1>1. ASSUME NEW v \in Numbers, IsWhole(v)
        PROVE  v \in kept <=> Between(base, v) /\ Passes(r, v)
    BY <1>1, WithinExact
  <1>2. ASSUME l.isInteger \in BOOLEAN,
               l.minimum \in Int \cup {None},
               l.maximum \in Int \cup {None},
               Safe(l.minimum), Safe(l.maximum),
               l.decodes = kept,
               l.isInteger => base.isInteger \/ r.id = "int",
               \A v \in Numbers :
                  IsWhole(v) => (Between(l, v) <=> Between(base, v) /\ Passes(r, v))
        PROVE  WellTyped(l) /\ Exact(l)
    <2>1. \A v \in kept : v \in Numbers /\ v \in base.decodes /\ Passes(r, v)
      BY DEF WellTyped
    <2>2. r.id = "int" => \A v \in kept : IsWhole(v)
      BY <2>1 DEF Passes
    <2>3. base.isInteger => \A v \in kept : IsWhole(v)
      BY <2>1 DEF WellTyped
    <2>4. WellTyped(l)
      BY <1>2, <2>1, <2>2, <2>3 DEF WellTyped
    <2>5. Exact(l)
      BY <1>1, <1>2, <2>1 DEF Exact, Within, Between
    <2> QED
      BY <2>4, <2>5
  <1>3. CASE r.id = "int"
    <2>1. l = Limits(TRUE, base.minimum, base.maximum, kept)
      BY <1>3 DEF RefinementLimits
    <2>2. \A v \in Numbers : IsWhole(v) => Passes(r, v)
      BY <1>3 DEF Passes
    <2> QED
      BY <1>2, <1>3, <2>1, <2>2 DEF Limits, WellTyped, Between
  <1>4. CASE AtLeast(r)
    <2>1. l = Limits(base.isInteger, ApplyMinimum(base.minimum, Endpoint(r)),
                     base.maximum, kept)
      BY <1>4 DEF RefinementLimits, AtLeast
    <2>2. r.id # "int" /\ IsWhole(r.bound)
      BY <1>4 DEF Modeled, AtLeast
    <2>3. \A v \in Numbers : IsWhole(v) => (Passes(r, v) <=> 2 * Endpoint(r) <= v)
      BY <1>0, <1>4, <2>2, AtLeastExact
    <2>4. /\ ApplyMinimum(base.minimum, Endpoint(r)) \in Int
          /\ \A v \in Numbers :
                2 * ApplyMinimum(base.minimum, Endpoint(r)) <= v
                    <=> /\ base.minimum = None \/ 2 * base.minimum <= v
                        /\ 2 * Endpoint(r) <= v
      <3>1. base.minimum \in Int \cup {None} /\ 0 \in Int
        BY DEF WellTyped
      <3> QED
        BY <1>0, <3>1, ApplyMinimumExact
    <2>5. Safe(ApplyMinimum(base.minimum, Endpoint(r)))
      BY <1>4 DEF ApplyMinimum, WellTyped, Modeled, AtLeast, Safe, SafeInteger
    <2> QED
      BY <1>2, <2>1, <2>3, <2>4, <2>5, BuilderAssumption DEF Limits, WellTyped, Between
  <1>5. CASE AtMost(r)
    <2>1. l = Limits(base.isInteger, base.minimum,
                     ApplyMaximum(base.maximum, Endpoint(r)), kept)
      BY <1>5 DEF RefinementLimits, AtMost
    <2>2. r.id # "int" /\ IsWhole(r.bound)
      BY <1>5 DEF Modeled, AtMost
    <2>3. \A v \in Numbers : IsWhole(v) => (Passes(r, v) <=> v <= 2 * Endpoint(r))
      BY <1>0, <1>5, <2>2, AtMostExact
    <2>4. /\ ApplyMaximum(base.maximum, Endpoint(r)) \in Int
          /\ \A v \in Numbers :
                v <= 2 * ApplyMaximum(base.maximum, Endpoint(r))
                    <=> /\ base.maximum = None \/ v <= 2 * base.maximum
                        /\ v <= 2 * Endpoint(r)
      <3>1. base.maximum \in Int \cup {None} /\ 0 \in Int
        BY DEF WellTyped
      <3> QED
        BY <1>0, <3>1, ApplyMaximumExact
    <2>5. Safe(ApplyMaximum(base.maximum, Endpoint(r)))
      BY <1>5 DEF ApplyMaximum, WellTyped, Modeled, AtMost, Safe, SafeInteger
    <2> QED
      BY <1>2, <2>1, <2>3, <2>4, <2>5, BuilderAssumption DEF Limits, WellTyped, Between
  <1> QED
    BY <1>0, <1>3, <1>4, <1>5 DEF Modeled, AtLeast, AtMost

\* A bound of an exclusive filter is refused only if no safe integer passes.
LEMMA RefusedIsEmpty ==
    ASSUME NEW r \in Refinements, ~Modeled(r), r.id # "other", IsWhole(r.bound),
           NEW v \in Numbers, IsWhole(v)
    PROVE  ~Passes(r, v)
  <1> DEFINE n == v \div 2
             m == r.bound \div 2
  <1>1. /\ n \in Int /\ v = 2 * n /\ m \in Int /\ r.bound = 2 * m /\ MaxSafe \in Int
        /\ v \in Int /\ r.bound \in Int
    BY SchemaAssumption, WholeIsTwice, MaxSafeIsInt
  <1>2. -MaxSafe <= n /\ n <= MaxSafe /\ -MaxSafe <= m /\ m <= MaxSafe
    BY DEF IsWhole, SafeInteger
  <1>3. /\ ~(-MaxSafe <= Endpoint(r) /\ Endpoint(r) <= MaxSafe)
        /\ r.id # "int"
    BY DEF Modeled, SafeInteger
  <1> HIDE DEF n, m
  <1>4. CASE r.id = "greaterThan"
    <2>1. Endpoint(r) = m + 1
      BY <1>4 DEF Endpoint, m
    <2>2. Passes(r, v) <=> v > r.bound
      BY <1>4 DEF Passes
    <2> QED
      BY <1>1, <1>2, <1>3, <2>1, <2>2
  <1>5. CASE r.id = "lessThan"
    <2>1. Endpoint(r) = m - 1
      BY <1>5 DEF Endpoint, m
    <2>2. Passes(r, v) <=> v < r.bound
      BY <1>5 DEF Passes
    <2> QED
      BY <1>1, <1>2, <1>3, <2>1, <2>2
  <1>6. CASE r.id \notin {"greaterThan", "lessThan"}
    <2>1. Endpoint(r) = m
      BY <1>6 DEF Endpoint, m
    <2> QED
      BY <1>2, <1>3, <2>1
  <1> QED
    BY <1>4, <1>5, <1>6

\* Limits out of order leave nothing to decode.
LEMMA UnorderedIsEmpty ==
    ASSUME NEW l, WellTyped(l), Exact(l), l.isInteger, ~Ordered(l.minimum, l.maximum)
    PROVE  l.decodes = {}
  <1>1. l.minimum \in Int /\ l.maximum \in Int /\ l.minimum > l.maximum
    BY DEF Ordered, WellTyped
  <1>2. ASSUME NEW v \in l.decodes PROVE FALSE
    <2>1. v \in Numbers /\ v \in Int /\ IsWhole(v)
      BY SchemaAssumption DEF WellTyped
    <2>2. 2 * l.minimum <= v /\ v <= 2 * l.maximum
      BY <1>1, <2>1, WithinExact, BuilderAssumption DEF Between
    <2> QED
      BY <1>1, <2>1, <2>2
  <1> QED
    BY <1>2

\* Limits in order leave one of the two, or zero.
LEMMA OrderedIsNonempty ==
    ASSUME NEW l, WellTyped(l), Exact(l), Ordered(l.minimum, l.maximum)
    PROVE  l.decodes # {}
  <1>1. \E n \in -MaxSafe..MaxSafe : /\ l.minimum = None \/ l.minimum <= n
                                     /\ l.maximum = None \/ n <= l.maximum
    <2>1. 0 \in -MaxSafe..MaxSafe
      BY BuilderAssumption
    <2>2. CASE l.minimum # None
      <3>1. l.minimum \in -MaxSafe..MaxSafe /\ l.minimum <= l.minimum
        BY <2>2, MaxSafeIsInt DEF WellTyped, Safe
      <3>2. l.maximum = None \/ l.minimum <= l.maximum
        BY <2>2 DEF Ordered
      <3> QED
        BY <3>1, <3>2
    <2>3. CASE l.minimum = None /\ l.maximum # None
      <3>1. l.maximum \in -MaxSafe..MaxSafe /\ l.maximum <= l.maximum
        BY <2>3, MaxSafeIsInt DEF WellTyped, Safe
      <3> QED
        BY <2>3, <3>1
    <2> QED
      BY <2>1, <2>2, <2>3
  <1>2. PICK n \in -MaxSafe..MaxSafe : /\ l.minimum = None \/ l.minimum <= n
                                       /\ l.maximum = None \/ n <= l.maximum
    BY <1>1
  <1>3. 2 * n \in Numbers /\ IsWhole(2 * n)
    BY TwiceIsWhole
  <1>4. Between(l, 2 * n)
    <2>1. l.minimum = None \/ 2 * l.minimum <= 2 * n
      BY <1>2, MaxSafeIsInt DEF WellTyped, Safe
    <2>2. l.maximum = None \/ 2 * n <= 2 * l.maximum
      BY <1>2, MaxSafeIsInt DEF WellTyped, Safe
    <2> QED
      BY <2>1, <2>2 DEF Between
  <1>5. 2 * n \in l.decodes
    BY <1>3, <1>4, WithinExact
  <1> QED
    BY <1>5

-----------------------------------------------------------------------------
(* Leaves.                                                                 *)

\* A plan of one leaf.
LEMMA OneLeafSound ==
    ASSUME NEW leaf, LeafSound(leaf) PROVE LeavesSound(<<leaf>>)
  <1> DEFINE leaves == <<leaf>>
             L == {leaf}
  <1>1. leaves \in Seq(L) /\ \A l \in L : LeafSound(l)
    OBVIOUS
  <1> HIDE DEF leaves, L
  <1>2. LeavesSound(leaves)
    BY <1>1 DEF LeavesSound
  <1> QED
    BY <1>2 DEF leaves

\* A leaf as the functions of the source make it has the empty path.
LEMMA LeafFields ==
    ASSUME NEW sort, NEW request, NEW choice, NEW decodes
    PROVE  LET leaf == Leaf(sort, request, choice, decodes)
           IN  /\ leaf = [name |-> leaf.name, sort |-> leaf.sort, request |-> leaf.request,
                          choice |-> leaf.choice, decodes |-> leaf.decodes]
               /\ leaf.name = << >> /\ leaf.name \in Seq(Characters)
               /\ leaf.sort = sort /\ leaf.request = request
               /\ leaf.choice = choice /\ leaf.decodes = decodes
  <1>1. << >> \in Seq(Characters)
    OBVIOUS
  <1> QED
    BY <1>1 DEF Leaf

\* A leaf is sound when its domain has its sort, and leaves what it decodes.
LEMMA LeafIsSound ==
    ASSUME NEW sort \in {"Bool", "Int", "String"}, NEW request, NEW choice, NEW decodes,
           DomainOf(request).sort = sort, decodes # {},
           decodes = {x \in Universe(sort) :
                         Ranges(Leaf(sort, request, choice, decodes), x)}
    PROVE  LeafSound(Leaf(sort, request, choice, decodes))
  <1> DEFINE leaf == Leaf(sort, request, choice, decodes)
  <1>1. /\ leaf = [name |-> leaf.name, sort |-> leaf.sort, request |-> leaf.request,
                   choice |-> leaf.choice, decodes |-> leaf.decodes]
        /\ leaf.name \in Seq(Characters)
        /\ leaf.sort = sort /\ leaf.request = request /\ leaf.decodes = decodes
    <2>1. << >> \in Seq(Characters)
      OBVIOUS
    <2> QED
      BY <2>1 DEF Leaf
  <1>2. decodes = {x \in Universe(sort) : Ranges(leaf, x)}
    OBVIOUS
  <1> HIDE DEF leaf
  <1>3. LeafSound(leaf)
    BY <1>1, <1>2 DEF LeafSound
  <1> QED
    BY <1>3 DEF leaf

\* A boolean has no bounds.
LEMMA BooleanLeafSound == LeafSound(Leaf("Bool", BooleanRequest, None, BOOLEAN))
  <1> DEFINE leaf == Leaf("Bool", BooleanRequest, None, BOOLEAN)
  <1>1. DomainOf(BooleanRequest) = Domain("Bool", None, None)
    BY DEF DomainOf, BooleanRequest
  <1>2. Universe("Bool") = BOOLEAN
    BY DEF Universe
  <1>3. \A x : Ranges(leaf, x)
    BY <1>1, LeafFields DEF Ranges, Allowed, Beyond, Domain
  <1>4. BOOLEAN = {x \in BOOLEAN : Ranges(leaf, x)} /\ BOOLEAN # {}
    BY <1>3
  <1> QED
    BY <1>1, <1>2, <1>4, LeafFields DEF LeafSound, Domain

\* The domain of an integer has the bounds it was requested with.
LEMMA IntegerDomain ==
    ASSUME NEW minimum, NEW maximum
    PROVE  DomainOf(IntegerRequest(minimum, maximum)) = Domain("Int", minimum, maximum)
  BY DEF DomainOf, IntegerRequest

\* An integer schema decodes what its limits leave: within one bound, or none,
\* the safe integers.
LEMMA IntegerLeafSound ==
    ASSUME NEW l, WellTyped(l), Exact(l), l.isInteger, Ordered(l.minimum, l.maximum)
    PROVE  LeafSound(Leaf("Int", IntegerRequest(l.minimum, l.maximum), None, l.decodes))
  <1> DEFINE leaf == Leaf("Int", IntegerRequest(l.minimum, l.maximum), None, l.decodes)
  <1>1. DomainOf(leaf.request) = Domain("Int", l.minimum, l.maximum)
    BY IntegerDomain, LeafFields
  <1>2. Universe("Int") = {v \in Numbers : v % 2 = 0}
    BY DEF Universe
  <1>3. \A v \in l.decodes : v \in Numbers /\ IsWhole(v)
    BY DEF WellTyped
  <1>4. ASSUME NEW x \in Numbers PROVE Allowed(leaf, x) <=> Between(l, x)
    <2>1. x \in Int /\ l.minimum \in Int \cup {None} /\ l.maximum \in Int \cup {None}
      BY SchemaAssumption DEF WellTyped
    <2>2. Allowed(leaf, x) <=> /\ l.minimum = None \/ x >= 2 * l.minimum
                               /\ l.maximum = None \/ x <= 2 * l.maximum
      BY <1>1, LeafFields DEF Allowed, Domain
    <2> QED
      BY <2>1, <2>2 DEF Between
  <1>5. ASSUME NEW x \in Universe("Int") PROVE x \in l.decodes <=> Ranges(leaf, x)
    <2>1. x \in Numbers /\ x \in Int /\ x % 2 = 0 /\ MaxSafe \in Int
      BY <1>2, SchemaAssumption, MaxSafeIsInt
    <2>2. x \in l.decodes <=> IsWhole(x) /\ Between(l, x)
      BY <1>3, <2>1, WithinExact
    <2>3. Beyond(DomainOf(leaf.request), x) <=> \/ l.minimum = None /\ x < -2 * MaxSafe
                                                \/ l.maximum = None /\ x > 2 * MaxSafe
      BY <1>1 DEF Beyond, Domain
    <2>4. Between(l, x) => /\ l.minimum # None => -2 * MaxSafe <= x
                           /\ l.maximum # None => x <= 2 * MaxSafe
      BY <2>1 DEF Between, WellTyped, Safe
    <2>5. IsWhole(x) <=> -2 * MaxSafe <= x /\ x <= 2 * MaxSafe
      BY <2>1, EvenIsWhole
    <2>6. IsWhole(x) /\ Between(l, x) <=> Between(l, x) /\ ~Beyond(DomainOf(leaf.request), x)
      BY <2>1, <2>3, <2>4, <2>5
    <2> QED
      BY <1>4, <2>1, <2>2, <2>6 DEF Ranges
  <1>6. l.decodes \subseteq Universe("Int")
    BY <1>2, <1>3 DEF IsWhole
  <1>7. l.decodes = {x \in Universe("Int") : Ranges(leaf, x)}
    BY <1>5, <1>6
  <1> QED
    <2>1. DomainOf(IntegerRequest(l.minimum, l.maximum)).sort = "Int"
      BY IntegerDomain DEF Domain
    <2> QED
      BY <1>7, <2>1, LeafIsSound, OrderedIsNonempty

\* A set of natural numbers that is not empty has a least one.
LEMMA LeastNat ==
    ASSUME NEW T \in SUBSET Nat, T # {}
    PROVE  \E m \in T : \A n \in T : m <= n
<1> DEFINE R == OpToRel(<, Nat)
<1>1. IsWellFoundedOn(R, Nat)
  BY NatLessThanWellFounded
<1>2. \A a, b \in Nat : <<a, b>> \in R <=> a < b
  BY DEF OpToRel
<1> HIDE DEF R
<1>3. PICK m \in T : \A n \in T : ~(<<n, m>> \in R)
  BY <1>1, WFMin
<1>4. m \in Nat /\ \A n \in T : n \in Nat
  OBVIOUS
<1>5. ASSUME NEW n \in T PROVE m <= n
  <2>1. ~(n < m)
    BY <1>2, <1>3, <1>4, Zenon
  <2> QED
    BY <1>4, <2>1
<1> QED
  BY <1>5

\* Induction, for a set: one that holds 0 and, with a number, the next, holds every number.
LEMMA SetInduction ==
    ASSUME NEW T, 0 \in T, \A n \in Nat : n \in T => n + 1 \in T
    PROVE  \A n \in Nat : n \in T
<1> SUFFICES ASSUME NEW k \in Nat, k \notin T PROVE FALSE
  OBVIOUS
<1>1. PICK m \in Nat \ T : \A n \in Nat \ T : m <= n
  BY LeastNat
<1>2. m # 0 /\ m - 1 \in Nat
  OBVIOUS
<1>3. m - 1 \in T
  BY <1>1, <1>2
<1> QED
  BY <1>2, <1>3

\* Among finitely many integers there is a least and a greatest.
LEMMA Extremes ==
    ASSUME NEW f, NEW n \in Nat, n # 0, \A i \in 1..n : f[i] \in Int
    PROVE  /\ \E i \in 1..n : \A j \in 1..n : f[i] <= f[j]
           /\ \E i \in 1..n : \A j \in 1..n : f[i] >= f[j]
  <1> DEFINE least(m, i) == i \in 1..m /\ \A j \in 1..m : f[i] <= f[j]
             greatest(m, i) == i \in 1..m /\ \A j \in 1..m : f[i] >= f[j]
             T == {m \in Nat : m # 0 /\ m <= n => (\E i : least(m, i)) /\ \E i : greatest(m, i)}
  <1>1. 0 \in T
    OBVIOUS
  <1>2. ASSUME NEW m \in Nat, m \in T PROVE m + 1 \in T
    <2> SUFFICES ASSUME m + 1 <= n
                 PROVE  (\E i : least(m + 1, i)) /\ \E i : greatest(m + 1, i)
      OBVIOUS
    <2>1. /\ \A j \in 1..(m + 1) : f[j] \in Int /\ (j \in 1..m \/ j = m + 1)
          /\ m + 1 \in 1..(m + 1)
          /\ \A j \in 1..m : j \in 1..(m + 1)
      OBVIOUS
    <2>2. CASE m = 0
      <3>1. least(m + 1, 1) /\ greatest(m + 1, 1)
        BY <2>1, <2>2
      <3> QED
        BY <3>1
    <2>3. CASE m # 0
      <3>1. (\E i : least(m, i)) /\ \E i : greatest(m, i)
        BY <1>2, <2>3
      <3>2. PICK i : least(m, i)
        BY <3>1
      <3>3. PICK k : greatest(m, k)
        BY <3>1
      <3>4. \E e : least(m + 1, e)
        <4>1. CASE f[i] <= f[m + 1]
          <5>1. least(m + 1, i)
            BY <2>1, <3>2, <4>1
          <5> QED
            BY <5>1
        <4>2. CASE ~(f[i] <= f[m + 1])
          <5>1. least(m + 1, m + 1)
            BY <2>1, <3>2, <4>2
          <5> QED
            BY <5>1
        <4> QED
          BY <4>1, <4>2
      <3>5. \E e : greatest(m + 1, e)
        <4>1. CASE f[k] >= f[m + 1]
          <5>1. greatest(m + 1, k)
            BY <2>1, <3>3, <4>1
          <5> QED
            BY <5>1
        <4>2. CASE ~(f[k] >= f[m + 1])
          <5>1. greatest(m + 1, m + 1)
            BY <2>1, <3>3, <4>2
          <5> QED
            BY <5>1
        <4> QED
          BY <4>1, <4>2
      <3> QED
        BY <3>4, <3>5
    <2> QED
      BY <2>2, <2>3
  <1>3. n \in T
    <2> HIDE DEF T
    <2> QED
      BY <1>1, <1>2, SetInduction
  <1> QED
    BY <1>3

\* Min and Max of the halves of finitely many literals are what they say.
LEMMA MinMaxHalves ==
    ASSUME NEW union \in Unions, union # << >>, \A i \in DOMAIN union : union[i].value \in Int
    PROVE  LET whole == {v \div 2 : v \in Values(union)}
           IN  /\ Min(whole) \in Int /\ Max(whole) \in Int
               /\ \A v \in Values(union) : Min(whole) <= v \div 2 /\ v \div 2 <= Max(whole)
  <1> DEFINE whole == {v \div 2 : v \in Values(union)}
             n == Len(union)
             f == [i \in 1..n |-> union[i].value \div 2]
  <1>1. DOMAIN union = 1..n /\ n \in Nat /\ n # 0
    BY UnionsAssumption
  <1>2. whole = {f[i] : i \in 1..n} /\ \A i \in 1..n : f[i] \in Int
    BY <1>1 DEF Values
  <1>4. \A v \in Values(union) : v \div 2 \in whole
    OBVIOUS
  <1> HIDE DEF f, whole
  <1>3. /\ \E m \in whole : \A w \in whole : m <= w
        /\ \E m \in whole : \A w \in whole : m >= w
    <2>1. /\ \E i \in 1..n : \A j \in 1..n : f[i] <= f[j]
          /\ \E i \in 1..n : \A j \in 1..n : f[i] >= f[j]
      BY <1>1, <1>2, Extremes
    <2>2. PICK i \in 1..n : \A j \in 1..n : f[i] <= f[j]
      BY <2>1
    <2>3. PICK k \in 1..n : \A j \in 1..n : f[k] >= f[j]
      BY <2>1
    <2> HIDE DEF n
    <2>4. f[i] \in whole /\ \A w \in whole : f[i] <= w
      BY <1>2, <2>2
    <2>5. f[k] \in whole /\ \A w \in whole : f[k] >= w
      BY <1>2, <2>3
    <2> QED
      BY <2>4, <2>5
  <1>5. whole \subseteq Int
    BY <1>2
  <1>6. Min(whole) \in whole /\ \A w \in whole : Min(whole) <= w
    BY <1>3 DEF Min
  <1>7. Max(whole) \in whole /\ \A w \in whole : Max(whole) >= w
    BY <1>3 DEF Max
  <1>8. /\ Min(whole) \in Int /\ Max(whole) \in Int
        /\ \A v \in Values(union) : Min(whole) <= v \div 2 /\ v \div 2 <= Max(whole)
    BY <1>4, <1>5, <1>6, <1>7
  <1> QED
    BY <1>8 DEF whole

\* A literal is part of the result and no variable.
LEMMA LiteralLeafSound ==
    ASSUME NEW l PROVE LeafSound(LiteralLeaf(l))
  <1> DEFINE leaf == LiteralLeaf(l)
  <1>1. /\ leaf = [name |-> leaf.name, sort |-> leaf.sort, request |-> leaf.request,
                   choice |-> leaf.choice, decodes |-> leaf.decodes]
        /\ leaf.name \in Seq(Characters) /\ leaf.request = None /\ leaf.decodes # {}
    <2>1. << >> \in Seq(Characters)
      OBVIOUS
    <2> QED
      BY <2>1 DEF LiteralLeaf, Leaf
  <1> HIDE DEF leaf
  <1>3. LeafSound(leaf)
    BY <1>1 DEF LeafSound
  <1> QED
    BY <1>3 DEF leaf

\* What a union of literals decodes is its values.
LEMMA UnionLeafSound ==
    ASSUME NEW union \in Unions, UnionModeled(union)
    PROVE  LeafSound(UnionLeaf(union))
  <1> DEFINE sort == union[1].sort
             values == Values(union)
             request == ChoiceRequest(sort, values)
             leaf == Leaf(sort, request, values, values)
  <1>1. /\ union # << >> /\ values # None /\ Len(union) \in Nat
        /\ DOMAIN union = 1..Len(union) /\ 1 \in DOMAIN union
    BY UnionsAssumption DEF UnionModeled
  <1>2. /\ \A i \in DOMAIN union : LiteralModeled(union[i]) /\ union[i].sort = sort
        /\ sort \in {"Bool", "Int", "String"}
    BY <1>1 DEF UnionModeled, LiteralModeled
  <1>3. /\ values \subseteq Universe(sort) /\ values # {}
        /\ sort = "Int" => \A v \in values : IsWhole(v)
    BY <1>1, <1>2, UnionsAssumption DEF Universe, Values, LiteralModeled, IsWhole
  <1>4. CASE Cardinality(values) = 1
    BY <1>4, LiteralLeafSound DEF UnionLeaf
  <1>5. CASE Cardinality(values) # 1
    <2>1. UnionLeaf(union) = leaf
      BY <1>5 DEF UnionLeaf
    <2>2. DomainOf(request).sort = sort /\ \A x \in values : Ranges(leaf, x)
      <3>1. CASE sort = "Bool"
        <4>1. request = BooleanRequest
          BY <3>1 DEF ChoiceRequest
        <4>2. DomainOf(request) = Domain("Bool", None, None)
          BY <4>1 DEF DomainOf, BooleanRequest
        <4> QED
          BY <3>1, <4>2, LeafFields DEF Ranges, Allowed, Beyond, Domain
      <3>2. CASE sort = "String"
        <4>1. request = StringRequest
          BY <3>2 DEF ChoiceRequest
        <4>2. DomainOf(request) = Domain("String", None, None)
          BY <4>1 DEF DomainOf, StringRequest
        <4> QED
          BY <3>2, <4>2, LeafFields DEF Ranges, Allowed, Beyond, Domain
      <3>3. CASE sort = "Int"
        <4> DEFINE whole == {v \div 2 : v \in values}
        <4>1. request = IntegerRequest(Min(whole), Max(whole))
          BY <3>3 DEF ChoiceRequest
        <4>2. DomainOf(request) = Domain("Int", Min(whole), Max(whole))
          BY <4>1, IntegerDomain
        <4>3. \A v \in values : v \in Numbers /\ v \in Int /\ IsWhole(v)
          BY <1>3, <3>3, SchemaAssumption DEF Universe
        <4>4. \A i \in DOMAIN union : union[i].value \in Int
          BY <4>3 DEF Values
        <4>5. /\ Min(whole) \in Int /\ Max(whole) \in Int
              /\ \A v \in values : Min(whole) <= v \div 2 /\ v \div 2 <= Max(whole)
          BY <1>1, <4>4, MinMaxHalves
        <4> HIDE DEF whole
        <4>6. ASSUME NEW x \in values PROVE Ranges(leaf, x)
          <5>1. x = 2 * (x \div 2) /\ x \div 2 \in Int
            BY <4>3, WholeIsTwice
          <5>2. x >= 2 * Min(whole) /\ x <= 2 * Max(whole)
            BY <4>3, <4>5, <5>1
          <5>3. Min(whole) # None /\ Max(whole) # None
            BY <4>5, BuilderAssumption
          <5> HIDE DEF values
          <5> QED
            BY <4>2, <5>2, <5>3, LeafFields DEF Ranges, Allowed, Beyond, Domain
        <4> QED
          BY <3>3, <4>2, <4>6 DEF Domain
      <3> HIDE DEF sort
      <3> QED
        BY <1>2, <3>1, <3>2, <3>3
    <2>3. \A x : Ranges(leaf, x) => x \in values
      BY <1>1, LeafFields DEF Ranges, Allowed
    <2>4. values = {x \in Universe(sort) : Ranges(leaf, x)}
      BY <1>3, <2>2, <2>3
    <2> HIDE DEF sort, values, request
    <2>5. LeafSound(leaf)
      BY <1>2, <1>3, <2>2, <2>4, LeafIsSound
    <2> QED
      BY <2>1, <2>5
  <1> QED
    BY <1>4, <1>5

-----------------------------------------------------------------------------
(* Records and tuples.                                                     *)

\* A longer path leaves a leaf sound.
LEMMA PrefixedSound ==
    ASSUME NEW plan, LeavesSound(plan.leaves), NEW prefix \in Seq(Characters)
    PROVE  LeavesSound(Prefixed(plan, prefix))
  <1>1. PICK L : plan.leaves \in Seq(L) /\ \A leaf \in L : LeafSound(leaf)
    BY DEF LeavesSound
  <1> DEFINE longer(leaf) == [leaf EXCEPT !.name = prefix \o @]
             P == {longer(leaf) : leaf \in L}
  <1>2. ASSUME NEW leaf \in L PROVE LeafSound(longer(leaf))
    <2> DEFINE l == longer(leaf)
               name == prefix \o leaf.name
    <2>1. LeafSound(leaf)
      BY <1>1
    <2>2. name \in Seq(Characters)
      <3>1. leaf.name \in Seq(Characters)
        BY <2>1 DEF LeafSound
      <3> QED
        BY <3>1
    <2>3. l = [name |-> name, sort |-> leaf.sort, request |-> leaf.request,
               choice |-> leaf.choice, decodes |-> leaf.decodes]
      <3>1. leaf = [name |-> leaf.name, sort |-> leaf.sort, request |-> leaf.request,
                    choice |-> leaf.choice, decodes |-> leaf.decodes]
        BY <2>1 DEF LeafSound
      <3> HIDE DEF name
      <3>2. [leaf EXCEPT !.name = name]
                = [name |-> name, sort |-> leaf.sort, request |-> leaf.request,
                   choice |-> leaf.choice, decodes |-> leaf.decodes]
        BY <3>1
      <3> QED
        BY <3>2 DEF name
    <2> HIDE DEF l, name
    <2>4. /\ l.name = name /\ l.sort = leaf.sort /\ l.request = leaf.request
          /\ l.choice = leaf.choice /\ l.decodes = leaf.decodes
      BY <2>3
    <2>5. \A x : Ranges(l, x) <=> Ranges(leaf, x)
      BY <2>4 DEF Ranges, Allowed
    <2>6. LeafSound(l)
      BY <2>1, <2>2, <2>3, <2>4, <2>5 DEF LeafSound
    <2> QED
      BY <2>6 DEF l
  <1>3. Prefixed(plan, prefix) \in Seq(P)
    BY <1>1 DEF Prefixed
  <1> HIDE DEF longer
  <1> QED
    BY <1>2, <1>3 DEF LeavesSound

\* The recursion of FlattenSeq, up to n.
Flattens(f, ss, n) == f = [i \in 1..n |-> IF i = 1 THEN ss[i] ELSE f[i - 1] \o ss[i]]

\* It has a result for every n.
LEMMA FlattensExists ==
    ASSUME NEW ss PROVE \A n \in Nat : \E f : Flattens(f, ss, n)
  <1> DEFINE T == {n \in Nat : \E f : Flattens(f, ss, n)}
  <1>1. 0 \in T
    <2> DEFINE f == [i \in 1..0 |-> ss[i]]
    <2>1. Flattens(f, ss, 0)
      BY DEF Flattens
    <2> QED
      BY <2>1
  <1>2. ASSUME NEW n \in Nat, n \in T PROVE n + 1 \in T
    <2>1. PICK f : Flattens(f, ss, n)
      BY <1>2
    <2> DEFINE last == IF n + 1 = 1 THEN ss[n + 1] ELSE f[n] \o ss[n + 1]
               g == [i \in 1..(n + 1) |-> IF i = n + 1 THEN last ELSE f[i]]
    <2>2. ASSUME NEW i \in 1..(n + 1)
          PROVE  g[i] = IF i = 1 THEN ss[i] ELSE g[i - 1] \o ss[i]
      <3> HIDE DEF last
      <3>1. CASE i = n + 1
        <4>1. g[i] = last
          BY <3>1
        <4>2. i # 1 => g[i - 1] = f[n]
          BY <3>1
        <4> QED
          BY <3>1, <4>1, <4>2 DEF last
      <3>2. CASE i # n + 1
        <4>1. i \in 1..n /\ g[i] = f[i] /\ (i # 1 => i - 1 \in 1..n /\ g[i - 1] = f[i - 1])
          BY <3>2
        <4>2. f[i] = IF i = 1 THEN ss[i] ELSE f[i - 1] \o ss[i]
          BY <2>1, <4>1 DEF Flattens
        <4> QED
          BY <4>1, <4>2
      <3> QED
        BY <3>1, <3>2
    <2>3. Flattens(g, ss, n + 1)
      <3>1. g = [i \in 1..(n + 1) |-> g[i]]
        OBVIOUS
      <3> HIDE DEF g
      <3> QED
        BY <2>2, <3>1 DEF Flattens
    <2> HIDE DEF g
    <2> QED
      BY <2>3
  <1> HIDE DEF T
  <1>3. \A n \in Nat : n \in T
    BY <1>1, <1>2, SetInduction
  <1> QED
    BY <1>3 DEF T

\* Sequences over a set are flattened to one.
LEMMA FlattenTyped ==
    ASSUME NEW S, NEW ss \in Seq(Seq(S)) PROVE FlattenSeq(ss) \in Seq(S)
  <1> DEFINE n == Len(ss)
             flatten == CHOOSE f : Flattens(f, ss, n)
  <1>1. n \in Nat /\ \A i \in 1..n : ss[i] \in Seq(S)
    OBVIOUS
  <1>2. CASE n = 0
    BY <1>2 DEF FlattenSeq
  <1>3. CASE n # 0
    <2>1. FlattenSeq(ss) = flatten[n]
      BY <1>3 DEF FlattenSeq, Flattens
    <2>2. Flattens(flatten, ss, n)
      BY <1>1, FlattensExists
    <2> HIDE DEF flatten
    <2> DEFINE T == {m \in Nat : m \in 1..n => flatten[m] \in Seq(S)}
    <2>3. 0 \in T
      OBVIOUS
    <2>4. ASSUME NEW m \in Nat, m \in T PROVE m + 1 \in T
      <3> SUFFICES ASSUME m + 1 \in 1..n PROVE flatten[m + 1] \in Seq(S)
        OBVIOUS
      <3>1. flatten[m + 1] = IF m + 1 = 1 THEN ss[m + 1] ELSE flatten[m] \o ss[m + 1]
        <4>1. \A i \in 1..n : flatten[i] = IF i = 1 THEN ss[i] ELSE flatten[i - 1] \o ss[i]
          <5> HIDE DEF n
          <5> QED
            BY <2>2 DEF Flattens
        <4>2. (m + 1) - 1 = m
          OBVIOUS
        <4> QED
          BY <4>1, <4>2
      <3>2. CASE m = 0
        BY <1>1, <3>1, <3>2
      <3>3. CASE m # 0
        <4>1. flatten[m] \in Seq(S) /\ ss[m + 1] \in Seq(S)
          BY <1>1, <2>4, <3>3
        <4> QED
          BY <3>1, <3>3, <4>1
      <3> QED
        BY <3>2, <3>3
    <2> HIDE DEF T
    <2>5. n \in T
      BY <1>1, <2>3, <2>4, SetInduction
    <2> QED
      BY <1>1, <1>3, <2>1, <2>5 DEF T
  <1> QED
    BY <1>2, <1>3

\* Sound parts make a sound whole.
LEMMA FlattenSound ==
    ASSUME NEW n \in Nat, NEW ss, ss = [k \in 1..n |-> ss[k]],
           \A k \in 1..n : LeavesSound(ss[k])
    PROVE  LeavesSound(FlattenSeq(ss))
  <1> DEFINE S == UNION {{ss[k][i] : i \in DOMAIN ss[k]} : k \in 1..n}
  <1>1. ASSUME NEW k \in 1..n
        PROVE  ss[k] \in Seq(S) /\ \A i \in DOMAIN ss[k] : LeafSound(ss[k][i])
    <2>1. PICK L : ss[k] \in Seq(L) /\ \A leaf \in L : LeafSound(leaf)
      BY DEF LeavesSound
    <2>2. \A i \in DOMAIN ss[k] : ss[k][i] \in S /\ LeafSound(ss[k][i])
      BY <2>1
    <2> HIDE DEF S
    <2> QED
      BY <2>1, <2>2
  <1>2. \A leaf \in S : LeafSound(leaf)
    BY <1>1
  <1> HIDE DEF S
  <1>3. ss \in Seq(Seq(S))
    BY <1>1
  <1> QED
    BY <1>2, <1>3, FlattenTyped DEF LeavesSound

-----------------------------------------------------------------------------
(* The stack.                                                              *)

\* The last element of the stack is one of its elements.
LEMMA TopSound ==
    ASSUME SInv, Len(stack) >= 1
    PROVE  Top \in {stack[k] : k \in DOMAIN stack} /\ Sound(Top)
  <1>1. PICK S : stack \in Seq(S) /\ \A node \in S : Sound(node)
    BY DEF SInv
  <1>2. Len(stack) \in Nat /\ DOMAIN stack = 1..Len(stack)
    BY <1>1
  <1>3. Len(stack) \in DOMAIN stack /\ stack[Len(stack)] \in S
    BY <1>1, <1>2
  <1> QED
    BY <1>1, <1>3 DEF Top

\* So is any other; a plan among them has sound leaves.
LEMMA OperandSound ==
    ASSUME SInv, NEW n \in Nat, Len(stack) >= n, NEW k \in 1..n,
           stack[Len(stack) - n + k].kind = "plan"
    PROVE  LeavesSound(stack[Len(stack) - n + k].leaves)
  <1>1. PICK S : stack \in Seq(S) /\ \A node \in S : Sound(node)
    BY DEF SInv
  <1>2. Len(stack) - n + k \in 1..Len(stack)
    BY <1>1
  <1>3. stack[Len(stack) - n + k] \in S
    BY <1>1, <1>2
  <1> QED
    BY <1>1, <1>3 DEF Sound

\* What a function returns takes the place of what it consumed.
LEMMA ReturnSound ==
    ASSUME SInv, NEW n \in Nat, Len(stack) >= n, NEW node, Sound(node), Return(n, node)
    PROVE  SInv'
  <1>1. PICK S : stack \in Seq(S) /\ \A s \in S : Sound(s)
    BY DEF SInv
  <1> DEFINE rest == SubSeq(stack, 1, Len(stack) - n)
             T == S \cup {node}
  <1>2. Len(stack) \in Nat
    BY <1>1
  <1>3. rest \in Seq(S)
    <2>1. \A i \in 1..(Len(stack) - n) : stack[i] \in S
      BY <1>1, <1>2
    <2> QED
      BY <1>2, <2>1, SubSeqProperties
  <1>4. rest \in Seq(T)
    BY <1>3, SeqMonotonic
  <1>5. Append(rest, node) \in Seq(T)
    BY <1>4, AppendProperties
  <1>6. stack' = Append(rest, node) /\ rejected' = rejected
    BY DEF Return
  <1>7. \A s \in T : Sound(s)
    BY <1>1
  <1>8. RefusesOnlyEmpty'
    BY <1>6 DEF SInv, RefusesOnlyEmpty
  <1> QED
    BY <1>5, <1>6, <1>7, <1>8 DEF SInv

\* A refusal leaves the stack, and loses what it says.
LEMMA UnsupportedSound ==
    ASSUME SInv, NEW excluded \in BOOLEAN, NEW lost, Unsupported(excluded, lost),
           excluded \/ lost = {}
    PROVE  SInv'
  BY DEF SInv, Unsupported, RefusesOnlyEmpty

\* A plan of sound leaves.
LEMMA PlanSound ==
    ASSUME NEW leaves, LeavesSound(leaves) PROVE Sound(Plan(leaves))
  BY DEF Plan, Sound

-----------------------------------------------------------------------------
(* The invariant.                                                          *)

\* It holds of the empty stack.
LEMMA SInvInit ==
    ASSUME Init PROVE SInv
  <1>1. stack \in Seq({})
    BY DEF Init
  <1> QED
    BY <1>1 DEF SInv, RefusesOnlyEmpty, Init

\* A refinement keeps it.
LEMMA RefineSound ==
    ASSUME SInv, NEW r \in Refinements, Refine(r) PROVE SInv'
  <1>1. Len(stack) >= 1 /\ Sound(Top)
    BY TopSound DEF Refine, Translate
  <1>2. CASE TopIs("limits") /\ Modeled(r)
    <2>1. WellTyped(Top) /\ Exact(Top)
      BY <1>1, <1>2 DEF TopIs, Sound
    <2>2. Sound(RefinementLimits(Top, r))
      <3>1. WellTyped(RefinementLimits(Top, r)) /\ Exact(RefinementLimits(Top, r))
        BY <1>2, <2>1, RefinementSound
      <3>2. RefinementLimits(Top, r).kind = "limits"
        BY <1>2, SchemaAssumption DEF RefinementLimits, Limits, Modeled
      <3> QED
        BY <3>1, <3>2 DEF Sound
    <2>3. Return(1, RefinementLimits(Top, r))
      BY <1>2 DEF Refine
    <2> QED
      BY <1>1, <2>2, <2>3, ReturnSound
  <1>3. CASE ~(TopIs("limits") /\ Modeled(r))
    <2> DEFINE excluded == ~TopIs("limits") \/ r.id = "other" \/ ~IsWhole(r.bound)
               lost == IF TopIs("limits")
                         THEN WholeIn({v \in Top.decodes : Passes(r, v)}) ELSE {}
    <2>1. Unsupported(excluded, lost)
      BY <1>3 DEF Refine
    <2>2. ~excluded => lost = {}
      <3> SUFFICES ASSUME ~excluded PROVE lost = {}
        OBVIOUS
      <3>1. \A v \in Top.decodes : v \in Numbers
        BY <1>1 DEF TopIs, Sound, WellTyped
      <3> QED
        BY <1>3, <3>1, RefusedIsEmpty DEF WholeIn
    <2> HIDE DEF lost
    <2>3. excluded \in BOOLEAN
      OBVIOUS
    <2> HIDE DEF excluded
    <2> QED
      BY <2>1, <2>2, <2>3, UnsupportedSound
  <1> QED
    BY <1>2, <1>3

\* The end of the chain keeps it.
LEMMA IntegerPlanSound ==
    ASSUME SInv, IntegerPlan PROVE SInv'
  <1>1. Len(stack) >= 1 /\ WellTyped(Top) /\ Exact(Top)
    BY TopSound DEF IntegerPlan, Translate, TopIs, Sound
  <1> DEFINE plan == Plan(<<Leaf("Int", IntegerRequest(Top.minimum, Top.maximum),
                                None, Top.decodes)>>)
  <1>2. CASE Top.isInteger /\ Ordered(Top.minimum, Top.maximum)
    <2>1. Return(1, plan)
      BY <1>2 DEF IntegerPlan
    <2>2. Sound(plan)
      BY <1>1, <1>2, IntegerLeafSound, OneLeafSound, PlanSound
    <2> QED
      BY <1>1, <2>1, <2>2, ReturnSound
  <1>3. CASE ~(Top.isInteger /\ Ordered(Top.minimum, Top.maximum))
    <2>1. Unsupported(~Top.isInteger, WholeIn(Top.decodes))
      BY <1>3 DEF IntegerPlan
    <2>2. Top.isInteger => WholeIn(Top.decodes) = {}
      BY <1>1, <1>3, UnorderedIsEmpty DEF WholeIn
    <2>3. (~Top.isInteger) \in BOOLEAN
      OBVIOUS
    <2> QED
      BY <2>1, <2>2, <2>3, UnsupportedSound
  <1> QED
    BY <1>2, <1>3

\* Every step keeps it.
LEMMA SInvNext ==
    ASSUME SInv, [Next]_vars PROVE SInv'
  <1>1. CASE BooleanKeyword
    <2>1. Sound(Plan(<<Leaf("Bool", BooleanRequest, None, BOOLEAN)>>))
      BY BooleanLeafSound, OneLeafSound, PlanSound
    <2> QED
      BY <1>1, <2>1, ReturnSound DEF BooleanKeyword, Translate
  <1>2. CASE NumberKeyword
    <2> DEFINE l == Limits(FALSE, None, None, Numbers)
    <2>1. WellTyped(l)
      BY DEF Limits, WellTyped, Safe
    <2>2. Exact(l)
      BY DEF Limits, Exact, Within
    <2>3. Sound(l)
      BY <2>1, <2>2 DEF Sound, Limits
    <2>4. Return(0, l) /\ Len(stack) >= 0
      BY <1>2 DEF NumberKeyword, Translate
    <2> QED
      BY <2>3, <2>4, ReturnSound
  <1>3. CASE \E r \in Refinements : Refine(r)
    BY <1>3, RefineSound
  <1>4. CASE IntegerPlan
    BY <1>4, IntegerPlanSound
  <1>5. ASSUME NEW union \in Unions, Union(union) PROVE SInv'
    <2>1. UnionModeled(union) => Sound(Plan(<<UnionLeaf(union)>>))
      BY UnionLeafSound, OneLeafSound, PlanSound
    <2> QED
      BY <1>5, <2>1, ReturnSound, UnsupportedSound DEF Union, Translate
  <1>6. ASSUME NEW union \in Unions, NEW i \in DOMAIN union, Literal(union[i]) PROVE SInv'
    <2>1. Sound(Plan(<<LiteralLeaf(union[i])>>))
      BY LiteralLeafSound, OneLeafSound, PlanSound
    <2> QED
      BY <1>6, <2>1, ReturnSound, UnsupportedSound DEF Literal, Translate
  <1>7. ASSUME NEW keys \in Keys, NEW optional \in BOOLEAN, RecordPlan(keys, optional)
        PROVE  SInv'
    <2>1. Len(keys) \in Nat /\ Len(stack) >= Len(keys)
      BY <1>7, KeysAssumption DEF RecordPlan, Translate
    <2>2. CASE optional
      BY <1>7, <2>2, UnsupportedSound DEF RecordPlan
    <2>3. CASE ~optional
      <3> DEFINE n == Len(keys)
                 ss == [k \in 1..n |-> Prefixed(stack[Len(stack) - n + k], <<".">> \o keys[k])]
      <3>1. ASSUME NEW k \in 1..n PROVE LeavesSound(ss[k])
        <4>1. LeavesSound(stack[Len(stack) - n + k].leaves)
          BY <1>7, <2>1, OperandSound DEF RecordPlan
        <4>2. keys[k] \in Seq(Characters) /\ "." \in Characters
          <5>1. keys \in Seq(Seq(Characters))
            BY KeysAssumption
          <5>2. "." \in Characters
            BY DEF Characters
          <5> QED
            BY <5>1, <5>2
        <4>3. <<".">> \o keys[k] \in Seq(Characters)
          BY <4>2
        <4> QED
          BY <4>1, <4>3, PrefixedSound
      <3>2. ss = [k \in 1..n |-> ss[k]]
        OBVIOUS
      <3>3. Return(n, Plan(FlattenSeq(ss)))
        BY <1>7, <2>3 DEF RecordPlan
      <3> HIDE DEF ss
      <3> QED
        BY <2>1, <3>1, <3>2, <3>3, FlattenSound, PlanSound, ReturnSound
    <2> QED
      BY <2>2, <2>3
  <1>8. ASSUME NEW n \in 0..2, NEW open \in BOOLEAN, TuplePlan(n, open) PROVE SInv'
    <2>1. n \in Nat /\ Len(stack) >= n
      BY <1>8 DEF TuplePlan, Translate
    <2>2. CASE open
      BY <1>8, <2>2, UnsupportedSound DEF TuplePlan
    <2>3. CASE ~open
      <3> DEFINE ss == [k \in 1..n |-> Prefixed(stack[Len(stack) - n + k],
                                               <<"[", ToString(k - 1), "]">>)]
      <3>1. ASSUME NEW k \in 1..n PROVE LeavesSound(ss[k])
        <4>1. LeavesSound(stack[Len(stack) - n + k].leaves)
          BY <1>8, <2>1, OperandSound DEF TuplePlan
        <4>2. k - 1 = 0 \/ k - 1 = 1
          OBVIOUS
        <4>3. {"[", ToString(k - 1), "]"} \subseteq Characters
          BY <4>2 DEF Characters
        <4>4. <<"[", ToString(k - 1), "]">> \in Seq(Characters)
          BY <4>3
        <4> QED
          BY <4>1, <4>4, PrefixedSound
      <3>2. ss = [k \in 1..n |-> ss[k]]
        OBVIOUS
      <3>3. Return(n, Plan(FlattenSeq(ss)))
        BY <1>8, <2>3 DEF TuplePlan
      <3> HIDE DEF ss
      <3> QED
        BY <2>1, <3>1, <3>2, <3>3, FlattenSound, PlanSound, ReturnSound
    <2> QED
      BY <2>2, <2>3
  <1>9. CASE OtherNode
    BY <1>9, UnsupportedSound DEF OtherNode
  <1>10. CASE AnySchema
    BY <1>10 DEF AnySchema, SInv, RefusesOnlyEmpty
  <1>11. CASE UNCHANGED vars
    BY <1>11 DEF vars, SInv, RefusesOnlyEmpty
  <1> QED
    BY <1>1, <1>2, <1>3, <1>4, <1>5, <1>6, <1>7, <1>8, <1>9, <1>10, <1>11 DEF Next

(***************************************************************************)
(* The invariant holds of every behaviour.                                 *)
(***************************************************************************)
THEOREM SInvTheorem == Spec => []SInv
  <1>1. Init => SInv
    BY SInvInit
  <1>2. SInv /\ [Next]_vars => SInv'
    BY SInvNext
  <1> QED
    BY <1>1, <1>2, PTL DEF Spec

(***************************************************************************)
(* Refinements intersect exactly, for chains of any length.                *)
(***************************************************************************)
THEOREM LimitsExactTheorem == Spec => []LimitsExact
  <1>1. SInv => LimitsExact
    <2> SUFFICES ASSUME SInv, NEW k \in DOMAIN stack, stack[k].kind = "limits"
                 PROVE  Exact(stack[k])
      BY DEF LimitsExact, Exact
    <2>1. PICK S : stack \in Seq(S) /\ \A node \in S : Sound(node)
      BY DEF SInv
    <2>2. stack[k] \in S
      BY <2>1
    <2> QED
      BY <2>1, <2>2 DEF Sound
  <1> QED
    BY <1>1, SInvTheorem, PTL

(***************************************************************************)
(* Of the chains of modelled filters with safe bounds exactly the empty    *)
(* ones are refused, for chains of any length.                             *)
(***************************************************************************)
THEOREM RefusesExactlyEmptyTheorem == Spec => []RefusesExactlyEmpty
  <1>1. SInv => RefusesExactlyEmpty
    <2> SUFFICES ASSUME SInv, NEW k \in DOMAIN stack, stack[k].kind = "plan",
                        NEW i \in DOMAIN stack[k].leaves
                 PROVE  stack[k].leaves[i].decodes # {}
      BY DEF SInv, RefusesExactlyEmpty, AcceptsNoEmpty
    <2>1. PICK S : stack \in Seq(S) /\ \A node \in S : Sound(node)
      BY DEF SInv
    <2>2. stack[k] \in S
      BY <2>1
    <2>3. LeavesSound(stack[k].leaves)
      BY <2>1, <2>2 DEF Sound
    <2>4. PICK L : stack[k].leaves \in Seq(L) /\ \A leaf \in L : LeafSound(leaf)
      BY <2>3 DEF LeavesSound
    <2>5. stack[k].leaves[i] \in L
      BY <2>4
    <2> QED
      BY <2>4, <2>5 DEF LeafSound
  <1> QED
    BY <1>1, SInvTheorem, PTL

-----------------------------------------------------------------------------
(***************************************************************************)
(* Drawing.  The variables drawn for the first k leaves are numbered in the*)
(* order of these leaves, and what is assumed about each is what its leaf  *)
(* asks for, neither mixed up with another nor lost.                       *)
(***************************************************************************)
VariablesUpTo(k) == {i \in 1..k : Top.leaves[i].request # None}

Rank(k) == Cardinality(VariablesUpTo(k))

\* The bounds and the choice of a leaf, as conditions on a symbol.
Conditions(leaf, symbol) ==
    BoundConditions(symbol, DomainOf(leaf.request))
    \cup (IF leaf.choice = None THEN {} ELSE {OneOf(symbol, Literals(leaf))})

Bounds(d) == <<d.minimum, d.maximum>>

About(b, v) == {a \in b.assumptions : Symbol(v.id, v.sort) \in a.symbols}

IsBuilder(b) ==
    DOMAIN b = {"variables", "assumptions", "assertions", "names", "nextVariableId"}

\* The builder c is b with one more variable, and conditions on it.
Extends(b, c, v, conditions) ==
    /\ IsBuilder(c)
    /\ c.variables = Append(b.variables, v)
    /\ c.assumptions = b.assumptions \cup conditions
    /\ c.nextVariableId = b.nextVariableId + 1

Drawn(b, k) ==
    /\ IsBuilder(b)
    /\ \E V : b.variables \in Seq(V)
    /\ Len(b.variables) = Rank(k)
    /\ b.nextVariableId = Rank(k)
    /\ \A a \in b.assumptions : \E symbol : /\ a.symbols = {symbol}
                                         /\ symbol.id \in 0..(Rank(k) - 1)
    /\ \A i \in VariablesUpTo(k) :
          LET v == b.variables[Rank(i)]
              leaf == Top.leaves[i]
          IN  /\ v.id = Rank(i) - 1
              /\ v.name = leaf.name
              /\ v.sort = leaf.sort
              /\ Bounds(v) = Bounds(DomainOf(leaf.request))
              /\ About(b, v) = Conditions(leaf, Symbol(v.id, v.sort))

\* The rank of a variable leaf counts those before it, and itself.
LEMMA RankCounts ==
    ASSUME NEW k \in Nat
    PROVE  /\ IsFiniteSet(VariablesUpTo(k)) /\ Rank(k) \in Nat
           /\ Top.leaves[k + 1].request # None =>
                 /\ VariablesUpTo(k + 1) = VariablesUpTo(k) \cup {k + 1}
                 /\ Rank(k + 1) = Rank(k) + 1
           /\ Top.leaves[k + 1].request = None => VariablesUpTo(k + 1) = VariablesUpTo(k)
           /\ \A i \in VariablesUpTo(k) : Rank(i) \in 1..Rank(k)
  <1>1. \A j \in Nat : IsFiniteSet(VariablesUpTo(j)) /\ Rank(j) \in Nat
    <2> SUFFICES ASSUME NEW j \in Nat
                 PROVE  IsFiniteSet(VariablesUpTo(j)) /\ Rank(j) \in Nat
      OBVIOUS
    <2>1. IsFiniteSet(1..j)
      BY FS_Interval
    <2>2. VariablesUpTo(j) \subseteq 1..j
      BY DEF VariablesUpTo
    <2>3. IsFiniteSet(VariablesUpTo(j))
      BY <2>1, <2>2, FS_Subset
    <2> QED
      BY <2>3, FS_CardinalityType DEF Rank
  <1>2. 1..(k + 1) = (1..k) \cup {k + 1} /\ k + 1 \notin 1..k
    OBVIOUS
  <1>3. ASSUME Top.leaves[k + 1].request # None
        PROVE  /\ VariablesUpTo(k + 1) = VariablesUpTo(k) \cup {k + 1}
               /\ Rank(k + 1) = Rank(k) + 1
    <2>1. VariablesUpTo(k + 1) = VariablesUpTo(k) \cup {k + 1}
      BY <1>2, <1>3 DEF VariablesUpTo
    <2>2. k + 1 \notin VariablesUpTo(k)
      BY <1>2 DEF VariablesUpTo
    <2> QED
      BY <1>1, <2>1, <2>2, FS_AddElement DEF Rank
  <1>4. ASSUME Top.leaves[k + 1].request = None PROVE VariablesUpTo(k + 1) = VariablesUpTo(k)
    BY <1>2, <1>4 DEF VariablesUpTo
  <1>5. ASSUME NEW i \in VariablesUpTo(k) PROVE Rank(i) \in 1..Rank(k)
    <2>1. i \in Nat /\ i \in VariablesUpTo(i) /\ VariablesUpTo(i) \subseteq VariablesUpTo(k)
      BY DEF VariablesUpTo
    <2>2. Rank(i) <= Rank(k)
      BY <1>1, <2>1, FS_Subset DEF Rank
    <2>3. Rank(i) # 0
      BY <1>1, <2>1, FS_EmptySet DEF Rank
    <2> QED
      BY <1>1, <2>1, <2>2, <2>3
  <1> QED
    BY <1>1, <1>3, <1>4, <1>5

\* Each condition is on the one symbol.
LEMMA ConditionsMention ==
    ASSUME NEW leaf, NEW symbol, NEW a \in Conditions(leaf, symbol)
    PROVE  a.symbols = {symbol}
  <1>1. CASE a \in BoundConditions(symbol, DomainOf(leaf.request))
    BY <1>1 DEF BoundConditions, Gte, Lte
  <1>2. CASE leaf.choice # None /\ a = OneOf(symbol, Literals(leaf))
    BY <1>2 DEF OneOf
  <1> QED
    BY <1>1, <1>2 DEF Conditions

\* And together they say of a value what its leaf says.
LEMMA ConditionsAllow ==
    ASSUME NEW leaf, NEW symbol, NEW x
    PROVE  (\A a \in Conditions(leaf, symbol) : Satisfies(a, leaf.sort, x)) <=> Allowed(leaf, x)
  <1> DEFINE domain == DomainOf(leaf.request)
             gte == Gte(symbol, domain.minimum)
             lte == Lte(symbol, domain.maximum)
             oneOf == OneOf(symbol, Literals(leaf))
  <1>1. /\ Satisfies(gte, leaf.sort, x) <=> x >= 2 * domain.minimum
        /\ Satisfies(lte, leaf.sort, x) <=> x <= 2 * domain.maximum
    BY DEF Satisfies, Gte, Lte
  <1>2. Satisfies(oneOf, leaf.sort, x) <=> x \in leaf.choice
    <2>1. Satisfies(oneOf, leaf.sort, x) <=> <<leaf.sort, x>> \in Literals(leaf)
      BY DEF Satisfies, OneOf
    <2> QED
      BY <2>1 DEF Literals
  <1>3. /\ domain.minimum # None <=> gte \in Conditions(leaf, symbol) /\ domain.minimum # None
        /\ domain.maximum # None <=> lte \in Conditions(leaf, symbol) /\ domain.maximum # None
        /\ leaf.choice # None <=> oneOf \in Conditions(leaf, symbol) /\ leaf.choice # None
    BY DEF Conditions, BoundConditions
  <1>4. \A a \in Conditions(leaf, symbol) :
           \/ a = gte /\ domain.minimum # None
           \/ a = lte /\ domain.maximum # None
           \/ a = oneOf /\ leaf.choice # None
    BY DEF Conditions, BoundConditions
  <1>5. Allowed(leaf, x) <=> /\ domain.minimum = None \/ x >= 2 * domain.minimum
                             /\ domain.maximum = None \/ x <= 2 * domain.maximum
                             /\ leaf.choice = None \/ x \in leaf.choice
    BY DEF Allowed
  <1> HIDE DEF domain, gte, lte, oneOf
  <1> QED
    BY <1>1, <1>2, <1>3, <1>4, <1>5

\* What drawing one leaf adds to a builder.
LEMMA DrawLeafAdds ==
    ASSUME NEW b, IsBuilder(b), b # None, NEW leaf, LeafSound(leaf), leaf.request # None,
           ~Duplicate(b, leaf.name)
    PROVE  \E v : /\ Extends(b, DrawLeaf(b, leaf), v,
                            Conditions(leaf, Symbol(b.nextVariableId, leaf.sort)))
                 /\ v.id = b.nextVariableId /\ v.name = leaf.name /\ v.sort = leaf.sort
                 /\ Bounds(v) = Bounds(DomainOf(leaf.request))
  <1> DEFINE domain == DomainOf(leaf.request)
             symbol == Symbol(b.nextVariableId, leaf.sort)
             v == [id |-> b.nextVariableId, name |-> leaf.name, sort |-> leaf.sort,
                   minimum |-> domain.minimum, maximum |-> domain.maximum]
             registered == RegisterVariable(b, leaf.name, domain)
             allocated == Allocate(b, leaf.name, domain)
  <1>1. NameFor(b, leaf.name) = leaf.name /\ domain.sort = leaf.sort
    BY KeysAssumption DEF NameFor, LeafSound
  <1>2. /\ v.id = b.nextVariableId /\ v.name = leaf.name /\ v.sort = leaf.sort
        /\ Bounds(v) = Bounds(DomainOf(leaf.request))
    BY DEF Bounds
  <1>3. registered = [b EXCEPT !.variables = Append(@, v),
                               !.names = @ \cup {leaf.name},
                               !.nextVariableId = @ + 1]
    BY <1>1 DEF RegisterVariable
  <1>4. NextSymbol(b, domain) = symbol
    BY <1>1 DEF NextSymbol
  <1>5. allocated = [registered EXCEPT !.assumptions = @ \cup BoundConditions(symbol, domain)]
    BY <1>4 DEF Allocate
  <1> HIDE DEF domain, symbol, v, registered, allocated
  <1>6. /\ IsBuilder(registered)
        /\ registered.variables = Append(b.variables, v)
        /\ registered.assumptions = b.assumptions
        /\ registered.nextVariableId = b.nextVariableId + 1
    BY <1>3 DEF IsBuilder
  <1>7. Extends(b, allocated, v, BoundConditions(symbol, domain))
    BY <1>5, <1>6 DEF IsBuilder, Extends
  <1>8. CASE leaf.choice = None
    <2>1. Conditions(leaf, symbol) = BoundConditions(symbol, domain)
      BY <1>8 DEF Conditions, domain
    <2>2. DrawLeaf(b, leaf) = allocated
      BY <1>8 DEF DrawLeaf, allocated, domain
    <2> QED
      BY <1>2, <1>7, <2>1, <2>2 DEF symbol
  <1>9. CASE leaf.choice # None
    <2> DEFINE oneOf == OneOf(symbol, Literals(leaf))
               c == [allocated EXCEPT !.assumptions = @ \cup {oneOf}]
    <2>1. Conditions(leaf, symbol) = BoundConditions(symbol, domain) \cup {oneOf}
      BY <1>9 DEF Conditions, domain
    <2>2. LeafSymbol(b, leaf) = symbol
      BY <1>4 DEF LeafSymbol, domain
    <2>3. DrawLeaf(b, leaf) = AddAssumption(allocated, oneOf)
      BY <1>9, <2>2 DEF DrawLeaf, allocated, domain
    <2>4. DrawLeaf(b, leaf) = c
      BY <2>3 DEF AddAssumption
    <2> HIDE DEF oneOf
    <2>5. /\ IsBuilder(c)
          /\ c.variables = allocated.variables
          /\ c.assumptions = allocated.assumptions \cup {oneOf}
          /\ c.nextVariableId = allocated.nextVariableId
      BY <1>7 DEF IsBuilder, Extends
    <2> HIDE DEF c
    <2>6. Extends(b, c, v, BoundConditions(symbol, domain) \cup {oneOf})
      BY <1>7, <2>5 DEF Extends
    <2> QED
      BY <1>2, <2>1, <2>4, <2>6 DEF symbol
  <1> QED
    BY <1>8, <1>9

\* One more leaf.
LEMMA DrawnNext ==
    ASSUME NEW k \in Nat, NEW b, Drawn(b, k), b # None, LeafSound(Top.leaves[k + 1])
    PROVE  \/ DrawLeaf(b, Top.leaves[k + 1]) = None
           \/ Drawn(DrawLeaf(b, Top.leaves[k + 1]), k + 1)
  <1> DEFINE leaf == Top.leaves[k + 1]
             c == DrawLeaf(b, leaf)
             symbol == Symbol(Rank(k), leaf.sort)
  <1>1. CASE leaf.request = None
    <2>1. c = b
      BY <1>1 DEF DrawLeaf
    <2>2. VariablesUpTo(k + 1) = VariablesUpTo(k) /\ Rank(k + 1) = Rank(k)
      BY <1>1, RankCounts DEF Rank
    <2> QED
      BY <2>1, <2>2 DEF Drawn
  <1>2. CASE leaf.request # None /\ Duplicate(b, leaf.name)
    BY <1>2 DEF DrawLeaf
  <1>3. CASE leaf.request # None /\ ~Duplicate(b, leaf.name)
    <2>1. /\ IsBuilder(c)
          /\ c.nextVariableId = Rank(k) + 1
          /\ c.assumptions = b.assumptions \cup Conditions(leaf, symbol)
          /\ \E v : /\ c.variables = Append(b.variables, v)
                   /\ v.id = Rank(k) /\ v.name = leaf.name /\ v.sort = leaf.sort
                   /\ Bounds(v) = Bounds(DomainOf(leaf.request))
      BY <1>3, DrawLeafAdds DEF Drawn, Extends
    <2>2. PICK v : /\ c.variables = Append(b.variables, v)
                   /\ v.id = Rank(k) /\ v.name = leaf.name /\ v.sort = leaf.sort
                   /\ Bounds(v) = Bounds(DomainOf(leaf.request))
      BY <2>1
    <2>3. PICK V : b.variables \in Seq(V)
      BY DEF Drawn
    <2>4. /\ VariablesUpTo(k + 1) = VariablesUpTo(k) \cup {k + 1}
          /\ Rank(k + 1) = Rank(k) + 1 /\ Rank(k) \in Nat
          /\ \A i \in VariablesUpTo(k) : Rank(i) \in 1..Rank(k)
      BY <1>3, RankCounts
    <2> HIDE DEF c, leaf, symbol
    <2>5. /\ c.variables \in Seq(V \cup {v})
          /\ Len(c.variables) = Rank(k) + 1
          /\ c.variables[Rank(k) + 1] = v
          /\ \A r \in 1..Rank(k) : c.variables[r] = b.variables[r]
      <3>1. b.variables \in Seq(V \cup {v}) /\ Len(b.variables) = Rank(k)
        BY <2>3 DEF Drawn
      <3> QED
        BY <2>2, <3>1, AppendProperties
    <2>6. ASSUME NEW a \in c.assumptions
          PROVE  \E s : a.symbols = {s} /\ s.id \in 0..Rank(k)
      <3>1. CASE a \in b.assumptions
        <4>1. PICK s : a.symbols = {s} /\ s.id \in 0..(Rank(k) - 1)
          BY <3>1 DEF Drawn
        <4>2. s.id \in 0..Rank(k)
          BY <2>4, <4>1
        <4> QED
          BY <4>1, <4>2
      <3>2. CASE a \in Conditions(leaf, symbol)
        <4>1. a.symbols = {symbol}
          BY <3>2, ConditionsMention
        <4>2. symbol.id = Rank(k)
          BY DEF symbol, Symbol
        <4>3. symbol.id \in 0..Rank(k)
          BY <2>4, <4>2
        <4> QED
          BY <4>1, <4>3
      <3> QED
        BY <2>1, <3>1, <3>2
    <2>7. ASSUME NEW i \in VariablesUpTo(k)
          PROVE  LET w == c.variables[Rank(i)]
                 IN  /\ w.id = Rank(i) - 1
                     /\ w.name = Top.leaves[i].name
                     /\ w.sort = Top.leaves[i].sort
                     /\ Bounds(w) = Bounds(DomainOf(Top.leaves[i].request))
                     /\ About(c, w) = Conditions(Top.leaves[i], Symbol(w.id, w.sort))
      <3> DEFINE w == c.variables[Rank(i)]
      <3>1. w = b.variables[Rank(i)] /\ Rank(i) \in 1..Rank(k)
        BY <2>4, <2>5
      <3>2. /\ w.id = Rank(i) - 1
            /\ w.name = Top.leaves[i].name
            /\ w.sort = Top.leaves[i].sort
            /\ Bounds(w) = Bounds(DomainOf(Top.leaves[i].request))
            /\ About(b, w) = Conditions(Top.leaves[i], Symbol(w.id, w.sort))
        BY <3>1 DEF Drawn
      <3>3. Symbol(w.id, w.sort) # symbol
        <4>1. w.id # Rank(k)
          BY <2>4, <3>1, <3>2
        <4> QED
          BY <4>1 DEF Symbol, symbol
      <3>4. \A a \in Conditions(leaf, symbol) : Symbol(w.id, w.sort) \notin a.symbols
        BY <3>3, ConditionsMention
      <3>5. About(c, w) = About(b, w)
        BY <2>1, <3>4 DEF About
      <3> QED
        BY <3>2, <3>5
    <2>8. /\ v.id = Rank(k + 1) - 1
          /\ v.name = leaf.name /\ v.sort = leaf.sort
          /\ Bounds(v) = Bounds(DomainOf(leaf.request))
          /\ About(c, v) = Conditions(leaf, Symbol(v.id, v.sort))
      <3>1. Symbol(v.id, v.sort) = symbol
        BY <2>2 DEF symbol
      <3>2. ASSUME NEW a \in b.assumptions PROVE symbol \notin a.symbols
        <4>1. PICK s : a.symbols = {s} /\ s.id \in 0..(Rank(k) - 1)
          BY DEF Drawn
        <4>2. s.id # Rank(k) /\ symbol.id = Rank(k)
          BY <2>4, <4>1 DEF symbol, Symbol
        <4> QED
          BY <4>1, <4>2
      <3>3. \A a \in Conditions(leaf, symbol) : symbol \in a.symbols
        BY ConditionsMention
      <3>4. About(c, v) = Conditions(leaf, symbol)
        BY <2>1, <3>1, <3>2, <3>3 DEF About
      <3> QED
        BY <2>2, <2>4, <3>1, <3>4
    <2>9. Drawn(c, k + 1)
      <3>1. (Rank(k) + 1) - 1 = Rank(k)
        BY <2>4
      <3>2. ASSUME NEW i \in VariablesUpTo(k + 1)
            PROVE  LET w == c.variables[Rank(i)]
                   IN  /\ w.id = Rank(i) - 1
                       /\ w.name = Top.leaves[i].name
                       /\ w.sort = Top.leaves[i].sort
                       /\ Bounds(w) = Bounds(DomainOf(Top.leaves[i].request))
                       /\ About(c, w) = Conditions(Top.leaves[i], Symbol(w.id, w.sort))
        <4>1. CASE i \in VariablesUpTo(k)
          BY <2>7, <4>1
        <4>2. CASE i = k + 1
          BY <2>4, <2>5, <2>8, <4>2 DEF leaf
        <4> QED
          BY <2>4, <4>1, <4>2
      <3> QED
        BY <2>1, <2>4, <2>5, <2>6, <3>1, <3>2 DEF Drawn
    <2> QED
      BY <2>9 DEF c, leaf
  <1> QED
    BY <1>1, <1>2, <1>3

\* The recursion of LeavesDrawn, up to n.
Draws(f, leaves, n) ==
    f = [k \in 0..n |-> IF k = 0 THEN NewBuilder ELSE DrawLeaf(f[k - 1], leaves[k])]

\* It has a result for every n.
LEMMA DrawsExists ==
    ASSUME NEW leaves PROVE \A n \in Nat : \E f : Draws(f, leaves, n)
  <1> DEFINE T == {n \in Nat : \E f : Draws(f, leaves, n)}
  <1>1. 0 \in T
    <2> DEFINE f == [k \in 0..0 |-> NewBuilder]
    <2>1. Draws(f, leaves, 0)
      BY DEF Draws
    <2> QED
      BY <2>1
  <1>2. ASSUME NEW n \in Nat, n \in T PROVE n + 1 \in T
    <2>1. PICK f : Draws(f, leaves, n)
      BY <1>2
    <2> DEFINE last == DrawLeaf(f[n], leaves[n + 1])
               g == [k \in 0..(n + 1) |-> IF k = n + 1 THEN last ELSE f[k]]
    <2>2. ASSUME NEW k \in 0..(n + 1)
          PROVE  g[k] = IF k = 0 THEN NewBuilder ELSE DrawLeaf(g[k - 1], leaves[k])
      <3>1. CASE k = n + 1
        <4> HIDE DEF last
        <4>1. g[k] = last /\ g[k - 1] = f[n] /\ k # 0
          BY <3>1
        <4> QED
          BY <3>1, <4>1 DEF last
      <3>2. CASE k # n + 1
        <4> HIDE DEF last
        <4>1. k \in 0..n /\ g[k] = f[k] /\ (k # 0 => k - 1 \in 0..n /\ g[k - 1] = f[k - 1])
          BY <3>2
        <4>2. f[k] = IF k = 0 THEN NewBuilder ELSE DrawLeaf(f[k - 1], leaves[k])
          BY <2>1, <4>1 DEF Draws
        <4> QED
          BY <4>1, <4>2
      <3> QED
        BY <3>1, <3>2
    <2>3. Draws(g, leaves, n + 1)
      <3>1. g = [k \in 0..(n + 1) |-> g[k]]
        OBVIOUS
      <3> HIDE DEF g
      <3> QED
        BY <2>2, <3>1 DEF Draws
    <2> HIDE DEF g
    <2> QED
      BY <2>3
  <1> HIDE DEF T
  <1>3. \A n \in Nat : n \in T
    BY <1>1, <1>2, SetInduction
  <1> QED
    BY <1>3 DEF T

\* The builder, once every leaf is drawn.
LEMMA LeavesDrawnAre ==
    ASSUME LeavesSound(Top.leaves)
    PROVE  LET b == LeavesDrawn[Len(Top.leaves)]
           IN  b = None \/ Drawn(b, Len(Top.leaves))
  <1> DEFINE n == Len(Top.leaves)
             T == {k \in Nat : k <= n => LeavesDrawn[k] = None \/ Drawn(LeavesDrawn[k], k)}
  <1>1. n \in Nat /\ \A k \in 1..n : LeafSound(Top.leaves[k])
    BY DEF LeavesSound
  <1>2. Draws(LeavesDrawn, Top.leaves, n)
    <2>1. \E f : f = [k \in 0..n |-> IF k = 0 THEN NewBuilder
                                     ELSE DrawLeaf(f[k - 1], Top.leaves[k])]
      BY <1>1, DrawsExists DEF Draws
    <2> QED
      BY <2>1 DEF Draws, LeavesDrawn
  <1>3. 0 \in T
    <2>1. LeavesDrawn[0] = NewBuilder
      BY <1>1, <1>2 DEF Draws
    <2>2. VariablesUpTo(0) = {}
      BY DEF VariablesUpTo
    <2>3. Rank(0) = 0
      BY <2>2, FS_EmptySet DEF Rank
    <2>4. /\ IsBuilder(NewBuilder) /\ NewBuilder.variables = << >>
          /\ NewBuilder.nextVariableId = 0 /\ NewBuilder.assumptions = {}
      BY DEF IsBuilder, NewBuilder
    <2>5. << >> \in Seq({}) /\ Len(<< >>) = 0
      OBVIOUS
    <2>6. Drawn(NewBuilder, 0)
      BY <2>2, <2>3, <2>4, <2>5 DEF Drawn
    <2> QED
      BY <2>1, <2>6
  <1>4. ASSUME NEW k \in Nat, k \in T PROVE k + 1 \in T
    <2> SUFFICES ASSUME k + 1 <= n
                 PROVE  LeavesDrawn[k + 1] = None \/ Drawn(LeavesDrawn[k + 1], k + 1)
      OBVIOUS
    <2>1. /\ LeavesDrawn[k] = None \/ Drawn(LeavesDrawn[k], k)
          /\ LeafSound(Top.leaves[k + 1])
      BY <1>1, <1>4
    <2>2. LeavesDrawn[k + 1] = DrawLeaf(LeavesDrawn[k], Top.leaves[k + 1])
      <3>1. k + 1 \in 0..n /\ k + 1 # 0 /\ (k + 1) - 1 = k
        BY <1>1
      <3> QED
        BY <1>2, <3>1 DEF Draws
    <2>3. CASE LeavesDrawn[k] = None
      BY <2>2, <2>3 DEF DrawLeaf
    <2>4. CASE LeavesDrawn[k] # None
      BY <2>1, <2>2, <2>4, DrawnNext
    <2> QED
      BY <2>3, <2>4
  <1> HIDE DEF T
  <1>5. n \in T
    BY <1>1, <1>3, <1>4, SetInduction
  <1> QED
    BY <1>1, <1>5 DEF T

\* The plan of a whole schema is drawn exactly.
LEMMA AnySchemaExact ==
    ASSUME SInv, AnySchema PROVE DrawnFaithful'
  <1>1. /\ Top = stack[1] /\ stack' = stack
        /\ builder' = LeavesDrawn[Len(Top.leaves)]
    BY DEF AnySchema, Top
  <1>2. LeavesSound(Top.leaves)
    BY TopSound DEF AnySchema, TopIs, Sound
  <1> DEFINE n == Len(Top.leaves)
             b == LeavesDrawn[n]
  <1>3. n \in Nat /\ DOMAIN Top.leaves = 1..n /\ \A i \in 1..n : LeafSound(Top.leaves[i])
    BY <1>2 DEF LeavesSound
  <1>4. b = None \/ Drawn(b, n)
    BY <1>2, LeavesDrawnAre
  <1> HIDE DEF b
  <1>5. VariableLeaves' = VariablesUpTo(n)
    BY <1>1, <1>3 DEF VariableLeaves, VariablesUpTo
  <1>6. ASSUME NEW i \in VariablesUpTo(n)
        PROVE  Cardinality({j \in VariablesUpTo(n) : j <= i}) = Rank(i)
    <2>1. {j \in VariablesUpTo(n) : j <= i} = VariablesUpTo(i)
      BY <1>3 DEF VariablesUpTo
    <2> QED
      BY <2>1 DEF Rank
  <1>7. ASSUME Drawn(b, n), NEW i \in VariablesUpTo(n)
        PROVE  LET leaf == Top.leaves[i]
                   v == b.variables[Rank(i)]
               IN  /\ v.name = leaf.name
                   /\ v.sort = leaf.sort
                   /\ leaf.decodes = {x \in Universe(v.sort) :
                                         /\ \A a \in About(b, v) : Satisfies(a, v.sort, x)
                                         /\ ~Beyond(v, x)}
    <2> DEFINE leaf == Top.leaves[i]
               v == b.variables[Rank(i)]
    <2>1. /\ v.name = leaf.name /\ v.sort = leaf.sort
          /\ Bounds(v) = Bounds(DomainOf(leaf.request))
          /\ About(b, v) = Conditions(leaf, Symbol(v.id, v.sort))
      BY <1>7 DEF Drawn
    <2>2. LeafSound(leaf) /\ leaf.request # None
      BY <1>3 DEF VariablesUpTo
    <2> HIDE DEF leaf, v
    <2>3. \A x : (\A a \in About(b, v) : Satisfies(a, v.sort, x)) <=> Allowed(leaf, x)
      BY <2>1, ConditionsAllow
    <2>4. \A x : Beyond(v, x) <=> Beyond(DomainOf(leaf.request), x)
      BY <2>1, <2>2 DEF Beyond, Bounds, LeafSound
    <2>5. leaf.decodes = {x \in Universe(v.sort) :
                             Allowed(leaf, x) /\ ~Beyond(v, x)}
      BY <2>1, <2>2, <2>4 DEF LeafSound, Ranges
    <2>6. leaf.decodes = {x \in Universe(v.sort) :
                             /\ \A a \in About(b, v) : Satisfies(a, v.sort, x)
                             /\ ~Beyond(v, x)}
      BY <2>3, <2>5
    <2> QED
      BY <2>1, <2>6 DEF leaf, v
  <1>8. SUFFICES ASSUME b # None PROVE DrawnFaithful'
    BY <1>1 DEF DrawnFaithful, b
  <1>9. Drawn(b, n) /\ Len(b.variables) = Cardinality(VariablesUpTo(n))
    BY <1>4, <1>8 DEF Drawn, Rank
  <1>10. builder' = b /\ stack'[1] = Top
    BY <1>1 DEF b
  <1> QED
    BY <1>5, <1>6, <1>7, <1>9, <1>10 DEF DrawnFaithful, About

(***************************************************************************)
(* Whatever the schema, every variable drawn for it ranges over the values *)
(* decoded at its place and, on a side without a bound, the unsafe integers*)
(* as well: nested records and tuples of any depth, chains of filters and  *)
(* unions of literals of any length.                                       *)
(***************************************************************************)
THEOREM DrawnFaithfulTheorem == Spec => []DrawnFaithful
  <1>1. Init => DrawnFaithful
    BY DEF Init, DrawnFaithful
  <1>2. ASSUME SInv, DrawnFaithful, [Next]_vars PROVE DrawnFaithful'
    <2>1. CASE AnySchema
      BY <1>2, <2>1, AnySchemaExact
    <2>2. CASE UNCHANGED vars
      <3>1. stack' = stack /\ builder' = builder
        BY <2>2 DEF vars
      <3>2. VariableLeaves' = VariableLeaves
        BY <3>1 DEF VariableLeaves
      <3> QED
        BY <1>2, <3>1, <3>2 DEF DrawnFaithful
    <2>3. CASE builder' = None
      BY <2>3 DEF DrawnFaithful
    <2>4. Next => AnySchema \/ builder' = None
      BY DEF Next, BooleanKeyword, NumberKeyword, Refine, IntegerPlan, Union, Literal,
             RecordPlan, TuplePlan, OtherNode, Translate
    <2> QED
      BY <1>2, <2>1, <2>2, <2>3, <2>4
  <1> QED
    BY <1>1, <1>2, SInvTheorem, PTL DEF Spec
=============================================================================
