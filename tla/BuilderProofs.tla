--------------------------- MODULE BuilderProofs ---------------------------
(***************************************************************************)
(* The program compileProof returns is closed and as constrained as its    *)
(* inputs were declared, for any fibers, inputs and names, and every symbol*)
(* denotes its variable.                                                   *)
(*                                                                         *)
(* The argument: ids are positions, so that a builder only ever grows and  *)
(* what was recorded of a symbol stays recorded.  No symbol reaches user   *)
(* code before its constraints are recorded, and no fiber is in the middle *)
(* of an input when the builder is copied, so that a symbol returned later *)
(* is either complete in the copy or not in it.                            *)
(***************************************************************************)
EXTENDS Builder, SourceProof, SequenceTheorems, FiniteSetTheorems, WellFoundedInduction,
        TLAPS

\* The domains of the inputs that are not refused when they are asked for.
InputDomains == {DomainOf(leaf.request) : leaf \in {l \in Leaves : Valid(l.request)}}

InputNames == {leaf.name : leaf \in Leaves} \cup {Generated(id) : id \in Nat}

Variable == {[id |-> id, name |-> name, sort |-> d.sort,
              minimum |-> d.minimum, maximum |-> d.maximum] :
                id \in Nat, name \in InputNames, d \in InputDomains}

Assertion == {[id |-> id, expression |-> Condition(symbols)] :
                id \in Nat,
                symbols \in SUBSET {Symbol(v.id, v.sort) : v \in Variable}}

IdsArePositions(variables) == \A i \in DOMAIN variables : variables[i].id = i - 1

(***************************************************************************)
(* A builder as the calls leave it.                                        *)
(***************************************************************************)
Shaped(b) ==
    /\ b = [variables |-> b.variables, assumptions |-> b.assumptions,
            assertions |-> b.assertions, names |-> b.names,
            nextVariableId |-> b.nextVariableId]
    /\ b.variables \in Seq(Variable)
    /\ b.assertions \in Seq(Assertion)
    /\ b.nextVariableId = Len(b.variables)

Named(b) ==
    /\ b.names = {b.variables[i].name : i \in DOMAIN b.variables}
    /\ \A i, j \in DOMAIN b.variables : b.variables[i].name = b.variables[j].name => i = j

WellFormed(b) ==
    /\ Shaped(b)
    /\ IdsArePositions(b.variables)
    /\ Named(b)
    /\ Mentioned(b) \subseteq Registered(b)

\* What was recorded stays.
Grows(b, c) ==
    /\ Len(b.variables) <= Len(c.variables)
    /\ \A i \in DOMAIN b.variables : c.variables[i] = b.variables[i]
    /\ b.assumptions \subseteq c.assumptions

\* The variable a draw denotes, and the bounds it came with.
Recorded(b, d) ==
    /\ \E i \in DOMAIN b.variables :
          /\ d.symbol = Symbol(b.variables[i].id, b.variables[i].sort)
          /\ d.name = b.variables[i].name
    /\ BoundConditions(d.symbol, DomainOf(d.leaf.request)) \subseteq b.assumptions

Complete(b, d) == Recorded(b, d) /\ Constraints(d) \subseteq b.assumptions

(***************************************************************************)
(* The inductive invariant.                                                *)
(***************************************************************************)
Drawing ==
    /\ todo = [f \in Fibers |-> todo[f]]
    /\ choosing = [f \in Fibers |-> choosing[f]]
    /\ drawn = [f \in Fibers |-> drawn[f]]
    /\ status = [f \in Fibers |-> status[f]]
    /\ \A f \in Fibers :
          /\ todo[f] \in Seq(Leaves)
          /\ choosing[f] # None => todo[f] # << >> /\ choosing[f].leaf \in Leaves
          /\ todo[f] = << >> => drawn[f] = {}
          /\ status[f] # "Running" =>
                todo[f] = << >> /\ choosing[f] = None /\ drawn[f] = {}

Held ==
    /\ \A d \in handed : Complete(builder, d)
    /\ \A f \in Fibers :
          /\ \A d \in drawn[f] : Complete(builder, d)
          /\ choosing[f] # None => Recorded(builder, choosing[f])

\* The draw was complete when the program was copied, or is not in it.
Frozen(d) == d.symbol \in Registered(program) => Constraints(d) \subseteq program.assumptions

Copied ==
    phase = "Compiled" =>
        /\ Mentioned(program) \subseteq Registered(program)
        /\ program.variables \in Seq(Variable)
        /\ IdsArePositions(program.variables)
        /\ Len(program.variables) <= Len(builder.variables)
        /\ \A d \in handed : Frozen(d)
        /\ \A f \in Fibers :
              /\ \A d \in drawn[f] : d.symbol \notin Registered(program)
              /\ choosing[f] # None => choosing[f].symbol \notin Registered(program)

BInv == WellFormed(builder) /\ Drawing /\ Held /\ Copied

-----------------------------------------------------------------------------
(* The builder.                                                            *)

\* A leaf to allocate is a leaf of some input.
LEMMA HeadIsLeaf ==
    ASSUME NEW s \in Seq(Leaves), s # << >>
    PROVE  Head(s) \in Leaves /\ Tail(s) \in Seq(Leaves)
BY HeadTailProperties

\* A fresh builder.
LEMMA NewWellFormed == WellFormed(NewBuilder)
<1> DEFINE b == NewBuilder
<1>1. Shaped(b)
  BY DEF Shaped, NewBuilder
<1>2. b.variables = << >> /\ b.assumptions = {} /\ b.assertions = << >> /\ b.names = {}
  BY DEF NewBuilder
<1>3. Mentioned(b) = {}
  BY <1>2 DEF Mentioned
<1> QED
  BY <1>1, <1>2, <1>3 DEF WellFormed, IdsArePositions, Named

\* A variable is found at its id, and no other has that id.
LEMMA RegisteredAtId ==
    ASSUME NEW p, IdsArePositions(p.variables), p.variables \in Seq(Variable),
           NEW symbol \in Registered(p)
    PROVE  symbol.id \in 0..(Len(p.variables) - 1)
<1>1. PICK i \in DOMAIN p.variables :
          symbol = Symbol(p.variables[i].id, p.variables[i].sort)
  BY DEF Registered
<1>2. symbol.id = i - 1
  BY <1>1 DEF Symbol, IdsArePositions
<1>3. i \in 1..Len(p.variables)
  BY <1>1
<1> QED
  BY <1>2, <1>3

\* What is recorded stays recorded as the builder grows.
LEMMA StaysComplete ==
    ASSUME NEW b, NEW c, Grows(b, c), b.variables \in Seq(Variable),
           c.variables \in Seq(Variable), NEW d
    PROVE  /\ Recorded(b, d) => Recorded(c, d)
           /\ Complete(b, d) => Complete(c, d)
<1>1. DOMAIN b.variables \subseteq DOMAIN c.variables
  BY DEF Grows
<1> QED
  BY <1>1 DEF Recorded, Complete, Grows

\* Registered grows with the builder.
LEMMA StaysRegistered ==
    ASSUME NEW b, NEW c, Grows(b, c), b.variables \in Seq(Variable),
           c.variables \in Seq(Variable)
    PROVE  Registered(b) \subseteq Registered(c)
<1>1. DOMAIN b.variables \subseteq DOMAIN c.variables
  BY DEF Grows
<1> QED
  BY <1>1 DEF Registered, Grows

\* An allocation registers the variable it returns, with its bounds.
LEMMA AllocateRecords ==
    ASSUME NEW b, WellFormed(b), NEW leaf \in Leaves, Valid(leaf.request),
           ~Duplicate(b, leaf.name),
           NEW d, d.symbol = NextSymbol(b, DomainOf(leaf.request)),
           d.name = NameFor(b, leaf.name), d.leaf = leaf,
           NEW c, c = Allocate(b, leaf.name, DomainOf(leaf.request))
    PROVE  /\ WellFormed(c)
           /\ Grows(b, c)
           /\ Recorded(c, d)
           /\ d.symbol.id = Len(b.variables)
<1> DEFINE domain == DomainOf(leaf.request)
           name == NameFor(b, leaf.name)
           v == [id |-> b.nextVariableId, name |-> name, sort |-> domain.sort,
                 minimum |-> domain.minimum, maximum |-> domain.maximum]
           n == Len(b.variables)
<1> HIDE DEF domain, name
<1>1. /\ b = [variables |-> b.variables, assumptions |-> b.assumptions,
              assertions |-> b.assertions, names |-> b.names,
              nextVariableId |-> b.nextVariableId]
      /\ b.variables \in Seq(Variable)
      /\ b.assertions \in Seq(Assertion)
      /\ b.nextVariableId = n
      /\ n \in Nat
  BY DEF WellFormed, Shaped
<1>2. name \in InputNames
  BY <1>1 DEF name, NameFor, InputNames
<1>3. domain \in InputDomains
  BY DEF domain, InputDomains
<1>4. v \in Variable
  BY <1>1, <1>2, <1>3 DEF Variable
<1>5. /\ c.variables = Append(b.variables, v)
      /\ c.assumptions = b.assumptions \cup BoundConditions(d.symbol, domain)
      /\ c.assertions = b.assertions
      /\ c.names = b.names \cup {name}
      /\ c.nextVariableId = n + 1
      /\ c = [variables |-> c.variables, assumptions |-> c.assumptions,
              assertions |-> c.assertions, names |-> c.names,
              nextVariableId |-> c.nextVariableId]
  BY <1>1 DEF Allocate, RegisterVariable, domain, name
<1>6. /\ c.variables \in Seq(Variable)
      /\ Len(c.variables) = n + 1
      /\ c.variables[n + 1] = v
      /\ \A i \in 1..n : c.variables[i] = b.variables[i]
      /\ DOMAIN b.variables = 1..n
      /\ DOMAIN c.variables = 1..(n + 1)
  BY <1>1, <1>4, <1>5, AppendProperties
<1>7. Shaped(c)
  BY <1>1, <1>5, <1>6 DEF Shaped
<1>8. Grows(b, c)
  BY <1>1, <1>5, <1>6 DEF Grows
<1>9. IdsArePositions(c.variables)
  <2> SUFFICES ASSUME NEW i \in 1..(n + 1) PROVE c.variables[i].id = i - 1
    BY <1>6 DEF IdsArePositions
  <2>1. CASE i = n + 1
    BY <2>1, <1>1, <1>6
  <2>2. CASE i \in 1..n
    BY <2>2, <1>6 DEF WellFormed, IdsArePositions
  <2> QED
    BY <2>1, <2>2, <1>1
<1>10. name \notin b.names /\ b.names = {b.variables[i].name : i \in 1..n}
  BY <1>6 DEF Duplicate, WellFormed, Named, name
<1>11. Named(c)
  <2>1. c.names = {c.variables[i].name : i \in 1..(n + 1)}
    <3>1. 1..(n + 1) = 1..n \cup {n + 1}
      BY <1>1
    <3>2. v.name = name
      OBVIOUS
    <3> QED
      BY <3>1, <3>2, <1>5, <1>6, <1>10
  <2>2. ASSUME NEW i \in 1..(n + 1), NEW j \in 1..(n + 1),
               c.variables[i].name = c.variables[j].name
        PROVE  i = j
    <3>1. \A k \in 1..n : c.variables[k].name # name
      BY <1>6, <1>10
    <3>2. CASE i \in 1..n /\ j \in 1..n
      BY <3>2, <2>2, <1>6 DEF WellFormed, Named
    <3>3. CASE i = n + 1 \/ j = n + 1
      BY <3>1, <3>3, <2>2, <1>1, <1>6
    <3> QED
      BY <3>2, <3>3, <1>1
  <2> QED
    BY <2>1, <2>2, <1>6 DEF Named
<1>12. d.symbol = Symbol(v.id, v.sort) /\ d.symbol.id = n
  BY <1>1 DEF NextSymbol, Symbol, domain
<1>13. d.symbol \in Registered(c)
  BY <1>6, <1>12 DEF Registered
<1>14. Mentioned(c) \subseteq Registered(c)
  <2>1. \A a \in BoundConditions(d.symbol, domain) : a.symbols = {d.symbol}
    BY DEF BoundConditions, Gte, Lte
  <2>2. Mentioned(c) \subseteq Mentioned(b) \cup {d.symbol}
    BY <2>1, <1>5 DEF Mentioned
  <2>3. Registered(b) \subseteq Registered(c)
    BY <1>1, <1>6, <1>8, StaysRegistered
  <2> QED
    BY <2>2, <2>3, <1>13 DEF WellFormed
<1>15. Recorded(c, d)
  <2>1. d.name = v.name /\ domain = DomainOf(d.leaf.request)
    BY DEF name, domain
  <2> QED
    BY <2>1, <1>5, <1>6, <1>12 DEF Recorded
<1> QED
  BY <1>7, <1>8, <1>9, <1>11, <1>12, <1>14, <1>15 DEF WellFormed

\* An assumption over registered symbols.
LEMMA AddAssumptionRecords ==
    ASSUME NEW b, WellFormed(b), NEW condition, condition.symbols \subseteq Registered(b),
           NEW c, c = AddAssumption(b, condition)
    PROVE  /\ WellFormed(c)
           /\ Grows(b, c)
           /\ condition \in c.assumptions
<1>1. /\ c.variables = b.variables
      /\ c.assumptions = b.assumptions \cup {condition}
      /\ c.assertions = b.assertions
      /\ c.names = b.names
      /\ c.nextVariableId = b.nextVariableId
      /\ Shaped(c)
  BY DEF AddAssumption, WellFormed, Shaped
<1>2. Mentioned(c) = Mentioned(b) \cup condition.symbols
  BY <1>1 DEF Mentioned
<1>3. Registered(c) = Registered(b)
  BY <1>1 DEF Registered
<1>4. Len(b.variables) \in Nat
  BY DEF WellFormed, Shaped
<1> QED
  BY <1>1, <1>2, <1>3, <1>4 DEF WellFormed, IdsArePositions, Named, Grows

\* An assertion over registered symbols.
LEMMA AddAssertionRecords ==
    ASSUME NEW b, WellFormed(b), NEW symbols, symbols \subseteq Registered(b),
           NEW c, c = AddAssertion(b, Condition(symbols))
    PROVE  WellFormed(c) /\ Grows(b, c)
<1> DEFINE a == [id |-> Len(b.assertions), expression |-> Condition(symbols)]
<1>0. b.assertions \in Seq(Assertion) /\ b.variables \in Seq(Variable)
      /\ Len(b.variables) \in Nat /\ Len(b.assertions) \in Nat
  BY DEF WellFormed, Shaped
<1>1. symbols \subseteq {Symbol(v.id, v.sort) : v \in Variable}
  BY <1>0 DEF Registered
<1>2. a \in Assertion
  BY <1>0, <1>1 DEF Assertion
<1>3. /\ c.variables = b.variables
      /\ c.assumptions = b.assumptions
      /\ c.assertions = Append(b.assertions, a)
      /\ c.names = b.names
      /\ c.nextVariableId = b.nextVariableId
      /\ c = [variables |-> c.variables, assumptions |-> c.assumptions,
              assertions |-> c.assertions, names |-> c.names,
              nextVariableId |-> c.nextVariableId]
  BY DEF AddAssertion, WellFormed, Shaped
<1>4. Shaped(c)
  BY <1>0, <1>2, <1>3, AppendProperties DEF WellFormed, Shaped
<1>5. Mentioned(c) \subseteq Mentioned(b) \cup symbols
  <2> DEFINE m == Len(b.assertions)
  <2>1. /\ DOMAIN c.assertions = 1..(m + 1)
        /\ DOMAIN b.assertions = 1..m
        /\ c.assertions[m + 1] = a
        /\ \A i \in 1..m : c.assertions[i] = b.assertions[i]
    BY <1>0, <1>2, <1>3, AppendProperties
  <2>2. a.expression.symbols = symbols
    BY DEF Condition
  <2>3. \A i \in 1..(m + 1) : i \in 1..m \/ i = m + 1
    BY <1>0
  <2> HIDE DEF a, m
  <2>4. \A i \in DOMAIN c.assertions :
            \/ c.assertions[i].expression.symbols = symbols
            \/ i \in DOMAIN b.assertions /\ c.assertions[i] = b.assertions[i]
    BY <2>1, <2>2, <2>3
  <2> QED
    BY <2>4, <1>3 DEF Mentioned
<1>6. Registered(c) = Registered(b)
  BY <1>3 DEF Registered
<1> QED
  BY <1>0, <1>3, <1>4, <1>5, <1>6 DEF WellFormed, IdsArePositions, Named, Grows

-----------------------------------------------------------------------------
(* The steps.                                                              *)

\* The program was copied when the builder was shorter: what is allocated
\* now is not in it.
LEMMA NewIsNotCopied ==
    ASSUME BInv, phase = "Compiled", NEW d, d.symbol.id = Len(builder.variables)
    PROVE  d.symbol \notin Registered(program)
<1>1. /\ IdsArePositions(program.variables)
      /\ program.variables \in Seq(Variable)
      /\ Len(program.variables) <= Len(builder.variables)
  BY DEF BInv, Copied
<1>2. Len(program.variables) \in Nat /\ Len(builder.variables) \in Nat
  BY <1>1 DEF BInv, WellFormed, Shaped
<1> QED
  BY <1>1, <1>2, RegisteredAtId

\* A draw that is complete now, if it was copied at all, was copied complete.
LEMMA DeliverKeeps ==
    ASSUME BInv, NEW f \in Fibers, NEW rest \in Seq(Leaves), NEW d,
           WellFormed(builder'), Grows(builder, builder'), Complete(builder', d),
           phase = "Compiled" => d.symbol \notin Registered(program),
           Deliver(f, rest, drawn[f] \cup {d}),
           choosing' = [choosing EXCEPT ![f] = None],
           status[f] = "Running", UNCHANGED <<status, phase, program>>
    PROVE  BInv'
<1>0. /\ builder.variables \in Seq(Variable)
      /\ builder'.variables \in Seq(Variable)
      /\ Len(builder.variables) <= Len(builder'.variables)
      /\ Len(builder.variables) \in Nat /\ Len(builder'.variables) \in Nat
  BY DEF BInv, WellFormed, Shaped, Grows
<1>1. /\ todo' = [todo EXCEPT ![f] = rest]
      /\ handed' \subseteq handed \cup drawn[f] \cup {d}
      /\ drawn'[f] \subseteq drawn[f] \cup {d}
      /\ \A g \in Fibers \ {f} : drawn'[g] = drawn[g]
      /\ drawn' = [g \in Fibers |-> drawn'[g]]
      /\ rest = << >> => drawn'[f] = {}
  BY DEF Deliver, BInv, Drawing
<1>2. Drawing'
  BY <1>1 DEF BInv, Drawing
<1>3. choosing'[f] = None /\ \A g \in Fibers \ {f} : choosing'[g] = choosing[g]
  BY DEF BInv, Drawing
<1>4. Held'
  <2>1. \A e : Complete(builder, e) => Complete(builder', e)
    BY <1>0, StaysComplete
  <2>2. \A e : Recorded(builder, e) => Recorded(builder', e)
    BY <1>0, StaysComplete
  <2>3. \A e \in handed \cup drawn[f] \cup {d} : Complete(builder', e)
    BY <2>1 DEF BInv, Held
  <2>4. \A e \in handed' : Complete(builder', e)
    BY <1>1, <2>3
  <2>5. ASSUME NEW g \in Fibers
        PROVE  /\ \A e \in drawn'[g] : Complete(builder', e)
               /\ choosing'[g] # None => Recorded(builder', choosing'[g])
    <3>1. CASE g = f
      BY <3>1, <1>1, <1>3, <2>3
    <3>2. CASE g # f
      BY <3>2, <1>1, <1>3, <2>1, <2>2 DEF BInv, Held
    <3> QED
      BY <3>1, <3>2
  <2> QED
    BY <2>4, <2>5 DEF Held
<1>5. Copied'
  <2> SUFFICES ASSUME phase = "Compiled" PROVE Copied'
    BY DEF Copied
  <2>1. /\ \A e \in handed : Frozen(e)
        /\ \A g \in Fibers : /\ \A e \in drawn[g] : e.symbol \notin Registered(program)
                             /\ choosing[g] # None => choosing[g].symbol \notin Registered(program)
    BY DEF BInv, Copied
  <2>2. \A e \in handed' : Frozen(e)
    BY <1>1, <2>1 DEF Frozen
  <2>3. (\A e \in handed : Frozen(e))'
    BY <2>2 DEF Frozen
  <2>4. \A g \in Fibers : /\ \A e \in drawn'[g] : e.symbol \notin Registered(program)
                          /\ choosing'[g] # None =>
                                choosing'[g].symbol \notin Registered(program)
    BY <1>1, <1>3, <2>1
  <2>5. Len(program.variables) <= Len(builder'.variables)
    <3>1. program.variables \in Seq(Variable) /\ Len(program.variables) <= Len(builder.variables)
      BY DEF BInv, Copied
    <3>2. Len(program.variables) \in Nat
      BY <3>1
    <3> QED
      BY <3>1, <3>2, <1>0
  <2> QED
    BY <2>3, <2>4, <2>5 DEF BInv, Copied
<1> QED
  BY <1>2, <1>4, <1>5 DEF BInv

\* A step that only grows the builder.
LEMMA GrowKeeps ==
    ASSUME BInv, WellFormed(builder'), Grows(builder, builder'),
           UNCHANGED <<fiberVars, handed, phase, program>>
    PROVE  BInv'
<1>0. /\ builder.variables \in Seq(Variable)
      /\ builder'.variables \in Seq(Variable)
      /\ Len(builder.variables) <= Len(builder'.variables)
      /\ Len(builder.variables) \in Nat /\ Len(builder'.variables) \in Nat
  BY DEF BInv, WellFormed, Shaped, Grows
<1>1. Drawing'
  BY DEF BInv, Drawing, fiberVars
<1>2. Held'
  <2>1. \A e : Complete(builder, e) => Complete(builder', e)
    BY <1>0, StaysComplete
  <2>2. \A e : Recorded(builder, e) => Recorded(builder', e)
    BY <1>0, StaysComplete
  <2> QED
    BY <2>1, <2>2 DEF BInv, Held, fiberVars
<1>3. Copied'
  <2> SUFFICES ASSUME phase = "Compiled" PROVE Copied'
    BY DEF Copied
  <2>1. Len(program.variables) <= Len(builder'.variables)
    <3>1. program.variables \in Seq(Variable) /\ Len(program.variables) <= Len(builder.variables)
      BY DEF BInv, Copied
    <3>2. Len(program.variables) \in Nat
      BY <3>1
    <3> QED
      BY <3>1, <3>2, <1>0
  <2> QED
    BY <2>1 DEF BInv, Copied, Frozen, fiberVars
<1> QED
  BY <1>1, <1>2, <1>3 DEF BInv

\* A step that leaves the records alone, and only takes draws away.
LEMMA DropKeeps ==
    ASSUME BInv, Drawing', UNCHANGED <<builder, handed, phase, program>>,
           \A g \in Fibers : /\ drawn'[g] \subseteq drawn[g]
                             /\ choosing'[g] \in {choosing[g], None}
    PROVE  BInv'
<1>1. Held'
  BY DEF BInv, Held
<1>2. Copied'
  BY DEF BInv, Copied, Frozen
<1> QED
  BY <1>1, <1>2 DEF BInv

\* The end of a fiber leaves no fiber in the middle of an input.
LEMMA StopDrops ==
    ASSUME BInv, NEW f \in Fibers, NEW how, NEW interrupted \in SUBSET Fibers,
           how # "Running", Stop(f, how, interrupted)
    PROVE  /\ Drawing'
           /\ \A g \in Fibers : /\ drawn'[g] \subseteq drawn[g]
                                /\ choosing'[g] \in {choosing[g], None}
<1>1. /\ todo' = [g \in Fibers |-> todo'[g]]
      /\ choosing' = [g \in Fibers |-> choosing'[g]]
      /\ drawn' = [g \in Fibers |-> drawn'[g]]
      /\ status' = [g \in Fibers |-> status'[g]]
  BY DEF Stop
<1>2. ASSUME NEW g \in Fibers
      PROVE  /\ drawn'[g] \subseteq drawn[g]
             /\ choosing'[g] \in {choosing[g], None}
             /\ todo'[g] \in Seq(Leaves)
             /\ choosing'[g] # None => todo'[g] # << >> /\ choosing'[g].leaf \in Leaves
             /\ todo'[g] = << >> => drawn'[g] = {}
             /\ status'[g] # "Running" =>
                   todo'[g] = << >> /\ choosing'[g] = None /\ drawn'[g] = {}
  <2>1. CASE g \in interrupted \cup {f}
    <3>1. todo'[g] = << >> /\ choosing'[g] = None /\ drawn'[g] = {}
      BY <2>1 DEF Stop
    <3> QED
      BY <3>1
  <2>2. CASE g \notin interrupted \cup {f}
    <3>1. /\ todo'[g] = todo[g] /\ choosing'[g] = choosing[g] /\ drawn'[g] = drawn[g]
          /\ status'[g] = status[g]
      BY <2>2 DEF Stop
    <3> QED
      BY <3>1 DEF BInv, Drawing
  <2> QED
    BY <2>1, <2>2
<1> QED
  BY <1>1, <1>2 DEF Drawing

\* The user's conditions mention what user code was handed.
LEMMA HandedRegistered ==
    ASSUME BInv
    PROVE  Symbols \subseteq Registered(builder)
BY DEF BInv, Held, Complete, Recorded, Symbols, Registered

\* The first state.
LEMMA InitBInv == Init => BInv
<1> SUFFICES ASSUME Init PROVE BInv
  OBVIOUS
<1>1. WellFormed(builder)
  BY NewWellFormed DEF Init
<1>2. Drawing
  BY DEF Init, Drawing
<1>3. Held
  BY DEF Init, Held
<1>4. Copied
  BY DEF Init, Copied
<1> QED
  BY <1>1, <1>2, <1>3, <1>4 DEF BInv

\* An allocation: the leaf is recorded, and handed over if it was the last.
LEMMA AllocateLeafKeeps ==
    ASSUME BInv, NEW f \in Fibers, AllocateLeaf(f)
    PROVE  BInv'
<1> DEFINE leaf == Head(todo[f])
           d == Drawn(leaf)
<1>1. /\ status[f] = "Running" /\ todo[f] # << >> /\ todo[f] \in Seq(Leaves)
      /\ UNCHANGED <<status, phase, program>>
  BY DEF AllocateLeaf, BInv, Drawing
<1>2. leaf \in Leaves /\ Tail(todo[f]) \in Seq(Leaves)
  BY <1>1, HeadIsLeaf
<1>3. /\ Valid(leaf.request) /\ ~Duplicate(builder, leaf.name)
      /\ builder' = Allocate(builder, leaf.name, DomainOf(leaf.request))
  BY DEF AllocateLeaf, Throws
<1>4. /\ d.symbol = NextSymbol(builder, DomainOf(leaf.request))
      /\ d.name = NameFor(builder, leaf.name)
      /\ d.leaf = leaf
  BY DEF Drawn
<1> HIDE DEF d, leaf
<1>5. /\ WellFormed(builder')
      /\ Grows(builder, builder')
      /\ Recorded(builder', d)
      /\ d.symbol.id = Len(builder.variables)
  BY <1>2, <1>3, <1>4, AllocateRecords DEF BInv
<1>6. phase = "Compiled" => d.symbol \notin Registered(program)
  BY <1>5, NewIsNotCopied
<1>7. CASE leaf.choice = None
  <2>1. Deliver(f, Tail(todo[f]), drawn[f] \cup {d}) /\ UNCHANGED choosing
    BY <1>7 DEF AllocateLeaf, leaf, d
  <2>2. choosing[f] = None
    BY DEF AllocateLeaf
  <2>3. choosing' = [choosing EXCEPT ![f] = None]
    BY <2>1, <2>2 DEF BInv, Drawing
  <2>4. Complete(builder', d)
    BY <1>4, <1>5, <1>7 DEF Complete, Recorded, Constraints
  <2> QED
    BY <1>1, <1>2, <1>5, <1>6, <2>1, <2>3, <2>4, DeliverKeeps
<1>8. CASE leaf.choice # None
  <2>1. choosing' = [choosing EXCEPT ![f] = d] /\ UNCHANGED <<todo, drawn, handed>>
    BY <1>8 DEF AllocateLeaf, leaf, d
  <2>2. choosing'[f] = d /\ \A g \in Fibers \ {f} : choosing'[g] = choosing[g]
    BY <2>1 DEF BInv, Drawing
  <2>3. Drawing'
    BY <1>1, <1>2, <1>4, <2>1, <2>2 DEF BInv, Drawing
  <2>4. builder.variables \in Seq(Variable) /\ builder'.variables \in Seq(Variable)
    BY <1>5 DEF BInv, WellFormed, Shaped
  <2>5. Held'
    <3>1. \A e : Complete(builder, e) => Complete(builder', e)
      BY <1>5, <2>4, StaysComplete
    <3>2. \A e : Recorded(builder, e) => Recorded(builder', e)
      BY <1>5, <2>4, StaysComplete
    <3> QED
      BY <1>5, <2>1, <2>2, <3>1, <3>2 DEF BInv, Held
  <2>6. Copied'
    <3> SUFFICES ASSUME phase = "Compiled" PROVE Copied'
      BY <1>1 DEF Copied
    <3>1. program.variables \in Seq(Variable) /\ Len(program.variables) <= Len(builder.variables)
      BY DEF BInv, Copied
    <3>2. Len(program.variables) \in Nat /\ Len(builder.variables) \in Nat
          /\ Len(builder'.variables) \in Nat
      BY <2>4, <3>1
    <3>3. Len(program.variables) <= Len(builder'.variables)
      BY <1>5, <3>1, <3>2 DEF Grows
    <3> QED
      BY <1>1, <1>6, <2>1, <2>2, <3>3 DEF BInv, Copied, Frozen
  <2> QED
    BY <1>5, <2>3, <2>5, <2>6 DEF BInv
<1> QED
  BY <1>7, <1>8

\* The assumption of a choice completes what was recorded of it.
LEMMA ConstrainChoiceKeeps ==
    ASSUME BInv, NEW f \in Fibers, ConstrainChoice(f)
    PROVE  BInv'
<1> DEFINE d == choosing[f]
           condition == OneOf(d.symbol, d.leaf.choice)
<1>1. /\ status[f] = "Running" /\ d # None
      /\ builder' = AddAssumption(builder, condition)
      /\ choosing' = [choosing EXCEPT ![f] = None]
      /\ Deliver(f, Tail(todo[f]), drawn[f] \cup {d})
      /\ UNCHANGED <<status, phase, program>>
  BY DEF ConstrainChoice
<1>2. Recorded(builder, d)
  BY <1>1 DEF BInv, Held
<1>3. Tail(todo[f]) \in Seq(Leaves)
  <2>1. todo[f] \in Seq(Leaves) /\ todo[f] # << >>
    BY <1>1 DEF BInv, Drawing
  <2> QED
    BY <2>1, HeadIsLeaf
<1>4. condition.symbols \subseteq Registered(builder)
  BY <1>2 DEF OneOf, Recorded, Registered
<1> HIDE DEF d
<1>5. /\ WellFormed(builder')
      /\ Grows(builder, builder')
      /\ condition \in builder'.assumptions
  BY <1>1, <1>4, AddAssumptionRecords DEF BInv
<1>6. Complete(builder', d)
  <2>1. builder.variables \in Seq(Variable) /\ builder'.variables \in Seq(Variable)
    BY <1>5 DEF BInv, WellFormed, Shaped
  <2>2. Recorded(builder', d)
    BY <1>2, <1>5, <2>1, StaysComplete
  <2> QED
    BY <2>2, <1>5 DEF Complete, Recorded, Constraints
<1>7. phase = "Compiled" => d.symbol \notin Registered(program)
  BY <1>1 DEF BInv, Copied, d
<1> QED
  BY <1>1, <1>3, <1>5, <1>6, <1>7, DeliverKeeps

\* Every step preserves the invariant.
LEMMA NextBInv == BInv /\ [Next]_vars => BInv'
<1> SUFFICES ASSUME BInv, [Next]_vars PROVE BInv'
  OBVIOUS
<1>1. ASSUME NEW f \in Fibers, NEW schema \in Schemas, Ask(f, schema) PROVE BInv'
  <2>1. schema \in Seq(Leaves)
    BY SchemasAssumption
  <2>2. Drawing'
    BY <1>1, <2>1 DEF Ask, AtUserCode, BInv, Drawing
  <2> QED
    BY <1>1, <2>2, DropKeeps DEF Ask
<1>2. ASSUME NEW f \in Fibers, AllocateLeaf(f) PROVE BInv'
  BY <1>2, AllocateLeafKeeps
<1>3. ASSUME NEW f \in Fibers, ConstrainChoice(f) PROVE BInv'
  BY <1>3, ConstrainChoiceKeeps
<1>4. ASSUME NEW f \in Fibers, DefectRecovered(f) PROVE BInv'
  <2>0. /\ todo'[f] = << >> /\ drawn'[f] = {} /\ choosing[f] = None
        /\ \A g \in Fibers \ {f} : todo'[g] = todo[g] /\ drawn'[g] = drawn[g]
        /\ todo' = [g \in Fibers |-> todo'[g]]
        /\ drawn' = [g \in Fibers |-> drawn'[g]]
        /\ UNCHANGED <<choosing, status>>
    <3>1. /\ todo' = [todo EXCEPT ![f] = << >>]
          /\ drawn' = [drawn EXCEPT ![f] = {}]
          /\ choosing[f] = None
          /\ UNCHANGED <<choosing, status>>
      BY <1>4 DEF DefectRecovered
    <3>2. todo = [g \in Fibers |-> todo[g]] /\ drawn = [g \in Fibers |-> drawn[g]]
      BY DEF BInv, Drawing
    <3> QED
      BY <3>1, <3>2
  <2>1. Drawing'
    <3>1. \A g \in Fibers :
              /\ todo'[g] \in Seq(Leaves)
              /\ choosing'[g] # None => todo'[g] # << >> /\ choosing'[g].leaf \in Leaves
              /\ todo'[g] = << >> => drawn'[g] = {}
              /\ status'[g] # "Running" =>
                    todo'[g] = << >> /\ choosing'[g] = None /\ drawn'[g] = {}
      <4>1. << >> \in Seq(Leaves)
        OBVIOUS
      <4>2. ASSUME NEW g \in Fibers \ {f}
            PROVE  /\ todo'[g] \in Seq(Leaves)
                   /\ choosing'[g] # None => todo'[g] # << >> /\ choosing'[g].leaf \in Leaves
                   /\ todo'[g] = << >> => drawn'[g] = {}
                   /\ status'[g] # "Running" =>
                         todo'[g] = << >> /\ choosing'[g] = None /\ drawn'[g] = {}
        BY <2>0 DEF BInv, Drawing
      <4> QED
        BY <2>0, <4>1, <4>2
    <3>2. choosing' = [g \in Fibers |-> choosing'[g]] /\ status' = [g \in Fibers |-> status'[g]]
      BY <2>0 DEF BInv, Drawing
    <3> QED
      BY <2>0, <3>1, <3>2 DEF Drawing
  <2>2. \A g \in Fibers : /\ drawn'[g] \subseteq drawn[g]
                          /\ choosing'[g] \in {choosing[g], None}
    BY <1>4 DEF DefectRecovered, BInv, Drawing
  <2> QED
    BY <1>4, <2>1, <2>2, DropKeeps DEF DefectRecovered
<1>5. ASSUME NEW f \in Fibers, NEW symbols \in SUBSET Symbols, Assume(f, symbols) PROVE BInv'
  <2>1. Condition(symbols).symbols \subseteq Registered(builder)
    BY HandedRegistered DEF Condition
  <2>2. WellFormed(builder') /\ Grows(builder, builder')
    BY <1>5, <2>1, AddAssumptionRecords DEF Assume, BInv
  <2> QED
    BY <1>5, <2>2, GrowKeeps DEF Assume
<1>6. ASSUME NEW f \in Fibers, NEW symbols \in SUBSET Symbols, Assert(f, symbols) PROVE BInv'
  <2>1. symbols \subseteq Registered(builder)
    BY HandedRegistered
  <2>2. WellFormed(builder') /\ Grows(builder, builder')
    BY <1>6, <2>1, AddAssertionRecords DEF Assert, BInv
  <2> QED
    BY <1>6, <2>2, GrowKeeps DEF Assert
<1>7. ASSUME NEW f \in Fibers, NEW g \in Fibers, Fork(f, g) PROVE BInv'
  <2>1. Drawing'
    BY <1>7 DEF Fork, BInv, Drawing
  <2> QED
    BY <1>7, <2>1, DropKeeps DEF Fork
<1>8. ASSUME NEW f \in Fibers, Suspend(f) \/ Resume(f) PROVE BInv'
  <2>1. UNCHANGED <<builder, todo, choosing, drawn, handed, phase, program>>
    BY <1>8 DEF Suspend, Resume
  <2>2. Drawing'
    <3>1. CASE Suspend(f)
      <4>1. todo[f] = << >> /\ choosing[f] = None /\ status[f] = "Running"
        BY <3>1 DEF Suspend, AtUserCode
      <4>2. drawn[f] = {}
        BY <4>1 DEF BInv, Drawing
      <4> QED
        BY <3>1, <4>1, <4>2 DEF Suspend, BInv, Drawing
    <3>2. CASE Resume(f)
      BY <3>2 DEF Resume, BInv, Drawing
    <3> QED
      BY <1>8, <3>1, <3>2
  <2> QED
    BY <2>1, <2>2, DropKeeps
<1>9. ASSUME NEW f \in Fibers, NEW interrupted \in SUBSET Fibers,
             DefectKills(f, interrupted) \/ End(f, interrupted)
      PROVE  BInv'
  <2>1. PICK how \in {"Died", "Ended"} : Stop(f, how, interrupted)
    BY <1>9 DEF DefectKills, End
  <2>2. /\ Drawing'
        /\ \A g \in Fibers : /\ drawn'[g] \subseteq drawn[g]
                             /\ choosing'[g] \in {choosing[g], None}
    BY <2>1, StopDrops
  <2> QED
    BY <1>9, <2>2, DropKeeps DEF DefectKills, End
<1>10. CASE Compile
  <2>1. Drawing' /\ Held'
    BY <1>10 DEF Compile, fiberVars, BInv, Drawing, Held
  <2>2. Copied'
    <3> SUFFICES ASSUME phase' = "Compiled" PROVE Copied'
      BY DEF Copied
    <3>1. program' = ToProgram(builder)
      BY <1>10 DEF Compile
    <3>2. /\ Registered(program') = Registered(builder)
          /\ Mentioned(program') = Mentioned(builder)
          /\ program'.variables = builder.variables
          /\ program'.assumptions = builder.assumptions
      BY <3>1 DEF ToProgram, Registered, Mentioned
    <3>3. \A f \in Fibers : drawn'[f] = {} /\ choosing'[f] = None
      BY <1>10 DEF Compile, fiberVars, BInv, Drawing
    <3>4. \A d \in handed' : Constraints(d) \subseteq program'.assumptions
      BY <1>10, <3>2 DEF Compile, BInv, Held, Complete
    <3>5. Len(program'.variables) <= Len(builder'.variables)
      <4>1. Len(builder.variables) \in Nat /\ builder' = builder
        BY <1>10 DEF Compile, BInv, WellFormed, Shaped
      <4> QED
        BY <3>2, <4>1
    <3>6. (\A d \in handed : Frozen(d))'
      BY <3>4 DEF Frozen, Constraints
    <3> QED
      BY <3>2, <3>3, <3>5, <3>6 DEF Copied, BInv, WellFormed, Shaped
  <2> QED
    BY <1>10, <2>1, <2>2 DEF Compile, BInv
<1>11. CASE UNCHANGED vars
  <2>1. Drawing'
    BY <1>11 DEF vars, BInv, Drawing
  <2> QED
    BY <1>11, <2>1, DropKeeps DEF vars
<1> QED
  BY <1>1, <1>2, <1>3, <1>4, <1>5, <1>6, <1>7, <1>8, <1>9, <1>10, <1>11 DEF Next

\* The invariant holds of every reachable state.
LEMMA SpecBInv == Spec => []BInv
<1>1. Init => BInv
  BY InitBInv
<1>2. BInv /\ [Next]_vars => BInv'
  BY NextBInv
<1> QED
  BY <1>1, <1>2, PTL DEF Spec

-----------------------------------------------------------------------------
(* Powers of two.  PowerOfTwo is chosen to satisfy an equation; that there *)
(* is such a function is proved by induction.                              *)

\* A set of natural numbers that is not empty has a least one.
LEMMA LeastNat ==
    ASSUME NEW T \in SUBSET Nat, T # {}
    PROVE  \E m \in T : \A n \in T : m <= n
<1> DEFINE R == OpToRel(<, Nat)
<1>1. IsWellFoundedOn(R, Nat)
  BY NatLessThanWellFounded
<1>2. \A a, b \in Nat : <<a, b>> \in R <=> a < b
  BY DEF OpToRel
<1> HIDE DEF R
<1>3. PICK m \in T : \A n \in T : ~(<<n, m>> \in R)
  BY <1>1, WFMin
<1>4. m \in Nat /\ \A n \in T : n \in Nat
  OBVIOUS
<1>5. ASSUME NEW n \in T PROVE m <= n
  <2>1. ~(n < m)
    BY <1>2, <1>3, <1>4, Zenon
  <2> QED
    BY <1>4, <2>1
<1> QED
  BY <1>5

\* Induction, for a set: one that holds 0 and, with a number, the next, holds every number.
LEMMA SetInduction ==
    ASSUME NEW T, 0 \in T, \A n \in Nat : n \in T => n + 1 \in T
    PROVE  \A n \in Nat : n \in T
<1> SUFFICES ASSUME NEW k \in Nat, k \notin T PROVE FALSE
  OBVIOUS
<1>1. PICK m \in Nat \ T : \A n \in Nat \ T : m <= n
  BY LeastNat
<1>2. m # 0 /\ m - 1 \in Nat
  OBVIOUS
<1>3. m - 1 \in T
  BY <1>1, <1>2
<1> QED
  BY <1>2, <1>3

\* f is a power of two up to n.
Doubles(f, n) == f[0] = 1 /\ \A m \in 1..n : f[m] = 2 * f[m - 1]

\* There are such functions, for every n.
LEMMA DoublesExists == \A n \in Nat : \E f \in [Nat -> Nat] : Doubles(f, n)
<1> DEFINE T == {n \in Nat : \E f \in [Nat -> Nat] : Doubles(f, n)}
<1>1. 0 \in T
  <2> DEFINE f == [n \in Nat |-> 1]
  <2>1. f \in [Nat -> Nat] /\ Doubles(f, 0)
    BY DEF Doubles
  <2> QED
    BY <2>1
<1>2. ASSUME NEW n \in Nat, n \in T PROVE n + 1 \in T
  <2>1. PICK f \in [Nat -> Nat] : Doubles(f, n)
    BY <1>2
  <2> DEFINE g == [f EXCEPT ![n + 1] = 2 * f[n]]
  <2>2. g \in [Nat -> Nat] /\ g[n + 1] = 2 * f[n] /\ \A m \in 0..n : g[m] = f[m]
    OBVIOUS
  <2>3. Doubles(g, n + 1)
    <3>1. g[0] = 1
      BY <2>1, <2>2 DEF Doubles
    <3>2. ASSUME NEW m \in 1..(n + 1) PROVE g[m] = 2 * g[m - 1]
      <4>1. CASE m = n + 1
        BY <2>2, <4>1
      <4>2. CASE m \in 1..n
        <5>1. m \in 0..n /\ m - 1 \in 0..n
          BY <4>2
        <5> QED
          BY <2>1, <2>2, <4>2, <5>1 DEF Doubles
      <4> QED
        BY <4>1, <4>2
    <3> QED
      BY <3>1, <3>2 DEF Doubles
  <2> HIDE DEF g
  <2>4. \E e \in [Nat -> Nat] : Doubles(e, n + 1)
    BY <2>2, <2>3
  <2> QED
    BY <2>4
<1> HIDE DEF T
<1>3. \A n \in Nat : n \in T
  BY <1>1, <1>2, SetInduction
<1> QED
  BY <1>3 DEF T

\* They agree as far as both go.
LEMMA DoublesUnique ==
    ASSUME NEW f, NEW g, NEW n \in Nat, Doubles(f, n), NEW p \in Nat, n <= p, Doubles(g, p)
    PROVE  \A m \in 0..n : f[m] = g[m]
<1> DEFINE T == {m \in Nat : m <= n => f[m] = g[m]}
<1>1. 0 \in T
  BY DEF Doubles
<1>2. ASSUME NEW m \in Nat, m \in T PROVE m + 1 \in T
  <2> SUFFICES ASSUME m + 1 <= n PROVE f[m + 1] = g[m + 1]
    OBVIOUS
  <2>1. f[m] = g[m] /\ m + 1 \in 1..n /\ m + 1 \in 1..p /\ (m + 1) - 1 = m
    BY <1>2
  <2> QED
    BY <2>1 DEF Doubles
<1> HIDE DEF T
<1>3. \A m \in Nat : m \in T
  BY <1>1, <1>2, SetInduction
<1> QED
  BY <1>3 DEF T

\* The equation of PowerOfTwo has a solution, hence PowerOfTwo is one.
LEMMA PowerOfTwoDef ==
    /\ PowerOfTwo \in [Nat -> Nat]
    /\ PowerOfTwo[0] = 1
    /\ \A n \in Nat : PowerOfTwo[n + 1] = 2 * PowerOfTwo[n]
<1> DEFINE approx(n) == CHOOSE f \in [Nat -> Nat] : Doubles(f, n)
           h == [n \in Nat |-> approx(n)[n]]
<1>1. \A n \in Nat : approx(n) \in [Nat -> Nat] /\ Doubles(approx(n), n)
  BY DoublesExists
<1>2. h \in [Nat -> Nat]
  BY <1>1
<1>3. h[0] = 1
  BY <1>1 DEF Doubles
<1>4. ASSUME NEW n \in Nat, n # 0 PROVE h[n] = 2 * h[n - 1]
  <2>1. n - 1 \in Nat /\ n \in 1..n /\ n - 1 \in 0..(n - 1) /\ n - 1 <= n
    BY <1>4
  <2> HIDE DEF approx
  <2>2. approx(n)[n] = 2 * approx(n)[n - 1]
    BY <1>1, <2>1 DEF Doubles
  <2>3. approx(n - 1)[n - 1] = approx(n)[n - 1]
    BY <1>1, <2>1, DoublesUnique
  <2> QED
    BY <2>1, <2>2, <2>3
<1>5. h = [n \in Nat |-> IF n = 0 THEN 1 ELSE 2 * h[n - 1]]
  <2> HIDE DEF h
  <2>1. \A n \in Nat : h[n] = IF n = 0 THEN 1 ELSE 2 * h[n - 1]
    BY <1>3, <1>4
  <2> QED
    BY <1>2, <2>1
<1> HIDE DEF h
<1>6. PowerOfTwo = [n \in Nat |-> IF n = 0 THEN 1 ELSE 2 * PowerOfTwo[n - 1]]
  BY <1>5 DEF PowerOfTwo
<1>7. PowerOfTwo[0] = 1 /\ \A n \in Nat : PowerOfTwo[n + 1] = 2 * PowerOfTwo[n]
  BY <1>6
<1>8. \A n \in Nat : PowerOfTwo[n] \in Nat
  <2> DEFINE T == {n \in Nat : PowerOfTwo[n] \in Nat}
  <2>1. 0 \in T /\ \A n \in Nat : n \in T => n + 1 \in T
    BY <1>7
  <2> HIDE DEF T
  <2>2. \A n \in Nat : n \in T
    BY <2>1, SetInduction
  <2> QED
    BY <2>2 DEF T
<1>9. PowerOfTwo \in [Nat -> Nat]
  BY <1>6, <1>8
<1> QED
  BY <1>7, <1>9

\* Powers of two are positive and grow.
LEMMA PowerOfTwoGrows ==
    ASSUME NEW n \in Nat
    PROVE  /\ PowerOfTwo[n] >= 1
           /\ \A m \in 0..n : PowerOfTwo[m] <= PowerOfTwo[n]
<1> DEFINE T == {k \in Nat : PowerOfTwo[k] >= 1 /\ \A m \in 0..k : PowerOfTwo[m] <= PowerOfTwo[k]}
<1>1. 0 \in T
  BY PowerOfTwoDef
<1>2. ASSUME NEW k \in Nat, k \in T PROVE k + 1 \in T
  <2>1. PowerOfTwo[k + 1] = 2 * PowerOfTwo[k] /\ PowerOfTwo[k] \in Nat /\ PowerOfTwo[k + 1] \in Nat
    BY PowerOfTwoDef
  <2>2. ASSUME NEW m \in 0..(k + 1) PROVE PowerOfTwo[m] <= PowerOfTwo[k + 1]
    <3>1. CASE m = k + 1
      BY <2>1, <3>1
    <3>2. CASE m \in 0..k
      <4>1. PowerOfTwo[m] <= PowerOfTwo[k] /\ PowerOfTwo[m] \in Nat
        BY <1>2, <3>2, PowerOfTwoDef
      <4> QED
        BY <2>1, <4>1
    <3> QED
      BY <3>1, <3>2
  <2>3. PowerOfTwo[k + 1] >= 1
    BY <1>2, <2>1
  <2> QED
    BY <2>2, <2>3
<1> HIDE DEF T
<1>3. n \in T
  BY <1>1, <1>2, SetInduction
<1> QED
  BY <1>3 DEF T

-----------------------------------------------------------------------------
(* The theorems.                                                           *)

(***************************************************************************)
(* Every symbol user code holds denotes its own variable (registerVariable,*)
(* the sort each allocate method gives it, and the name it reports).       *)
(***************************************************************************)
THEOREM SymbolsDenoteTheorem == Spec => []SymbolsDenote
<1>1. BInv => SymbolsDenote
  <2> SUFFICES ASSUME BInv PROVE SymbolsDenote
    OBVIOUS
  <2>1. NamesDistinct
    BY DEF BInv, WellFormed, Named, NamesDistinct
  <2>2. ASSUME NEW d \in handed PROVE Denotes(d)
    <3>1. PICK i \in DOMAIN builder.variables :
              /\ d.symbol = Symbol(builder.variables[i].id, builder.variables[i].sort)
              /\ d.name = builder.variables[i].name
      BY DEF BInv, Held, Complete, Recorded
    <3>2. \A j \in DOMAIN builder.variables : builder.variables[j].id = j - 1
      BY DEF BInv, WellFormed, IdsArePositions
    <3>3. DOMAIN builder.variables \subseteq Int
      BY DEF BInv, WellFormed, Shaped
    <3> QED
      BY <3>1, <3>2, <3>3 DEF Denotes, Symbol
  <2> QED
    BY <2>1, <2>2 DEF SymbolsDenote
<1> QED
  BY <1>1, SpecBInv, PTL

(***************************************************************************)
(* toProgram copies a closed program: the formulas mention its inputs only.*)
(***************************************************************************)
THEOREM ProgramClosedTheorem == Spec => []ProgramClosed
<1>1. BInv => ProgramClosed
  BY DEF BInv, Copied, ProgramClosed
<1> QED
  BY <1>1, SpecBInv, PTL

(***************************************************************************)
(* toProgram never copies an input without the bounds and the choice it was*)
(* declared with, if a formula mentions it.                                *)
(***************************************************************************)
THEOREM ProgramConstrainedTheorem == Spec => []ProgramConstrained
<1>1. BInv => ProgramConstrained
  <2> SUFFICES ASSUME BInv, phase = "Compiled",
                      NEW c \in UserConditions(program), NEW d \in handed,
                      d.symbol \in c.symbols
               PROVE  Constraints(d) \subseteq program.assumptions
    BY DEF ProgramConstrained
  <2>1. c.symbols \subseteq Mentioned(program)
    BY DEF UserConditions, Mentioned
  <2>2. d.symbol \in Registered(program)
    BY <2>1 DEF BInv, Copied
  <2> QED
    BY <2>2 DEF BInv, Copied, Frozen
<1> QED
  BY <1>1, SpecBInv, PTL

\* A fiber is in one of its states, and compileProof has one of its answers.
StatesOK ==
    /\ status \in [Fibers -> {"Unborn", "Running", "Suspended", "Ended", "Died"}]
    /\ phase \in {"Running", "Compiled", "ProofCompileError"}

LEMMA StatesStayOK == StatesOK /\ [Next]_vars => StatesOK'
<1> SUFFICES ASSUME StatesOK, [Next]_vars PROVE StatesOK'
  OBVIOUS
<1> USE DEF StatesOK
<1>1. ASSUME NEW f \in Fibers, NEW interrupted, NEW how \in {"Died", "Ended"},
             Stop(f, how, interrupted)
      PROVE  status' \in [Fibers -> {"Unborn", "Running", "Suspended", "Ended", "Died"}]
  <2>1. status' = [g \in Fibers |-> CASE g = f -> how
                                      [] g \in interrupted -> "Ended"
                                      [] OTHER -> status[g]]
    BY <1>1 DEF Stop
  <2>2. \A g \in Fibers : (CASE g = f -> how
                             [] g \in interrupted -> "Ended"
                             [] OTHER -> status[g])
                          \in {"Unborn", "Running", "Suspended", "Ended", "Died"}
    OBVIOUS
  <2> QED
    BY <2>1, <2>2
<1>2. ASSUME NEW f \in Fibers, NEW interrupted \in SUBSET Fibers,
             DefectKills(f, interrupted) \/ End(f, interrupted)
      PROVE  StatesOK'
  BY <1>1, <1>2 DEF DefectKills, End
<1>3. ASSUME NEW f \in Fibers,
             (\E schema \in Schemas : Ask(f, schema)) \/ AllocateLeaf(f)
               \/ ConstrainChoice(f) \/ DefectRecovered(f)
               \/ (\E symbols \in SUBSET Symbols : Assume(f, symbols) \/ Assert(f, symbols))
      PROVE  StatesOK'
  <2>1. UNCHANGED <<status, phase>>
    BY <1>3 DEF Ask, AllocateLeaf, ConstrainChoice, DefectRecovered, Assume, Assert, fiberVars
  <2> QED
    BY <2>1
<1>4. ASSUME NEW f \in Fibers, (\E g \in Fibers : Fork(f, g)) \/ Suspend(f) \/ Resume(f)
      PROVE  StatesOK'
  BY <1>4 DEF Fork, Suspend, Resume
<1>5. CASE Compile
  BY <1>5 DEF Compile, fiberVars
<1>6. CASE UNCHANGED vars
  BY <1>6 DEF vars
<1> QED
  BY <1>2, <1>3, <1>4, <1>5, <1>6 DEF Next

\* Type correctness of the builder: only a running fiber is drawing an input.
THEOREM BuilderTypeCorrect == Spec => []TypeOK
<1>1. Init => StatesOK
  BY FibersAssumption DEF Init, StatesOK
<1>2. BInv /\ StatesOK => TypeOK
  BY DEF BInv, WellFormed, Shaped, Drawing, StatesOK, TypeOK
<1> QED
  BY <1>1, <1>2, StatesStayOK, SpecBInv, PTL DEF Spec

\* The domain of a request that is not refused is one the backend accepts.
LEMMA ValidAccepted ==
    ASSUME NEW request, IsRequest(request), Valid(request), NEW d, d = DomainOf(request)
    PROVE  IF d.sort = "Int"
             THEN Safe(d.minimum) /\ Safe(d.maximum) /\ Ordered(d.minimum, d.maximum)
             ELSE d.minimum = None /\ d.maximum = None
<1>1. CASE request.kind = "integer"
  <2>1. d = Domain("Int", request.minimum, request.maximum)
    BY <1>1 DEF DomainOf
  <2> QED
    BY <1>1, <2>1 DEF Domain, Valid
<1>2. CASE request.kind = "uint"
  <2>1. request.bits \in 1..MaxBits /\ MaxBits \in Nat /\ request.bits \in 0..MaxBits
    BY <1>2, BuilderAssumption DEF Valid
  <2>2. /\ PowerOfTwo[request.bits] \in Nat /\ PowerOfTwo[MaxBits] \in Nat
        /\ PowerOfTwo[request.bits] >= 1
        /\ PowerOfTwo[request.bits] <= PowerOfTwo[MaxBits]
    BY <2>1, PowerOfTwoDef, PowerOfTwoGrows
  <2>3. d = Domain("Int", 0, PowerOfTwo[request.bits] - 1)
    BY <1>2 DEF DomainOf
  <2> QED
    BY <2>2, <2>3, BuilderAssumption DEF Domain, Safe, Ordered
<1>3. CASE request.kind = "int"
  <2> DEFINE n == request.bits - 1
  <2>1. n \in Nat /\ n \in 0..MaxBits /\ MaxBits \in Nat /\ n + 1 \in 0..MaxBits
    BY <1>3, BuilderAssumption DEF Valid
  <2>2. /\ PowerOfTwo[n] \in Nat /\ PowerOfTwo[n] >= 1
        /\ PowerOfTwo[n + 1] = 2 * PowerOfTwo[n]
        /\ PowerOfTwo[n + 1] <= PowerOfTwo[MaxBits]
        /\ PowerOfTwo[MaxBits] \in Nat
    BY <2>1, PowerOfTwoDef, PowerOfTwoGrows
  <2>3. d = Domain("Int", -PowerOfTwo[n], PowerOfTwo[n] - 1)
    BY <1>3 DEF DomainOf
  <2> HIDE DEF n
  <2> QED
    BY <2>2, <2>3, BuilderAssumption DEF Domain, Safe, Ordered
<1>4. CASE request.kind \notin {"integer", "uint", "int"}
  <2>1. request \in {BooleanRequest, StringRequest}
    BY <1>4 DEF IsRequest
  <2>2. d.sort # "Int" /\ d.minimum = None /\ d.maximum = None
    BY <2>1 DEF DomainOf, Domain, BooleanRequest, StringRequest
  <2> QED
    BY <2>2
<1> QED
  BY <1>1, <1>2, <1>3, <1>4

(***************************************************************************)
(* registerVariables of the backend refuses no input of a proof: the widest*)
(* bit domain validateBits lets through is still within the safe integers, *)
(* for any widest domain, and ids are distinct.                            *)
(***************************************************************************)
THEOREM InputsAcceptedTheorem == Spec => []InputsAccepted
<1>1. BInv => InputsAccepted
  <2> SUFFICES ASSUME BInv PROVE Accepts(builder.variables)
    BY DEF InputsAccepted
  <2>1. builder.variables \in Seq(Variable)
    BY DEF BInv, WellFormed, Shaped
  <2>2. \A i, j \in DOMAIN builder.variables :
            builder.variables[i].id = builder.variables[j].id => i = j
    <3>1. DOMAIN builder.variables \subseteq Int
      BY <2>1
    <3> QED
      BY <3>1 DEF BInv, WellFormed, IdsArePositions
  <2>3. ASSUME NEW i \in DOMAIN builder.variables, NEW v, v = builder.variables[i]
        PROVE  IF v.sort = "Int"
                 THEN Safe(v.minimum) /\ Safe(v.maximum) /\ Ordered(v.minimum, v.maximum)
                 ELSE v.minimum = None /\ v.maximum = None
    <3>1. v \in Variable
      BY <2>1, <2>3
    <3>2. PICK d \in InputDomains : v.sort = d.sort /\ v.minimum = d.minimum
                                    /\ v.maximum = d.maximum
      BY <3>1 DEF Variable
    <3>3. PICK leaf \in Leaves : Valid(leaf.request) /\ d = DomainOf(leaf.request)
      BY DEF InputDomains
    <3>4. IsRequest(leaf.request)
      BY SchemasAssumption
    <3> QED
      BY <3>2, <3>3, <3>4, ValidAccepted
  <2> QED
    BY <2>2, <2>3 DEF Accepts
<1> QED
  BY <1>1, SpecBInv, PTL
-----------------------------------------------------------------------------
(***************************************************************************)
(* Source proofs.  What a proof about a source function says, for any      *)
(* proof, declaration and body: the program compileSourceProof returns     *)
(* ranges over exactly the arguments isValidSourceInputs accepts, its      *)
(* assertion sees what the function does with them, and its                *)
(* counterexamples name them as the source does; and the function is the   *)
(* one the proof was typed by.                                             *)
(*                                                                         *)
(* The argument: the inputs are the first variables of the proof, in the   *)
(* order of the domains, so that the k-th parameter is bound to the k-th of*)
(* them; the body is a function of the parameters, so that the arguments   *)
(* determine everything else in a world.  The builder's assumptions repeat *)
(* the bounds of the domains and exclude nothing more.                     *)
(***************************************************************************)

\* The number of inputs, and the variable of the k-th.
Arity == Len(options.domains)

Input(k) ==
    LET domain == DomainOf(options.domains[k])
    IN  [id |-> k - 1, name |-> Generated(k - 1), sort |-> domain.sort,
         minimum |-> domain.minimum, maximum |-> domain.maximum]

InputAssumptions(k) ==
    UNION {BoundConditions(Symbol(j - 1, Input(j).sort), Input(j)) : j \in 1..k}

\* The builder after k inputs, in closed form.
BuilderAfter(k) ==
    [variables      |-> [j \in 1..k |-> Input(j)],
     assumptions    |-> InputAssumptions(k),
     assertions     |-> << >>,
     names          |-> {Generated(j - 1) : j \in 1..k},
     nextVariableId |-> k]

\* The variables that stand for the outcome, and those of the proof.
Outcome(id, text, sort) ==
    [id |-> id, name |-> NameOf(text), sort |-> sort, minimum |-> None, maximum |-> None]

ResultName == IF IsEffect THEN "successValue" ELSE "result"

VariableCount == Arity + (IF IsEffect THEN 3 ELSE 1)

\* What a proof recorded of its inputs and its outcome.
Shape(p) ==
    LET vs == p.program.variables
    IN  /\ DOMAIN vs = 1..VariableCount /\ Len(vs) = VariableCount
        /\ \A k \in 1..Arity : vs[k] = Input(k)
        /\ vs[Arity + 1] = Outcome(Arity, ResultName, ResultDomain.sort)
        /\ IsEffect => /\ vs[Arity + 2] = Outcome(Arity + 1, "outcomeTag", "String")
                       /\ vs[Arity + 3] = Outcome(Arity + 2, "failureTag", "String")
                       /\ p.tagVariableId = Arity + 1
                       /\ p.failureTagVariableId = Arity + 2
        /\ p.resultVariableId = Arity
        /\ p.resultSort = ResultSort
        /\ p.reserved = Arity..(VariableCount - 1)
        /\ p.program = [variables   |-> vs,
                        assumptions |-> InputAssumptions(Arity),
                        assertions  |-> p.program.assertions]

(***************************************************************************)
(* The inductive invariant.                                                *)
(***************************************************************************)
AfterBody == {"Assemble", "Compiled"}

AfterParameters == {"Body"} \cup AfterBody

AfterSignature == {"Parameters"} \cup AfterParameters

UpToSignature == {"Declare", "Identify", "Find", "Signature"}

AfterDeclare == (UpToSignature \ {"Declare"}) \cup AfterSignature

Matched ==
    /\ declaration.returns \in {"Int", "Bool"}
    /\ proof.resultSort = declaration.returns
    /\ Len(declaration.parameters) = Arity

\* The first k parameters are bound to the first k inputs.
BoundTo(k) ==
    /\ DOMAIN parameterNames = 0..(k - 1)
    /\ DOMAIN inputs = {declaration.parameters[j].name : j \in 1..k}
    /\ \A j \in 1..k :
          LET parameter == declaration.parameters[j]
          IN  /\ parameterNames[j - 1] = parameter.name
              /\ inputs[parameter.name] = Input(j)
              /\ parameter.name \notin Reserved
              /\ InputTerm(parameter, Input(j))
    /\ \A i, j \in 1..k :
          declaration.parameters[i].name = declaration.parameters[j].name => i = j

Assembled ==
    LET vs == proof.program.variables
    IN  /\ compiled.variables = [i \in DOMAIN vs |-> Renamed(vs[i])]
        /\ compiled.assumptions = proof.program.assumptions

SourceInv ==
    /\ options \in Options /\ declaration \in Declarations
    /\ pc \in UpToSignature => DOMAIN inputs = {} /\ DOMAIN parameterNames = {}
    /\ pc \in AfterDeclare => Shape(proof)
    /\ pc \in AfterSignature => Matched /\ \E k \in 0..Arity : BoundTo(k)
    /\ pc \in AfterParameters => BoundTo(Arity)
    /\ pc \in AfterBody => body \in Bodies /\ body.sort = declaration.returns
    /\ pc = "Compiled" => Assembled

-----------------------------------------------------------------------------
(* Construction.                                                           *)

LEMMA OptionsShape ==
    ASSUME options \in Options
    PROVE  /\ Arity \in Nat /\ DOMAIN options.domains = 1..Arity
           /\ \A k \in 1..Arity : options.domains[k] \in Requests
<1>1. options.domains \in Seq(Requests)
  BY OptionsAssumption
<1> QED
  BY <1>1 DEF Arity

\* What an allocation makes of a builder.
LEMMA AllocateIs ==
    ASSUME NEW name, NEW domain, NEW b,
           b = [variables |-> b.variables, assumptions |-> b.assumptions,
                assertions |-> << >>, names |-> b.names,
                nextVariableId |-> b.nextVariableId],
           NameFor(b, name) = name
    PROVE  Allocate(b, name, domain)
             = [variables |-> Append(b.variables,
                                     [id |-> b.nextVariableId, name |-> name,
                                      sort |-> domain.sort, minimum |-> domain.minimum,
                                      maximum |-> domain.maximum]),
                assumptions |-> b.assumptions \cup
                    BoundConditions(Symbol(b.nextVariableId, domain.sort), domain),
                assertions |-> << >>,
                names |-> b.names \cup {name},
                nextVariableId |-> b.nextVariableId + 1]
<1> DEFINE v == [id |-> b.nextVariableId, name |-> name, sort |-> domain.sort,
                 minimum |-> domain.minimum, maximum |-> domain.maximum]
           c == RegisterVariable(b, name, domain)
<1>1. b.assertions = << >>
  OBVIOUS
<1> HIDE DEF v
<1>2. c = [b EXCEPT !.variables = Append(@, v), !.names = @ \cup {name},
                    !.nextVariableId = @ + 1]
  BY DEF RegisterVariable, v
<1>3. c = [variables |-> Append(b.variables, v), assumptions |-> b.assumptions,
           assertions |-> << >>, names |-> b.names \cup {name},
           nextVariableId |-> b.nextVariableId + 1]
  BY <1>1, <1>2
<1> HIDE DEF c
<1>4. Allocate(b, name, domain)
        = [c EXCEPT !.assumptions = @ \cup BoundConditions(NextSymbol(b, domain), domain)]
  BY DEF Allocate, c
<1>5. NextSymbol(b, domain) = Symbol(b.nextVariableId, domain.sort)
  BY DEF NextSymbol
<1>6. Allocate(b, name, domain)
        = [variables |-> Append(b.variables, v),
           assumptions |-> b.assumptions \cup
               BoundConditions(Symbol(b.nextVariableId, domain.sort), domain),
           assertions |-> << >>, names |-> b.names \cup {name},
           nextVariableId |-> b.nextVariableId + 1]
  BY <1>3, <1>4, <1>5
<1> QED
  BY <1>6 DEF v

\* One more input.
LEMMA BuilderGrows ==
    ASSUME NEW k \in Nat
    PROVE  Allocate(BuilderAfter(k), Generated(Len(BuilderAfter(k).variables)),
                    DomainOf(options.domains[k + 1])) = BuilderAfter(k + 1)
<1> DEFINE domain == DomainOf(options.domains[k + 1])
           b == BuilderAfter(k)
           c == BuilderAfter(k + 1)
           variable == [id |-> k, name |-> Generated(k), sort |-> domain.sort,
                        minimum |-> domain.minimum, maximum |-> domain.maximum]
<1>1. Input(k + 1) = variable
  BY DEF Input
<1>2. Len(b.variables) = k /\ b.nextVariableId = k
  BY DEF BuilderAfter
<1>3. Append(b.variables, variable) = c.variables
  BY <1>1 DEF BuilderAfter
<1>4. b.names \cup {Generated(k)} = c.names
  <2>1. \A j \in 1..(k + 1) : j \in 1..k \/ j = k + 1
    OBVIOUS
  <2> QED
    BY <2>1 DEF BuilderAfter, Generated
<1>5. BoundConditions(Symbol(k, domain.sort), domain)
        = BoundConditions(Symbol(k, Input(k + 1).sort), Input(k + 1))
  BY <1>1 DEF BoundConditions
<1>6. b.assumptions \cup BoundConditions(Symbol(k, domain.sort), domain) = c.assumptions
  <2>1. 1..(k + 1) = 1..k \cup {k + 1} /\ k + 1 - 1 = k
    OBVIOUS
  <2> QED
    BY <1>5, <2>1 DEF BuilderAfter, InputAssumptions
<1>7. NameFor(b, Generated(k)) = Generated(k)
  BY <1>2 DEF NameFor
<1>8. b = [variables |-> b.variables, assumptions |-> b.assumptions, assertions |-> << >>,
           names |-> b.names, nextVariableId |-> k]
  BY DEF BuilderAfter
<1>9. c = [variables |-> c.variables, assumptions |-> c.assumptions, assertions |-> << >>,
           names |-> c.names, nextVariableId |-> k + 1]
  BY DEF BuilderAfter
<1> HIDE DEF domain, b, c
<1>10. Allocate(b, Generated(k), domain)
         = [variables |-> Append(b.variables, variable),
            assumptions |-> b.assumptions \cup BoundConditions(Symbol(k, domain.sort), domain),
            assertions |-> << >>, names |-> b.names \cup {Generated(k)},
            nextVariableId |-> k + 1]
  BY <1>2, <1>7, <1>8, AllocateIs
<1> HIDE DEF variable
<1>11. Allocate(b, Generated(k), domain) = c
  BY <1>3, <1>4, <1>6, <1>9, <1>10
<1> QED
  BY <1>2, <1>11 DEF domain, b, c

\* The recursion of sourceFunction comes to the closed form.
LEMMA InputsAllocatedIs ==
    ASSUME options \in Options
    PROVE  AllocateInputs = BuilderAfter(Arity)
<1> DEFINE S == 0..Arity
           step(f, k) == LET b == f[k - 1]
                         IN  Allocate(b, Generated(Len(b.variables)),
                                      DomainOf(options.domains[k]))
           h == [k \in S |-> BuilderAfter(k)]
<1>1. Arity \in Nat
  BY OptionsShape
<1>2. BuilderAfter(0) = NewBuilder
  <2>1. 1..0 = {} /\ [j \in 1..0 |-> Input(j)] = << >>
    OBVIOUS
  <2>2. InputAssumptions(0) = {} /\ {Generated(j - 1) : j \in 1..0} = {}
    BY <2>1 DEF InputAssumptions
  <2> QED
    BY <2>1, <2>2 DEF BuilderAfter, NewBuilder
<1>3. ASSUME NEW k \in S, k # 0 PROVE BuilderAfter(k) = step(h, k)
  <2>1. k - 1 \in Nat /\ k - 1 \in S /\ (k - 1) + 1 = k
    BY <1>1, <1>3
  <2>2. h[k - 1] = BuilderAfter(k - 1)
    BY <2>1
  <2> QED
    BY <2>1, <2>2, BuilderGrows
<1>4. h = [k \in S |-> IF k = 0 THEN NewBuilder ELSE step(h, k)]
  <2> HIDE DEF step
  <2> QED
    BY <1>2, <1>3
<1> HIDE DEF h
<1>5. InputsAllocated = [k \in S |-> IF k = 0 THEN NewBuilder ELSE step(InputsAllocated, k)]
  BY <1>4 DEF InputsAllocated, Arity
<1> DEFINE T == {k \in Nat : k \in S => InputsAllocated[k] = BuilderAfter(k)}
<1>6. 0 \in T
  <2> HIDE DEF step
  <2>1. 0 \in S
    BY <1>1
  <2> QED
    BY <1>2, <1>5, <2>1
<1>7. ASSUME NEW k \in Nat, k \in T PROVE k + 1 \in T
  <2> SUFFICES ASSUME k + 1 \in S PROVE InputsAllocated[k + 1] = BuilderAfter(k + 1)
    OBVIOUS
  <2>1. k \in S /\ k + 1 # 0 /\ (k + 1) - 1 = k
    BY <1>1
  <2>2. InputsAllocated[k + 1] = step(InputsAllocated, k + 1)
    <3> HIDE DEF step
    <3> QED
      BY <1>5, <2>1
  <2>3. InputsAllocated[k] = BuilderAfter(k)
    BY <1>7, <2>1
  <2> QED
    BY <2>1, <2>2, <2>3, BuilderGrows
<1> HIDE DEF T
<1>8. \A k \in Nat : k \in T
  BY <1>6, <1>7, SetInduction
<1> QED
  BY <1>1, <1>8 DEF T, AllocateInputs, Arity

\* An outcome variable has no bounds, so that nothing is assumed of it.
LEMMA OutcomeDomains ==
    /\ ResultDomain.sort \in {"Int", "Bool"}
    /\ ResultSort \in {"Int", "Bool"} => ResultDomain.sort = ResultSort
    /\ ResultDomain.minimum = None /\ ResultDomain.maximum = None
    /\ LET d == DomainOf(StringRequest)
       IN  d.sort = "String" /\ d.minimum = None /\ d.maximum = None
BY DEF ResultDomain, DomainOf, IntegerRequest, BooleanRequest, StringRequest, Domain

\* A builder of m variables, with the assumptions on its inputs and no assertion.
Holds(b, m) ==
    /\ b = [variables |-> b.variables, assumptions |-> InputAssumptions(Arity),
            assertions |-> << >>, names |-> b.names, nextVariableId |-> m]
    /\ b.variables \in Seq({b.variables[i] : i \in 1..m})
    /\ Len(b.variables) = m

\* One more outcome variable.
LEMMA AllocateOutcome ==
    ASSUME NEW m \in Nat, NEW b, Holds(b, m), NEW domain,
           NEW text \in {"result", "successValue", "outcomeTag", "failureTag"},
           domain.minimum = None, domain.maximum = None
    PROVE  LET c == Allocate(b, NameOf(text), domain)
           IN  /\ Holds(c, m + 1)
               /\ \A i \in 1..m : c.variables[i] = b.variables[i]
               /\ c.variables[m + 1] = Outcome(m, text, domain.sort)
<1> DEFINE v == [id |-> b.nextVariableId, name |-> NameOf(text), sort |-> domain.sort,
                 minimum |-> domain.minimum, maximum |-> domain.maximum]
           bounds == BoundConditions(Symbol(b.nextVariableId, domain.sort), domain)
           S == {b.variables[i] : i \in 1..m} \cup {v}
           c == Allocate(b, NameOf(text), domain)
<1>1. NameFor(b, NameOf(text)) = NameOf(text)
  BY NamesAssumption DEF NameFor, OutcomeNames
<1>2. /\ b.nextVariableId = m /\ b.assumptions = InputAssumptions(Arity)
      /\ b = [variables |-> b.variables, assumptions |-> b.assumptions,
              assertions |-> << >>, names |-> b.names,
              nextVariableId |-> b.nextVariableId]
  BY DEF Holds
<1>3. bounds = {}
  BY DEF BoundConditions
<1>4. c = [variables |-> Append(b.variables, v),
           assumptions |-> b.assumptions \cup bounds,
           assertions |-> << >>, names |-> b.names \cup {NameOf(text)},
           nextVariableId |-> b.nextVariableId + 1]
  BY <1>1, <1>2, AllocateIs
<1>5. v = Outcome(m, text, domain.sort)
  BY <1>2 DEF Outcome
<1> HIDE DEF v, bounds, c
<1>6. c = [variables |-> Append(b.variables, v),
           assumptions |-> InputAssumptions(Arity),
           assertions |-> << >>, names |-> b.names \cup {NameOf(text)},
           nextVariableId |-> m + 1]
  BY <1>2, <1>3, <1>4
<1>7. b.variables \in Seq(S) /\ v \in S /\ Len(b.variables) = m
  <2>1. b.variables \in Seq({b.variables[i] : i \in 1..m}) /\ Len(b.variables) = m
    BY DEF Holds
  <2> QED
    BY <2>1
<1> HIDE DEF S
<1>8. /\ c.variables \in Seq(S) /\ Len(c.variables) = m + 1
      /\ \A i \in 1..m : c.variables[i] = b.variables[i]
      /\ c.variables[m + 1] = v
  BY <1>6, <1>7, AppendProperties
<1>9. c.variables \in Seq({c.variables[i] : i \in 1..(m + 1)})
  BY <1>8
<1>10. c = [variables |-> c.variables, assumptions |-> InputAssumptions(Arity),
            assertions |-> << >>, names |-> c.names, nextVariableId |-> m + 1]
  BY <1>6
<1> QED
  BY <1>5, <1>8, <1>9, <1>10 DEF Holds, c

\* The record of an assertion.
LEMMA AssertedProgram ==
    ASSUME NEW b, NEW condition
    PROVE  LET p == ToProgram(AddAssertion(b, condition))
           IN  p = [variables   |-> b.variables,
                    assumptions |-> b.assumptions,
                    assertions  |-> p.assertions]
BY DEF ToProgram, AddAssertion

\* The builder with its inputs and the value of the function.
WithValue == Allocate(AllocateInputs, NameOf(ResultName), ResultDomain)

LEMMA ValueAllocated ==
    ASSUME options \in Options
    PROVE  /\ Arity \in Nat /\ AllocateInputs.nextVariableId = Arity
           /\ Holds(WithValue, Arity + 1)
           /\ \A k \in 1..Arity : WithValue.variables[k] = Input(k)
           /\ WithValue.variables[Arity + 1] = Outcome(Arity, ResultName, ResultDomain.sort)
<1> DEFINE a == BuilderAfter(Arity)
<1>1. Arity \in Nat /\ AllocateInputs = a
  BY OptionsShape, InputsAllocatedIs
<1>2. /\ Len(a.variables) = Arity /\ a.nextVariableId = Arity
      /\ \A k \in 1..Arity : a.variables[k] = Input(k)
      /\ a.variables = [k \in 1..Arity |-> a.variables[k]]
  BY <1>1 DEF BuilderAfter
<1>3. Holds(a, Arity)
  <2>1. a.variables \in Seq({a.variables[i] : i \in 1..Arity})
    <3> HIDE DEF a
    <3> QED
      BY <1>1, <1>2
  <2>2. a = [variables |-> a.variables, assumptions |-> InputAssumptions(Arity),
             assertions |-> << >>, names |-> a.names, nextVariableId |-> Arity]
    BY DEF BuilderAfter
  <2> QED
    BY <1>2, <2>1, <2>2 DEF Holds
<1>4. ResultName \in {"result", "successValue", "outcomeTag", "failureTag"}
  BY DEF ResultName
<1> HIDE DEF a
<1>5. /\ Holds(WithValue, Arity + 1)
      /\ \A k \in 1..Arity : WithValue.variables[k] = a.variables[k]
      /\ WithValue.variables[Arity + 1]
           = Outcome(Arity, ResultName, ResultDomain.sort)
  BY <1>1, <1>3, <1>4, OutcomeDomains, AllocateOutcome DEF WithValue
<1> QED
  BY <1>1, <1>2, <1>5

LEMMA FunctionDeclared ==
    ASSUME options \in Options, ~IsEffect, NEW p, p = SourceFunction
    PROVE  Shape(p)
<1> DEFINE n == Arity
           b == WithValue
<1>1. /\ n \in Nat /\ Holds(b, n + 1)
      /\ \A k \in 1..n : b.variables[k] = Input(k)
      /\ b.variables[n + 1] = Outcome(Arity, ResultName, ResultDomain.sort)
  BY ValueAllocated
<1>2. p = [resultVariableId |-> n,
               resultSort |-> ResultSort,
               reserved |-> {n},
               program |-> ToProgram(AddAssertion(b, Condition(AllSymbols(b))))]
  BY ValueAllocated DEF SourceFunction, WithValue, ResultName
<1> HIDE DEF b
<1>3. p.program = [variables |-> b.variables, assumptions |-> InputAssumptions(Arity),
                       assertions |-> p.program.assertions]
  <2>1. b.assumptions = InputAssumptions(Arity)
    BY <1>1 DEF Holds
  <2> QED
    BY <1>2, <2>1, AssertedProgram
<1>4. Arity..(VariableCount - 1) = {Arity} /\ VariableCount = Arity + 1
  BY <1>1 DEF VariableCount
<1>5. p.program.variables = b.variables
  BY <1>3
<1>6. DOMAIN b.variables = 1..(Arity + 1) /\ Len(b.variables) = Arity + 1
  BY <1>1 DEF Holds
<1> QED
  BY <1>1, <1>2, <1>3, <1>4, <1>5, <1>6 DEF Shape

LEMMA EffectDeclared ==
    ASSUME options \in Options, IsEffect, NEW p, p = SourceEffectFunction
    PROVE  Shape(p)
<1> DEFINE n == Arity
           text == DomainOf(StringRequest)
           b == WithValue
           c == Allocate(b, NameOf("outcomeTag"), text)
           d == Allocate(c, NameOf("failureTag"), text)
<1>1. /\ n \in Nat /\ Holds(b, n + 1)
      /\ \A k \in 1..n : b.variables[k] = Input(k)
      /\ b.variables[n + 1] = Outcome(Arity, ResultName, ResultDomain.sort)
  BY ValueAllocated
<1>2. p = [resultVariableId |-> n,
               tagVariableId |-> n + 1,
               failureTagVariableId |-> n + 2,
               resultSort |-> ResultSort,
               reserved |-> {n, n + 1, n + 2},
               program |-> ToProgram(AddAssertion(d, Condition(AllSymbols(d))))]
  BY ValueAllocated DEF SourceEffectFunction, WithValue, ResultName
<1>3. text.minimum = None /\ text.maximum = None /\ text.sort = "String"
  BY OutcomeDomains
<1> HIDE DEF b, n, text
<1>4. n + 1 \in Nat /\ (n + 1) + 1 = n + 2 /\ n + 2 \in Nat /\ (n + 2) + 1 = n + 3
  BY <1>1
<1>5. /\ Holds(c, n + 2)
      /\ \A k \in 1..(n + 1) : c.variables[k] = b.variables[k]
      /\ c.variables[n + 2] = Outcome(n + 1, "outcomeTag", "String")
  BY <1>1, <1>3, <1>4, AllocateOutcome
<1>6. /\ Holds(d, n + 3)
      /\ \A k \in 1..(n + 2) : d.variables[k] = c.variables[k]
      /\ d.variables[n + 3] = Outcome(n + 2, "failureTag", "String")
  <2> HIDE DEF c
  <2> QED
    BY <1>3, <1>4, <1>5, AllocateOutcome
<1> HIDE DEF c, d
<1>7. p.program = [variables |-> d.variables, assumptions |-> InputAssumptions(Arity),
                       assertions |-> p.program.assertions]
  <2>1. d.assumptions = InputAssumptions(Arity)
    BY <1>6 DEF Holds
  <2> QED
    BY <1>2, <2>1, AssertedProgram
<1>8. n..(VariableCount - 1) = {n, n + 1, n + 2} /\ VariableCount = n + 3
  BY <1>1 DEF VariableCount, n
<1>9. /\ \A k \in 1..n : k \in 1..(n + 1) /\ k \in 1..(n + 2)
      /\ n + 1 \in 1..(n + 1) /\ n + 1 \in 1..(n + 2) /\ n + 2 \in 1..(n + 2)
  BY <1>1
<1>10. /\ \A k \in 1..n : d.variables[k] = Input(k)
       /\ d.variables[n + 1] = Outcome(Arity, ResultName, ResultDomain.sort)
       /\ d.variables[n + 2] = Outcome(Arity + 1, "outcomeTag", "String")
       /\ d.variables[n + 3] = Outcome(Arity + 2, "failureTag", "String")
  <2>1. \A k \in 1..n : d.variables[k] = Input(k)
    BY <1>1, <1>5, <1>6, <1>9, Zenon
  <2>2. d.variables[n + 1] = Outcome(Arity, ResultName, ResultDomain.sort)
    BY <1>1, <1>5, <1>6, <1>9, Zenon
  <2>3. d.variables[n + 2] = Outcome(Arity + 1, "outcomeTag", "String")
    BY <1>5, <1>6, <1>9 DEF n
  <2>4. d.variables[n + 3] = Outcome(Arity + 2, "failureTag", "String")
    BY <1>6 DEF n
  <2> QED
    BY <2>1, <2>2, <2>3, <2>4
<1>11. p.program.variables = d.variables
  BY <1>7
<1>12. DOMAIN d.variables = 1..(n + 3) /\ Len(d.variables) = n + 3
  BY <1>6 DEF Holds
<1> QED
  BY <1>2, <1>7, <1>8, <1>10, <1>11, <1>12 DEF Shape, n

(***************************************************************************)
(* The variables that are not reserved are the inputs, in order.           *)
(***************************************************************************)
LEMMA InputVariablesAre ==
    ASSUME options \in Options, Shape(proof)
    PROVE  InputVariables = [k \in 1..Arity |-> Input(k)]
<1> DEFINE n == Arity
           vs == proof.program.variables
<1>1. n \in Nat /\ VariableCount \in {n + 1, n + 3}
  BY OptionsShape DEF VariableCount
<1>2. /\ DOMAIN vs = 1..VariableCount
      /\ \A k \in 1..n : vs[k] = Input(k)
      /\ vs[n + 1].id = n
      /\ IsEffect => vs[n + 2].id = n + 1 /\ vs[n + 3].id = n + 2
      /\ proof.reserved = n..(VariableCount - 1)
  BY <1>1 DEF Shape, Outcome
<1> HIDE DEF vs, n
<1>3. \A k \in DOMAIN vs : vs[k].id = k - 1
  <2>1. \A k \in 1..n : vs[k].id = k - 1
    <3>1. \A k \in 1..n : Input(k).id = k - 1
      BY DEF Input
    <3> QED
      BY <1>2, <3>1, Zenon
  <2>2. IF IsEffect THEN VariableCount = n + 3 ELSE VariableCount = n + 1
    BY DEF VariableCount, n
  <2>3. ASSUME NEW k \in DOMAIN vs PROVE vs[k].id = k - 1
    <3>1. k \in 1..n \/ k = n + 1 \/ (IsEffect /\ (k = n + 2 \/ k = n + 3))
      BY <1>1, <1>2, <2>2
    <3> QED
      BY <1>1, <1>2, <2>1, <3>1
  <2> QED
    BY <2>3
<1>4. InputPositions = 1..n
  <2>1. ASSUME NEW i \in 1..VariableCount
        PROVE  vs[i].id \notin proof.reserved <=> i \in 1..n
    BY <1>1, <1>2, <1>3
  <2> QED
    BY <1>1, <1>2, <2>1 DEF InputPositions, vs
<1>5. Cardinality(InputPositions) = n
  BY <1>1, <1>4, FS_Interval
<1>6. \A i \in 1..n : Cardinality({j \in 1..n : j < i}) = i - 1
  <2> TAKE i \in 1..n
  <2>1. {j \in 1..n : j < i} = 1..(i - 1)
    BY <1>1
  <2>2. Cardinality(1..(i - 1)) = i - 1
    BY <1>1, FS_Interval
  <2> QED
    BY <2>1, <2>2
<1>7. \A k \in 1..n :
          (CHOOSE i \in 1..n : Cardinality({j \in 1..n : j < i}) = k - 1) = k
  <2> TAKE k \in 1..n
  <2> DEFINE P(i) == Cardinality({j \in 1..n : j < i}) = k - 1
  <2>1. P(k) /\ \A i \in 1..n : P(i) => i = k
    BY <1>1, <1>6
  <2> HIDE DEF P
  <2>2. (CHOOSE i \in 1..n : P(i)) = k
    BY <2>1
  <2> QED
    BY <2>2 DEF P
<1> QED
  BY <1>2, <1>4, <1>5, <1>7 DEF InputVariables, n, vs

-----------------------------------------------------------------------------
(* The invariant.                                                          *)

LEMMA SourceInitInv == SourceInit => SourceInv
BY DEF SourceInit, SourceInv, UpToSignature, AfterDeclare, AfterSignature, AfterParameters, AfterBody

\* What depends on variables that do not change does not change.
LEMMA SameShape ==
    ASSUME UNCHANGED options, Shape(proof')
    PROVE  Shape(proof)'
<1>1. /\ Arity' = Arity /\ VariableCount' = VariableCount /\ IsEffect' = IsEffect
      /\ ResultName' = ResultName /\ ResultDomain' = ResultDomain
      /\ ResultSort' = ResultSort
  BY DEF Arity, VariableCount, IsEffect, ResultName, ResultDomain, ResultSort
<1>2. \A k : Input(k)' = Input(k)
  BY DEF Input
<1>3. InputAssumptions(Arity)' = InputAssumptions(Arity)
  BY <1>1, <1>2 DEF InputAssumptions
<1>4. \A id, text, sort : Outcome(id, text, sort)' = Outcome(id, text, sort)
  BY DEF Outcome
<1> QED
  BY <1>1, <1>2, <1>3, <1>4 DEF Shape

LEMMA SameBound ==
    ASSUME UNCHANGED <<options, declaration, inputs, parameterNames>>, NEW k, BoundTo(k)
    PROVE  BoundTo(k)'
BY DEF BoundTo, Input, InputTerm, Reserved, IsEffect

LEMMA SameMatched ==
    ASSUME UNCHANGED <<options, declaration, proof>>, Matched
    PROVE  Matched'
BY DEF Matched, Arity

LEMMA SameBodies ==
    ASSUME UNCHANGED <<options, inputs>>
    PROVE  Bodies' = Bodies
BY DEF Bodies, Environments, ValuesIn, IsEffect

LEMMA SameAssembled ==
    ASSUME UNCHANGED <<proof, parameterNames, body, compiled>>, Assembled
    PROVE  Assembled'
BY DEF Assembled, Renamed

\* A step that only moves on, to where nothing more is claimed.
LEMMA MoveOn ==
    ASSUME SourceInv,
           UNCHANGED <<options, declaration, proof, inputs, parameterNames, body, compiled>>,
           \/ pc' = pc
           \/ pc' = "Thrown"
           \/ pc = "Identify" /\ pc' = "Find"
           \/ pc = "Find" /\ pc' = "Signature"
           \/ pc = "Parameters" /\ pc' = "Body" /\ BoundTo(Arity)
    PROVE  SourceInv'
<1>1. Shape(proof) => Shape(proof)'
  BY SameShape
<1>2. Matched => Matched'
  BY SameMatched
<1>3. \A k : BoundTo(k) => BoundTo(k)'
  BY SameBound
<1>4. Bodies' = Bodies
  BY SameBodies
<1>5. Assembled => Assembled'
  BY SameAssembled
<1>6. Arity' = Arity
  BY DEF Arity
<1>7. (\E k \in 0..Arity : BoundTo(k)) => (\E k \in 0..Arity : BoundTo(k))'
  BY <1>3, <1>6
<1>8. BoundTo(Arity) => BoundTo(Arity)'
  BY <1>3, <1>6
<1> USE DEF UpToSignature, AfterDeclare, AfterSignature, AfterParameters, AfterBody
<1>9. \/ pc' = pc \/ pc' = "Thrown"
      \/ pc \in {"Identify", "Find"} /\ pc' \in {"Find", "Signature"}
      \/ pc = "Parameters" /\ pc' = "Body" /\ BoundTo(Arity)
  OBVIOUS
<1> QED
  BY <1>1, <1>2, <1>4, <1>5, <1>7, <1>8, <1>9 DEF SourceInv

\* The proof is made.
LEMMA DeclareKeeps == SourceInv /\ Declare => SourceInv'
<1> SUFFICES ASSUME SourceInv, Declare PROVE SourceInv'
  OBVIOUS
<1>1. CASE Throw
  BY <1>1, MoveOn DEF Throw
<1>2. CASE ~Throw
  <2>1. /\ pc = "Declare" /\ pc' = "Identify"
        /\ proof' = IF IsEffect THEN SourceEffectFunction ELSE SourceFunction
        /\ UNCHANGED <<options, declaration, inputs>>
        /\ UNCHANGED parameterNames
    BY <1>2 DEF Declare
  <2>2. Shape(proof')
    BY <2>1, FunctionDeclared, EffectDeclared DEF SourceInv
  <2>3. Shape(proof)'
    BY <2>1, <2>2, SameShape
  <2> QED
    BY <2>1, <2>3
       DEF SourceInv, UpToSignature, AfterDeclare, AfterSignature, AfterParameters, AfterBody
<1> QED
  BY <1>1, <1>2

\* The signature agrees with the record.
LEMMA CheckSignatureKeeps == SourceInv /\ CheckSignature => SourceInv'
<1> SUFFICES ASSUME SourceInv, CheckSignature PROVE SourceInv'
  OBVIOUS
<1>1. CASE Throw
  BY <1>1, MoveOn DEF Throw
<1>2. CASE ~Throw
  <2>1. /\ pc = "Signature" /\ pc' = "Parameters" /\ TypeSupported
        /\ proof.resultSort = declaration.returns
        /\ Len(InputVariables) = Len(declaration.parameters)
        /\ UNCHANGED <<options, declaration, proof, inputs, parameterNames, body, compiled>>
    BY <1>2 DEF CheckSignature
  <2>2. options \in Options /\ Shape(proof) /\ DOMAIN inputs = {} /\ DOMAIN parameterNames = {}
    BY <2>1 DEF SourceInv, UpToSignature, AfterDeclare
  <2>3. Arity \in Nat /\ Len(InputVariables) = Arity
    BY <2>2, OptionsShape, InputVariablesAre
  <2>4. Matched
    BY <2>1, <2>3 DEF Matched, TypeSupported
  <2>5. BoundTo(0)
    BY <2>2 DEF BoundTo
  <2>6. Shape(proof)' /\ Matched' /\ BoundTo(0)'
    BY <2>1, <2>2, <2>4, <2>5, SameShape, SameMatched, SameBound
  <2>7. (\E k \in 0..Arity : BoundTo(k))'
    BY <2>1, <2>3, <2>6 DEF Arity
  <2> QED
    BY <2>1, <2>6, <2>7
       DEF SourceInv, UpToSignature, AfterDeclare, AfterSignature, AfterParameters, AfterBody
<1> QED
  BY <1>1, <1>2

\* The next parameter takes the next input.
LEMMA BindParameterKeeps == SourceInv /\ BindParameter => SourceInv'
<1> SUFFICES ASSUME SourceInv, BindParameter PROVE SourceInv'
  OBVIOUS
<1>1. CASE Throw
  BY <1>1, MoveOn DEF Throw
<1>2. CASE ~Throw
  <2> DEFINE m == Cardinality(DOMAIN parameterNames)
             parameter == declaration.parameters[m + 1]
  <2>1. pc = "Parameters" /\ pc \in AfterSignature /\ pc \in AfterDeclare
    BY <1>2 DEF BindParameter, AfterSignature, AfterDeclare
  <2>2. /\ options \in Options /\ declaration \in Declarations
        /\ Shape(proof) /\ Matched /\ \E k \in 0..Arity : BoundTo(k)
    BY <2>1 DEF SourceInv
  <2>3. Arity \in Nat /\ InputVariables = [k \in 1..Arity |-> Input(k)]
    BY <2>2, OptionsShape, InputVariablesAre
  <2>4. PICK k \in 0..Arity : BoundTo(k)
    BY <2>2
  <2>5. m = k
    <3>1. DOMAIN parameterNames = 0..(k - 1)
      BY <2>4 DEF BoundTo
    <3>2. k \in Nat
      BY <2>3
    <3>3. Cardinality(0..(k - 1)) = k
      BY <3>2, FS_Interval
    <3> QED
      BY <3>1, <3>3
  <2> HIDE DEF m, parameter
  <2>6. DOMAIN declaration.parameters = 1..Arity
    BY <2>2, DeclarationsAssumption DEF Matched
  <2>7. /\ m + 1 \in 1..Arity
        /\ Bind(parameter, Input(m + 1), Reserved \cup DOMAIN inputs)
    BY <1>2, <2>3, <2>6 DEF BindParameter, m, parameter
  <2>8. /\ parameter.name \notin Reserved \cup DOMAIN inputs
        /\ InputTerm(parameter, Input(m + 1))
        /\ inputs' = With(inputs, parameter.name, Input(m + 1))
        /\ parameterNames' = With(parameterNames, Input(m + 1).id, parameter.name)
        /\ UNCHANGED <<options, declaration, pc, proof, body, compiled>>
    BY <1>2, <2>7 DEF Bind
  <2>9. Input(m + 1).id = m
    BY <2>3, <2>4, <2>5 DEF Input
  <2>10. BoundTo(k + 1)'
    <3> DEFINE name(j) == declaration.parameters[j].name
    <3>1. m \in Nat /\ m = k
      BY <2>3, <2>5
    <3>2. /\ DOMAIN parameterNames = 0..(m - 1)
          /\ DOMAIN inputs = {name(j) : j \in 1..m}
          /\ \A j \in 1..m : /\ parameterNames[j - 1] = name(j)
                             /\ inputs[name(j)] = Input(j)
                             /\ name(j) \notin Reserved
                             /\ InputTerm(declaration.parameters[j], Input(j))
          /\ \A i, j \in 1..m : name(i) = name(j) => i = j
      BY <2>4, <3>1 DEF BoundTo
    <3>3. parameter.name = name(m + 1)
      BY DEF parameter
    <3> HIDE DEF name
    <3>4. /\ \A j \in 1..m : name(j) # name(m + 1)
          /\ \A j \in 1..(m + 1) : j \in 1..m \/ j = m + 1
      BY <2>8, <3>1, <3>2, <3>3
    <3>5. DOMAIN parameterNames' = 0..m
      BY <2>8, <2>9, <3>1, <3>2 DEF With
    <3>6. DOMAIN inputs' = {name(j) : j \in 1..(m + 1)}
      <4>1. DOMAIN inputs' = DOMAIN inputs \cup {name(m + 1)}
        BY <2>8, <3>3 DEF With
      <4>2. 1..(m + 1) = (1..m) \cup {m + 1}
        BY <3>1
      <4>3. DOMAIN inputs = {name(j) : j \in 1..m}
        BY <3>2
      <4> QED
        BY <4>1, <4>2, <4>3
    <3>7. ASSUME NEW j \in 1..(m + 1)
          PROVE  /\ parameterNames'[j - 1] = name(j)
                 /\ inputs'[name(j)] = Input(j)
                 /\ name(j) \notin Reserved
                 /\ InputTerm(declaration.parameters[j], Input(j))
      <4>1. CASE j = m + 1
        BY <2>8, <2>9, <3>1, <3>3, <4>1 DEF With, parameter
      <4>2. CASE j \in 1..m
        <5>1. j - 1 \in DOMAIN parameterNames /\ j - 1 # m
          BY <3>1, <3>2, <4>2
        <5>2. name(j) \in DOMAIN inputs /\ name(j) # parameter.name
          BY <3>2, <3>3, <3>4, <4>2
        <5>3. parameterNames'[j - 1] = parameterNames[j - 1] /\ inputs'[name(j)] = inputs[name(j)]
          BY <2>8, <2>9, <5>1, <5>2 DEF With
        <5> QED
          BY <3>2, <4>2, <5>3
      <4> QED
        BY <3>4, <4>1, <4>2
    <3>8. \A i, j \in 1..(m + 1) : name(i) = name(j) => i = j
      BY <3>2, <3>4
    <3>9. /\ \A j : Input(j)' = Input(j) /\ Reserved' = Reserved
          /\ (m + 1) - 1 = m
      BY <2>8, <3>1 DEF Input, Reserved, IsEffect
    <3> QED
      BY <2>8, <3>1, <3>5, <3>6, <3>7, <3>8, <3>9 DEF BoundTo, InputTerm, name
  <2>11. Shape(proof)' /\ Matched'
    BY <2>2, <2>8, SameShape, SameMatched
  <2>12. k + 1 \in 0..Arity /\ Arity' = Arity
    BY <2>3, <2>5, <2>7, <2>8 DEF Arity
  <2>13. (\E n \in 0..Arity : BoundTo(n))'
    BY <2>10, <2>12
  <2> QED
    BY <2>1, <2>2, <2>8, <2>11, <2>13
       DEF SourceInv, UpToSignature, AfterParameters, AfterBody
<1> QED
  BY <1>1, <1>2

LEMMA SignatureValidKeeps == SourceInv /\ SignatureValid => SourceInv'
<1> SUFFICES ASSUME SourceInv, SignatureValid PROVE SourceInv'
  OBVIOUS
<1>1. /\ pc = "Parameters" /\ pc' = "Body"
      /\ Cardinality(DOMAIN parameterNames) = Len(declaration.parameters)
      /\ UNCHANGED <<options, declaration, proof, inputs, parameterNames, body, compiled>>
  BY DEF SignatureValid
<1>2. options \in Options /\ Matched /\ \E k \in 0..Arity : BoundTo(k)
  BY <1>1 DEF SourceInv, AfterSignature
<1>3. Arity \in Nat
  BY <1>2, OptionsShape
<1>4. PICK k \in 0..Arity : BoundTo(k)
  BY <1>2
<1>5. Cardinality(DOMAIN parameterNames) = k
  <2>1. DOMAIN parameterNames = 0..(k - 1)
    BY <1>4 DEF BoundTo
  <2>2. Cardinality(0..(k - 1)) = k
    BY <1>3, FS_Interval
  <2> QED
    BY <2>1, <2>2
<1>6. BoundTo(Arity)
  BY <1>1, <1>2, <1>4, <1>5 DEF Matched
<1> QED
  BY <1>1, <1>6, MoveOn

LEMMA CompileBodyKeeps ==
    ASSUME SourceInv, NEW b \in Bodies, CompileBody(b)
    PROVE  SourceInv'
<1>1. CASE Throw
  BY <1>1, MoveOn DEF Throw
<1>2. CASE ~Throw
  <2>1. /\ pc = "Body" /\ pc' = "Assemble" /\ b.sort = declaration.returns /\ body' = b
        /\ UNCHANGED <<options, declaration, proof, inputs, parameterNames, compiled>>
    BY <1>2 DEF CompileBody
  <2>2. /\ options \in Options /\ declaration \in Declarations /\ Shape(proof) /\ Matched
        /\ \E k \in 0..Arity : BoundTo(k)
        /\ BoundTo(Arity)
    BY <2>1 DEF SourceInv, AfterDeclare, AfterSignature, AfterParameters
  <2>3. Shape(proof)' /\ Matched' /\ Bodies' = Bodies /\ \A k : BoundTo(k) => BoundTo(k)'
    BY <2>1, <2>2, SameShape, SameMatched, SameBodies, SameBound
  <2>4. (\E k \in 0..Arity : BoundTo(k))' /\ BoundTo(Arity)'
    BY <2>1, <2>2, <2>3 DEF Arity
  <2> QED
    BY <2>1, <2>2, <2>3, <2>4
       DEF SourceInv, UpToSignature, AfterDeclare, AfterSignature, AfterParameters, AfterBody
<1> QED
  BY <1>1, <1>2

LEMMA AssembleKeeps == SourceInv /\ Assemble => SourceInv'
<1> SUFFICES ASSUME SourceInv, Assemble PROVE SourceInv'
  OBVIOUS
<1>1. /\ pc = "Assemble" /\ pc' = "Compiled"
      /\ compiled' = [proof.program EXCEPT !.variables = [i \in DOMAIN @ |-> Renamed(@[i])]]
      /\ UNCHANGED <<options, declaration, proof, inputs, parameterNames, body>>
  BY DEF Assemble
<1>2. /\ options \in Options /\ declaration \in Declarations /\ Shape(proof) /\ Matched
      /\ \E k \in 0..Arity : BoundTo(k)
      /\ BoundTo(Arity) /\ body \in Bodies /\ body.sort = declaration.returns
  BY <1>1 DEF SourceInv, AfterDeclare, AfterSignature, AfterParameters, AfterBody
<1>3. /\ Shape(proof)' /\ Matched' /\ Bodies' = Bodies
      /\ \A k : BoundTo(k) => BoundTo(k)'
  BY <1>1, <1>2, SameShape, SameMatched, SameBodies, SameBound
<1>4. (\E k \in 0..Arity : BoundTo(k))' /\ BoundTo(Arity)'
  BY <1>1, <1>2, <1>3 DEF Arity
<1>5. Assembled'
  <2> DEFINE vs == proof.program.variables
  <2>1. proof.program = [variables |-> vs, assumptions |-> proof.program.assumptions,
                         assertions |-> proof.program.assertions]
    BY <1>2 DEF Shape
  <2> HIDE DEF vs
  <2>2. proof.program.variables = vs
    BY DEF vs
  <2>3. /\ compiled'.variables = [i \in DOMAIN vs |-> Renamed(vs[i])]
        /\ compiled'.assumptions = proof.program.assumptions
    BY <1>1, <2>1, <2>2
  <2>4. \A v : Renamed(v)' = Renamed(v)
    BY <1>1 DEF Renamed
  <2> QED
    BY <1>1, <2>2, <2>3, <2>4 DEF Assembled
<1> QED
  BY <1>1, <1>2, <1>3, <1>4, <1>5
     DEF SourceInv, UpToSignature, AfterDeclare, AfterSignature, AfterParameters, AfterBody

LEMMA SourceNextInv == SourceInv /\ [SourceNext]_sourceVars => SourceInv'
<1> SUFFICES ASSUME SourceInv, [SourceNext]_sourceVars PROVE SourceInv'
  OBVIOUS
<1>1. ASSUME NEW module \in ProofModules, Identify(module) PROVE SourceInv'
  <2>1. /\ UNCHANGED <<options, declaration, proof, inputs, parameterNames, body, compiled>>
        /\ pc = "Identify" /\ pc' \in {"Find", "Thrown"}
    BY <1>1 DEF Identify, Throw
  <2> QED
    BY <2>1, MoveOn
<1>2. ASSUME NEW statements \in SourceFiles, FindTarget(statements) PROVE SourceInv'
  <2>1. /\ UNCHANGED <<options, declaration, proof, inputs, parameterNames, body, compiled>>
        /\ pc = "Find" /\ pc' \in {"Signature", "Thrown"}
    BY <1>2 DEF FindTarget, Found, Throw
  <2> QED
    BY <2>1, MoveOn
<1>3. CASE UNCHANGED sourceVars
  BY <1>3, MoveOn DEF sourceVars
<1> QED
  BY <1>1, <1>2, <1>3, DeclareKeeps, CheckSignatureKeeps, BindParameterKeeps,
     SignatureValidKeeps, CompileBodyKeeps, AssembleKeeps DEF SourceNext

LEMMA SourceSpecInv == SourceSpec => []SourceInv
BY SourceInitInv, SourceNextInv, PTL DEF SourceSpec

-----------------------------------------------------------------------------
(* The program.                                                            *)

\* The k-th variable of the program, which stands for an input.
Renaming(k) == [Input(k) EXCEPT !.name = declaration.parameters[k].name]

\* The variable that stands for the value of the function.
Value == [Outcome(Arity, ResultName, ResultDomain.sort)
             EXCEPT !.minimum = body.bounds[1], !.maximum = body.bounds[2]]

LEMMA ProgramIs ==
    ASSUME SourceInv, pc = "Compiled"
    PROVE  LET vs == compiled.variables
           IN  /\ Arity \in Nat /\ VariableCount \in Nat
               /\ vs = [i \in 1..VariableCount |-> vs[i]] /\ Len(vs) = VariableCount
               /\ \A i \in 1..VariableCount : vs[i].id = i - 1
               /\ \A k \in 1..Arity : k \in 1..VariableCount /\ vs[k] = Renaming(k)
               /\ Arity + 1 \in 1..VariableCount /\ vs[Arity + 1] = Value
               /\ IF IsEffect
                    THEN /\ VariableCount = Arity + 3
                         /\ vs[Arity + 2] = Outcome(Arity + 1, "outcomeTag", "String")
                         /\ vs[Arity + 3] = Outcome(Arity + 2, "failureTag", "String")
                    ELSE VariableCount = Arity + 1
               /\ compiled.assumptions = InputAssumptions(Arity)
<1> DEFINE n == Arity
           vs == compiled.variables
           ps == proof.program.variables
<1>1. /\ options \in Options /\ Shape(proof) /\ BoundTo(n) /\ Assembled
  BY DEF SourceInv, AfterDeclare, AfterSignature, AfterParameters, AfterBody
<1>2. /\ n \in Nat
      /\ IF IsEffect THEN VariableCount = n + 3 ELSE VariableCount = n + 1
  BY <1>1, OptionsShape DEF VariableCount
<1> HIDE DEF n
<1>3. /\ vs = [i \in 1..VariableCount |-> Renamed(ps[i])]
      /\ Len(vs) = VariableCount
  BY <1>1, <1>2 DEF Assembled, Shape
<1>4. /\ \A k \in 1..n : ps[k] = Input(k)
      /\ ps[n + 1] = Outcome(n, ResultName, ResultDomain.sort)
      /\ IsEffect => /\ ps[n + 2] = Outcome(n + 1, "outcomeTag", "String")
                     /\ ps[n + 3] = Outcome(n + 2, "failureTag", "String")
      /\ proof.resultVariableId = n
      /\ proof.program.assumptions = InputAssumptions(n)
  BY <1>1 DEF Shape, n
<1>5. /\ DOMAIN parameterNames = 0..(n - 1)
      /\ \A k \in 1..n : parameterNames[k - 1] = declaration.parameters[k].name
  BY <1>1 DEF BoundTo
<1>6. ASSUME NEW k \in 1..n PROVE Renamed(ps[k]) = Renaming(k) /\ Renaming(k).id = k - 1
  <2>1. Input(k).id = k - 1 /\ k - 1 \in 0..(n - 1)
    BY <1>2 DEF Input
  <2>2. Renamed(ps[k]) = [Input(k) EXCEPT !.name = parameterNames[k - 1]]
    BY <1>4, <1>5, <2>1 DEF Renamed
  <2>3. Renaming(k).id = k - 1
    BY <2>1 DEF Renaming, Input
  <2> QED
    BY <1>5, <2>2, <2>3 DEF Renaming
<1>7. Renamed(ps[n + 1]) = Value /\ Value.id = n
  <2>1. Outcome(n, ResultName, ResultDomain.sort).id = n /\ n \notin 0..(n - 1)
    BY <1>2 DEF Outcome
  <2> QED
    BY <1>4, <1>5, <2>1 DEF Renamed, Value, Outcome, n
<1>8. \A id, text, sort : id \in Nat /\ id > n =>
          /\ Renamed(Outcome(id, text, sort)) = Outcome(id, text, sort)
          /\ Outcome(id, text, sort).id = id
  <2> TAKE id, text, sort
  <2> HAVE id \in Nat /\ id > n
  <2>1. Outcome(id, text, sort).id = id /\ id \notin 0..(n - 1) /\ id # n
    BY <1>2 DEF Outcome
  <2> QED
    BY <1>4, <1>5, <2>1 DEF Renamed
<1>9. IsEffect => /\ vs[n + 2] = Outcome(n + 1, "outcomeTag", "String")
                  /\ vs[n + 3] = Outcome(n + 2, "failureTag", "String")
                  /\ vs[n + 2].id = n + 1 /\ vs[n + 3].id = n + 2
  BY <1>2, <1>3, <1>4, <1>8
<1>10. \A k \in 1..n : k \in 1..VariableCount /\ vs[k] = Renaming(k) /\ vs[k].id = k - 1
  BY <1>2, <1>3, <1>6
<1>11. n + 1 \in 1..VariableCount /\ vs[n + 1] = Value /\ vs[n + 1].id = n
  BY <1>2, <1>3, <1>7
<1>12. ASSUME NEW i \in 1..VariableCount PROVE vs[i].id = i - 1
  <2>1. i \in 1..n \/ i = n + 1 \/ (IsEffect /\ (i = n + 2 \/ i = n + 3))
    BY <1>2
  <2> QED
    BY <1>2, <1>9, <1>10, <1>11, <2>1
<1>13. compiled.assumptions = InputAssumptions(n)
  BY <1>1, <1>4 DEF Assembled
<1>14. vs = [i \in 1..VariableCount |-> vs[i]]
  <2> HIDE DEF ps
  <2> QED
    BY <1>3
<1>15. VariableCount \in Nat
  BY <1>2
<1>16. IF IsEffect
         THEN /\ VariableCount = n + 3
              /\ vs[n + 2] = Outcome(n + 1, "outcomeTag", "String")
              /\ vs[n + 3] = Outcome(n + 2, "failureTag", "String")
         ELSE VariableCount = n + 1
  BY <1>2, <1>9
<1> HIDE DEF vs
<1>17. /\ n \in Nat /\ VariableCount \in Nat
       /\ vs = [i \in 1..VariableCount |-> vs[i]] /\ Len(vs) = VariableCount
       /\ \A i \in 1..VariableCount : vs[i].id = i - 1
       /\ \A k \in 1..n : k \in 1..VariableCount /\ vs[k] = Renaming(k)
       /\ n + 1 \in 1..VariableCount /\ vs[n + 1] = Value
  BY <1>2, <1>3, <1>10, <1>11, <1>12, <1>14, <1>15, Zenon
<1> QED
  BY <1>13, <1>16, <1>17, Zenon DEF n, vs

(***************************************************************************)
(* A counterexample names the inputs as the source does, whatever the      *)
(* parameters are called, and no two variables by the same name.           *)
(***************************************************************************)
THEOREM NamesToldTheorem == SourceSpec => []NamesTold
<1>1. SourceInv => NamesTold
  <2> SUFFICES ASSUME SourceInv, pc = "Compiled"
               PROVE  /\ \A i, j \in DOMAIN compiled.variables :
                            compiled.variables[i].name = compiled.variables[j].name => i = j
                      /\ \A k \in DOMAIN declaration.parameters :
                            compiled.variables[k].name = declaration.parameters[k].name
    BY DEF NamesTold
  <2> DEFINE vs == compiled.variables
             n == Arity
             name(k) == declaration.parameters[k].name
  <2>1. /\ declaration \in Declarations /\ Matched /\ BoundTo(n)
    BY DEF SourceInv, AfterSignature, AfterParameters, AfterBody
  <2>2. DOMAIN declaration.parameters = 1..n
    BY <2>1, DeclarationsAssumption DEF Matched
  <2>3. /\ n \in Nat /\ DOMAIN vs = 1..VariableCount
        /\ \A k \in 1..n : vs[k] = Renaming(k)
        /\ vs[n + 1] = Value
        /\ IF IsEffect
             THEN /\ VariableCount = n + 3
                  /\ vs[n + 2] = Outcome(n + 1, "outcomeTag", "String")
                  /\ vs[n + 3] = Outcome(n + 2, "failureTag", "String")
             ELSE VariableCount = n + 1
    BY ProgramIs
  <2>4. \A k \in 1..n : Renaming(k).name = name(k)
    BY DEF Renaming, Input
  <2>5. Value.name = NameOf(ResultName)
    BY DEF Value, Outcome
  <2>6. \A id, text : Outcome(id, text, "String").name = NameOf(text)
    BY DEF Outcome
  <2>7. /\ \A k \in 1..n : name(k) \notin Reserved
        /\ \A i, j \in 1..n : name(i) = name(j) => i = j
    BY <2>1 DEF BoundTo
  <2>8. /\ NameOf(ResultName) \in Reserved
        /\ IsEffect => {NameOf("outcomeTag"), NameOf("failureTag")} \subseteq Reserved
        /\ IsEffect => /\ NameOf(ResultName) # NameOf("outcomeTag")
                       /\ NameOf(ResultName) # NameOf("failureTag")
                       /\ NameOf("outcomeTag") # NameOf("failureTag")
    BY DEF ResultName, Reserved, NameOf
  <2> HIDE DEF vs, n, name
  <2>9. /\ \A k \in 1..n : vs[k].name = name(k)
        /\ vs[n + 1].name = NameOf(ResultName)
        /\ IsEffect => /\ vs[n + 2].name = NameOf("outcomeTag")
                       /\ vs[n + 3].name = NameOf("failureTag")
    BY <2>3, <2>4, <2>5, <2>6
  <2>10. ASSUME NEW i \in DOMAIN vs, NEW j \in DOMAIN vs, vs[i].name = vs[j].name
         PROVE  i = j
    <3>1. \A k \in DOMAIN vs :
              k \in 1..n \/ k = n + 1 \/ (IsEffect /\ (k = n + 2 \/ k = n + 3))
      BY <2>3
    <3> QED
      BY <2>7, <2>8, <2>9, <2>10, <3>1
  <2> QED
    BY <2>2, <2>9, <2>10 DEF vs, n, name
<1> QED
  BY <1>1, SourceSpecInv, PTL

-----------------------------------------------------------------------------
(* Worlds.                                                                 *)

\* The values the first k variables can have together.
WorldSet(k) ==
    LET vs == compiled.variables
    IN  {w \in [0..(k - 1) -> UNION {WorldValues(vs[j]) : j \in DOMAIN vs}] :
            \A j \in 1..k : w[j - 1] \in WorldValues(vs[j])}

LEMMA WorldsGrow ==
    ASSUME NEW k \in Nat, k + 1 \in DOMAIN compiled.variables,
           compiled.variables[k + 1].id = k
    PROVE  WithValuesOf(WorldSet(k), compiled.variables[k + 1]) = WorldSet(k + 1)
<1> DEFINE vs == compiled.variables
           All == UNION {WorldValues(vs[j]) : j \in DOMAIN vs}
           values(j) == WorldValues(vs[j])
<1>1. \A j \in 1..(k + 1) : j \in 1..k \/ j = k + 1
  OBVIOUS
<1>2. \A n : WorldSet(n) = {w \in [0..(n - 1) -> All] : \A j \in 1..n : w[j - 1] \in values(j)}
  BY DEF WorldSet
<1>3. values(k + 1) \subseteq All
  OBVIOUS
<1> HIDE DEF All, values
<1>4. ASSUME NEW w \in WorldSet(k), NEW x \in values(k + 1)
      PROVE  With(w, k, x) \in WorldSet(k + 1)
  <2> DEFINE u == With(w, k, x)
  <2>1. w \in [0..(k - 1) -> All] /\ \A j \in 1..k : w[j - 1] \in values(j)
    BY <1>2
  <2>2. u \in [0..k -> All]
    <3>1. (0..(k - 1)) \cup {k} = 0..k
      OBVIOUS
    <3> QED
      BY <1>3, <2>1, <3>1 DEF With
  <2>3. ASSUME NEW j \in 1..(k + 1) PROVE u[j - 1] \in values(j)
    <3>1. CASE j = k + 1
      BY <2>1, <3>1 DEF With
    <3>2. CASE j \in 1..k
      BY <2>1, <3>2 DEF With
    <3> QED
      BY <1>1, <3>1, <3>2
  <2>4. (k + 1) - 1 = k
    OBVIOUS
  <2> HIDE DEF u
  <2>5. u \in WorldSet(k + 1)
    BY <1>2, <2>2, <2>3, <2>4
  <2> QED
    BY <2>5 DEF u
<1>5. ASSUME NEW u \in WorldSet(k + 1)
      PROVE  \E w \in WorldSet(k), x \in values(k + 1) : u = With(w, k, x)
  <2> DEFINE w == [i \in 0..(k - 1) |-> u[i]]
  <2>1. u \in [0..k -> All] /\ \A j \in 1..(k + 1) : u[j - 1] \in values(j)
    <3>1. (k + 1) - 1 = k
      OBVIOUS
    <3> QED
      BY <1>2, <3>1
  <2>2. w \in [0..(k - 1) -> All] /\ \A j \in 1..k : w[j - 1] \in values(j)
    BY <2>1
  <2>3. u[k] \in values(k + 1)
    BY <2>1
  <2>4. u = With(w, k, u[k])
    <3>1. (0..(k - 1)) \cup {k} = 0..k
      OBVIOUS
    <3> QED
      BY <2>1, <3>1 DEF With
  <2> HIDE DEF w
  <2>5. w \in WorldSet(k)
    BY <1>2, <2>2
  <2> QED
    BY <2>3, <2>4, <2>5
<1>6. WithValuesOf(WorldSet(k), vs[k + 1])
        = {With(w, k, x) : w \in WorldSet(k), x \in values(k + 1)}
  BY DEF WithValuesOf, values
<1> QED
  BY <1>4, <1>5, <1>6

\* The recursion comes to all functions from ids to values.
LEMMA WorldsAre ==
    ASSUME SourceInv, pc = "Compiled"
    PROVE  Worlds = WorldSet(VariableCount)
<1> DEFINE vs == compiled.variables
           S == 0..Len(vs)
           h == [k \in S |-> WorldSet(k)]
<1>1. /\ VariableCount \in Nat /\ Len(vs) = VariableCount
      /\ DOMAIN vs = 1..VariableCount
      /\ \A i \in 1..VariableCount : vs[i].id = i - 1
  BY ProgramIs
<1>2. WorldSet(0) = {<< >>}
  <2>1. 0..(0 - 1) = 1..0 /\ \A j : j \notin 1..0
    OBVIOUS
  <2>2. ASSUME NEW All PROVE [1..0 -> All] = {<< >>}
    <3>1. \A w \in [1..0 -> All] : w \in Seq(All) /\ Len(w) = 0
      OBVIOUS
    <3>2. << >> \in [1..0 -> All]
      OBVIOUS
    <3> QED
      BY <3>1, <3>2, EmptySeq
  <2> QED
    BY <2>1, <2>2 DEF WorldSet
<1>3. ASSUME NEW k \in Nat, k + 1 \in S
      PROVE  WorldSet(k + 1) = WithValuesOf(WorldSet(k), vs[k + 1])
  BY <1>1, <1>3, WorldsGrow
<1>4. ASSUME NEW k \in S, k # 0 PROVE h[k] = WithValuesOf(h[k - 1], vs[k])
  <2>1. k - 1 \in Nat /\ (k - 1) + 1 = k /\ k - 1 \in S
    BY <1>1, <1>4
  <2> QED
    BY <1>3, <1>4, <2>1
<1>5. h = [k \in S |-> IF k = 0 THEN {<< >>} ELSE WithValuesOf(h[k - 1], vs[k])]
  BY <1>2, <1>4
<1> HIDE DEF h
<1>6. WorldsUpTo = [k \in S |-> IF k = 0 THEN {<< >>}
                                ELSE WithValuesOf(WorldsUpTo[k - 1], vs[k])]
  BY <1>5 DEF WorldsUpTo
<1> DEFINE T == {k \in Nat : k \in S => WorldsUpTo[k] = WorldSet(k)}
<1>7. 0 \in T
  BY <1>1, <1>2, <1>6
<1>8. ASSUME NEW k \in Nat, k \in T PROVE k + 1 \in T
  <2> SUFFICES ASSUME k + 1 \in S PROVE WorldsUpTo[k + 1] = WorldSet(k + 1)
    OBVIOUS
  <2>1. k \in S /\ k + 1 # 0 /\ (k + 1) - 1 = k
    BY <1>1
  <2>2. WorldsUpTo[k] = WorldSet(k)
    BY <1>8, <2>1
  <2>3. WorldsUpTo[k + 1] = WithValuesOf(WorldsUpTo[k], vs[k + 1])
    BY <1>6, <2>1
  <2> QED
    BY <1>3, <2>2, <2>3
<1> HIDE DEF T
<1>9. \A k \in Nat : k \in T
  BY <1>7, <1>8, SetInduction
<1> QED
  BY <1>1, <1>9 DEF T, Worlds

\* What a compiled program says of the proof and the function.
LEMMA CompiledFacts ==
    ASSUME SourceInv, pc = "Compiled"
    PROVE  /\ Arity \in Nat
           /\ InputVariables = [k \in 1..Arity |-> Input(k)]
           /\ \A k \in 1..Arity : Input(k).id = k - 1
           /\ DOMAIN inputs = {declaration.parameters[k].name : k \in 1..Arity}
           /\ \A k \in 1..Arity : /\ inputs[declaration.parameters[k].name] = Input(k)
                                  /\ InputTerm(declaration.parameters[k], Input(k))
           /\ \A i, j \in 1..Arity :
                 declaration.parameters[i].name = declaration.parameters[j].name => i = j
           /\ proof.resultVariableId = Arity
           /\ IsEffect => /\ proof.tagVariableId = Arity + 1
                          /\ proof.failureTagVariableId = Arity + 2
           /\ body \in Bodies /\ body.sort = declaration.returns
           /\ body.sort \in {"Int", "Bool"} /\ ResultDomain.sort = body.sort
<1>1. /\ options \in Options /\ Shape(proof) /\ Matched /\ BoundTo(Arity)
      /\ body \in Bodies /\ body.sort = declaration.returns
  BY DEF SourceInv, AfterDeclare, AfterSignature, AfterParameters, AfterBody
<1>2. Arity \in Nat /\ InputVariables = [k \in 1..Arity |-> Input(k)]
  BY <1>1, OptionsShape, InputVariablesAre
<1>3. \A k \in 1..Arity : Input(k).id = k - 1
  BY DEF Input
<1>4. /\ DOMAIN inputs = {declaration.parameters[k].name : k \in 1..Arity}
      /\ \A k \in 1..Arity : /\ inputs[declaration.parameters[k].name] = Input(k)
                             /\ InputTerm(declaration.parameters[k], Input(k))
      /\ \A i, j \in 1..Arity :
            declaration.parameters[i].name = declaration.parameters[j].name => i = j
  BY <1>1 DEF BoundTo
<1>5. /\ proof.resultVariableId = Arity /\ proof.resultSort = ResultSort
      /\ IsEffect => /\ proof.tagVariableId = Arity + 1
                     /\ proof.failureTagVariableId = Arity + 2
  BY <1>1 DEF Shape
<1>6. body.sort \in {"Int", "Bool"} /\ ResultDomain.sort = body.sort
  BY <1>1, <1>5, OutcomeDomains DEF Matched
<1> QED
  BY <1>1, <1>2, <1>3, <1>4, <1>5, <1>6

\* The k-th argument is the value of the k-th parameter.
LEMMA PassedByName ==
    ASSUME SourceInv, pc = "Compiled", NEW c, DOMAIN c = 1..Arity
    PROVE  /\ DOMAIN Passed(c) = DOMAIN inputs
           /\ \A k \in 1..Arity : Passed(c)[declaration.parameters[k].name] = c[k]
<1> DEFINE name(k) == declaration.parameters[k].name
<1>1. /\ DOMAIN inputs = {name(k) : k \in 1..Arity}
      /\ \A i, j \in 1..Arity : name(i) = name(j) => i = j
  BY CompiledFacts
<1>2. ASSUME NEW k \in 1..Arity PROVE Passed(c)[name(k)] = c[k]
  <2>1. (CHOOSE j \in DOMAIN c : name(j) = name(k)) = k
    <3> DEFINE P(j) == name(j) = name(k)
    <3>1. P(k) /\ \A j \in 1..Arity : P(j) => j = k
      BY <1>1
    <3> HIDE DEF P, name
    <3>2. (CHOOSE j \in 1..Arity : P(j)) = k
      BY <3>1
    <3> QED
      BY <3>2 DEF P
  <2> QED
    BY <1>1, <2>1 DEF Passed
<1> QED
  BY <1>2 DEF Passed

\* The parameters have in a world the values of its arguments.
LEMMA WorldArguments ==
    ASSUME SourceInv, pc = "Compiled", NEW w
    PROVE  /\ Arguments(w) = [k \in 1..Arity |-> w[k - 1]]
           /\ EnvironmentOf(w) = Passed(Arguments(w))
<1> DEFINE name(k) == declaration.parameters[k].name
<1>1. /\ DOMAIN inputs = {name(k) : k \in 1..Arity}
      /\ \A k \in 1..Arity : inputs[name(k)] = Input(k) /\ Input(k).id = k - 1
      /\ InputVariables = [k \in 1..Arity |-> Input(k)]
  BY CompiledFacts
<1>2. Arguments(w) = [k \in 1..Arity |-> w[k - 1]]
  BY <1>1 DEF Arguments
<1> HIDE DEF name
<1>3. /\ DOMAIN Passed(Arguments(w)) = DOMAIN inputs
      /\ \A k \in 1..Arity : Passed(Arguments(w))[name(k)] = w[k - 1]
  <2>1. DOMAIN Arguments(w) = 1..Arity /\ \A k \in 1..Arity : Arguments(w)[k] = w[k - 1]
    BY <1>2
  <2> QED
    BY <2>1, PassedByName DEF name
<1>4. \A x \in DOMAIN inputs : EnvironmentOf(w)[x] = Passed(Arguments(w))[x]
  BY <1>1, <1>3 DEF EnvironmentOf
<1>5. /\ EnvironmentOf(w) = [x \in DOMAIN inputs |-> EnvironmentOf(w)[x]]
      /\ Passed(Arguments(w)) = [x \in DOMAIN inputs |-> Passed(Arguments(w))[x]]
  BY DEF EnvironmentOf, Passed
<1> QED
  BY <1>2, <1>4, <1>5

(***************************************************************************)
(* In every world of the program the assertion of the proof sees exactly   *)
(* what the function does with the arguments of that world, for any order  *)
(* and any names of the parameters.                                        *)
(***************************************************************************)
THEOREM OutcomeExactTheorem == SourceSpec => []OutcomeExact
<1>1. SourceInv => OutcomeExact
  <2> SUFFICES ASSUME SourceInv, pc = "Compiled", NEW w \in Feasible
               PROVE  Observed(w) = Call(Arguments(w))
    BY DEF OutcomeExact
  <2> DEFINE env == Passed(Arguments(w))
  <2>1. BodyHolds(w) /\ EnvironmentOf(w) = env
    BY WorldArguments DEF Feasible
  <2>2. ~IsEffect => body.fails = {}
    BY CompiledFacts DEF Bodies
  <2> HIDE DEF env
  <2>3. CASE ~IsEffect
    BY <2>1, <2>2, <2>3 DEF BodyHolds, Observed, Call, env
  <2>4. CASE IsEffect /\ env \in body.fails
    <3>1. w[proof.tagVariableId] = Text("Failure")
          /\ w[proof.failureTagVariableId] = Text(FailureTag)
      BY <2>1, <2>4 DEF BodyHolds
    <3>2. Text("Failure") # Text("Success")
      BY DEF Text
    <3> QED
      BY <2>4, <3>1, <3>2 DEF Observed, Call, env
  <2>5. CASE IsEffect /\ env \notin body.fails
    BY <2>1, <2>5 DEF BodyHolds, Observed, Call, env
  <2> QED
    BY <2>3, <2>4, <2>5
<1> QED
  BY <1>1, SourceSpecInv, PTL

-----------------------------------------------------------------------------
(* Inputs.                                                                 *)

\* The domain of an input has a sort of its own, and integers for bounds.
LEMMA DomainTyped ==
    ASSUME NEW request \in Requests, NEW d, d = DomainOf(request)
    PROVE  /\ d.sort \in {"Int", "Bool"}
           /\ {d.minimum, d.maximum} \subseteq Int \cup {None}
<1>1. IsRequest(request) /\ Valid(request) /\ request.kind # "string"
  BY OptionsAssumption
<1>2. CASE request.kind = "integer"
  BY <1>1, <1>2 DEF DomainOf, Domain, IsRequest
<1>3. CASE request.kind = "uint" \/ request.kind = "int"
  <2>1. request.bits \in Nat /\ request.bits - 1 \in Nat
    BY <1>1, <1>3, BuilderAssumption DEF Valid
  <2>2. PowerOfTwo[request.bits] \in Int /\ PowerOfTwo[request.bits - 1] \in Int
    BY <2>1, PowerOfTwoDef
  <2> QED
    BY <1>3, <2>2 DEF DomainOf, Domain
<1>4. CASE request.kind \notin {"integer", "uint", "int"}
  <2>1. request.kind = "boolean"
    BY <1>1, <1>4 DEF IsRequest, BooleanRequest, StringRequest
  <2> QED
    BY <1>4, <2>1 DEF DomainOf, Domain
<1> QED
  BY <1>2, <1>3, <1>4

\* A bound input is a boolean without bounds, or within safe integers.
LEMMA InputTyped ==
    ASSUME SourceInv, pc = "Compiled", NEW k \in 1..Arity,
           NEW v, v = Input(k)
    PROVE  \/ v.sort = "Bool" /\ v.minimum = None /\ v.maximum = None
           \/ /\ v.sort = "Int" /\ v.minimum \in Int /\ v.maximum \in Int
              /\ v.minimum # None /\ v.maximum # None
              /\ v.minimum <= v.maximum
              /\ -MaxSafe <= v.minimum /\ v.maximum <= MaxSafe
              /\ v.minimum..v.maximum \subseteq Probe
<1> DEFINE request == options.domains[k]
           d == DomainOf(request)
<1>1. request \in Requests
  BY OptionsShape DEF SourceInv
<1>2. v.sort = d.sort /\ v.minimum = d.minimum /\ v.maximum = d.maximum
  BY DEF Input
<1> HIDE DEF d
<1>3. /\ d.sort \in {"Int", "Bool"}
      /\ {d.minimum, d.maximum} \subseteq Int \cup {None}
  BY <1>1, DomainTyped DEF d
<1>4. IF d.sort = "Int"
        THEN Safe(d.minimum) /\ Safe(d.maximum) /\ Ordered(d.minimum, d.maximum)
        ELSE d.minimum = None /\ d.maximum = None
  BY <1>1, OptionsAssumption, ValidAccepted DEF d
<1>5. v.sort = "Int" => v.minimum # None /\ v.maximum # None
  BY CompiledFacts DEF InputTerm
<1>6. d.minimum # None /\ d.maximum # None => d.minimum..d.maximum \subseteq Probe
  BY <1>1, ProbeAssumption DEF d
<1>7. CASE d.sort = "Bool"
  BY <1>2, <1>4, <1>7
<1>8. CASE d.sort = "Int"
  BY <1>2, <1>3, <1>4, <1>5, <1>6, <1>8, BuilderAssumption DEF Safe, Ordered
<1> QED
  BY <1>3, <1>7, <1>8

\* A world gives an input the values of its parameter.
LEMMA InputWorldValues ==
    ASSUME SourceInv, pc = "Compiled", NEW k \in 1..Arity
    PROVE  WorldValues(Renaming(k)) = ValuesIn(Input(k))
<1> DEFINE v == Input(k)
           u == Renaming(k)
<1>1. u.sort = v.sort /\ u.minimum = v.minimum /\ u.maximum = v.maximum
  BY DEF Renaming, Input
<1>2. \/ v.sort = "Bool"
      \/ /\ v.sort = "Int" /\ v.minimum \in Int /\ v.maximum \in Int
         /\ v.minimum # None /\ v.maximum # None
         /\ v.minimum..v.maximum \subseteq Probe
  BY InputTyped
<1> HIDE DEF u, v
<1>3. CASE v.sort = "Bool"
  <2>1. WorldValues(u) = {Boolean(b) : b \in BOOLEAN}
    BY <1>1, <1>3 DEF WorldValues
  <2>2. ValuesIn(v) = {Boolean(b) : b \in BOOLEAN}
    BY <1>3 DEF ValuesIn
  <2> QED
    BY <2>1, <2>2 DEF u, v
<1>4. CASE v.sort = "Int"
  <2> DEFINE within == {m \in Probe : /\ u.minimum = None \/ u.minimum <= m
                                      /\ u.maximum = None \/ m <= u.maximum}
  <2>1. Probe \subseteq Int
    BY ProbeAssumption
  <2>2. within = v.minimum..v.maximum
    <3>1. within = {m \in Probe : v.minimum <= m /\ m <= v.maximum}
      BY <1>1, <1>2, <1>4
    <3>2. ASSUME NEW a \in Int, NEW b \in Int, a..b \subseteq Probe
          PROVE  {m \in Probe : a <= m /\ m <= b} = a..b
      <4>1. \A m : m \in a..b <=> m \in Int /\ a <= m /\ m <= b
        OBVIOUS
      <4> QED
        BY <2>1, <3>2, <4>1
    <3>3. /\ v.minimum \in Int /\ v.maximum \in Int
          /\ v.minimum..v.maximum \subseteq Probe
      BY <1>2, <1>4
    <3> HIDE DEF within
    <3> QED
      BY <3>1, <3>2, <3>3
  <2>3. WorldValues(u) = {Number(n) : n \in within}
    BY <1>1, <1>4 DEF WorldValues
  <2>4. ValuesIn(v) = {Number(n) : n \in v.minimum..v.maximum}
    BY <1>4 DEF ValuesIn
  <2> QED
    BY <2>2, <2>3, <2>4 DEF u, v
<1> QED
  BY <1>2, <1>3, <1>4

\* What isValidSourceInputs accepts is a value of the parameter, and conversely.
LEMMA AcceptedValues ==
    ASSUME SourceInv, pc = "Compiled", NEW k \in 1..Arity, NEW x
    PROVE  /\ IsValue(x) /\ AcceptsValue(Input(k), x) => x \in ValuesIn(Input(k))
           /\ x \in ValuesIn(Input(k)) => AcceptsValue(Input(k), x)
<1> DEFINE v == Input(k)
<1> HIDE DEF v
<1>1. \/ v.sort = "Bool"
      \/ /\ v.sort = "Int" /\ v.minimum \in Int /\ v.maximum \in Int
         /\ v.minimum # None /\ v.maximum # None
         /\ -MaxSafe <= v.minimum /\ v.maximum <= MaxSafe
  BY InputTyped DEF v
<1>2. CASE v.sort = "Bool"
  BY <1>2 DEF AcceptsValue, ValuesIn, IsValue, Boolean, Number, v
<1>3. CASE v.sort = "Int"
  <2>1. ValuesIn(v) = {Number(n) : n \in v.minimum..v.maximum}
    BY <1>3 DEF ValuesIn
  <2>2. AcceptsValue(v, x) <=>
            /\ x[1] = "number"
            /\ -MaxSafe <= x[2] /\ x[2] <= MaxSafe
            /\ v.minimum <= x[2] /\ x[2] <= v.maximum
    BY <1>1, <1>3 DEF AcceptsValue
  <2>3. ASSUME IsValue(x), AcceptsValue(v, x) PROVE x \in ValuesIn(v)
    <3>1. x[2] \in Int /\ x = Number(x[2])
      BY <2>2, <2>3 DEF IsValue, Boolean
    <3>2. x[2] \in v.minimum..v.maximum
      BY <1>1, <1>3, <2>2, <2>3, <3>1
    <3> QED
      BY <2>1, <3>1, <3>2
  <2>4. ASSUME x \in ValuesIn(v) PROVE AcceptsValue(v, x)
    <3>1. PICK n \in v.minimum..v.maximum : x = Number(n)
      BY <2>1, <2>4
    <3>2. x[1] = "number" /\ x[2] = n
      BY <3>1 DEF Number
    <3> QED
      BY <1>1, <1>3, <2>2, <3>1, <3>2, BuilderAssumption
  <2> QED
    BY <2>3, <2>4 DEF v
<1> QED
  BY <1>1, <1>2, <1>3

\* The assumptions of the builder exclude no values of the inputs.
LEMMA AssumptionsHold ==
    ASSUME SourceInv, pc = "Compiled", NEW w,
           \A k \in 1..Arity : w[k - 1] \in ValuesIn(Input(k)),
           NEW a \in compiled.assumptions
    PROVE  BoundHolds(a, w)
<1>1. a \in InputAssumptions(Arity)
  BY ProgramIs
<1>2. PICK k \in 1..Arity : a \in BoundConditions(Symbol(k - 1, Input(k).sort), Input(k))
  BY <1>1 DEF InputAssumptions
<1> DEFINE v == Input(k)
<1> HIDE DEF v
<1>3. \/ v.minimum = None /\ v.maximum = None
      \/ v.sort = "Int" /\ v.minimum \in Int /\ v.maximum \in Int
  BY InputTyped DEF v
<1>4. CASE v.minimum = None /\ v.maximum = None
  BY <1>2, <1>4 DEF BoundConditions, v
<1>5. CASE v.sort = "Int" /\ v.minimum \in Int /\ v.maximum \in Int
  <2>1. PICK n \in v.minimum..v.maximum : w[k - 1] = Number(n)
    BY <1>5 DEF ValuesIn, v
  <2>2. w[k - 1][2] = n /\ v.minimum <= n /\ n <= v.maximum
    BY <1>5, <2>1 DEF Number
  <2>3. \A s : Symbol(k - 1, s).id = k - 1
    BY DEF Symbol
  <2>4. a \in {Gte(Symbol(k - 1, v.sort), v.minimum), Lte(Symbol(k - 1, v.sort), v.maximum)}
    BY <1>2 DEF BoundConditions, v
  <2>5. CASE a = Gte(Symbol(k - 1, v.sort), v.minimum)
    <3>1. a.kind = "Gte" /\ a.symbols = {Symbol(k - 1, v.sort)} /\ a.allows = v.minimum
      BY <2>5 DEF Gte
    <3> QED
      BY <1>5, <2>2, <2>3, <3>1 DEF BoundHolds
  <2>6. CASE a = Lte(Symbol(k - 1, v.sort), v.maximum)
    <3>1. a.kind = "Lte" /\ a.symbols = {Symbol(k - 1, v.sort)} /\ a.allows = v.maximum
      BY <2>6 DEF Lte
    <3> QED
      BY <2>2, <2>3, <3>1 DEF BoundHolds
  <2> QED
    BY <2>4, <2>5, <2>6
<1> QED
  BY <1>3, <1>4, <1>5

\* The body has a value, within its bounds, for any values of the parameters.
LEMMA BodyValue ==
    ASSUME SourceInv, pc = "Compiled", NEW c, DOMAIN c = 1..Arity,
           \A k \in 1..Arity : c[k] \in ValuesIn(Input(k))
    PROVE  body.value[Passed(c)] \in WorldValues(Value)
<1> DEFINE env == Passed(c)
           name(k) == declaration.parameters[k].name
<1>1. /\ DOMAIN inputs = {name(k) : k \in 1..Arity}
      /\ \A k \in 1..Arity : inputs[name(k)] = Input(k)
      /\ body \in Bodies /\ body.sort \in {"Int", "Bool"} /\ ResultDomain.sort = body.sort
  BY CompiledFacts
<1>2. \A k \in 1..Arity : env[name(k)] = c[k]
  BY PassedByName
<1> HIDE DEF name
<1>3. env \in Environments
  <2>1. \A x \in DOMAIN inputs : env[x] \in ValuesIn(inputs[x])
    BY <1>1, <1>2
  <2>2. env = [x \in DOMAIN inputs |-> env[x]]
    BY DEF Passed
  <2> HIDE DEF env
  <2>3. env \in [DOMAIN inputs -> UNION {ValuesIn(inputs[x]) : x \in DOMAIN inputs}]
    BY <2>1, <2>2
  <2> QED
    BY <2>1, <2>3 DEF Environments
<1> HIDE DEF env
<1>4. /\ Value.sort = body.sort /\ Value.minimum = body.bounds[1]
      /\ Value.maximum = body.bounds[2]
  BY <1>1 DEF Value, Outcome
<1>5. CASE body.sort = "Bool"
  <2>1. body.value \in [Environments -> {Boolean(b) : b \in BOOLEAN}]
    BY <1>1, <1>5 DEF Bodies
  <2>2. WorldValues(Value) = {Boolean(b) : b \in BOOLEAN}
    BY <1>4, <1>5 DEF WorldValues
  <2> QED
    BY <1>3, <2>1, <2>2 DEF env
<1>6. CASE body.sort = "Int"
  <2>1. PICK interval \in Intervals :
            /\ body.bounds = interval
            /\ body.value \in [Environments -> {Number(n) : n \in interval[1]..interval[2]}]
    BY <1>1, <1>6 DEF Bodies
  <2>2. /\ interval[1] \in Int /\ interval[2] \in Int
        /\ interval[1]..interval[2] \subseteq Probe
    BY ProbeAssumption
  <2>3. PICK n \in interval[1]..interval[2] : body.value[env] = Number(n)
    BY <1>3, <2>1
  <2>4. WorldValues(Value) = {Number(m) : m \in {m \in Probe :
                                  /\ interval[1] = None \/ interval[1] <= m
                                  /\ interval[2] = None \/ m <= interval[2]}}
    BY <1>4, <1>6, <2>1 DEF WorldValues
  <2>5. n \in Probe /\ interval[1] <= n /\ n <= interval[2]
    BY <2>2, <2>3
  <2> QED
    BY <2>3, <2>4, <2>5 DEF env
<1> QED
  BY <1>1, <1>5, <1>6

\* The world in which the function is called with the arguments c.
WorldOf(c) ==
    LET fails == Passed(c) \in body.fails
    IN  [i \in 0..(VariableCount - 1) |->
            IF i < Arity THEN c[i + 1]
            ELSE IF i = Arity THEN body.value[Passed(c)]
            ELSE IF i = Arity + 1 THEN Text(IF fails THEN "Failure" ELSE "Success")
            ELSE Text(IF fails THEN FailureTag ELSE "")]

\* There is such a world, for any values of the parameters.
LEMMA Covered ==
    ASSUME SourceInv, pc = "Compiled", NEW c, c = [k \in 1..Arity |-> c[k]],
           \A k \in 1..Arity : c[k] \in ValuesIn(Input(k))
    PROVE  WorldOf(c) \in Feasible /\ Arguments(WorldOf(c)) = c
<1> DEFINE w == WorldOf(c)
           n == Arity
           vs == compiled.variables
           fails == Passed(c) \in body.fails
           tag == Text(IF fails THEN "Failure" ELSE "Success")
           failureTag == Text(IF fails THEN FailureTag ELSE "")
<1>1. /\ n \in Nat /\ VariableCount \in Nat
      /\ vs = [i \in 1..VariableCount |-> vs[i]]
      /\ \A k \in 1..n : vs[k] = Renaming(k)
      /\ vs[n + 1] = Value
      /\ IF IsEffect
           THEN /\ VariableCount = n + 3
                /\ vs[n + 2] = Outcome(n + 1, "outcomeTag", "String")
                /\ vs[n + 3] = Outcome(n + 2, "failureTag", "String")
           ELSE VariableCount = n + 1
  BY ProgramIs
<1> HIDE DEF vs, fails, n
<1>2. DOMAIN w = 0..(VariableCount - 1)
  BY DEF WorldOf
<1>3. \A k \in 1..n : w[k - 1] = c[k]
  <2> TAKE k \in 1..n
  <2>1. k - 1 \in 0..(VariableCount - 1) /\ k - 1 < n /\ (k - 1) + 1 = k
    BY <1>1
  <2> QED
    BY <2>1 DEF WorldOf, n
<1>4. w[n] = body.value[Passed(c)]
  <2>1. n \in 0..(VariableCount - 1) /\ ~(n < n)
    BY <1>1
  <2> QED
    BY <2>1 DEF WorldOf, n
<1>5. IsEffect => w[n + 1] = tag /\ w[n + 2] = failureTag
  <2> SUFFICES ASSUME IsEffect PROVE w[n + 1] = tag /\ w[n + 2] = failureTag
    OBVIOUS
  <2>1. /\ n + 1 \in 0..(VariableCount - 1) /\ ~(n + 1 < n) /\ n + 1 # n
        /\ n + 2 \in 0..(VariableCount - 1) /\ ~(n + 2 < n) /\ n + 2 # n /\ n + 2 # n + 1
    BY <1>1
  <2> QED
    BY <2>1 DEF WorldOf, n, fails
<1> HIDE DEF w, tag, failureTag
<1>6. ASSUME NEW j \in 1..VariableCount PROVE w[j - 1] \in WorldValues(vs[j])
  <2>1. CASE j \in 1..n
    BY <1>1, <1>3, <2>1, InputWorldValues DEF n
  <2>2. CASE j = n + 1
    <3>1. DOMAIN c = 1..Arity
      OBVIOUS
    <3>2. body.value[Passed(c)] \in WorldValues(Value)
      BY <3>1, BodyValue
    <3>3. j - 1 = n /\ vs[j] = Value
      BY <1>1, <2>2
    <3> HIDE DEF n
    <3> QED
      BY <1>4, <3>2, <3>3, Zenon
  <2>3. CASE IsEffect /\ (j = n + 2 \/ j = n + 3)
    <3>1. \A id, text : WorldValues(Outcome(id, text, "String"))
                          = {Text(s) : s \in {"Success", "Failure", "", FailureTag}}
      BY DEF WorldValues, Outcome
    <3>2. {tag, failureTag} \subseteq {Text(s) : s \in {"Success", "Failure", "", FailureTag}}
      BY DEF tag, failureTag
    <3>3. w[j - 1] \in {tag, failureTag}
      <4>1. (j = n + 2 /\ j - 1 = n + 1) \/ (j = n + 3 /\ j - 1 = n + 2)
        BY <1>1, <2>3
      <4> QED
        BY <1>5, <2>3, <4>1, Zenon
    <3>4. \E id, text : vs[j] = Outcome(id, text, "String")
      BY <1>1, <2>3, Zenon
    <3> QED
      BY <3>1, <3>2, <3>3, <3>4, Zenon
  <2> QED
    BY <1>1, <2>1, <2>2, <2>3
<1>7. w \in Worlds
  <2> DEFINE All == UNION {WorldValues(vs[j]) : j \in DOMAIN vs}
  <2>1. \A i \in 0..(VariableCount - 1) : w[i] \in All
    <3> TAKE i \in 0..(VariableCount - 1)
    <3>1. i + 1 \in 1..VariableCount /\ (i + 1) - 1 = i /\ i + 1 \in DOMAIN vs
      BY <1>1
    <3> QED
      BY <1>6, <3>1
  <2>2. w = [i \in 0..(VariableCount - 1) |-> w[i]]
    BY <1>2 DEF w, WorldOf
  <2> HIDE DEF All
  <2>3. w \in [0..(VariableCount - 1) -> All]
    BY <2>1, <2>2
  <2>4. w \in WorldSet(VariableCount)
    BY <1>6, <2>3 DEF WorldSet, vs, All
  <2> QED
    BY <2>4, WorldsAre
<1>8. Arguments(w) = c
  BY <1>3, WorldArguments DEF n
<1>9. EnvironmentOf(w) = Passed(c)
  BY <1>8, WorldArguments
<1>10. BodyHolds(w)
  <2>1. proof.resultVariableId = n
        /\ (IsEffect => proof.tagVariableId = n + 1 /\ proof.failureTagVariableId = n + 2)
    BY CompiledFacts DEF n
  <2> QED
    BY <1>4, <1>5, <1>9, <2>1 DEF BodyHolds, tag, failureTag, fails
<1>11. \A a \in compiled.assumptions : BoundHolds(a, w)
  <2>1. \A k \in 1..Arity : w[k - 1] \in ValuesIn(Input(k))
    BY <1>3 DEF n
  <2> QED
    BY <2>1, AssumptionsHold
<1> QED
  BY <1>7, <1>8, <1>10, <1>11 DEF Feasible, w

(***************************************************************************)
(* The arguments isValidSourceInputs accepts are those the program ranges  *)
(* over, and there are some: whatever the domains, the widest bit domain   *)
(* and the interval of the body.                                           *)
(***************************************************************************)
THEOREM InputsAgreeTheorem == SourceSpec => []InputsAgree
<1>1. SourceInv => InputsAgree
  <2> DEFINE covered == {Arguments(w) : w \in Feasible}
  <2> SUFFICES ASSUME SourceInv, pc = "Compiled"
               PROVE  /\ \A candidate \in Candidates :
                            IsValidSourceInputs(candidate) <=> candidate \in covered
                      /\ covered # {}
    BY DEF InputsAgree
  <2>1. /\ Arity \in Nat /\ InputVariables = [k \in 1..Arity |-> Input(k)]
        /\ Len(InputVariables) = Arity
    BY CompiledFacts
  <2>2. ASSUME NEW candidate \in Candidates, IsValidSourceInputs(candidate)
        PROVE  candidate \in covered
    <3>1. /\ Len(candidate) = Arity
          /\ \A k \in DOMAIN candidate : AcceptsValue(InputVariables[k], candidate[k])
      BY <2>1, <2>2 DEF IsValidSourceInputs
    <3>2. /\ candidate = [k \in 1..Arity |-> candidate[k]]
          /\ \A k \in 1..Arity : IsValue(candidate[k])
      BY <3>1, CandidatesAssumption
    <3>3. \A k \in 1..Arity : candidate[k] \in ValuesIn(Input(k))
      BY <2>1, <3>1, <3>2, AcceptedValues
    <3>4. WorldOf(candidate) \in Feasible /\ Arguments(WorldOf(candidate)) = candidate
      BY <3>2, <3>3, Covered
    <3> QED
      BY <3>4
  <2>3. ASSUME NEW w \in Feasible PROVE IsValidSourceInputs(Arguments(w))
    <3>1. w \in WorldSet(VariableCount)
      BY <2>3, WorldsAre DEF Feasible
    <3>2. ASSUME NEW k \in 1..Arity PROVE w[k - 1] \in ValuesIn(Input(k))
      <4>1. k \in 1..VariableCount /\ compiled.variables[k] = Renaming(k)
        BY ProgramIs
      <4> QED
        BY <3>1, <4>1, InputWorldValues DEF WorldSet
    <3>3. Arguments(w) = [k \in 1..Arity |-> w[k - 1]]
      BY WorldArguments
    <3>4. \A k \in 1..Arity : AcceptsValue(Input(k), w[k - 1])
      BY <3>2, AcceptedValues
    <3>5. Len(Arguments(w)) = Arity /\ DOMAIN Arguments(w) = 1..Arity
      BY <2>1, <3>3
    <3> QED
      BY <2>1, <3>3, <3>4, <3>5 DEF IsValidSourceInputs
  <2>4. covered # {}
    <3> DEFINE c == [k \in 1..Arity |-> IF Input(k).sort = "Bool" THEN Boolean(TRUE)
                                        ELSE Number(Input(k).minimum)]
    <3>1. ASSUME NEW k \in 1..Arity PROVE c[k] \in ValuesIn(Input(k))
      <4>1. CASE Input(k).sort = "Bool"
        BY <4>1 DEF ValuesIn
      <4>2. CASE Input(k).sort # "Bool"
        <5>1. Input(k).minimum \in Input(k).minimum..Input(k).maximum
          BY <4>2, InputTyped
        <5> QED
          BY <4>2, <5>1 DEF ValuesIn
      <4> QED
        BY <4>1, <4>2
    <3>2. c = [k \in 1..Arity |-> c[k]]
      OBVIOUS
    <3> HIDE DEF c
    <3>3. WorldOf(c) \in Feasible
      BY <3>1, <3>2, Covered
    <3> QED
      BY <3>3
  <2> QED
    BY <2>2, <2>3, <2>4
<1> QED
  BY <1>1, SourceSpecInv, PTL

-----------------------------------------------------------------------------
(* Identity.                                                               *)

IdentityInv ==
    /\ pc \in {"Find", "Signature"} \cup AfterSignature /\ typedBy.inPlace =>
          typedBy.files = {options.sourceFile}
    /\ pc \in {"Signature"} \cup AfterSignature /\ ~target.byDefault =>
          target.denoted = {target.found}

\* If one call of the core API is in the initializers, and the proof is made by
\* one there, it is made by this one.
LEMMA MadeByTheCall ==
    ASSUME NEW module, NEW path, SourceModuleMatches(module, path), MadeInPlace(module)
    PROVE  module.made.files = {path}
<1> DEFINE calls == module.initializers[1]
<1>1. SelectedSourceType(module) = {path}
  BY DEF SourceModuleMatches
<1>2. /\ Len(module.initializers) = 1
      /\ \E k \in DOMAIN calls : CoreCalls(calls) = {k}
      /\ calls[CHOOSE k \in CoreCalls(calls) : TRUE].files = {path}
  BY <1>1 DEF SelectedSourceType, Unresolved
<1>3. PICK k \in DOMAIN calls : CoreCalls(calls) = {k}
  BY <1>2
<1>4. module.made = calls[k]
  BY <1>2, <1>3 DEF MadeInPlace
<1> QED
  BY <1>2, <1>3, <1>4

\* In a file without type errors, the only candidate is all the name denotes,
\* unless it is exported as default.
LEMMA OnlyCandidateDenoted ==
    ASSUME NEW statements, WellTyped(statements), NEW k \in DOMAIN statements,
           ExportedCandidates(statements) = {k}, statements[k].body,
           statements[k].exported # "default",
           statements[k].exported \in {"no", "name", "default"}
    PROVE  Denoted(statements) = {k}
<1>1. statements[k].named /\ statements[k].exported = "name"
  BY DEF ExportedCandidates
<1>2. Provided(statements[k])
  BY <1>1 DEF Provided
<1>3. ASSUME NEW j \in DOMAIN statements, Provided(statements[j]) PROVE j = k
  <2> SUFFICES ASSUME j # k PROVE FALSE
    OBVIOUS
  <2>1. /\ statements[j].form = "function" /\ statements[j].named
        /\ statements[j].exported = statements[k].exported
    BY <1>2, <1>3 DEF WellTyped
  <2>2. j \in ExportedCandidates(statements)
    BY <1>1, <2>1 DEF ExportedCandidates
  <2> QED
    BY <2>2
<1>4. {j \in DOMAIN statements : Provided(statements[j])} = {k}
  BY <1>2, <1>3
<1> QED
  BY <1>4 DEF Denoted

(***************************************************************************)
(* The function compiled is the one the proof was typed by, for any number *)
(* of calls and of statements, as far as IdentityHolds goes: for a proof a *)
(* helper makes, and for a default export, TLC shows that it need not be   *)
(* (MCSourceProofHelper.cfg, MCSourceProofDefault.cfg).                    *)
(***************************************************************************)
THEOREM IdentityTheorem == SourceSpec => []IdentityHolds
<1>1. SourceInit => IdentityInv
  BY DEF SourceInit, IdentityInv, AfterSignature, AfterParameters, AfterBody
<1>2. IdentityInv /\ [SourceNext]_sourceVars => IdentityInv'
  <2> SUFFICES ASSUME IdentityInv, [SourceNext]_sourceVars PROVE IdentityInv'
    OBVIOUS
  <2> USE DEF IdentityInv, AfterSignature, AfterParameters, AfterBody
  <2>1. ASSUME NEW module \in ProofModules, Identify(module) PROVE IdentityInv'
    <3>1. CASE ~SourceModuleMatches(module, options.sourceFile)
      BY <2>1, <3>1 DEF Identify, Throw
    <3>2. CASE SourceModuleMatches(module, options.sourceFile)
      <4>1. /\ pc' = "Find" /\ UNCHANGED <<options, target>>
            /\ typedBy' = [files |-> module.made.files, inPlace |-> MadeInPlace(module)]
        BY <2>1, <3>2 DEF Identify
      <4>2. MadeInPlace(module) => module.made.files = {options.sourceFile}
        BY <3>2, MadeByTheCall
      <4> QED
        BY <4>1, <4>2
    <3> QED
      BY <3>1, <3>2
  <2>2. ASSUME NEW statements \in SourceFiles, FindTarget(statements) PROVE IdentityInv'
    <3>1. CASE Throw
      BY <3>1 DEF Throw
    <3>2. CASE ~Throw
      <4>1. PICK k \in DOMAIN statements :
                /\ ExportedCandidates(statements) = {k} /\ statements[k].body
                /\ pc = "Find" /\ Found(statements, k)
        BY <2>2, <3>2 DEF FindTarget
      <4>2. /\ pc' = "Signature" /\ UNCHANGED <<options, typedBy>>
            /\ target' = [found |-> k, byDefault |-> statements[k].exported = "default",
                          denoted |-> Denoted(statements)]
        BY <4>1 DEF Found
      <4>3. statements[k].exported # "default" => Denoted(statements) = {k}
        BY <4>1, SourceFilesAssumption, OnlyCandidateDenoted
      <4> QED
        BY <4>1, <4>2, <4>3
    <3> QED
      BY <3>1, <3>2
  <2>3. CASE Declare \/ CheckSignature \/ SignatureValid \/ Assemble
    BY <2>3 DEF Declare, CheckSignature, SignatureValid, Assemble, Throw, found
  <2>4. CASE BindParameter
    BY <2>4 DEF BindParameter, Bind, Throw, found
  <2>5. ASSUME NEW b \in Bodies, CompileBody(b) PROVE IdentityInv'
    BY <2>5 DEF CompileBody, Throw, found
  <2>6. CASE UNCHANGED sourceVars
    BY <2>6 DEF sourceVars, found
  <2> QED
    BY <2>1, <2>2, <2>3, <2>4, <2>5, <2>6 DEF SourceNext
<1>3. IdentityInv => IdentityHolds
  BY DEF IdentityInv, IdentityHolds, AfterSignature, AfterParameters, AfterBody
<1> QED
  BY <1>1, <1>2, <1>3, PTL DEF SourceSpec
=============================================================================
