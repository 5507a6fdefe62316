---------------------------- MODULE MCStatements ----------------------------
(***************************************************************************)
(* Bodies of at most three statements, one of them compound: an if, a block*)
(* or a loop whose parts hold up to two statements, an if among them.  The *)
(* Effects are typed Effect<number, "E">.                                  *)
(***************************************************************************)
EXTENDS FunctionBody, FiniteSetsExt, TLC

CONSTANTS x, p, y, i

MCNames == {x, p, y, i}

MCParameters == x :> "Int" @@ p :> "Bool"

MCValuations == {(x :> Number(n)) @@ (p :> Boolean(b)) : n \in 0..2, b \in BOOLEAN}

-----------------------------------------------------------------------------
(* The functions.                                                          *)

Tests == {Name(p), Equal(Name(x), Name(i))}

Leaves ==
    {Return(Name(n)) : n \in {x, y, i, p}}
    \cup {Const(y, Name(x)), Const(i, Name(x)), Const(y, Name(i))}

UpTo(S, n) == UNION {[1..k -> S] : k \in 0..n}

\* Nothing follows a return in the same list.
Reachable(list) == \A k \in 1..(Len(list) - 1) : list[k].kind # "Return"

ListsOf(leaves) == {l \in UpTo(leaves, 2) : Reachable(l)}

LeafLists == ListsOf(Leaves)

Short == UpTo(Leaves, 1)

Around == {<< >>} \cup {<<l>> : l \in {Return(Name(x)), Return(Name(y)), Const(y, Name(x)), Const(i, Name(x))}}

Guarded(short) == {If(c, t, << >>) : c \in Tests, t \in short}

Bodies ==
    LeafLists
    \cup {<<g>> : g \in Guarded(Short)}
    \cup {<<g, l>> : g \in Guarded(Short), l \in {Return(Name(x)), Return(Name(i)), Const(y, Name(x))}}

Loops == {For(i, n, b) : n \in {<< >>, <<1>>, <<0, 1>>, <<2, 1>>}, b \in Bodies}

Compounds ==
    Loops
    \cup {Block(b) : b \in LeafLists}
    \cup {If(c, t, e) : c \in Tests, t \in LeafLists, e \in Around}
    \cup {If(Name(p), <<l>>, << >>) : l \in {For(i, <<0, 1>>, b) : b \in Short}}
    \cup {For(i, n, <<For(y, <<0>>, b)>>) : n \in {<< >>, <<0>>}, b \in Short}
    \cup {Unsupported}

Tails == {s \in {<<c>> \o a : c \in Compounds, a \in Around} : NoLateConst(s)}

MCSources == {s \in {b \o t : b \in Around, t \in Tails} : NoLateConst(s)}

Either == Choose(Name(p), Fail("E"), Succeed(Name(x)))

EffectLeaves ==
    {Return(e) : e \in {Succeed(Name(x)), Fail("E"), Name(y),
                        Choose(Equal(Name(x), Name(i)), Either, Name(y))}}
    \cup {Const(y, e) : e \in {Name(x), Either, Choose(Name(p), Name(x), Name(i))}}
    \cup {Const(i, e) : e \in {Name(x), Name(y), Equal(Name(x), Name(x))}}

EffectLists == ListsOf(EffectLeaves)

EffectBefore ==
    {<< >>} \cup {<<Const(y, e)>> : e \in {Name(x), Name(p), Either,
                                           Choose(Name(p), Fail("E"), Name(x))}}

EffectElse == {<< >>, <<Return(Fail("E"))>>, <<Return(Name(y))>>, <<Const(i, Name(x))>>}

EffectAfter ==
    {<< >>} \cup {<<Return(e)>> : e \in {Succeed(Name(p)), Succeed(Name(i)),
                                         Name(y), Fail("F")}}

EffectCompounds ==
    {Block(b) : b \in EffectLists}
    \cup {If(c, t, e) : c \in Tests \cup {Name(y)}, t \in EffectLists, e \in EffectElse}
    \cup {If(Name(p), <<g>>, << >>) : g \in Guarded(UpTo(EffectLeaves, 1))}
    \cup {For(i, << >>, << >>), For(i, <<0>>, << >>), Unsupported}

EffectTails ==
    {s \in {<<c>> \o a : c \in EffectCompounds, a \in EffectAfter} : NoLateConst(s)}

MCEffectSources == {s \in {b \o t : b \in EffectBefore, t \in EffectTails} : NoLateConst(s)}

\* A block whose return is followed by a declaration.
MCDeadSources ==
    {<<Block(<<Return(Name(n)), Const(m, Name(x))>>), r>> :
        n \in {x, p}, m \in {x, p, y, i}, r \in Leaves}

-----------------------------------------------------------------------------
(* Their parts.                                                            *)

RECURSIVE MCHeight(_), MCSize(_)

PartsOf(e) ==
    CASE e.kind = "Equal" -> {e.left, e.right}
      [] e.kind = "Choose" -> {e.condition, e.whenTrue, e.whenFalse}
      [] e.kind = "Succeed" -> {e.payload}
      [] OTHER -> {}

MCHeight(e) == 1 + Max({0} \cup {MCHeight(part) : part \in PartsOf(e)})

MCSize(list) ==
    IF list = << >>
      THEN 0
      ELSE LET s == Head(list)
           IN  1 + MCSize(Tail(list))
                 + CASE s.kind = "Block" -> MCSize(s.body)
                     [] s.kind = "If" -> MCSize(s.then) + MCSize(s.orElse)
                     [] s.kind = "For" -> Len(s.iterations) * (1 + MCSize(s.body))
                     [] OTHER -> 0

SublistsOf(list) ==
    LET s == Head(list)
    IN  {Tail(list)}
        \cup CASE s.kind = "Block" -> {s.body}
               [] s.kind = "If" -> {s.then, s.orElse}
               [] s.kind = "For" ->
                    IF s.iterations = << >> THEN {s.body} ELSE {s.body, AfterIteration(list)}
               [] OTHER -> {}

Within(lists) == lists \cup UNION {SublistsOf(l) : l \in lists \ {<< >>}}

Inner == Within(Within(Within(Within(
    Around \cup EffectAfter \cup {<<c>> : c \in Compounds \cup EffectCompounds}))))

\* What follows an iteration, or the first statement, is a source as well.
Closed == {list \in MCSources \cup (MCEffectSources \cup Inner) : NoLateConst(list)}

MCDeadLists == Within(Within(Within(MCDeadSources)))

ExpressionsOf(s) ==
    CASE s.kind = "Const" -> {s.initializer}
      [] s.kind = "Return" -> {s.expression}
      [] s.kind = "If" -> {s.condition}
      [] OTHER -> {}

Subterms(terms) == terms \cup UNION {PartsOf(e) : e \in terms}

Spelled ==
    Subterms(Subterms(Subterms(UNION {ExpressionsOf(s) : s \in StatementsOf(Closed)})))

\* TLC evaluates a definition once, and the value of a constant wherever it is used.
MCLists == Closed

MCExpressions == Spelled
=============================================================================
