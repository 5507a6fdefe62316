------------------------------ MODULE Identity ------------------------------
(***************************************************************************)
(* Which function a source proof is about.  The proof object carries a path*)
(* and a name; the call that made it carries the type of a module, which   *)
(* TypeScript checked the name and the domains against.  The frontend reads*)
(* the proof's module and compares the two, then looks the function up.    *)
(*                                                                         *)
(* A proof module, as far as the export under verification goes:           *)
(*   resolves      the core API can be resolved from its imports           *)
(*   initializers  of the exported variables of that name: the calls each  *)
(*                 contains, in the order they are written                 *)
(*   made          the call whose result the export is when it is loaded   *)
(* A call has a callee ("core", a "namesake" of the core API, or "other")  *)
(* and the files its first type argument resolves to, none without one.    *)
(*                                                                         *)
(* A statement of the source file that has to do with the name:            *)
(*   form          "function", "arrow" or "other"                          *)
(*   named         what it declares has this name                          *)
(*   exported      "no", "name" (export) or "default" (export default)     *)
(*   listed        exported under the name by an export list               *)
(*   constant      a const                                                 *)
(*   body          there is one: an overload has none                      *)
(***************************************************************************)
EXTENDS Naturals, Sequences

Unresolved == {}

\* The positions of the calls of the core API.
CoreCalls(calls) == {k \in DOMAIN calls : calls[k].callee = "core"}

NamesakeCalled(calls) == \E k \in DOMAIN calls : calls[k].callee = "namesake"

\* Mutant of SelectedSourceType: the first of several calls is taken.
SelectedSourceTypeFirst(module) ==
    IF module.resolves /\ Len(module.initializers) = 1
      THEN LET calls == module.initializers[1]
           IN  IF ~NamesakeCalled(calls) /\ CoreCalls(calls) # {}
                 THEN calls[CHOOSE k \in CoreCalls(calls) :
                               \A j \in CoreCalls(calls) : k <= j].files
                 ELSE Unresolved
      ELSE Unresolved

\* The files of the type argument of the only call, if all is as it must be.
SelectedSourceType(module) ==
    IF module.resolves /\ Len(module.initializers) = 1
      THEN LET calls == module.initializers[1]
           IN  IF ~NamesakeCalled(calls) /\ \E k \in DOMAIN calls : CoreCalls(calls) = {k}
                 THEN calls[CHOOSE k \in CoreCalls(calls) : TRUE].files ELSE Unresolved
      ELSE Unresolved

SourceModuleMatches(module, sourcePath) == SelectedSourceType(module) = {sourcePath}

\* The positions of the candidates; overloads and default exports are among them.
ExportedCandidates(statements) ==
    {k \in DOMAIN statements :
        /\ statements[k].named /\ statements[k].exported # "no"
        /\ \/ statements[k].form = "function"
           \/ statements[k].form = "arrow" /\ statements[k].constant}

-----------------------------------------------------------------------------
(* What the two checks are about: TypeScript's view of both modules, which *)
(* the proof was written against.                                          *)

\* A call in the initializer of the export makes the proof, and no helper.
MadeInPlace(module) ==
    \E k \in DOMAIN module.initializers :
        LET calls == module.initializers[k]
        IN  \E n \in CoreCalls(calls) : module.made = calls[n]

Provided(s) == (s.named /\ s.exported = "name") \/ s.listed

\* The positions of what the name stands for, seen from another module: of the
\* function exported by it or, if that is overloaded, of the overloads only.
Denoted(statements) ==
    LET provided == {k \in DOMAIN statements : Provided(statements[k])}
        overloads == {k \in provided : ~statements[k].body}
    IN  IF overloads # {} THEN overloads ELSE provided

\* A source file without type errors: what shares the name, as its own or as
\* that of an export, are the overloads of one function and its body.
WellTyped(statements) ==
    \A j, k \in DOMAIN statements :
        LET s == statements[j]
            t == statements[k]
        IN  j # k /\ ((s.named /\ t.named) \/ (Provided(s) /\ Provided(t))) =>
                /\ s.form = "function" /\ t.form = "function"
                /\ s.named /\ t.named /\ ~(s.body /\ t.body)
                /\ s.exported = t.exported /\ s.listed = t.listed
=============================================================================
