---------------------------- MODULE Instantiations ----------------------------
(***************************************************************************)
(* Bindings of a property type's propositions to events, as the two        *)
(* checkers with a memory see them.                                        *)
(***************************************************************************)
EXTENDS LtlLanguage, Functions

\* subformula_ap_collector: the atomic propositions of each subformula.
SubformApSet ==
  LET aps[f \in Language] ==
        IF f.op = "ap" THEN {f.name} ELSE UNION {aps[p] : p \in Operands(f)}
  IN aps

ApsOf(f) == SubformApSet[f]

\* The atomic propositions the pool is to bind.
VariablesOf(prop_type, constants) == ApsOf(prop_type) \ constants

\* instantiation_to_pass: constants are bound to themselves.
AsPassed(inst, constants) ==
  [p \in DOMAIN inst \cup constants |-> IF p \in DOMAIN inst THEN inst[p] ELSE p]

\* A trace as the propositions of a property type see it: one holds at an event where
\* the event it is bound to does.
Under(inst, tr) == [k \in DOMAIN tr |-> {p \in DOMAIN inst : inst[p] \in tr[k]}]
=============================================================================
