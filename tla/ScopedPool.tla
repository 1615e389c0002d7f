------------------------------ MODULE ScopedPool ------------------------------
(***************************************************************************)
(* scoped_instants_pool_creator: the odometer of OtfPool, turned over the  *)
(* predicate events and predicate variables only.  The scope variable that *)
(* goes with a predicate variable is bound to the scope that the text of   *)
(* the predicate event names, "!!!a" for "???a???b".                       *)
(*                                                                         *)
(* num_events and num_vars count the predicates.  A scope is a number      *)
(* below zero, so that it is never taken for a predicate event.  Scope     *)
(* variables without a predicate variable are not modelled: the pool never *)
(* binds them.  One step is one call, or recursive call, of                *)
(* get_next_instantiation.                                                 *)
(***************************************************************************)
EXTENDS OtfPool

CONSTANT Scopes  \* numbers below zero

VARIABLE scope_of  \* the scope in the text of each predicate event

scopedVars == <<vars, scope_of>>

Keys == {"", "scope_"} \X FormVars

IsScope(event) == event < 0

\* A map from the predicate variables, with the scope variables.
WithScopes(inst) ==
  [key \in Keys |-> IF key[1] = "scope_" THEN scope_of[inst[key[2]]] ELSE inst[key[2]]]

\* A variant that will not have a scope twice either.
RepeatsAnything(inst) == \E j, k \in Keys : j # k /\ inst[j] = inst[k]

RepeatsAPredicate(inst) == \E j, k \in Keys : j # k /\ inst[j] = inst[k] /\ ~ IsScope(inst[k])

-----------------------------------------------------------------------------
\* The constructor and set_up_iteration_tracker.
InitScoped == Init /\ scope_of \in [Events -> Scopes]

ReturnScoped ==
  /\ ~ drained /\ ~ AllSeen
  /\ allow_repetition \/ ~ RepeatsAPredicate(WithScopes(Turned))
  /\ mapto' = Turned
  /\ traversal_var' = traversal_var + 1
  /\ returned' = Append(returned, WithScopes(Turned))
  /\ UNCHANGED <<config, drained, pass, scope_of>>

SkipRepetition ==
  /\ ~ drained /\ ~ AllSeen
  /\ ~ allow_repetition /\ RepeatsAPredicate(WithScopes(Turned))
  /\ mapto' = Turned
  /\ traversal_var' = traversal_var + 1
  /\ UNCHANGED <<config, returned, drained, pass, scope_of>>

NextScoped == \/ ReturnScoped
              \/ SkipRepetition
              \/ ReturnNull /\ UNCHANGED scope_of
              \/ ResetInstantiations /\ UNCHANGED scope_of

-----------------------------------------------------------------------------
\* Predicate variables may share a scope, but not a predicate.
AdmissibleScoped == {WithScopes(inst) : inst \in Admissible}

\* The predicate events of an instantiation, by variable.
PredicatesOf(inst) == [v \in FormVars |-> inst[<<"", v>>]]
=============================================================================
