-------------------------- MODULE PropertyTypeMiner --------------------------
(***************************************************************************)
(* The loop of mine_property_type: the property types of one call, mined   *)
(* one after the other against one set of events, which is changed for     *)
(* each and put back after it.  Module Main calls it, and has the options. *)
(*                                                                         *)
(* Of a property type only its atomic propositions are kept; of mining it, *)
(* which instantiation pool is made, for which variables, from which       *)
(* events (the pool shares the set, it does not copy it), and whether      *)
(* anything is found.                                                      *)
(***************************************************************************)
EXTENDS Integers, Sequences

CONSTANTS
  Names,           \* what may name an event or an atomic proposition
  PredicateEvents, \* the names that begin with "???"
  ScopeOf          \* of the names that begin with "scope_", the rest

VARIABLES
  formulae,         \* the atomic propositions of each property type
  constant_events,  \* the arguments of -e, in order
  allow_reps, pregen_instants, scope_semantics,
  parsed_events,    \* the events of the log
  event_set,
  formula,          \* the loop variable i
  pools,            \* history: the pool made for each property type so far
  pc

options == <<formulae, constant_events, allow_reps, pregen_instants, scope_semantics,
             parsed_events>>

-----------------------------------------------------------------------------
Constants  == {constant_events[n] : n \in DOMAIN constant_events}

\* A variant, wrong on purpose, that excludes the first constant only.
exclude_first_constant(i) ==
  IF allow_reps \/ constant_events = <<>> THEN {} ELSE {constant_events[1]} \cap formulae[i]

\* exclude_event_sets and variable_vec of one property type.
exclude_events(i) == IF allow_reps THEN {} ELSE Constants \cap formulae[i]
variables(i)      == formulae[i] \ Constants

ExcludeEvents ==
  /\ pc = "exclude"
  /\ formula <= Len(formulae)
  /\ event_set' = event_set \ exclude_events(formula)
  /\ pc' = "mine"
  /\ UNCHANGED <<options, formula, pools>>

\* A variant that makes a pool of instantiations even if there is nothing to bind.
PoolKindOfAny(i) == IF pregen_instants THEN "pregen"
                    ELSE IF scope_semantics THEN "scoped"
                    ELSE "otf"

PoolKind(i) == IF variables(i) = {} THEN "const"
               ELSE IF pregen_instants THEN "pregen"
               ELSE IF scope_semantics THEN "scoped"
               ELSE "otf"

\* What the instantiations of the pool bind (modules InstantsPools and ScopedPool).
Binds(i) ==
  LET predicates == variables(i) \ DOMAIN ScopeOf
  IN CASE PoolKind(i) = "const"  -> formulae[i]
       [] PoolKind(i) = "scoped" -> predicates \cup {s \in DOMAIN ScopeOf : ScopeOf[s] \in predicates}
       [] OTHER                  -> variables(i)

\* What the variables of a pool are bound to.
Bindable(kind, events) == IF kind = "scoped" THEN events \cap PredicateEvents ELSE events

\* The pools with an odometer decrement the end of the events they bind variables to:
\* without any, that is undefined.
NothingToBind(kind, events) == kind \in {"otf", "scoped"} /\ Bindable(kind, events) = {}

Mine ==
  /\ pc = "mine"
  /\ ~ NothingToBind(PoolKind(formula), event_set)
  /\ \E found \in BOOLEAN :
       pools' = Append(pools, [kind   |-> PoolKind(formula),
                               vars   |-> variables(formula),
                               binds  |-> Binds(formula),
                               events |-> event_set,
                               found  |-> found])
  /\ pc' = "restore"
  /\ UNCHANGED <<options, event_set, formula>>

\* A variant that forgets to put the events back.
NextWithoutRestoring ==
  /\ pc = "restore"
  /\ formula' = formula + 1
  /\ pc' = "exclude"
  /\ UNCHANGED <<options, event_set, pools>>

RestoreEvents ==
  /\ pc = "restore"
  /\ event_set' = event_set \cup exclude_events(formula)
  /\ formula' = formula + 1
  /\ pc' = "exclude"
  /\ UNCHANGED <<options, pools>>

\* A variant that leaves the last property type out.
ReturnBeforeTheLast ==
  /\ pc = "exclude"
  /\ formula >= Len(formulae)
  /\ pc' = "returned"
  /\ UNCHANGED <<options, event_set, formula, pools>>

Return == /\ pc = "exclude"
          /\ formula > Len(formulae)
          /\ pc' = "returned"
          /\ UNCHANGED <<options, event_set, formula, pools>>

Next == ExcludeEvents \/ Mine \/ RestoreEvents \/ Return

-----------------------------------------------------------------------------
\* A pool that enumerates instantiations has variables to instantiate.
TypeOK ==
  /\ event_set \subseteq Names
  /\ \A i \in DOMAIN pools : /\ pools[i].binds \subseteq Names
                             /\ pools[i].events \subseteq Names
                             /\ pools[i].kind = "const" <=> pools[i].vars = {}
  /\ formula \in 1 .. Len(formulae) + 1
  /\ Len(pools) \in {formula - 1, formula}
  /\ pc \in {"exclude", "mine", "restore", "returned"}

\* A property type is mined as if it were the only one of the call, with the
\* events of the log and without its own constants, whatever those mined before
\* it excluded -- as long as the constants are events of the log.
MinedAlone ==
  Constants \subseteq parsed_events =>
    \A i \in DOMAIN pools : pools[i].events = parsed_events \ exclude_events(i)

\* Unless repetitions are allowed, no variable of a property type is bound to one
\* of its own constants, not even to one an earlier property type brought in.
OwnConstantsExcluded ==
  ~ allow_reps =>
    \A i \in DOMAIN pools : pools[i].events \cap Constants \cap formulae[i] = {}

\* README.md: "the variable atomic propositions are replaced with events from
\* the log".
VariablesBecomeLogEvents ==
  \A i \in DOMAIN pools : pools[i].kind # "const" => pools[i].events \subseteq parsed_events
=============================================================================
