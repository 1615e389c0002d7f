-------------------------- MODULE InstantsPoolCreator --------------------------
(***************************************************************************)
(* instants_pool_creator, the superclass of the pools: what they are made  *)
(* from and how far the pass through them is.                              *)
(*                                                                         *)
(* The events are numbered in the order of the set that holds them, the    *)
(* formula variables likewise; an instantiation is the event each variable *)
(* maps to.  The caller is valid_instants_on_traces: it resets the pool    *)
(* and then asks until it gets NULL.                                       *)
(***************************************************************************)
EXTENDS Integers, Sequences

CONSTANTS
  EventCounts,  \* how many events the log may have
  VarCounts,    \* how many variables the formula may have
  MaxPasses     \* bound: how many times the pool is gone through

\* With no event the on-the-fly pool steps before the beginning of an empty set, which
\* module Main says when it happens; with no variable the miner takes a const_instants_pool instead.
ASSUME EventCountsAssumption == EventCounts \subseteq Nat \ {0}
ASSUME VarCountsAssumption   == VarCounts \subseteq Nat \ {0}
ASSUME MaxPassesAssumption   == MaxPasses \in Nat \ {0}

VARIABLES
  num_events,        \* unique_events->size()
  num_vars,          \* formula_vars->size()
  allow_repetition,
  traversal_var,
  returned,          \* what this pass handed out, in order
  drained,           \* this pass ended with NULL
  pass               \* history: which pass this is

config    == <<num_events, num_vars, allow_repetition>>
traversal == <<traversal_var, returned, drained, pass>>

Events   == 1 .. num_events
FormVars == 1 .. num_vars

InitPool == /\ num_events \in EventCounts
            /\ num_vars \in VarCounts
            /\ allow_repetition \in BOOLEAN
            /\ traversal_var = 0
            /\ returned = <<>>
            /\ drained = FALSE
            /\ pass = 1

\* pow(n, j), as far as a pool needs it.
Pow(n) == LET p[j \in 0 .. num_vars] == IF j = 0 THEN 1 ELSE n * p[j - 1] IN p

HasDuplicates(inst) == \E u, v \in FormVars : u # v /\ inst[u] = inst[v]

\* reset_instantiations: the counter only.
ResetCounter == /\ drained
                /\ pass < MaxPasses
                /\ traversal_var' = 0
                /\ returned' = <<>>
                /\ drained' = FALSE
                /\ pass' = pass + 1
                /\ UNCHANGED config

\* The instantiations a formula may be checked under.
Admissible == {inst \in [FormVars -> Events] :
                 allow_repetition \/ ~ HasDuplicates(inst)}
=============================================================================
