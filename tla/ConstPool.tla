------------------------------- MODULE ConstPool -------------------------------
(***************************************************************************)
(* const_instants_pool: the pool of a property type without variables.     *)
(* Its one instantiation maps every proposition of the formula to itself.  *)
(***************************************************************************)
EXTENDS InstantsPoolCreator

\* The propositions are the events 1 .. num_vars.
Init == InitPool /\ num_events = num_vars

instantiation == [v \in FormVars |-> v]

ReturnNext == /\ ~ drained /\ traversal_var = 0
              /\ traversal_var' = 1
              /\ returned' = Append(returned, instantiation)
              /\ UNCHANGED <<config, drained, pass>>

ReturnNull == /\ ~ drained /\ traversal_var > 0
              /\ drained' = TRUE
              /\ UNCHANGED <<config, traversal_var, returned, pass>>

Next == ReturnNext \/ ReturnNull \/ ResetCounter
=============================================================================
