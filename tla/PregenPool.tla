------------------------------ MODULE PregenPool ------------------------------
(***************************************************************************)
(* pregen_instants_pool: every map from formula variables to events is     *)
(* made when the pool is, in a vector filled one variable at a time; the   *)
(* ones with a repetition are skipped when they are asked for.             *)
(*                                                                         *)
(* One step of the filling is one position of traverse_and_fill, one of    *)
(* the traversal one call (or recursive call) of get_next_instantiation.   *)
(***************************************************************************)
EXTENDS InstantsPoolCreator

VARIABLES
  inst_pool,       \* the vector: for each position, the events mapped to so far
  lvl,             \* the variable being filled in, from 0
  pos,             \* inst_pool_it
  switch_var,      \* positions left before the event changes
  event_iterator

filling == <<inst_pool, lvl, pos, switch_var, event_iterator>>
vars    == <<config, traversal, filling>>

Size == Pow(num_events)[num_vars]

-----------------------------------------------------------------------------
Init == /\ InitPool
        /\ inst_pool = [p \in 1 .. Size |-> <<>>]
        /\ lvl = 0
        /\ pos = 1
        /\ switch_var = 1
        /\ event_iterator = 1

Filled == lvl = num_vars

\* A variant whose runs are those of the level above.
RunLengthOneUp(l) == num_events * Pow(num_events)[l]

\* The length of the runs of equal events at a level.
RunLength(l) == Pow(num_events)[l]

\* One position of a level: move on to the next event if its run is over.
FillPosition ==
  LET next == IF event_iterator = num_events THEN 1 ELSE event_iterator + 1
      e    == IF switch_var = 0 THEN next ELSE event_iterator
  IN /\ ~ Filled /\ pos <= Size
     /\ event_iterator' = e
     /\ switch_var' = (IF switch_var = 0 THEN RunLength(lvl) ELSE switch_var) - 1
     /\ inst_pool' = [inst_pool EXCEPT ![pos] = Append(@, e)]
     /\ pos' = pos + 1
     /\ UNCHANGED <<config, lvl, traversal>>

NextLevel ==
  /\ ~ Filled /\ pos > Size
  /\ lvl' = lvl + 1
  /\ pos' = 1
  /\ switch_var' = RunLength(lvl + 1)
  /\ event_iterator' = 1
  /\ UNCHANGED <<config, inst_pool, traversal>>

-----------------------------------------------------------------------------
ReturnNext ==
  /\ Filled /\ ~ drained /\ traversal_var < Size
  /\ LET to_return == inst_pool[traversal_var + 1]
     IN returned' = IF ~ allow_repetition /\ HasDuplicates(to_return)
                    THEN returned ELSE Append(returned, to_return)
  /\ traversal_var' = traversal_var + 1
  /\ UNCHANGED <<config, filling, drained, pass>>

ReturnNull ==
  /\ Filled /\ ~ drained /\ traversal_var >= Size
  /\ drained' = TRUE
  /\ UNCHANGED <<config, filling, traversal_var, returned, pass>>

ResetInstantiations == ResetCounter /\ UNCHANGED filling

Next == FillPosition \/ NextLevel \/ ReturnNext \/ ReturnNull \/ ResetInstantiations

Spec == Init /\ [][Next]_vars
=============================================================================
