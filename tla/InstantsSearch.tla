---------------------------- MODULE InstantsSearch ----------------------------
(***************************************************************************)
(* What mine_property_type expects of valid_instants_on_traces, whichever  *)
(* trace representation it is called for: one instantiation after the      *)
(* other is decided for good, found if it is valid on the log and dropped  *)
(* if it is not, and when all are decided the findings are returned.       *)
(***************************************************************************)
VARIABLES
  good,       \* the instantiations that are valid on the log
  undecided,  \* those the search is not through with
  found,
  finished    \* the function has returned

vars == <<good, undecided, found, finished>>

Init == /\ good \subseteq undecided
        /\ found = {}
        /\ finished = FALSE

Find == /\ ~ finished
        /\ \E inst \in undecided \cap good :
             /\ undecided' = undecided \ {inst}
             /\ found' = found \cup {inst}
        /\ UNCHANGED <<good, finished>>

Drop == /\ ~ finished
        /\ \E inst \in undecided \ good : undecided' = undecided \ {inst}
        /\ UNCHANGED <<good, found, finished>>

Return == /\ ~ finished
          /\ undecided = {}
          /\ finished' = TRUE
          /\ UNCHANGED <<good, undecided, found>>

Next == Find \/ Drop \/ Return

Spec == Init /\ [][Next]_vars
=============================================================================
