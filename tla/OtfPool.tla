------------------------------- MODULE OtfPool -------------------------------
(***************************************************************************)
(* otf_instants_pool: instantiations made one at a time, by an odometer    *)
(* with one wheel per formula variable.  One step is one iteration of the  *)
(* do-while loop of get_next_instantiation.                                *)
(***************************************************************************)
EXTENDS InstantsPoolCreator

VARIABLE
  mapto              \* iteration_tracker[v].mapto, by variable

vars == <<config, traversal, mapto>>

-----------------------------------------------------------------------------
\* A variant for a wheel one place further right.
switchvarOfNext(v) == IF v = num_vars THEN 1 ELSE Pow(num_events)[num_vars - v - 1]

\* How many iterations pass before the wheel of v moves.
switchvar(v) == Pow(num_events)[num_vars - v]

\* set_up_iteration_tracker: every wheel stands at the last event, so that the
\* first iteration moves it to the first one.
Init == /\ InitPool
        /\ mapto = [v \in FormVars |-> num_events]

\* ++mapto, back to begin() at end().
Successor(e) == IF e = num_events THEN 1 ELSE e + 1

Turned == [v \in FormVars |->
             IF traversal_var % switchvar(v) = 0 THEN Successor(mapto[v])
             ELSE mapto[v]]

\* Variants that stop one iteration late and one early.
AllSeenTooLate  == traversal_var > Pow(num_events)[num_vars]
AllSeenTooEarly == traversal_var >= Pow(num_events)[num_vars] - 1

AllSeen == traversal_var >= Pow(num_events)[num_vars]

\* An iteration whose map is returned, one whose map is skipped, and the one
\* that finds nothing left.
ReturnNext ==
  /\ ~ drained /\ ~ AllSeen
  /\ allow_repetition \/ ~ HasDuplicates(Turned)
  /\ mapto' = Turned
  /\ traversal_var' = traversal_var + 1
  /\ returned' = Append(returned, Turned)
  /\ UNCHANGED <<config, drained, pass>>

SkipDuplicates ==
  /\ ~ drained /\ ~ AllSeen
  /\ ~ allow_repetition /\ HasDuplicates(Turned)
  /\ mapto' = Turned
  /\ traversal_var' = traversal_var + 1
  /\ UNCHANGED <<config, returned, drained, pass>>

ReturnNull ==
  /\ ~ drained /\ AllSeen
  /\ drained' = TRUE
  /\ UNCHANGED <<config, traversal_var, mapto, returned, pass>>

\* A variant that turns every wheel to the first event.
ResetToFirstEvent == ResetCounter /\ mapto' = [v \in FormVars |-> 1]

\* The wheels stay where they are.
ResetInstantiations == ResetCounter /\ UNCHANGED mapto

Next == \/ ReturnNext
        \/ SkipDuplicates
        \/ ReturnNull
        \/ ResetInstantiations

Spec == Init /\ [][Next]_vars

-----------------------------------------------------------------------------
WheelsTyped == /\ num_events \in EventCounts
               /\ num_vars \in VarCounts
               /\ allow_repetition \in BOOLEAN
               /\ traversal_var \in 0 .. Pow(num_events)[num_vars]
               /\ mapto \in [FormVars -> Events]
               /\ drained \in BOOLEAN
               /\ pass \in 1 .. MaxPasses

\* The wheels show the last counter value in base num_events, highest digit
\* first -- in a later pass too, although a reset leaves the wheels alone.
WheelsShowTheCounter ==
  \A v \in FormVars :
    mapto[v] = IF traversal_var = 0 THEN num_events
               ELSE (((traversal_var - 1) \div switchvar(v)) % num_events) + 1

\* The order set_up_iteration_tracker lays out: the last variable changes fastest.
Before(a, b) == \E v \in FormVars : a[v] < b[v] /\ \A u \in 1 .. v - 1 : a[u] = b[u]
=============================================================================
