-------------------------- MODULE MemoizingCheckers --------------------------
(***************************************************************************)
(* The two checkers with a memory, held against what their caller expects  *)
(* of either.  A behaviour is that of one checker; what only the other one *)
(* has is left empty.                                                      *)
(***************************************************************************)
EXTENDS PrefixTreeChecker

VARIABLES all_checkers, rounds, is_satisfied \* of the map checker

treeVars   == <<nodes, memo_map, start_nodes, global_stat>>
mapVars    == <<all_checkers, rounds, is_satisfied>>
eitherVars == <<search, treeVars, mapVars>>

Map == INSTANCE MapChecker

EitherInit == \/ /\ Init
                 /\ all_checkers = <<>>
                 /\ rounds = 0
                 /\ is_satisfied = TRUE
              \/ /\ Map!Init
                 /\ nodes = <<>>
                 /\ memo_map = {}
                 /\ start_nodes = {}
                 /\ global_stat = VacuouslyTrue

TreeNext == checker = "prefix_tree" /\ Next /\ UNCHANGED mapVars
MapNext  == checker = "map" /\ Map!Next /\ UNCHANGED treeVars

EitherNext == TreeNext \/ MapNext

EitherSpec == EitherInit /\ [][EitherNext]_eitherVars

-----------------------------------------------------------------------------
\* The map checker's types: an answer is a position of the trace, or that there is none,
\* and the memory is on again after each check.
MapTypeOK == Map!TypeOK

\* What the map checker remembers is right for every instantiation it may serve: the
\* first or last place of the interval where LTL has the subformula hold under the
\* key's bindings.  Not so for X, whose searches remember their answer for the shifted
\* interval they asked their operand about.
MapMemoIsRight == Map!MemoIsRight
=============================================================================
