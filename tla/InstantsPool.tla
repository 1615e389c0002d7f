----------------------------- MODULE InstantsPool -----------------------------
(***************************************************************************)
(* What valid_instants_on_traces expects of an instants_pool_creator:      *)
(* between a reset and the NULL that ends the pass, get_next_instantiation *)
(* hands out every admissible instantiation of the formula's variables     *)
(* exactly once, in any order.  Module InstantsPools shows that the four   *)
(* pools implement it.                                                     *)
(***************************************************************************)
EXTENDS Sequences

VARIABLES
  admissible, \* the instantiations a pass is to hand out
  handed,     \* the instantiations handed out since the last reset, in order
  finished    \* NULL was returned since the last reset

vars == <<admissible, handed, finished>>

HandedOut == {handed[n] : n \in DOMAIN handed}

Init == /\ handed = <<>>
        /\ finished = FALSE

HandOut(inst) == /\ ~ finished
                 /\ inst \in admissible \ HandedOut
                 /\ handed' = Append(handed, inst)
                 /\ UNCHANGED <<admissible, finished>>

ReturnNull == /\ ~ finished
              /\ HandedOut = admissible
              /\ finished' = TRUE
              /\ UNCHANGED <<admissible, handed>>

Reset == /\ finished
         /\ handed' = <<>>
         /\ finished' = FALSE
         /\ UNCHANGED admissible

Next == \/ \E inst \in admissible : HandOut(inst)
        \/ ReturnNull
        \/ Reset

Spec == Init /\ [][Next]_vars /\ WF_vars(ReturnNull \/ \E i \in admissible : HandOut(i))
=============================================================================
