--------------------------- MODULE MCValidInstants ---------------------------
(***************************************************************************)
(* Values for the constants of ValidInstants.                              *)
(***************************************************************************)
EXTENDS ValidInstants

Setting(s, p, num, den, global, full) ==
  [sup_t |-> s, sup_pot_t |-> p, conf_t |-> Ratio(num, den),
   use_global_t |-> global, compute_full_stats |-> full]

\* A satisfied, a vacuous, a half satisfied and an unsatisfied trace, the last one
\* false although its every potential was met.
SomeStats == { Stat(TRUE, 1, 1), Stat(TRUE, 0, 0), Stat(FALSE, 1, 2), Stat(FALSE, 1, 1) }

AllConfigurations ==
  { Setting(s, p, num, 2, global, full) :
      s \in {0, 2}, p \in {0, 3}, num \in {0, 1, 2},
      global \in BOOLEAN, full \in BOOLEAN }

\* A support threshold of two over single traces.
SupportOverTraces == {Setting(2, 0, 2, 2, FALSE, FALSE)}
=============================================================================
