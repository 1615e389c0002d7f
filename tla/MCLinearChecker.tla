--------------------------- MODULE MCLinearChecker ---------------------------
(***************************************************************************)
(* Traces and settings for LinearChecker; its formulas are in MCFormulas.  *)
(***************************************************************************)
EXTENDS LinearChecker, MCFormulas

TracesUpTo(n) == UNION {[1 .. m -> SUBSET Props] : m \in 0 .. n}
ShortTraces == TracesUpTo(2)
\* Three events of one proposition each tell a first, a middle and a last apart.
LongTraces  == [1 .. 3 -> {{p} : p \in Props}]
MixedTraces == ShortTraces \cup LongTraces

Setting(s, p, num, den, global, full) ==
  [sup_t |-> s, sup_pot_t |-> p, conf_t |-> Ratio(num, den),
   use_global_t |-> global, compute_full_stats |-> full]

Vanilla == {Setting(0, 0, 1, 1, FALSE, FALSE)}

\* Full statistics, a support or potential threshold with confidence one, and a
\* confidence threshold of one half.
Thresholds == { Setting(0, 0, 1, 1, FALSE, TRUE),  Setting(2, 0, 1, 1, FALSE, FALSE),
                Setting(0, 2, 1, 1, TRUE, FALSE),  Setting(1, 1, 1, 2, FALSE, FALSE) }

EverySetting == Vanilla \cup Thresholds

ZeroConfidence == {Setting(1, 0, 0, 1, FALSE, FALSE)}
=============================================================================
