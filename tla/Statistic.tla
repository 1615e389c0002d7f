------------------------------ MODULE Statistic ------------------------------
(***************************************************************************)
(* The statistics of a finding (checkers/statistic.h) and the settings a   *)
(* checker is configured with (checkers/settings.h).                       *)
(*                                                                         *)
(* A confidence is a float in the code; here it is the exact ratio, so     *)
(* what the float division rounds away is not modelled.                    *)
(***************************************************************************)
EXTENDS Integers

Stat(sat, sup, pot) == [sat |-> sat, sup |-> sup, pot |-> pot]

Stats == [sat : BOOLEAN, sup : Nat, pot : Nat]

\* Variants, like this one, are wrong on purpose: a property must tell them from the
\* definition that follows.  Here a vacuous truth counts as potential.
VacuouslyPotential == Stat(TRUE, 0, 1)

VacuouslyTrue == Stat(TRUE, 0, 0)

\* A variant that subtracts the counts.
CombineSubtracting(p, q) == Stat(p.sat /\ q.sat, p.sup - q.sup, p.pot - q.pot)

\* Two statistics taken together: both satisfied, and the counts added.
Combine(p, q) == Stat(p.sat /\ q.sat, p.sup + q.sup, p.pot + q.pot)

\* The same trace seen n times: its counts are multiplied, its verdict kept.
Times(s, n) == Stat(s.sat, s.sup * n, s.pot * n)

-----------------------------------------------------------------------------

Ratio(num, den) == [num |-> num, den |-> den]

Confidences == {r \in [num : Nat, den : Nat] : r.den > 0 /\ r.num <= r.den}

\* r < s, r <= s and r = s for two ratios.
Below(r, s)   == r.num * s.den < s.num * r.den
AtMost(r, s)  == r.num * s.den <= s.num * r.den
Equal(r, s)   == r.num * s.den = s.num * r.den

Confidence(s) == IF s.sup = s.pot
                 THEN IF s.sat THEN Ratio(1, 1) ELSE Ratio(0, 1)
                 ELSE Ratio(s.sup, s.pot)

-----------------------------------------------------------------------------

Settings == [sup_t : Nat, sup_pot_t : Nat, conf_t : Confidences,
             use_global_t : BOOLEAN, compute_full_stats : BOOLEAN]

ConfidenceOne(c)  == c.conf_t.num = c.conf_t.den
ConfidenceZero(c) == c.conf_t.num = 0

IsVanilla(c) == /\ c.sup_t = 0
                /\ c.sup_pot_t = 0
                /\ ConfidenceOne(c)
                /\ ~ c.compute_full_stats

SatisfiesThresholds(c, s) == /\ s.sup >= c.sup_t
                             /\ s.pot >= c.sup_pot_t
                             /\ AtMost(c.conf_t, Confidence(s))

\* A variant that stops as soon as the counts suffice, whatever the confidence.
ShortCircuitingOnCounts(c, s) ==
  /\ ~ c.compute_full_stats
  /\ s.sup >= c.sup_t
  /\ s.pot >= c.sup_pot_t

\* bool_based_checker::is_short_circuiting: may a loop stop at this statistic?
ShortCircuiting(c, s) ==
  /\ ~ c.compute_full_stats
  /\ s.sup >= c.sup_t
  /\ s.pot >= c.sup_pot_t
  /\ \/ ConfidenceOne(c) /\ ~ s.sat
     \/ ConfidenceZero(c)
=============================================================================
