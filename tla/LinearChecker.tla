---------------------------- MODULE LinearChecker ----------------------------
(***************************************************************************)
(* linear_trace_checker and its superclass bool_based_checker: the         *)
(* statistic of a formula on one trace held as a vector of events.         *)
(*                                                                         *)
(* The checker is a pure recursion over the formula whose loops walk the   *)
(* trace from one position to the terminal event.  A loop is written here  *)
(* as the position it stops at and the statistics combined on the way.     *)
(***************************************************************************)
EXTENDS Statistic, LtlLanguage, FiniteSetsExt

CONSTANTS
  Formulas,      \* the instantiated formulas a behaviour may start from
  Traces,        \* the traces it may check
  Configurations, \* the settings the checker may be configured with
  NoTrace        \* stands for no trace checked yet

VARIABLES
  settings,   \* checker.c_settings
  formula,    \* the property type instantiated with events
  checked,    \* the trace check_on_trace was last called with
  trace_stat  \* what it returned

vars == <<settings, formula, checked, trace_stat>>

ASSUME FormulasAssumption == Formulas \subseteq Language
ASSUME TracesAssumption   == NoTrace \notin Traces /\ \A tr \in Traces : Len(tr) \in Nat
ASSUME ConfigurationsAssumption == Configurations \subseteq Settings

-----------------------------------------------------------------------------
(***************************************************************************)
(* bool_based_checker::get_interval: the positions a formula is            *)
(* potentially evaluated over, relative to the current one.  Infinity      *)
(* stands for LONG_MAX, which an increment leaves alone.                   *)
(***************************************************************************)
Infinity == 1000

Interval(start, end) == [start |-> start, end |-> end]

Shifted(t) == IF t = Infinity THEN t ELSE t + 1

IntervalOf(g) ==
  LET intvl[f \in Language] ==
        LET kids  == {intvl[p] : p \in Operands(f)}
            hull  == Interval(Min({k.start : k \in kids}), Max({k.end : k \in kids}))
            child == intvl[f.kid]
        IN CASE f.op \in {"true", "false", "ap"}        -> Interval(0, 0)
             [] f.op \in {"G", "F", "U", "R", "W", "M"} -> Interval(0, Infinity)
             [] f.op = "X"   -> Interval(Shifted(child.start), Shifted(child.end))
             [] f.op = "Not" -> child
             [] f.op \in {"Xor", "Equiv", "Implies", "And", "Or"} -> hull
  IN intvl[g]

\* interval::operator<: wholly to the left of the other.
LeftOf(a, b) == a.end < b.start

-----------------------------------------------------------------------------
(***************************************************************************)
(* or_check.  One operand at a time; "done" once a return was reached, and *)
(* intvl the interval of the operand stat was last taken from because it   *)
(* lay to the right of all before it.                                      *)
(***************************************************************************)
\* A variant that prefers support to confidence.
BetterSupported(stat, other) == stat.sup < other.sup

Better(stat, other) ==
  \/ Below(Confidence(stat), Confidence(other))
  \/ /\ Equal(Confidence(stat), Confidence(other))
     /\ stat.sup < other.sup

OrStep(c, acc, stat_i, intvl_i) ==
  LET Return(s)   == [acc EXCEPT !.done = TRUE, !.stat = s]
      stat        == acc.stat
      before      == LeftOf(intvl_i, acc.intvl)
      after       == LeftOf(acc.intvl, intvl_i)
  IN CASE acc.done -> acc
       [] ~ acc.done /\ stat_i.sat /\ IsVanilla(c) -> Return(Stat(TRUE, 1, 1))
       [] OTHER ->
            IF before THEN IF stat_i.sat THEN Return(VacuouslyTrue) ELSE acc
            ELSE IF after THEN
              IF stat.sat THEN Return(VacuouslyTrue)
              ELSE [acc EXCEPT !.stat = stat_i, !.intvl = intvl_i]
            ELSE IF stat.sat /\ stat_i.sat THEN Return(VacuouslyTrue)
            ELSE IF Better(stat, stat_i) THEN [acc EXCEPT !.stat = stat_i] ELSE acc

OrCheck(c, kidStats, kidIntervals) ==
  LET fold[n \in 0 .. Len(kidStats)] ==
        IF n = 0
        THEN [done |-> FALSE, stat |-> Stat(FALSE, 0, 0), intvl |-> Interval(-1, -1)]
        ELSE OrStep(c, fold[n - 1], kidStats[n], kidIntervals[n])
  IN fold[Len(kidStats)].stat

\* and_check: the running combination, up to the first operand that makes it
\* short-circuiting.
AndCheck(c, kidStats) ==
  LET fold[n \in 0 .. Len(kidStats)] ==
        IF n = 0 THEN VacuouslyTrue ELSE Combine(fold[n - 1], kidStats[n])
      stops == {n \in 1 .. Len(kidStats) : ShortCircuiting(c, fold[n])}
  IN fold[Min(stops \cup {Len(kidStats)})]

-----------------------------------------------------------------------------
(***************************************************************************)
(* The loops of linear_trace_checker.  kid, first and second say what the  *)
(* checks of the operands return at each position of the trace.            *)
(***************************************************************************)
unmet == Stat(FALSE, 0, 1)

\* The first position from i on at which a loop returns, or the terminal one.
FirstStop(tr, stops) == Min(stops \cup {Terminal(tr)})

\* ret_stat of a loop that has come from i to k.
Collected(stats, i, k) ==
  LET fold[n \in i .. k] ==
        IF n = i THEN VacuouslyTrue ELSE Combine(stats[n - 1], fold[n - 1])
  IN fold[k]

GloballyCheck(c, kid, tr, i) ==
  LET stop == FirstStop(tr, {k \in i .. Len(tr) : ShortCircuiting(c, kid[k])})
      ret  == Collected(kid, i, stop)
  IN IF IsTerminal(tr, stop) THEN ret ELSE Combine(kid[stop], ret)

FinallyCheck(kid, tr, i) ==
  LET stop == FirstStop(tr, {k \in i .. Len(tr) : kid[k].sat})
  IN IF IsTerminal(tr, stop) THEN unmet ELSE kid[stop]

\* The loop of U and W goes over first and is left when second is satisfied.
UntilStop(c, first, second, tr, i) ==
  FirstStop(tr, {k \in i .. Len(tr) : second[k].sat \/ ShortCircuiting(c, first[k])})

UntilCheck(c, first, second, tr, i) ==
  LET stop == UntilStop(c, first, second, tr, i)
      ret  == Collected(first, i, stop)
  IN IF IsTerminal(tr, stop) THEN Combine(ret, unmet)
     ELSE Combine(IF second[stop].sat THEN second[stop] ELSE first[stop], ret)

WeakUntilCheck(c, first, second, tr, i) ==
  LET stop == UntilStop(c, first, second, tr, i)
      ret  == Collected(first, i, stop)
  IN IF IsTerminal(tr, stop) \/ second[stop].sat THEN ret ELSE Combine(first[stop], ret)

\* The loop of R and M goes over second and is left when first is satisfied.
ReleaseStop(c, first, second, tr, i) ==
  FirstStop(tr, {k \in i .. Len(tr) : ShortCircuiting(c, second[k]) \/ first[k].sat})

ReleaseCheck(c, first, second, tr, i) ==
  LET stop == ReleaseStop(c, first, second, tr, i)
      ret  == Collected(second, i, stop)
  IN IF IsTerminal(tr, stop) THEN ret ELSE Combine(second[stop], ret)

StrongReleaseCheck(c, first, second, tr, i) ==
  LET stop == ReleaseStop(c, first, second, tr, i)
      ret  == Collected(second, i, stop)
  IN IF IsTerminal(tr, stop) THEN Combine(ret, unmet)
     ELSE IF ShortCircuiting(c, second[stop]) THEN Combine(second[stop], ret)
     ELSE Combine(Combine(second[stop], first[stop]), ret)

\* One check function for each operator.
CheckNode(c, f, stats, tr, i) ==
  LET kid    == stats[f.kid]
      first  == stats[f.first]
      second == stats[f.second]
      kids   == [n \in DOMAIN f.kids |-> stats[f.kids[n]][i]]
  IN CASE f.op = "true"  -> VacuouslyTrue
       [] f.op = "false" -> Stat(FALSE, 0, 0)
       [] f.op = "ap"    -> IF ApHolds(f.name, tr, i) THEN Stat(TRUE, 1, 1) ELSE unmet
       [] f.op = "Not"   -> IF kid[i].sat THEN unmet ELSE Stat(TRUE, 1, 1)
       [] f.op = "Xor"   -> Stat(first[i].sat # second[i].sat, 0, 0)
       [] f.op = "Equiv" -> Stat(first[i].sat = second[i].sat, 0, 0)
       [] f.op = "Implies" -> IF first[i].sat THEN second[i] ELSE VacuouslyTrue
       [] f.op = "And"   -> AndCheck(c, kids)
       [] f.op = "Or"    -> OrCheck(c, kids, [n \in DOMAIN f.kids |-> IntervalOf(f.kids[n])])
       [] f.op = "X"     -> kid[IF IsTerminal(tr, i) THEN i ELSE i + 1]
       [] f.op = "G"     -> GloballyCheck(c, kid, tr, i)
       [] f.op = "F"     -> FinallyCheck(kid, tr, i)
       [] f.op = "U"     -> UntilCheck(c, first, second, tr, i)
       [] f.op = "W"     -> WeakUntilCheck(c, first, second, tr, i)
       [] f.op = "R"     -> ReleaseCheck(c, first, second, tr, i)
       [] f.op = "M"     -> StrongReleaseCheck(c, first, second, tr, i)

\* check, the recursion over the formula.
CheckOn(c, tr) ==
  LET check[f \in Language] ==
        [i \in 1 .. Terminal(tr) |-> CheckNode(c, f, [p \in Operands(f) |-> check[p]], tr, i)]
  IN check

Check(c, f, tr, i) == CheckOn(c, tr)[f][i]

-----------------------------------------------------------------------------
\* The normal form of a formula and of its negation.
NormalForms ==
  LET nnf[f \in Language] ==
        [negated \in BOOLEAN |-> NormalForm(f, [p \in Operands(f) |-> nnf[p]], negated)]
  IN nnf

NegativeNormalForm(f, negated) == NormalForms[f][negated]

ASSUME NormalFormsAssumption ==
  \A f \in Language : \A negated \in BOOLEAN : NegativeNormalForm(f, negated) \in Language

\* What valid_instants_on_traces hands the checker: the negative normal form,
\* except under the default settings.
Prepared(c, f) == IF IsVanilla(c) THEN f ELSE NegativeNormalForm(f, FALSE)

Init == /\ settings \in Configurations
        /\ formula \in Formulas
        /\ checked = NoTrace
        /\ trace_stat = Stat(FALSE, 0, 0)

\* check_on_trace.  The checker keeps nothing from one call to the next, so one
\* call per behaviour is all there is to see.
CheckOnTrace(tr) == /\ checked = NoTrace
                    /\ checked' = tr
                    /\ trace_stat' = Check(settings, Prepared(settings, formula), tr, 1)
                    /\ UNCHANGED <<settings, formula>>

Next == \E tr \in Traces : CheckOnTrace(tr)

Spec == Init /\ [][Next]_vars

-----------------------------------------------------------------------------
TypeOK == /\ settings \in Settings
          /\ checked \in Traces \cup {NoTrace}
          /\ trace_stat \in Stats

\* The verdict is the LTL meaning of the formula at the first event, whatever
\* the loops skipped and whatever the negative normal form replaced.
VerdictIsLtl ==
  checked # NoTrace => (trace_stat.sat <=> Holds(formula, checked, 1))

\* A statistic never claims more than it could have: what counts as support was
\* counted as potential, and the confidence is one exactly when the formula was
\* satisfied, which is what lets valid_instants_on_traces compare confidences.
ConfidenceIsVerdict ==
  checked # NoTrace =>
    /\ trace_stat.sup <= trace_stat.pot
    /\ trace_stat.sat <=> AtMost(Ratio(1, 1), Confidence(trace_stat))

\* boolbasedchecker.h: "no further checking can change the result".  A checker
\* that stops early and one that computes the full statistics agree on whether
\* the trace meets the thresholds.
ShortCircuitKeepsResult ==
  checked # NoTrace =>
    LET full == [settings EXCEPT !.compute_full_stats = TRUE]
    IN SatisfiesThresholds(settings, trace_stat)
         <=> SatisfiesThresholds(settings,
               Check(full, Prepared(full, formula), checked, 1))
=============================================================================
