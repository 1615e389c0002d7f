------------------------- MODULE ValidInstantsProofs -------------------------
(***************************************************************************)
(* The early exits of valid_instants_on_traces change no result, for every *)
(* number of instantiations and traces, every log and every settings.      *)
(***************************************************************************)
EXTENDS ValidInstants, NatFacts

-----------------------------------------------------------------------------
(***************************************************************************)
(* Statistics.                                                             *)
(***************************************************************************)

\* Combining statistics and repeating one give statistics, and neither makes
\* the support exceed the potential.
LEMMA StatTypes ==
  ASSUME NEW p \in Stats, NEW q \in Stats, NEW n \in Nat
  PROVE  /\ VacuouslyTrue \in Stats
         /\ Combine(p, q) \in Stats
         /\ Times(p, n) \in Stats
         /\ p.sup <= p.pot => Times(p, n).sup <= Times(p, n).pot
BY DEF Stats, VacuouslyTrue, Combine, Times, Stat

\* Under a confidence threshold of one, a statistic of something false meets no
\* thresholds: this is what the first exit of the loop relies on.
LEMMA FalseMeetsNoFullConfidence ==
  ASSUME NEW c \in Settings, ConfidenceOne(c),
         NEW s \in Stats, s.sup <= s.pot, ~ s.sat
  PROVE  ~ SatisfiesThresholds(c, s)
<1>1. PICK num \in Nat, den \in Nat : c.conf_t = [num |-> num, den |-> den] /\ den > 0
  BY DEF Settings, Confidences
<1>2. num = den
  BY <1>1 DEF ConfidenceOne
<1>3. CASE s.sup = s.pot
  <2>1. Confidence(s) = Ratio(0, 1)
    BY <1>3 DEF Confidence
  <2> QED BY <1>1, <1>2, <2>1 DEF SatisfiesThresholds, AtMost, Ratio
<1>4. CASE s.sup # s.pot
  <2>1. Confidence(s) = Ratio(s.sup, s.pot)
    BY <1>4 DEF Confidence
  <2>2. s.sup \in Nat /\ s.pot \in Nat /\ s.sup < s.pot
    BY <1>4 DEF Stats
  <2>3. ~ (den * s.pot <= s.sup * den)
    BY <1>1, <2>2
  <2> QED BY <1>1, <1>2, <2>1, <2>3 DEF SatisfiesThresholds, AtMost, Ratio
<1> QED BY <1>3, <1>4

\* Under a confidence threshold of zero, more statistics never fail thresholds
\* that fewer met: this is what the third exit of the loop relies on.
LEMMA MoreMeetsZeroConfidence ==
  ASSUME NEW c \in Settings, ConfidenceZero(c),
         NEW s \in Stats, NEW more \in Stats,
         s.sup <= more.sup, s.pot <= more.pot,
         SatisfiesThresholds(c, s)
  PROVE  SatisfiesThresholds(c, more)
<1>1. PICK num \in Nat, den \in Nat : c.conf_t = [num |-> num, den |-> den] /\ den > 0
  BY DEF Settings, Confidences
<1>2. num = 0
  BY <1>1 DEF ConfidenceZero
<1>3. c.sup_t \in Nat /\ c.sup_pot_t \in Nat
  BY DEF Settings
<1>4. more.sup >= c.sup_t /\ more.pot >= c.sup_pot_t
  BY <1>3 DEF SatisfiesThresholds, Stats
<1>5. Confidence(more) \in [num : Nat, den : Nat]
  BY DEF Confidence, Ratio, Stats
<1>6. AtMost(c.conf_t, Confidence(more))
  BY <1>1, <1>2, <1>5 DEF AtMost
<1> QED BY <1>4, <1>6 DEF SatisfiesThresholds

\* A combination with something false is false.
LEMMA UnsatStays ==
  ASSUME NEW p, NEW q, ~ q.sat
  PROVE  ~ Combine(p, q).sat
BY Zenon DEF Combine, Stat

-----------------------------------------------------------------------------
(***************************************************************************)
(* The statistics of the first traces, combined.                           *)
(***************************************************************************)

\* Prefix(w) is the function its recursive definition describes.
LEMMA PrefixDef ==
  ASSUME NEW w
  PROVE  Prefix(w) = [t \in 0 .. NumTraces |->
                       IF t = 0 THEN VacuouslyTrue
                       ELSE Combine(Prefix(w)[t - 1], w[t])]
<1> DEFINE Body(p, t) == IF t = 0 THEN VacuouslyTrue ELSE Combine(p[t - 1], w[t])
           S == {n \in Nat : \E p : p = [t \in 0 .. n |-> Body(p, t)]}
<1>1. 0 \in S
  <2> DEFINE p == [t \in 0 .. 0 |-> VacuouslyTrue]
  <2>1. p = [t \in 0 .. 0 |-> Body(p, t)]
    OBVIOUS
  <2> QED BY <2>1
<1>2. ASSUME NEW n \in Nat, n \in S PROVE n + 1 \in S
  <2>1. PICK p : p = [t \in 0 .. n |-> Body(p, t)]
    BY <1>2
  <2> DEFINE q == [t \in 0 .. n + 1 |-> IF t <= n THEN p[t] ELSE Body(p, t)]
  <2>2. \A t \in 0 .. n + 1 : q[t] = Body(q, t)
    <3> SUFFICES ASSUME NEW t \in 0 .. n + 1 PROVE q[t] = Body(q, t)
      OBVIOUS
    <3>1. t > 0 => q[t - 1] = p[t - 1]
      OBVIOUS
    <3>2. Body(q, t) = Body(p, t)
      BY <3>1
    <3>3. t <= n => p[t] = Body(p, t)
      BY <2>1
    <3> QED BY <3>2, <3>3
  <2>3. q = [t \in 0 .. n + 1 |-> Body(q, t)]
    <3> HIDE DEF Body
    <3>1. q = [t \in 0 .. n + 1 |-> q[t]]
      OBVIOUS
    <3> HIDE DEF q
    <3> QED BY <3>1, <2>2
  <2> HIDE DEF q
  <2> QED BY <2>3
<1>3. NumTraces \in S
  <2> HIDE DEF S
  <2> QED BY <1>1, <1>2, NatSetInduction, NumTracesAssumption
<1>4. PICK p : p = [t \in 0 .. NumTraces |-> Body(p, t)]
  BY <1>3
<1> QED BY <1>4 DEF Prefix

\* Every prefix of statistics is a statistic; along the prefixes support and
\* potential only grow, and what was once unsatisfied stays so.
LEMMA PrefixStep ==
  ASSUME NEW w \in [Traces -> Stats]
  PROVE  /\ Prefix(w)[0] = VacuouslyTrue
         /\ \A t \in Traces : Prefix(w)[t] = Combine(Prefix(w)[t - 1], w[t])
BY PrefixDef, NumTracesAssumption DEF Traces

LEMMA PrefixType ==
  ASSUME NEW w \in [Traces -> Stats]
  PROVE  \A t \in 0 .. NumTraces : Prefix(w)[t] \in Stats
<1> DEFINE S == {n \in Nat : n <= NumTraces => Prefix(w)[n] \in Stats}
<1>1. 0 \in S
  <2>1. VacuouslyTrue \in Stats
    BY DEF VacuouslyTrue, Stat, Stats
  <2> QED BY <2>1, PrefixStep
<1>2. ASSUME NEW n \in Nat, n \in S PROVE n + 1 \in S
  <2> SUFFICES ASSUME n + 1 <= NumTraces PROVE Prefix(w)[n + 1] \in Stats
    OBVIOUS
  <2>1. n + 1 \in Traces /\ (n + 1) - 1 = n
    BY NumTracesAssumption DEF Traces
  <2>2. Prefix(w)[n + 1] = Combine(Prefix(w)[n], w[n + 1])
    BY <2>1, PrefixStep
  <2>3. Prefix(w)[n] \in Stats /\ w[n + 1] \in Stats
    BY <1>2, <2>1, NumTracesAssumption
  <2> QED BY <2>2, <2>3, StatTypes
<1>3. Nat \subseteq S
  <2> HIDE DEF S
  <2> QED BY <1>1, <1>2, NatSetInduction
<1> QED BY <1>3, NumTracesAssumption

LEMMA PrefixMonotone ==
  ASSUME NEW w \in [Traces -> Stats], NEW t \in 0 .. NumTraces
  PROVE  /\ Prefix(w)[t].sup <= Total(w).sup
         /\ Prefix(w)[t].pot <= Total(w).pot
         /\ Total(w).sat => Prefix(w)[t].sat
<1> DEFINE Grown(n) == /\ Prefix(w)[t].sup <= Prefix(w)[n].sup
                       /\ Prefix(w)[t].pot <= Prefix(w)[n].pot
                       /\ Prefix(w)[n].sat => Prefix(w)[t].sat
           S == {n \in Nat : t <= n /\ n <= NumTraces => Grown(n)}
<1>0. Prefix(w)[t] \in Stats
  BY PrefixType
<1>1. 0 \in S
  BY <1>0 DEF Stats
<1>2. ASSUME NEW n \in Nat, n \in S PROVE n + 1 \in S
  <2> SUFFICES ASSUME t <= n + 1, n + 1 <= NumTraces PROVE Grown(n + 1)
    OBVIOUS
  <2>1. CASE t = n + 1
    BY <1>0, <2>1 DEF Stats
  <2>2. CASE t # n + 1
    <3>1. n + 1 \in Traces /\ (n + 1) - 1 = n /\ n \in 0 .. NumTraces
      BY NumTracesAssumption DEF Traces
    <3>2. Grown(n)
      BY <1>2, <2>2, <3>1, NumTracesAssumption
    <3>3. Prefix(w)[n + 1] = Combine(Prefix(w)[n], w[n + 1])
      BY <3>1, PrefixStep
    <3>4. Prefix(w)[n] \in Stats /\ w[n + 1] \in Stats
      BY <3>1, PrefixType
    <3> QED BY <1>0, <3>2, <3>3, <3>4 DEF Combine, Stat, Stats
  <2> QED BY <2>1, <2>2
<1>3. Nat \subseteq S
  <2> HIDE DEF S
  <2> QED BY <1>1, <1>2, NatSetInduction
<1>4. Grown(NumTraces)
  BY <1>3, NumTracesAssumption
<1> QED BY <1>4 DEF Total

LEMMA PrefixBounded ==
  ASSUME NEW w \in [Traces -> Stats], \A t \in Traces : w[t].sup <= w[t].pot
  PROVE  \A t \in 0 .. NumTraces : Prefix(w)[t].sup <= Prefix(w)[t].pot
<1> DEFINE S == {n \in Nat : n <= NumTraces => Prefix(w)[n].sup <= Prefix(w)[n].pot}
<1>1. 0 \in S
  BY PrefixStep DEF VacuouslyTrue, Stat
<1>2. ASSUME NEW n \in Nat, n \in S PROVE n + 1 \in S
  <2> SUFFICES ASSUME n + 1 <= NumTraces
               PROVE  Prefix(w)[n + 1].sup <= Prefix(w)[n + 1].pot
    OBVIOUS
  <2>1. n + 1 \in Traces /\ (n + 1) - 1 = n /\ n \in 0 .. NumTraces
    BY NumTracesAssumption DEF Traces
  <2>2. Prefix(w)[n + 1] = Combine(Prefix(w)[n], w[n + 1])
    BY <2>1, PrefixStep
  <2>3. Prefix(w)[n] \in Stats /\ w[n + 1] \in Stats
    BY <2>1, PrefixType
  <2>4. Prefix(w)[n].sup <= Prefix(w)[n].pot /\ w[n + 1].sup <= w[n + 1].pot
    BY <1>2, <2>1, NumTracesAssumption
  <2> QED BY <2>2, <2>3, <2>4 DEF Combine, Stat, Stats
<1>3. Nat \subseteq S
  <2> HIDE DEF S
  <2> QED BY <1>1, <1>2, NatSetInduction
<1> QED BY <1>3, NumTracesAssumption

-----------------------------------------------------------------------------
(***************************************************************************)
(* The inductive invariant: where the loop is tells what it has combined   *)
(* and, once it was left early, why.                                       *)
(***************************************************************************)
InLoop ==
  pc = "traces" =>
    /\ current \in Instants
    /\ valid
    /\ global_stat = Prefix(Weighted(current))[each - 1]
    /\ ~ settings.use_global_t =>
         \A t \in 1 .. each - 1 : SatisfiesThresholds(settings, Weighted(current)[t])

LeftEarly ==
  pc = "left" =>
    /\ current \in Instants
    /\ each \in Traces
    /\ global_stat = Prefix(Weighted(current))[each]
    /\ ~ settings.use_global_t =>
         ~ valid /\ ~ SatisfiesThresholds(settings, Weighted(current)[each])
    /\ settings.use_global_t =>
         \/ Enough(global_stat)
         \/ ConfidenceOne(settings) /\ ~ Weighted(current)[each].sat

FoundIsConcluded == \A n \in DOMAIN return_vec : return_vec[n].inst \in Concluded

IInv == /\ TypeOK
        /\ InLoop
        /\ LeftEarly
        /\ FoundIsConcluded
        /\ FindingsAreExact
        /\ FindingStatsAreTotals

\* The positions of the traces among those of the prefixes.
LEMMA TracePositions == /\ NumTraces \in 0 .. NumTraces
                        /\ \A t \in Traces : t \in 0 .. NumTraces /\ t - 1 \in 0 .. NumTraces
BY NumTracesAssumption DEF Traces

\* The statistics of an instantiation are statistics whose support does not
\* exceed their potential.
LEMMA WeightedType ==
  ASSUME TypeOK, NEW i \in Instants
  PROVE  /\ Weighted(i) \in [Traces -> Stats]
         /\ \A t \in Traces : Weighted(i)[t].sup <= Weighted(i)[t].pot
<1> SUFFICES ASSUME NEW t \in Traces
             PROVE  /\ Times(stat_of[i][t], count[t]) \in Stats
                    /\ Times(stat_of[i][t], count[t]).sup
                         <= Times(stat_of[i][t], count[t]).pot
  BY DEF Weighted
<1>1. stat_of[i][t] \in TraceStats
  BY DEF TypeOK
<1>2. stat_of[i][t] \in Stats /\ stat_of[i][t].sup <= stat_of[i][t].pot
  BY <1>1, TraceStatsAssumption
<1>3. count[t] \in Nat
  BY CountsAssumption DEF TypeOK
<1> QED BY <1>2, <1>3, StatTypes

\* An instantiation the loop left early is concluded as it would have been at
\* the end of the log.
LEMMA LeftEarlyIsExact ==
  ASSUME IInv, pc = "left"
  PROVE  /\ current \in Instants
         /\ (IF settings.use_global_t
             THEN SatisfiesThresholds(settings, global_stat) ELSE valid)
              <=> IsValid(Weighted(current))
         /\ ~ MayStopEarly =>
              ~ (IF settings.use_global_t
                 THEN SatisfiesThresholds(settings, global_stat) ELSE valid)
<1> DEFINE w == Weighted(current)
<1>1. /\ current \in Instants /\ each \in Traces
      /\ global_stat = Prefix(w)[each]
  BY DEF IInv, LeftEarly
<1>2. settings \in Settings
  BY SettingsAssumption DEF IInv, TypeOK
<1>3. w \in [Traces -> Stats] /\ \A t \in Traces : w[t].sup <= w[t].pot
  BY <1>1, WeightedType DEF IInv
<1>4. each \in 0 .. NumTraces /\ NumTraces \in 0 .. NumTraces
  BY <1>1, TracePositions
<1>5. global_stat \in Stats /\ Total(w) \in Stats
  BY <1>1, <1>3, <1>4, PrefixType DEF Total
<1>6. CASE ~ settings.use_global_t
  BY <1>1, <1>6 DEF IInv, LeftEarly, IsValid
<1>7. CASE settings.use_global_t /\ Enough(global_stat)
  <2>1. ConfidenceZero(settings) /\ SatisfiesThresholds(settings, global_stat)
    BY <1>7 DEF Enough
  <2>2. global_stat.sup <= Total(w).sup /\ global_stat.pot <= Total(w).pot
    BY <1>1, <1>3, <1>4, PrefixMonotone
  <2>3. SatisfiesThresholds(settings, Total(w))
    BY <1>2, <1>5, <2>1, <2>2, MoreMeetsZeroConfidence
  <2> QED BY <1>1, <1>7, <2>1, <2>3 DEF IsValid, MayStopEarly, Enough
<1>8. CASE settings.use_global_t /\ ConfidenceOne(settings) /\ ~ w[each].sat
  <2>1. Prefix(w)[each] = Combine(Prefix(w)[each - 1], w[each])
    BY <1>1, <1>3, PrefixStep
  <2>2. ~ global_stat.sat
    BY <1>1, <1>8, <2>1, UnsatStays
  <2>3. ~ Total(w).sat
    BY <1>1, <1>3, <1>4, <2>2, PrefixMonotone
  <2>4. global_stat.sup <= global_stat.pot /\ Total(w).sup <= Total(w).pot
    BY <1>1, <1>3, <1>4, PrefixBounded DEF Total
  <2>5. ~ SatisfiesThresholds(settings, global_stat)
    BY <1>2, <1>5, <1>8, <2>2, <2>4, FalseMeetsNoFullConfidence
  <2>6. ~ SatisfiesThresholds(settings, Total(w))
    BY <1>2, <1>5, <1>8, <2>3, <2>4, FalseMeetsNoFullConfidence
  <2> QED BY <1>1, <1>8, <2>5, <2>6 DEF IsValid
<1>9. settings.use_global_t =>
        \/ Enough(global_stat)
        \/ ConfidenceOne(settings) /\ ~ w[each].sat
  BY Zenon DEF IInv, LeftEarly
<1> QED BY <1>6, <1>7, <1>8, <1>9

\* At the end of the log the loop has the verdict and the totals.
LEMMA AtEndIsExact ==
  ASSUME IInv, pc = "traces", each = NumTraces + 1
  PROVE  /\ current \in Instants
         /\ (IF settings.use_global_t
             THEN SatisfiesThresholds(settings, global_stat) ELSE valid)
              <=> IsValid(Weighted(current))
         /\ global_stat = Total(Weighted(current))
<1>1. each - 1 = NumTraces /\ 1 .. each - 1 = Traces
  BY NumTracesAssumption DEF Traces
<1> QED BY <1>1 DEF IInv, InLoop, IsValid, Total

-----------------------------------------------------------------------------
LEMMA InitInvariant == Init => IInv
<1> SUFFICES ASSUME Init PROVE IInv
  OBVIOUS
<1>1. /\ pc = "pool" /\ current = 0 /\ each = 1
      /\ return_vec = <<>> /\ global_stat = VacuouslyTrue /\ valid \in BOOLEAN
      /\ settings \in Configurations /\ count \in [Traces -> Counts]
      /\ stat_of \in [Instants -> [Traces -> TraceStats]]
  BY Zenon DEF Init
<1>2. TypeOK
  <2>1. VacuouslyTrue \in Stats
    BY DEF VacuouslyTrue, Stat, Stats
  <2>2. 0 \in 0 .. NumInstants /\ 1 \in 1 .. NumTraces + 1
    BY NumInstantsAssumption, NumTracesAssumption
  <2>3. <<>> \in Seq([inst : Instants, stat : Stats])
    OBVIOUS
  <2> QED BY <1>1, <2>1, <2>2, <2>3, Zenon DEF TypeOK
<1>3. Concluded = {} /\ DOMAIN return_vec = {}
  <2>1. 1 .. 0 = {} /\ DOMAIN <<>> = {}
    OBVIOUS
  <2>2. Concluded = 1 .. current
    BY <1>1, Zenon DEF Concluded
  <2> QED BY <1>1, <2>1, <2>2, Zenon
<1>4. pc # "traces" /\ pc # "left"
  BY <1>1
<1> QED BY <1>2, <1>3, <1>4, Zenon DEF IInv, InLoop, LeftEarly, FoundIsConcluded,
                                       FindingsAreExact, FindingStatsAreTotals

\* What the conclusions speak of does not change while the inputs do not.
LEMMA InputsFixed ==
  ASSUME UNCHANGED inputs
  PROVE  /\ \A i : Weighted(i)' = Weighted(i)
         /\ \A i : IsValid(Weighted(i))' <=> IsValid(Weighted(i))
         /\ \A i : Total(Weighted(i))' = Total(Weighted(i))
         /\ MayStopEarly' <=> MayStopEarly
BY DEF inputs, Weighted, IsValid, Total, MayStopEarly, SatisfiesThresholds,
       ConfidenceZero

\* A step that neither concludes an instantiation nor adds a finding keeps what
\* holds of the concluded ones.
LEMMA FindingsKept ==
  ASSUME IInv, UNCHANGED <<inputs, return_vec>>, Concluded' = Concluded
  PROVE  FoundIsConcluded' /\ FindingsAreExact' /\ FindingStatsAreTotals'
<1>1. UNCHANGED inputs
  OBVIOUS
<1>2. FoundIsConcluded'
  BY DEF IInv, FoundIsConcluded
<1>3. FindingsAreExact'
  BY <1>1, InputsFixed DEF IInv, FindingsAreExact, Found
<1>4. FindingStatsAreTotals'
  BY <1>1, InputsFixed DEF IInv, FindingStatsAreTotals
<1> QED BY <1>2, <1>3, <1>4

-----------------------------------------------------------------------------
(***************************************************************************)
(* Each action keeps the invariant.                                        *)
(***************************************************************************)
LEMMA NextInstantiationKeeps ==
  ASSUME IInv, NextInstantiation PROVE IInv'
<1>1. /\ pc = "pool" /\ pc' = "traces"
      /\ current < NumInstants /\ current' = current + 1
      /\ each' = 1
  BY Zenon DEF NextInstantiation
<1>0. /\ valid' = TRUE /\ global_stat' = VacuouslyTrue
      /\ UNCHANGED <<inputs, return_vec>>
  BY Zenon DEF NextInstantiation
<1>2. current \in 0 .. NumInstants
  BY Zenon DEF IInv, TypeOK
<1>3. current' \in Instants /\ current' \in 0 .. NumInstants
  BY <1>1, <1>2, NumInstantsAssumption DEF Instants
<1>4. TypeOK'
  <2>1. VacuouslyTrue \in Stats
    BY DEF VacuouslyTrue, Stat, Stats
  <2>2. 1 \in 1 .. NumTraces + 1
    BY NumTracesAssumption
  <2> QED BY <1>0, <1>1, <1>3, <2>1, <2>2, Zenon DEF IInv, TypeOK, inputs
<1>5. InLoop'
  <2>1. Weighted(current') \in [Traces -> Stats]
    BY <1>3, WeightedType DEF IInv
  <2>2. Prefix(Weighted(current'))[0] = VacuouslyTrue
    BY <2>1, PrefixStep
  <2>3. Weighted(current)' = Weighted(current')
    BY <1>0, Zenon DEF Weighted, inputs
  <2>4. 1 .. each' - 1 = {} /\ each' - 1 = 0
    BY <1>1
  <2> QED BY <1>0, <1>1, <1>3, <2>2, <2>3, <2>4, Zenon DEF InLoop
<1>6. LeftEarly'
  BY <1>1 DEF LeftEarly
<1>7. Concluded' = Concluded
  <2>1. current' - 1 = current
    BY <1>1, <1>2
  <2> QED BY <1>1, <2>1 DEF Concluded
<1> QED BY <1>0, <1>1, <1>4, <1>5, <1>6, <1>7, FindingsKept DEF IInv

LEMMA NoMoreInstantiationsKeeps ==
  ASSUME IInv, NoMoreInstantiations PROVE IInv'
<1>1. /\ pc = "pool" /\ pc' = "returned"
      /\ UNCHANGED <<inputs, current, each, valid, global_stat, return_vec>>
  BY Zenon DEF NoMoreInstantiations
<1>2. TypeOK'
  BY <1>1, Zenon DEF IInv, TypeOK, inputs
<1>3. InLoop' /\ LeftEarly'
  BY <1>1 DEF InLoop, LeftEarly
<1>4. Concluded' = Concluded
  BY <1>1, Zenon DEF Concluded
<1> QED BY <1>1, <1>2, <1>3, <1>4, FindingsKept DEF IInv

LEMMA CheckTraceKeeps ==
  ASSUME IInv, CheckTrace PROVE IInv'
<1> DEFINE w == Weighted(current)
<1>1. /\ pc = "traces" /\ each \in Traces
      /\ global_stat' = Combine(global_stat, trace_stat)
      /\ UNCHANGED <<inputs, current, return_vec>>
  BY Zenon DEF CheckTrace
<1>2. /\ current \in Instants
      /\ valid
      /\ global_stat = Prefix(w)[each - 1]
  BY <1>1, Zenon DEF IInv, InLoop
<1>3. w \in [Traces -> Stats] /\ \A t \in Traces : w[t].sup <= w[t].pot
  BY <1>2, WeightedType DEF IInv
<1>4. trace_stat = w[each]
  BY <1>1, Zenon DEF Weighted, trace_stat
<1>5. global_stat' = Prefix(w)[each]
  BY <1>1, <1>2, <1>3, <1>4, PrefixStep
<1>6. Weighted(current)' = w
  BY <1>1, Zenon DEF Weighted, inputs
<1>7. global_stat' \in Stats
  BY <1>1, <1>3, <1>5, TracePositions, PrefixType
<1>8. Concluded' = Concluded /\ pc' \in {"traces", "left"}
  <2>1. pc' \in {"traces", "left"}
    BY <1>1, Zenon DEF CheckTrace
  <2> QED BY <1>1, <2>1 DEF Concluded
<1>9. FoundIsConcluded' /\ FindingsAreExact' /\ FindingStatsAreTotals'
  BY <1>1, <1>8, FindingsKept
<1>10. CASE Unsatisfied \/ BelowThresholds
  <2>1. valid' = FALSE /\ pc' = "left" /\ each' = each
    BY <1>10, Zenon DEF CheckTrace
  <2>2. TypeOK'
    BY <1>1, <1>7, <2>1, Zenon DEF IInv, TypeOK, inputs
  <2>3. InLoop'
    BY <2>1 DEF InLoop
  <2>4. settings.use_global_t => ConfidenceOne(settings) /\ ~ w[each].sat
    BY <1>4, <1>10, Zenon DEF Unsatisfied, BelowThresholds
  <2>5. ~ settings.use_global_t => ~ SatisfiesThresholds(settings, w[each])
    <3>1. CASE BelowThresholds
      BY <1>4, <3>1, Zenon DEF BelowThresholds
    <3>2. CASE Unsatisfied
      <4>1. settings \in Settings
        BY SettingsAssumption DEF IInv, TypeOK
      <4>2. ConfidenceOne(settings) /\ ~ w[each].sat
        BY <1>4, <3>2, Zenon DEF Unsatisfied
      <4>3. w[each] \in Stats /\ w[each].sup <= w[each].pot
        BY <1>1, <1>3
      <4> QED BY <4>1, <4>2, <4>3, FalseMeetsNoFullConfidence
    <3> QED BY <1>10, <3>1, <3>2
  <2>6. LeftEarly'
    BY <1>1, <1>2, <1>5, <1>6, <2>1, <2>4, <2>5, Zenon DEF LeftEarly, inputs
  <2> QED BY <1>9, <2>2, <2>3, <2>6 DEF IInv
<1>11. CASE ~ (Unsatisfied \/ BelowThresholds) /\ Enough(global_stat')
  <2>1. valid' = valid /\ pc' = "left" /\ each' = each
    BY <1>11, Zenon DEF CheckTrace
  <2>2. TypeOK'
    BY <1>1, <1>7, <2>1, Zenon DEF IInv, TypeOK, inputs
  <2>3. InLoop'
    BY <2>1 DEF InLoop
  <2>4. Enough(global_stat)' /\ settings'.use_global_t
    BY <1>1, <1>11, Zenon DEF Enough, inputs, ConfidenceZero, SatisfiesThresholds
  <2>5. LeftEarly'
    BY <1>1, <1>2, <1>5, <1>6, <2>1, <2>4, Zenon DEF LeftEarly
  <2> QED BY <1>9, <2>2, <2>3, <2>5 DEF IInv
<1>12. CASE ~ (Unsatisfied \/ BelowThresholds \/ Enough(global_stat'))
  <2>1. valid' = valid /\ pc' = pc /\ each' = each + 1
    BY <1>12, Zenon DEF CheckTrace
  <2>2. each' \in 1 .. NumTraces + 1 /\ each' - 1 = each /\ each \in Int
    BY <1>1, <2>1, NumTracesAssumption DEF Traces
  <2>3. TypeOK'
    BY <1>1, <1>7, <2>1, <2>2, Zenon DEF IInv, TypeOK, inputs
  <2>4. LeftEarly'
    BY <1>1, <2>1 DEF LeftEarly
  <2>5. ASSUME ~ settings.use_global_t, NEW t \in 1 .. each
        PROVE  SatisfiesThresholds(settings, w[t])
    <3>1. CASE t = each
      BY <1>4, <1>12, <2>5, <3>1, Zenon DEF BelowThresholds
    <3>2. CASE t # each
      <4>1. t \in 1 .. each - 1
        BY <2>2, <3>2
      <4> QED BY <1>1, <2>5, <4>1, Zenon DEF IInv, InLoop
    <3> QED BY <3>1, <3>2
  <2>6. InLoop'
    BY <1>1, <1>2, <1>5, <1>6, <2>1, <2>2, <2>5, Zenon DEF InLoop, inputs
  <2> QED BY <1>9, <2>3, <2>4, <2>6 DEF IInv
<1> QED BY <1>10, <1>11, <1>12

LEMMA ConcludeKeeps ==
  ASSUME IInv, Conclude PROVE IInv'
<1> DEFINE met == IF settings.use_global_t
                  THEN SatisfiesThresholds(settings, global_stat) ELSE valid
           finding == [inst |-> current, stat |-> global_stat]
<1>1. /\ pc = "left" \/ (pc = "traces" /\ each = NumTraces + 1)
      /\ pc' = "pool"
      /\ UNCHANGED <<inputs, current, each, global_stat>>
  BY Zenon DEF Conclude
<1>2. /\ valid' = met
      /\ return_vec' = IF met THEN Append(return_vec, finding) ELSE return_vec
  BY Zenon DEF Conclude
<1>3. /\ current \in Instants
      /\ met <=> IsValid(Weighted(current))
      /\ met /\ ~ MayStopEarly => global_stat = Total(Weighted(current))
  <2>1. CASE pc = "left"
    BY <2>1, LeftEarlyIsExact, Zenon
  <2>2. CASE pc = "traces" /\ each = NumTraces + 1
    BY <2>2, AtEndIsExact, Zenon
  <2> QED BY <1>1, <2>1, <2>2
<1>4. /\ return_vec \in Seq([inst : Instants, stat : Stats])
      /\ finding \in [inst : Instants, stat : Stats]
  BY <1>3, Zenon DEF IInv, TypeOK
<1>5. /\ ~ met => return_vec' = return_vec
      /\ met => return_vec' = Append(return_vec, finding)
  BY <1>2, Zenon
<1> HIDE DEF met
<1>6. /\ return_vec' \in Seq([inst : Instants, stat : Stats])
      /\ \A n \in DOMAIN return_vec : n \in DOMAIN return_vec' /\ return_vec'[n] = return_vec[n]
      /\ \A n \in DOMAIN return_vec' :
           n \in DOMAIN return_vec \/ (met /\ return_vec'[n] = finding)
      /\ met => \E n \in DOMAIN return_vec' : return_vec'[n] = finding
  <2> HIDE DEF finding
  <2>1. CASE met
    <3>1. return_vec' = Append(return_vec, finding)
      BY <1>5, <2>1
    <3>2. Len(return_vec) \in Nat
      BY <1>4
    <3>3. Len(return_vec) + 1 \in DOMAIN return_vec'
          /\ return_vec'[Len(return_vec) + 1] = finding
      BY <1>4, <3>1
    <3> QED BY <1>4, <2>1, <3>1, <3>2, <3>3
  <2>2. CASE ~ met
    BY <1>4, <1>5, <2>2
  <2> QED BY <2>1, <2>2
<1>7. TypeOK'
  <2>1. valid' \in BOOLEAN
    BY <1>2, <1>3, Zenon DEF met, IInv, TypeOK, SatisfiesThresholds
  <2> QED BY <1>1, <1>6, <2>1, Zenon DEF IInv, TypeOK, inputs
<1>8. InLoop' /\ LeftEarly'
  BY <1>1 DEF InLoop, LeftEarly
<1>9. Concluded' = Concluded \cup {current}
  <2>1. Concluded = 1 .. current - 1
    BY <1>1 DEF Concluded
  <2>2. Concluded' = 1 .. current
    BY <1>1, Zenon DEF Concluded
  <2>3. current \in Nat /\ current > 0
    BY <1>3, NumInstantsAssumption DEF Instants
  <2> QED BY <2>1, <2>2, <2>3
<1>10. current \notin Concluded
  BY <1>1, <1>3, NumInstantsAssumption DEF Concluded, Instants
<1>11. FoundIsConcluded'
  BY <1>6, <1>9 DEF IInv, FoundIsConcluded
<1>12. UNCHANGED inputs
  BY <1>1
<1>13. FindingsAreExact'
  <2>1. Found' = Found \cup (IF met THEN {current} ELSE {})
    BY <1>6 DEF Found
  <2>2. current \notin Found
    BY <1>10 DEF IInv, FoundIsConcluded, Found
  <2>3. \A i \in Concluded' : i \in Found' <=> IsValid(Weighted(i))
    BY <1>3, <1>9, <1>10, <2>1, <2>2 DEF IInv, FindingsAreExact
  <2> QED BY <1>12, <2>3, InputsFixed DEF FindingsAreExact
<1>14. FindingStatsAreTotals'
  <2>1. ASSUME ~ MayStopEarly, NEW n \in DOMAIN return_vec'
        PROVE  return_vec'[n].stat = Total(Weighted(return_vec'[n].inst))
    BY <1>3, <1>6, <2>1 DEF IInv, FindingStatsAreTotals
  <2> QED BY <1>12, <2>1, InputsFixed DEF FindingStatsAreTotals
<1> QED BY <1>7, <1>8, <1>11, <1>13, <1>14 DEF IInv

LEMMA UnchangedKeeps ==
  ASSUME IInv, UNCHANGED vars PROVE IInv'
<1>1. UNCHANGED <<inputs, current, each, valid, global_stat, return_vec, pc>>
  BY Zenon DEF vars, inputs
<1>2. TypeOK'
  BY <1>1, Zenon DEF IInv, TypeOK, inputs
<1>3. Concluded' = Concluded
  BY <1>1, Zenon DEF Concluded
<1>4. Weighted(current)' = Weighted(current)
  BY <1>1, Zenon DEF Weighted, inputs
<1>5. InLoop'
  BY <1>1, <1>4, Zenon DEF IInv, InLoop, inputs
<1>6. LeftEarly'
  BY <1>1, <1>4, Zenon DEF IInv, LeftEarly, inputs, Enough, ConfidenceZero,
                           SatisfiesThresholds
<1> QED BY <1>1, <1>2, <1>3, <1>5, <1>6, FindingsKept DEF IInv

\* Every reachable state of the loop satisfies the inductive invariant.
THEOREM Invariant == Spec => []IInv
<1>1. IInv /\ [Next]_vars => IInv'
  BY NextInstantiationKeeps, NoMoreInstantiationsKeeps, CheckTraceKeeps,
     ConcludeKeeps, UnchangedKeeps DEF Next
<1> QED BY InitInvariant, <1>1, PTL DEF Spec

-----------------------------------------------------------------------------
(***************************************************************************)
(* The theorems.                                                           *)
(***************************************************************************)

\* The variables of valid_instants_on_traces keep their types: in particular
\* the statistics accumulated over the log stay statistics, and the trace
\* iterator stays within the log or at its end.
THEOREM TypeCorrect == Spec => []TypeOK
<1>1. IInv => TypeOK
  BY DEF IInv
<1> QED BY <1>1, Invariant, PTL

\* The early exits of the loop over the traces neither let an instantiation
\* through that fails the thresholds over the log nor lose one that meets them.
THEOREM ExactFindings == Spec => []FindingsAreExact
<1>1. IInv => FindingsAreExact
  BY DEF IInv
<1> QED BY <1>1, Invariant, PTL

\* Unless the settings allow stopping as soon as there is enough, a finding
\* carries the statistics of the whole log.
THEOREM TotalFindingStats == Spec => []FindingStatsAreTotals
<1>1. IInv => FindingStatsAreTotals
  BY DEF IInv
<1> QED BY <1>1, Invariant, PTL

-----------------------------------------------------------------------------
(***************************************************************************)
(* The loop implements the abstract search.                                *)
(***************************************************************************)

\* What is found is what is valid of what is concluded, before a step and after it.
LEMMA FoundAreValid ==
  ASSUME IInv PROVE Found = {i \in Concluded : IsValid(Weighted(i))}
<1>1. Found \subseteq Concluded
  BY DEF IInv, FoundIsConcluded, Found
<1> QED BY <1>1 DEF IInv, FindingsAreExact

LEMMA FoundAreValidNext ==
  ASSUME IInv', UNCHANGED inputs
  PROVE  Found' = {i \in Concluded' : IsValid(Weighted(i))}
<1>1. Found' \subseteq Concluded'
  BY DEF IInv, FoundIsConcluded, Found
<1>2. \A i \in Concluded' : i \in Found' <=> IsValid(Weighted(i))
  BY InputsFixed DEF IInv, FindingsAreExact
<1> QED BY <1>1, <1>2

\* A step that concludes nothing, and does not return, is none of the abstract search.
LEMMA NothingConcluded ==
  ASSUME IInv, IInv', UNCHANGED inputs, Concluded' = Concluded,
         pc' = "returned" <=> pc = "returned"
  PROVE  UNCHANGED Search!vars
<1>1. {i \in Instants : IsValid(Weighted(i))}' = {i \in Instants : IsValid(Weighted(i))}
  BY InputsFixed DEF Instants
<1>2. Found' = Found
  BY FoundAreValid, FoundAreValidNext
<1>3. (Instants \ Concluded)' = Instants \ Concluded
  BY DEF Instants
<1>4. (pc = "returned")' = (pc = "returned")
  OBVIOUS
<1> QED BY <1>1, <1>2, <1>3, <1>4 DEF Search!vars

\* Concluding an instantiation finds it or drops it.
LEMMA ConcludeDecides ==
  ASSUME IInv, IInv', Conclude PROVE Search!Find \/ Search!Drop
<1> DEFINE good == {i \in Instants : IsValid(Weighted(i))}
<1>1. /\ pc # "returned" /\ pc' = "pool"
      /\ UNCHANGED inputs /\ current' = current
  BY Zenon DEF Conclude
<1>2. current \in Instants
  BY LeftEarlyIsExact, AtEndIsExact, Zenon DEF Conclude
<1>3. Concluded' = Concluded \cup {current} /\ current \notin Concluded
  <2>1. Concluded = 1 .. current - 1
    BY DEF Concluded, Conclude
  <2>2. Concluded' = 1 .. current
    BY <1>1, Zenon DEF Concluded
  <2>3. current \in Nat /\ current > 0
    BY <1>2, NumInstantsAssumption DEF Instants
  <2> QED BY <2>1, <2>2, <2>3
<1>4. Found' = IF IsValid(Weighted(current)) THEN Found \cup {current} ELSE Found
  BY <1>1, <1>3, FoundAreValid, FoundAreValidNext
<1>5. good' = good
  BY <1>1, InputsFixed DEF Instants
<1>6. /\ current \in Instants \ Concluded
      /\ (Instants \ Concluded)' = (Instants \ Concluded) \ {current}
  BY <1>2, <1>3 DEF Instants
<1>7. (pc = "returned") = FALSE /\ (pc = "returned")' = FALSE
  BY <1>1
<1>8. CASE IsValid(Weighted(current))
  <2>1. current \in (Instants \ Concluded) \cap good
    BY <1>6, <1>8
  <2>2. Found' = Found \cup {current}
    BY <1>4, <1>8
  <2> QED BY <1>5, <1>6, <1>7, <2>1, <2>2 DEF Search!Find
<1>9. CASE ~ IsValid(Weighted(current))
  <2>1. current \in (Instants \ Concluded) \ good
    BY <1>6, <1>9
  <2>2. Found' = Found
    BY <1>4, <1>9
  <2> QED BY <1>5, <1>6, <1>7, <2>1, <2>2 DEF Search!Drop
<1> QED BY <1>8, <1>9

\* The loop returns when every instantiation is decided.
LEMMA NoMoreReturns ==
  ASSUME IInv, IInv', NoMoreInstantiations PROVE Search!Return
<1>1. /\ pc = "pool" /\ pc' = "returned" /\ current = NumInstants
      /\ UNCHANGED inputs /\ UNCHANGED current
  BY Zenon DEF NoMoreInstantiations
<1>2. Concluded = Instants /\ Concluded' = Concluded
  BY <1>1, Zenon DEF Concluded, Instants
<1>3. {i \in Instants : IsValid(Weighted(i))}' = {i \in Instants : IsValid(Weighted(i))}
  BY <1>1, InputsFixed DEF Instants
<1>4. Found' = Found
  BY <1>1, <1>2, FoundAreValid, FoundAreValidNext
<1>5. Instants \ Concluded = {} /\ (Instants \ Concluded)' = Instants \ Concluded
  BY <1>2 DEF Instants
<1>6. (pc = "returned") = FALSE /\ (pc = "returned")' = TRUE
  BY <1>1
<1> QED BY <1>3, <1>4, <1>5, <1>6 DEF Search!Return

\* Every step of the loop is a step of the abstract search or none of it.
LEMMA StepSimulation ==
  ASSUME IInv, IInv', [Next]_vars PROVE [Search!Next]_(Search!vars)
<1>1. CASE NextInstantiation
  <2>1. /\ pc = "pool" /\ pc' = "traces" /\ current' = current + 1
        /\ UNCHANGED inputs
    BY <1>1, Zenon DEF NextInstantiation
  <2>2. current' - 1 = current
    BY <2>1 DEF IInv, TypeOK
  <2>3. Concluded' = Concluded
    BY <2>1, <2>2 DEF Concluded
  <2> QED BY <2>1, <2>3, NothingConcluded
<1>2. CASE NoMoreInstantiations
  BY <1>2, NoMoreReturns DEF Search!Next
<1>3. CASE CheckTrace
  <2>1. /\ pc = "traces" /\ pc' \in {"traces", "left"} /\ UNCHANGED <<inputs, current>>
    BY <1>3, Zenon DEF CheckTrace
  <2>2. Concluded' = Concluded
    BY <2>1 DEF Concluded
  <2> QED BY <2>1, <2>2, NothingConcluded
<1>4. CASE Conclude
  BY <1>4, ConcludeDecides DEF Search!Next
<1>5. CASE UNCHANGED vars
  <2>1. UNCHANGED <<inputs, current, pc>>
    BY <1>5, Zenon DEF vars, inputs
  <2>2. Concluded' = Concluded
    BY <2>1, Zenon DEF Concluded
  <2> QED BY <2>1, <2>2, NothingConcluded
<1> QED BY <1>1, <1>2, <1>3, <1>4, <1>5 DEF Next

\* For every log, statistics and settings the loop over instantiations and traces, early
\* exits and all, decides one instantiation after the other by the statistics of the whole
\* log, never goes back on one, and returns only when all are decided.
THEOREM Refinement == Spec => ImplementsSearch
<1>1. Init => Search!Init
  <2> SUFFICES ASSUME Init PROVE Search!Init
    OBVIOUS
  <2>1. pc = "pool" /\ current = 0 /\ return_vec = <<>>
    BY Zenon DEF Init
  <2>2. Concluded = {} /\ Found = {}
    BY <2>1 DEF Concluded, Found
  <2>3. (pc = "returned") = FALSE
    BY <2>1
  <2> QED BY <2>2, <2>3 DEF Search!Init
<1> QED BY <1>1, Invariant, StepSimulation, PTL DEF Spec, ImplementsSearch, Search!Spec
=============================================================================
