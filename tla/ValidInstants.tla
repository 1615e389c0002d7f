---------------------------- MODULE ValidInstants ----------------------------
(***************************************************************************)
(* valid_instants_on_traces of lineartracechecker.cpp: the loop over the   *)
(* instantiations of a property type and, for each, over the distinct      *)
(* traces of the log, with its three early exits.                          *)
(*                                                                         *)
(* What the checker returns for an instantiation on a trace is an input    *)
(* here (module LinearChecker says what it is); so is the order in which   *)
(* the instantiation pool hands out instantiations (module OtfPool).       *)
(***************************************************************************)
EXTENDS Statistic, Sequences

CONSTANTS
  NumInstants,    \* how many instantiations the pool hands out
  NumTraces,      \* how many different traces the log has
  TraceStats,     \* the statistics the checker may return for a trace
  Counts,         \* how often a trace may occur in the log
  Configurations  \* the settings the checker may be configured with

ASSUME NumInstantsAssumption == NumInstants \in Nat
ASSUME NumTracesAssumption   == NumTraces \in Nat
ASSUME CountsAssumption      == Counts \subseteq Nat \ {0}
ASSUME SettingsAssumption    == Configurations \subseteq Settings
\* ConfidenceIsVerdict of module LinearChecker.
ASSUME TraceStatsAssumption  == TraceStats \subseteq {s \in Stats : s.sup <= s.pot}

Instants == 1 .. NumInstants
Traces   == 1 .. NumTraces

VARIABLES
  settings,     \* c_settings
  count,        \* traces->count(*each)
  stat_of,      \* what check_on_trace returns, by instantiation and trace
  current,      \* current_instantiation
  each,         \* the trace iterator of the inner loop
  valid,
  global_stat,
  return_vec,   \* the findings
  pc

inputs == <<settings, count, stat_of>>
vars == <<settings, count, stat_of, current, each, valid, global_stat, return_vec, pc>>

-----------------------------------------------------------------------------
Init == /\ settings \in Configurations
        /\ count \in [Traces -> Counts]
        /\ stat_of \in [Instants -> [Traces -> TraceStats]]
        /\ current = 0
        /\ each = 1
        /\ valid = TRUE
        /\ global_stat = VacuouslyTrue
        /\ return_vec = <<>>
        /\ pc = "pool"

NextInstantiation ==
  /\ pc = "pool"
  /\ current < NumInstants
  /\ current' = current + 1
  /\ each' = 1
  /\ valid' = TRUE
  /\ global_stat' = VacuouslyTrue
  /\ pc' = "traces"
  /\ UNCHANGED <<inputs, return_vec>>

\* A variant that takes the last instantiation for NULL.
StopBeforeTheLast ==
  /\ pc = "pool"
  /\ current >= NumInstants - 1
  /\ pc' = "returned"
  /\ UNCHANGED <<inputs, current, each, valid, global_stat, return_vec>>

\* get_next_instantiation returned NULL.
NoMoreInstantiations ==
  /\ pc = "pool"
  /\ current = NumInstants
  /\ pc' = "returned"
  /\ UNCHANGED <<inputs, current, each, valid, global_stat, return_vec>>

\* The statistic of the trace the iterator is at, counted once for each time the
\* trace occurs in the log.
trace_stat == Times(stat_of[current][each], count[each])

Unsatisfied     == ConfidenceOne(settings) /\ ~ trace_stat.sat
BelowThresholds == ~ settings.use_global_t /\ ~ SatisfiesThresholds(settings, trace_stat)

\* Two variants of the last exit: one that any confidence threshold allows, one
\* that full statistics do not forbid.
EnoughAtAnyConfidence(global) == /\ settings.use_global_t
                                 /\ ~ settings.compute_full_stats
                                 /\ SatisfiesThresholds(settings, global)
EnoughDespiteFullStats(global) == /\ settings.use_global_t
                                  /\ ConfidenceZero(settings)
                                  /\ SatisfiesThresholds(settings, global)

Enough(global)  == /\ settings.use_global_t
                   /\ ConfidenceZero(settings)
                   /\ ~ settings.compute_full_stats
                   /\ SatisfiesThresholds(settings, global)

\* A variant that goes on to the next round from a vacuous trace without moving on to
\* the next trace.
CheckTraceContinuing ==
  /\ pc = "traces"
  /\ each \in Traces
  /\ global_stat' = Combine(global_stat, trace_stat)
  /\ \/ /\ Unsatisfied \/ BelowThresholds
        /\ valid' = FALSE
        /\ pc' = "left"
        /\ UNCHANGED each
     \/ /\ ~ (Unsatisfied \/ BelowThresholds)
        /\ each' = IF trace_stat.pot = 0 THEN each ELSE each + 1
        /\ UNCHANGED <<valid, pc>>
  /\ UNCHANGED <<inputs, current, return_vec>>

\* One round of the inner loop.
CheckTrace ==
  /\ pc = "traces"
  /\ each \in Traces
  /\ global_stat' = Combine(global_stat, trace_stat)
  /\ \/ /\ Unsatisfied \/ BelowThresholds
        /\ valid' = FALSE
        /\ pc' = "left"
        /\ UNCHANGED each
     \/ /\ ~ (Unsatisfied \/ BelowThresholds)
        /\ Enough(global_stat')
        /\ pc' = "left"
        /\ UNCHANGED <<each, valid>>
     \/ /\ ~ (Unsatisfied \/ BelowThresholds \/ Enough(global_stat'))
        /\ each' = each + 1
        /\ UNCHANGED <<valid, pc>>
  /\ UNCHANGED <<inputs, current, return_vec>>

\* After the inner loop: the global thresholds, and the finding if there is one.
Conclude ==
  /\ \/ pc = "left"
     \/ pc = "traces" /\ each = NumTraces + 1
  /\ valid' = IF settings.use_global_t
              THEN SatisfiesThresholds(settings, global_stat)
              ELSE valid
  /\ return_vec' = IF valid'
                   THEN Append(return_vec, [inst |-> current, stat |-> global_stat])
                   ELSE return_vec
  /\ pc' = "pool"
  /\ UNCHANGED <<inputs, current, each, global_stat>>

Next == \/ NextInstantiation
        \/ NoMoreInstantiations
        \/ CheckTrace
        \/ Conclude

\* Sequential code that nothing blocks.
Spec == Init /\ [][Next]_vars /\ WF_vars(Next)

-----------------------------------------------------------------------------
(***************************************************************************)
(* What the loop computes, without its early exits.                        *)
(***************************************************************************)

\* The statistics of an instantiation over the log, one per different trace.
Weighted(i) == [t \in Traces |-> Times(stat_of[i][t], count[t])]

\* The first t statistics of w combined.
Prefix(w) ==
  LET p[t \in 0 .. NumTraces] ==
        IF t = 0 THEN VacuouslyTrue ELSE Combine(p[t - 1], w[t])
  IN p

Total(w) == Prefix(w)[NumTraces]

IsValid(w) ==
  IF settings.use_global_t
  THEN SatisfiesThresholds(settings, Total(w))
  ELSE \A t \in Traces : SatisfiesThresholds(settings, w[t])

\* The instantiations the loop is through with.
Concluded == IF pc \in {"pool", "returned"}
             THEN 1 .. current ELSE 1 .. current - 1

Found == {return_vec[n].inst : n \in DOMAIN return_vec}

TypeOK ==
  /\ settings \in Configurations
  /\ count \in [Traces -> Counts]
  /\ stat_of \in [Instants -> [Traces -> TraceStats]]
  /\ current \in 0 .. NumInstants
  /\ each \in 1 .. NumTraces + 1
  /\ valid \in BOOLEAN
  /\ global_stat \in Stats
  /\ return_vec \in Seq([inst : Instants, stat : Stats])
  /\ pc \in {"pool", "traces", "left", "returned"}

\* The findings are exactly the instantiations whose statistics over the whole
\* log meet the thresholds: no early exit lets one through or loses one.
FindingsAreExact ==
  \A i \in Concluded : i \in Found <=> IsValid(Weighted(i))

\* The statistics printed with a finding are those of the whole log, unless the
\* settings allow a global search to stop as soon as it has enough.
MayStopEarly == /\ settings.use_global_t
                /\ ConfidenceZero(settings)
                /\ ~ settings.compute_full_stats

FindingStatsAreTotals ==
  ~ MayStopEarly =>
    \A n \in DOMAIN return_vec :
      return_vec[n].stat = Total(Weighted(return_vec[n].inst))

\* The search decides one instantiation after the other by what the whole log says of it,
\* never goes back on it, and returns when, and only when, it is through with all.
Search == INSTANCE InstantsSearch
            WITH good      <- {i \in Instants : IsValid(Weighted(i))},
                 undecided <- Instants \ Concluded,
                 found     <- Found,
                 finished  <- pc = "returned"
ImplementsSearch == Search!Spec

\* Every call returns: the loop over the traces moves its iterator on whenever it does
\* not leave.
SearchReturns == <>(pc = "returned")

\* README.md: "if an instantiation fails to satisfy a threshold at any single
\* trace in the log, it will be filtered out" -- each occurrence of a trace
\* taken by itself.
EachTraceMeetsThresholds ==
  ~ settings.use_global_t =>
    \A n \in DOMAIN return_vec, t \in Traces :
      SatisfiesThresholds(settings, stat_of[return_vec[n].inst][t])
=============================================================================
