--------------------------- MODULE MemoizingChecker ---------------------------
(***************************************************************************)
(* What the valid_instants_on_traces of the two checkers with a memory     *)
(* have in common: they take one instantiation after the other from a      *)
(* pool, check each on the traces and keep those that are valid.  The      *)
(* checkers themselves, PrefixTreeChecker and MapChecker, add the loop     *)
(* over the traces, and their memory, which outlives an instantiation.     *)
(***************************************************************************)
EXTENDS Events, Instantiations, SequencesExt

CONSTANTS
  PropTypes,      \* for each checker of a run, the property types a behaviour may mine
  EventNames,     \* the propositions of the log
  ConstantEvents, \* those given as constants of the property type
  Passes,         \* for each set of variables, orders in which a pool hands out their bindings
  Logs            \* for each checker, logs: sequences of traces, a trace a sequence of sets of names

ASSUME ConstantsAssumption == ConstantEvents \subseteq EventNames
ASSUME PropTypesAssumption == \A kind \in DOMAIN PropTypes : PropTypes[kind] \subseteq Language
\* A pool that lets variables share an event hands out every binding once (InstantsPool).
ASSUME PassesAssumption ==
  \A kind \in DOMAIN PropTypes : \A f \in PropTypes[kind] :
    LET variables == VariablesOf(f, ConstantEvents)
    IN \A pass \in Passes[variables] : /\ pass \in Seq([variables -> EventNames])
                                      /\ ToSet(pass) = [variables -> EventNames]
                                      /\ IsInjective(pass)
\* A trace without events has no interval for the map checker to search, and the parser
\* of the prefix tree does not survive it (TreeFailsOnEmptyTraces).
ASSUME LogsAssumption ==
  \A kind \in DOMAIN PropTypes : \A l \in Logs[kind] :
    /\ l \in Seq(Seq(SUBSET EventNames))
    /\ l # <<>> /\ \A id \in DOMAIN l : l[id] # <<>>

VARIABLES
  checker,        \* the class of the checker
  prop_type,
  log,            \* history: the traces of the log, by trace id
  holding,        \* history: the instantiations that hold on every one of them
  instantiations, \* the binding the checker was last given
  untried,        \* the instantiations the pool has left
  return_vec,     \* the bindings found valid
  pc

question == <<checker, prop_type, log, holding>>
search   == <<question, instantiations, untried, return_vec, pc>>

Variables == VariablesOf(prop_type, ConstantEvents)
Bindings  == [Variables -> EventNames]

\* What the search should find out about an instantiation.
HoldsOnTheLog(inst) ==
  \A id \in DOMAIN log : Holds(prop_type, Under(AsPassed(inst, ConstantEvents), log[id]), 1)

\* The events of a trace, as the parsers are given them.
EventsOf(trace) == Append([k \in DOMAIN trace |-> Event(trace[k])], TerminalEvent)

InitSearch(kind) ==
  /\ kind \in DOMAIN PropTypes
  /\ checker = kind
  /\ prop_type \in PropTypes[kind]
  /\ log \in Logs[kind]
  /\ holding = {inst \in Bindings : HoldsOnTheLog(inst)}
  /\ instantiations = <<>>
  /\ untried \in Passes[Variables]
  /\ return_vec = {}
  /\ pc = "pool"

GetNextInstantiation ==
  /\ pc = "pool"
  /\ untried # <<>>
  /\ untried' = Tail(untried)
  /\ instantiations' = AsPassed(Head(untried), ConstantEvents)
  /\ pc' = "traces"
  /\ UNCHANGED <<question, return_vec>>

\* The loop over the traces is left, and the instantiation was valid on them or not.
KeepIf(valid) ==
  /\ pc = "traces"
  /\ return_vec' = IF valid THEN return_vec \cup {Restrict(instantiations, Variables)}
                   ELSE return_vec
  /\ pc' = "pool"
  /\ UNCHANGED <<question, instantiations, untried>>

GetNull ==
  /\ pc = "pool"
  /\ untried = <<>>
  /\ pc' = "returned"
  /\ UNCHANGED <<question, instantiations, untried, return_vec>>

-----------------------------------------------------------------------------
SearchTypeOK == /\ ToSet(untried) \subseteq Bindings
                /\ pc \in {"pool", "traces", "returned"}

\* The instantiations the outer loop is through with.
InProgress == IF pc = "traces" THEN {Restrict(instantiations, Variables)} ELSE {}
Concluded  == Bindings \ (ToSet(untried) \cup InProgress)

\* The findings are the instantiations that hold on every trace of the log, whatever
\* traces share their nodes or positions, stop the loop early or were answered from
\* memory.
FindingsHoldOnTheLog == \A inst \in Concluded : inst \in return_vec <=> inst \in holding

\* The search decides one instantiation after the other by what the whole log says of it,
\* never goes back on it, and returns when, and only when, it is through with all.
Abstract == INSTANCE InstantsSearch
            WITH good      <- holding,
                 undecided <- Bindings \ Concluded,
                 found     <- return_vec,
                 finished  <- pc = "returned"
ImplementsSearch == Abstract!Spec
=============================================================================
