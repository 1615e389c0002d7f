------------------------------ MODULE MainProofs ------------------------------
(***************************************************************************)
(* What texadamain does with its options, and mine_property_type with the  *)
(* event set its property types share, is right for every command line,    *)
(* configuration file, log and list of property types.                     *)
(***************************************************************************)
EXTENDS Main, TLAPS

-----------------------------------------------------------------------------
(***************************************************************************)
(* The inductive invariant.                                                *)
(***************************************************************************)

\* Where the options come from.
Merged ==
  /\ command_line \in CommandLines
  /\ IsOptionMap(opts_map)
  /\ DOMAIN command_line \subseteq DOMAIN opts_map
  /\ \A option \in DOMAIN opts_map : Asked(option)
  /\ stage = "called" => opts_map = command_line

\* What is mined with passed the checks of main and of mine_property_type.
Accepted ==
  stage \in {"configured", "mining", "mined", "printing"} =>
    /\ Required
    /\ Supported(c_settings)
    /\ c_settings = Requested

\* Nothing is mined before the options are final.
Untouched ==
  stage \in {"called", "given", "configured"} =>
    /\ pools = <<>> /\ printed = <<>> /\ formula = 1 /\ pc = "exclude"
    /\ specified_formula_events = {}

Opened == /\ stage = "mining" => log_file # Unreadable /\ pc # "returned"
          /\ stage = "mined" /\ log_file # Unreadable => pc = "returned"
          /\ stage = "printing" => Len(pools) >= Len(prop_types)

\* Where the loop over the property types is tells what is missing from the events.
Kinds == {"const", "pregen", "scoped", "otf"}
Pools == [kind : Kinds, vars : SUBSET Names, binds : SUBSET Names, events : SUBSET Names,
          found : BOOLEAN]

LoopPosition ==
  /\ pools \in Seq(Pools)
  /\ pc \in {"mine", "restore"} => formula <= Len(prop_types)
  /\ pc = "returned" => formula > Len(prop_types)
  /\ Len(pools) = IF pc = "restore" THEN formula ELSE formula - 1

Missing == IF pc \in {"mine", "restore"} THEN Miner!exclude_events(formula) ELSE {}

EventsLeft ==
  stage = "mining" =>
    /\ event_set \cap Missing = {}
    /\ log_events \ Missing \subseteq event_set
    /\ Miner!Constants \subseteq log_events => event_set = log_events \ Missing

\* What the pools were made for.
PoolsMade ==
  \A i \in DOMAIN pools :
    /\ i \in DOMAIN prop_types
    /\ pools[i].kind = Miner!PoolKind(i)
    /\ pools[i].vars = Miner!variables(i)
    /\ pools[i].binds = Miner!Binds(i)

PoolsEvents ==
  \A i \in DOMAIN pools :
    /\ pools[i].events \cap Miner!exclude_events(i) = {}
    /\ Miner!Constants \subseteq log_events => pools[i].events = log_events \ Miner!exclude_events(i)

\* Only constants are kept from being replaced.
Printing ==
  /\ printed \in Seq(SUBSET Names)
  /\ ScopesHavePredicates => specified_formula_events \subseteq Miner!Constants

IInv == /\ TypeOK
        /\ Merged
        /\ Accepted
        /\ Untouched
        /\ Opened
        /\ LoopPosition
        /\ EventsLeft
        /\ PoolsMade
        /\ PoolsEvents
        /\ Printing
        /\ PrintedAsFound
        /\ UndefinedForAReason

-----------------------------------------------------------------------------
(***************************************************************************)
(* Options.                                                                *)
(***************************************************************************)

\* What is read from an option map has its type.
LEMMA OptionTypes ==
  ASSUME IsOptionMap(opts_map)
  PROVE  /\ prop_types \in Seq(SUBSET Names)
         /\ Len(prop_types) \in Nat
         /\ DOMAIN prop_types = 1 .. Len(prop_types)
         /\ \A i \in DOMAIN prop_types : prop_types[i] \subseteq Names
         /\ log_events \subseteq Names
<1>1. prop_types \in Seq(SUBSET Names)
  BY DEF IsOptionMap, prop_types, Value, Given
<1>2. Value("regex", Names) \subseteq Names
  BY DEF IsOptionMap, Value, Given
<1>3. log_events \subseteq Names
  BY <1>2 DEF log_events, Format!Propositions, Format!IsProposition
<1> QED BY <1>1, <1>3

\* So have the pools, and there are variables in a pool that binds some.
LEMMA PoolTypes ==
  ASSUME IsOptionMap(opts_map), NEW i \in DOMAIN prop_types
  PROVE  /\ Miner!variables(i) \subseteq Names
         /\ Miner!exclude_events(i) \subseteq Names
         /\ Miner!Binds(i) \subseteq Names
         /\ Miner!PoolKind(i) \in Kinds
         /\ Miner!PoolKind(i) = "const" <=> Miner!variables(i) = {}
<1>1. prop_types[i] \subseteq Names
  BY OptionTypes
<1>2. Miner!variables(i) \subseteq Names /\ Miner!exclude_events(i) \subseteq Names
  BY <1>1 DEF Miner!variables, Miner!exclude_events
<1>3. /\ Miner!PoolKind(i) \in Kinds
      /\ Miner!PoolKind(i) = "const" <=> Miner!variables(i) = {}
  BY DEF Miner!PoolKind, Kinds
<1>4. Miner!Binds(i) \subseteq Names
  BY <1>1, <1>2, <1>3, NamesAssumption DEF Miner!Binds, Kinds
<1> QED BY <1>2, <1>3, <1>4

\* A pool binds every variable of its property type; a scoped one because every scope
\* variable comes with its predicate variable.
LEMMA BindsVariables ==
  ASSUME ScopesHavePredicates, NEW i \in DOMAIN prop_types
  PROVE  Miner!variables(i) \subseteq Miner!Binds(i)
<1>1. CASE Miner!PoolKind(i) = "scoped"
  <2>1. Given("scope-semantics")
    BY <1>1 DEF Miner!PoolKind
  <2> QED BY <1>1, <2>1 DEF Miner!Binds, ScopesHavePredicates
<1>2. CASE Miner!PoolKind(i) # "scoped"
  BY <1>2 DEF Miner!Binds, Miner!variables
<1> QED BY <1>1, <1>2

\* While the options stay, so does what is derived from them.
LEMMA OptionsFixed ==
  ASSUME opts_map' = opts_map
  PROVE  /\ prop_types' = prop_types
         /\ log_file' = log_file
         /\ log_events' = log_events
         /\ Miner!Constants' = Miner!Constants
         /\ \A i : Miner!exclude_events(i)' = Miner!exclude_events(i)
         /\ \A i : Miner!variables(i)' = Miner!variables(i)
         /\ \A i : Miner!PoolKind(i)' = Miner!PoolKind(i)
         /\ \A i : Miner!Binds(i)' = Miner!Binds(i)
         /\ ScopesHavePredicates' <=> ScopesHavePredicates
         /\ Required' <=> Required
         /\ Requested' = Requested
<1>1. prop_types' = prop_types /\ log_file' = log_file
  BY DEF prop_types, log_file, Value, Given
<1>2. Miner!Constants' = Miner!Constants
  BY DEF Miner!Constants, Value, Given
<1>3. /\ \A i : Miner!exclude_events(i)' = Miner!exclude_events(i)
      /\ \A i : Miner!variables(i)' = Miner!variables(i)
  BY <1>1, <1>2 DEF Miner!exclude_events, Miner!variables, Given
<1>4. \A i : Miner!PoolKind(i)' = Miner!PoolKind(i)
  BY <1>3 DEF Miner!PoolKind, Given
<1>5. \A i : Miner!Binds(i)' = Miner!Binds(i)
  BY <1>1, <1>3, <1>4 DEF Miner!Binds
<1>6. ScopesHavePredicates' <=> ScopesHavePredicates
  BY <1>1, <1>3 DEF ScopesHavePredicates, Given
<1>7. Required' <=> Required
  BY DEF Required, Given
<1>8. Requested' = Requested
  BY DEF Requested, Value, Given
<1>9. log_events' = log_events
  <2>1. \A n : Format!IsProposition(n)' <=> Format!IsProposition(n)
    BY <1>1 DEF Format!IsProposition, Value, Given
  <2> QED BY <1>1, <2>1 DEF log_events, Format!Propositions
<1> QED BY <1>1, <1>2, <1>3, <1>4, <1>5, <1>6, <1>7, <1>8, <1>9

\* So does what the parser makes of the log, and what there is to bind in it.
LEMMA ReasonsFixed ==
  ASSUME opts_map' = opts_map
  PROVE  /\ \A n : DereferencesAt(n)' <=> DereferencesAt(n)
         /\ \A n : GetsTo(n)' <=> GetsTo(n)
         /\ \A i : LogHasNothingToBind(i)' <=> LogHasNothingToBind(i)
         /\ \A i : PartOfAnother(i)' <=> PartOfAnother(i)
<1>1. \A n : Format!Silent(n)' <=> Format!Silent(n)
  BY OptionsFixed DEF Format!Silent, Value, Given
<1>2. \A n : Format!ClosesNothing(n)' <=> Format!ClosesNothing(n)
  BY <1>1, OptionsFixed DEF Format!ClosesNothing
<1>3. \A n : DereferencesAt(n)' <=> DereferencesAt(n)
  BY <1>2 DEF DereferencesAt, Given
<1>4. \A n : StopsAt(n)' <=> StopsAt(n)
  BY <1>1, <1>3 DEF StopsAt, ExitsAt, Given
<1>5. \A n : GetsTo(n)' <=> GetsTo(n)
  BY <1>4 DEF GetsTo
<1>6. \A i : LogHasNothingToBind(i)' <=> LogHasNothingToBind(i)
  BY OptionsFixed DEF LogHasNothingToBind, Miner!NothingToBind, Miner!Bindable
<1>7. \A i : PartOfAnother(i)' <=> PartOfAnother(i)
  BY OptionsFixed DEF PartOfAnother
<1> QED BY <1>3, <1>5, <1>6, <1>7

-----------------------------------------------------------------------------
(***************************************************************************)
(* Actions that leave the options and the loop where they are.             *)
(***************************************************************************)

\* What the loop did before stays right.
LEMMA HistoryKept ==
  ASSUME IInv, stage' # "called",
         UNCHANGED <<command_line, opts_map, formula, pools, pc, specified_formula_events, printed>>
  PROVE  /\ Merged' /\ LoopPosition' /\ PoolsMade' /\ PoolsEvents'
         /\ Printing' /\ PrintedAsFound'
<1>1. Merged'
  BY DEF IInv, Merged, Asked, IsOptionMap
<1>2. LoopPosition'
  BY OptionsFixed DEF IInv, LoopPosition
<1>3. PoolsMade' /\ PoolsEvents'
  BY OptionsFixed DEF IInv, PoolsMade, PoolsEvents
<1>4. Printing' /\ PrintedAsFound'
  BY OptionsFixed DEF IInv, Printing, PrintedAsFound
<1> QED BY <1>1, <1>2, <1>3, <1>4

\* The types of the variables of the loop and of what is printed.
LEMMA TypesKept ==
  ASSUME IInv, UNCHANGED <<opts_map, event_set, formula, pools, pc, specified_formula_events, printed>>,
         c_settings' \in Settings, status' \in {-1, 0, 1}, stage' \in Stages,
         status' # -1 <=> stage' = "exited"
  PROVE  TypeOK'
<1>1. Miner!TypeOK'
  BY OptionsFixed DEF IInv, TypeOK, Miner!TypeOK
<1> QED BY <1>1 DEF IInv, TypeOK

\* The program may exit wherever it is.
LEMMA ExitKeeps ==
  ASSUME IInv, stage' = "exited", status' \in {0, 1},
         UNCHANGED <<command_line, opts_map, c_settings, event_set, formula, pools, pc,
                     specified_formula_events, printed>>
  PROVE  IInv'
<1>1. TypeOK'
  BY TypesKept DEF IInv, TypeOK, Stages
<1>2. Accepted' /\ Untouched' /\ Opened' /\ EventsLeft' /\ UndefinedForAReason'
  BY DEF Accepted, Untouched, Opened, EventsLeft, UndefinedForAReason
<1> QED BY <1>1, <1>2, HistoryKept DEF IInv

\* Actions before the loop that only go on.
LEMMA NoConfigFileKeeps ==
  ASSUME IInv, NoConfigFile PROVE IInv'
<1>1. /\ stage = "called" /\ stage' = "given"
      /\ UNCHANGED <<command_line, opts_map, c_settings, event_set, formula, pools, pc,
                     specified_formula_events, printed, status>>
  BY DEF NoConfigFile, Goto, mining, printing
<1>2. TypeOK'
  BY <1>1, TypesKept DEF IInv, TypeOK, Stages
<1>3. Accepted' /\ Untouched' /\ Opened' /\ EventsLeft' /\ UndefinedForAReason'
  BY <1>1 DEF IInv, Accepted, Untouched, Opened, EventsLeft, UndefinedForAReason
<1> QED BY <1>1, <1>2, <1>3, HistoryKept DEF IInv

LEMMA ConfigureKeeps ==
  ASSUME IInv, Configure PROVE IInv'
<1>1. /\ stage = "given" /\ stage' = "configured"
      /\ UNCHANGED <<command_line, opts_map, event_set, formula, pools, pc,
                     specified_formula_events, printed, status>>
      /\ c_settings' = Requested
      /\ Required /\ InRange(Requested) /\ Supported(Requested)
  BY DEF Configure, Goto, mining, printing
<1>2. Requested \in Settings
  <2>1. IsOptionMap(opts_map)
    BY DEF IInv, Merged
  <2>2. Requested.sup_t \in Int /\ Requested.sup_pot_t \in Int
    BY <2>1 DEF Requested, Value, Given, IsOptionMap
  <2>3. Requested.conf_t \in [num : Int, den : Nat \ {0}]
    BY <2>1 DEF Requested, Value, Given, IsOptionMap, Ratio
  <2>4. Requested.sup_t \in Nat /\ Requested.sup_pot_t \in Nat
    BY <1>1, <2>2 DEF InRange
  <2>5. Requested.conf_t \in Confidences
    BY <1>1, <2>3 DEF InRange, Confidences
  <2>6. Requested.use_global_t \in BOOLEAN /\ Requested.compute_full_stats \in BOOLEAN
    BY DEF Requested, Given
  <2>7. Requested = [sup_t |-> Requested.sup_t, sup_pot_t |-> Requested.sup_pot_t,
                     conf_t |-> Requested.conf_t, use_global_t |-> Requested.use_global_t,
                     compute_full_stats |-> Requested.compute_full_stats]
    BY DEF Requested
  <2> QED BY <2>4, <2>5, <2>6, <2>7 DEF Settings
<1>3. TypeOK'
  BY <1>1, <1>2, TypesKept DEF IInv, TypeOK, Stages
<1>4. Accepted'
  BY <1>1, OptionsFixed DEF Accepted, Supported, Given
<1>5. Untouched' /\ Opened' /\ EventsLeft' /\ UndefinedForAReason'
  BY <1>1 DEF IInv, Untouched, Opened, EventsLeft, UndefinedForAReason
<1> QED BY <1>1, <1>3, <1>4, <1>5, HistoryKept DEF IInv

\* The file's options are added to those of the command line.
LEMMA ReadConfigFileKeeps ==
  ASSUME IInv, ReadConfigFile PROVE IInv'
<1> DEFINE file == opts_map["config-file"]
<1>1. /\ stage = "called" /\ Given("config-file")
      /\ UNCHANGED <<command_line, c_settings, event_set, formula, pools, pc,
                     specified_formula_events, printed>>
  BY DEF ReadConfigFile, Goto, Exit, mining, printing
<1>2. CASE file \in {Unreadable, Malformed}
  <2>1. stage' = "exited" /\ status' = 1 /\ UNCHANGED opts_map
    BY <1>2 DEF ReadConfigFile, Exit
  <2> QED BY <1>1, <2>1, ExitKeeps
<1>3. CASE file \notin {Unreadable, Malformed}
  <2>1. stage' = "given" /\ UNCHANGED status /\ opts_map' = Over(opts_map, file)
    BY <1>3 DEF ReadConfigFile, Goto, Inserted
  <2>2. /\ opts_map = command_line /\ command_line \in CommandLines
        /\ IsOptionMap(opts_map)
    BY <1>1 DEF IInv, Merged
  <2>3. IsOptionMap(file)
    BY <1>1, <1>3, <2>2, CommandLinesAssumption DEF Given
  <2>4. /\ DOMAIN opts_map' = DOMAIN opts_map \cup DOMAIN file
        /\ \A o \in DOMAIN opts_map' :
             opts_map'[o] = IF o \in DOMAIN opts_map THEN opts_map[o] ELSE file[o]
    BY <2>1 DEF Over
  <2>5. IsOptionMap(opts_map')
    BY <2>2, <2>3, <2>4 DEF IsOptionMap
  <2>6. Merged'
    BY <1>1, <2>1, <2>2, <2>4, <2>5 DEF Merged, Asked
  <2>7. /\ pools = <<>> /\ printed = <<>> /\ formula = 1 /\ pc = "exclude"
        /\ specified_formula_events = {}
    BY <1>1 DEF IInv, Untouched
  <2>8. Len(prop_types') \in Nat
    <3>1. prop_types' \in Seq(SUBSET Names)
      BY <2>5 DEF IsOptionMap, prop_types, Value, Given
    <3> QED BY <3>1
  <2>9. TypeOK'
    BY <1>1, <2>1, <2>7, <2>8 DEF IInv, TypeOK, Miner!TypeOK, Stages
  <2>10. Accepted' /\ Untouched' /\ Opened' /\ EventsLeft' /\ UndefinedForAReason'
    BY <1>1, <2>1, <2>7 DEF Accepted, Untouched, Opened, EventsLeft, UndefinedForAReason
  <2>11. LoopPosition'
    BY <1>1, <2>7 DEF LoopPosition
  <2>12. PoolsMade' /\ PoolsEvents' /\ Printing' /\ PrintedAsFound'
    BY <1>1, <2>7 DEF PoolsMade, PoolsEvents, Printing, PrintedAsFound
  <2> QED BY <2>6, <2>9, <2>10, <2>11, <2>12 DEF IInv
<1> QED BY <1>2, <1>3

LEMMA CannotOpenLogKeeps ==
  ASSUME IInv, CannotOpenLog PROVE IInv'
<1>1. /\ stage = "configured" /\ stage' = "mined" /\ log_file = Unreadable
      /\ UNCHANGED <<command_line, opts_map, c_settings, event_set, formula, pools, pc,
                     specified_formula_events, printed, status>>
  BY DEF CannotOpenLog, Goto, mining, printing
<1>2. TypeOK'
  BY <1>1, TypesKept DEF IInv, TypeOK, Stages
<1>3. Accepted'
  BY <1>1, OptionsFixed DEF IInv, Accepted, Supported, Given
<1>4. Untouched' /\ Opened' /\ EventsLeft' /\ UndefinedForAReason'
  BY <1>1, OptionsFixed DEF Untouched, Opened, EventsLeft, UndefinedForAReason
<1> QED BY <1>1, <1>2, <1>3, <1>4, HistoryKept DEF IInv

LEMMA ParseLogKeeps ==
  ASSUME IInv, ParseLog PROVE IInv'
<1>1. /\ stage = "configured" /\ stage' = "mining"
      /\ log_file # Unreadable /\ event_set' = log_events
      /\ UNCHANGED <<command_line, opts_map, c_settings, formula, pools, pc,
                     specified_formula_events, printed, status>>
  BY DEF ParseLog, ParserReads, Goto, printing
<1>2. pools = <<>> /\ printed = <<>> /\ formula = 1 /\ pc = "exclude"
  BY <1>1 DEF IInv, Untouched
<1>3. event_set' \subseteq Names
  BY <1>1, OptionTypes DEF IInv, Merged
<1>4. TypeOK'
  <2>1. Miner!TypeOK'
    BY <1>1, <1>3, OptionsFixed DEF IInv, TypeOK, Miner!TypeOK
  <2> QED BY <1>1, <2>1 DEF IInv, TypeOK, Stages
<1>5. Accepted'
  BY <1>1, OptionsFixed DEF IInv, Accepted, Supported, Given
<1>6. Untouched' /\ UndefinedForAReason'
  BY <1>1 DEF Untouched, UndefinedForAReason
<1>7. Opened'
  BY <1>1, <1>2, OptionsFixed DEF Opened
<1>8. EventsLeft'
  BY <1>1, <1>2, OptionsFixed DEF EventsLeft, Missing
<1> QED BY <1>1, <1>4, <1>5, <1>6, <1>7, <1>8, HistoryKept DEF IInv

\* Whatever runs into undefined behaviour leaves everything as it is.
LEMMA UndefinedKeeps ==
  ASSUME IInv, stage' = "undefined", UndefinedForAReason', status = -1,
         UNCHANGED <<command_line, opts_map, c_settings, event_set, formula, pools, pc,
                     specified_formula_events, printed, status>>
  PROVE  IInv'
<1>1. TypeOK'
  BY TypesKept DEF IInv, TypeOK, Stages
<1>2. Accepted' /\ Untouched' /\ Opened' /\ EventsLeft'
  BY DEF Accepted, Untouched, Opened, EventsLeft
<1> QED BY <1>1, <1>2, HistoryKept DEF IInv

LEMMA DereferenceNullKeeps ==
  ASSUME IInv, DereferenceNull PROVE IInv'
<1>1. /\ stage = "configured" /\ stage' = "undefined"
      /\ \E n \in DOMAIN log_file : GetsTo(n) /\ DereferencesAt(n)
      /\ UNCHANGED <<command_line, opts_map, c_settings, event_set, formula, pools, pc,
                     specified_formula_events, printed, status>>
  BY DEF DereferenceNull, ParserReads, Goto, mining, printing
<1>2. UndefinedForAReason'
  BY <1>1, OptionsFixed, ReasonsFixed DEF UndefinedForAReason
<1>3. status = -1
  BY <1>1 DEF IInv, TypeOK
<1> QED BY <1>1, <1>2, <1>3, UndefinedKeeps

-----------------------------------------------------------------------------
(***************************************************************************)
(* The loop over the property types.                                       *)
(***************************************************************************)

\* What a step of the loop leaves alone.
LEMMA MinerFrame ==
  ASSUME IInv, MinerStep
  PROVE  /\ stage = "mining" /\ stage' = IF pc' = "returned" THEN "mined" ELSE "mining"
         /\ UNCHANGED <<command_line, opts_map, c_settings, specified_formula_events, printed, status>>
         /\ Miner!ExcludeEvents \/ Miner!Mine \/ Miner!RestoreEvents \/ Miner!Return
BY DEF MinerStep, Goto, printing, Miner!Next

\* Parts of the invariant that no step of the loop disturbs.
LEMMA MinerKeepsRest ==
  ASSUME IInv, MinerStep
  PROVE  Merged' /\ Accepted' /\ Untouched' /\ UndefinedForAReason'
<1>1. Merged'
  BY MinerFrame DEF IInv, Merged, Asked, IsOptionMap
<1>2. Accepted'
  BY MinerFrame, OptionsFixed DEF IInv, Accepted, Supported, Given
<1>3. Untouched' /\ UndefinedForAReason'
  BY MinerFrame DEF Untouched, UndefinedForAReason
<1> QED BY <1>1, <1>2, <1>3

\* A step of the loop that makes no pool.
LEMMA NoPoolMade ==
  ASSUME IInv, MinerStep, pools' = pools
  PROVE  PoolsMade' /\ PoolsEvents' /\ Printing' /\ PrintedAsFound'
<1>1. PoolsMade' /\ PoolsEvents'
  BY MinerFrame, OptionsFixed DEF IInv, PoolsMade, PoolsEvents
<1>2. Printing' /\ PrintedAsFound'
  BY MinerFrame, OptionsFixed DEF IInv, Printing, PrintedAsFound
<1> QED BY <1>1, <1>2

LEMMA ExcludeEventsKeeps ==
  ASSUME IInv, MinerStep, Miner!ExcludeEvents PROVE IInv'
<1>1. /\ pc = "exclude" /\ pc' = "mine" /\ formula <= Len(prop_types)
      /\ event_set' = event_set \ Miner!exclude_events(formula)
      /\ UNCHANGED <<formula, pools>>
  BY DEF Miner!ExcludeEvents
<1>2. /\ stage = "mining" /\ stage' = "mining"
      /\ UNCHANGED <<opts_map, c_settings, specified_formula_events, printed, status>>
  BY <1>1, MinerFrame
<1>3. TypeOK'
  <2>1. Miner!TypeOK'
    BY <1>1, <1>2, OptionsFixed DEF IInv, TypeOK, Miner!TypeOK
  <2> QED BY <1>1, <1>2, <2>1 DEF IInv, TypeOK
<1>4. LoopPosition'
  BY <1>1, <1>2, OptionsFixed DEF IInv, LoopPosition
<1>5. Opened'
  BY <1>1, <1>2, OptionsFixed DEF IInv, Opened
<1>6. EventsLeft'
  <2>1. Missing = {} /\ Missing' = Miner!exclude_events(formula)
    BY <1>1, <1>2, OptionsFixed DEF Missing
  <2> QED BY <1>1, <1>2, <2>1, OptionsFixed DEF IInv, EventsLeft
<1> QED BY <1>1, <1>3, <1>4, <1>5, <1>6, MinerKeepsRest, NoPoolMade DEF IInv

LEMMA RestoreEventsKeeps ==
  ASSUME IInv, MinerStep, Miner!RestoreEvents PROVE IInv'
<1>1. /\ pc = "restore" /\ pc' = "exclude" /\ formula' = formula + 1
      /\ event_set' = event_set \cup Miner!exclude_events(formula)
      /\ UNCHANGED pools
  BY DEF Miner!RestoreEvents
<1>2. /\ stage = "mining" /\ stage' = "mining"
      /\ UNCHANGED <<opts_map, c_settings, specified_formula_events, printed, status>>
  BY <1>1, MinerFrame
<1>3. IsOptionMap(opts_map)
  BY DEF IInv, Merged
<1>4. formula \in 1 .. Len(prop_types) /\ Len(prop_types) \in Nat /\ formula \in DOMAIN prop_types
  BY <1>1, <1>3, OptionTypes DEF IInv, LoopPosition, TypeOK, Miner!TypeOK
<1>5. TypeOK'
  <2>1. event_set' \subseteq Names
    BY <1>1, <1>3, <1>4, PoolTypes DEF IInv, TypeOK, Miner!TypeOK
  <2>2. formula' \in 1 .. Len(prop_types') + 1 /\ Len(pools') \in {formula' - 1, formula'}
    BY <1>1, <1>2, <1>4, OptionsFixed DEF IInv, LoopPosition
  <2>3. Miner!TypeOK'
    BY <1>1, <2>1, <2>2 DEF IInv, TypeOK, Miner!TypeOK
  <2> QED BY <1>1, <1>2, <2>3 DEF IInv, TypeOK
<1>6. LoopPosition'
  BY <1>1, <1>2, <1>4, OptionsFixed DEF IInv, LoopPosition
<1>7. Opened'
  BY <1>1, <1>2, OptionsFixed DEF IInv, Opened
<1>8. EventsLeft'
  <2>1. Missing' = {} /\ Missing = Miner!exclude_events(formula)
    BY <1>1, <1>2 DEF Missing
  <2>2. Miner!exclude_events(formula) \subseteq Miner!Constants
    BY DEF Miner!exclude_events
  <2> QED BY <1>1, <1>2, <2>1, <2>2, OptionsFixed DEF IInv, EventsLeft
<1> QED BY <1>1, <1>5, <1>6, <1>7, <1>8, MinerKeepsRest, NoPoolMade DEF IInv

LEMMA ReturnKeeps ==
  ASSUME IInv, MinerStep, Miner!Return PROVE IInv'
<1>1. /\ pc = "exclude" /\ pc' = "returned" /\ formula > Len(prop_types)
      /\ UNCHANGED <<event_set, formula, pools>>
  BY DEF Miner!Return
<1>2. /\ stage = "mining" /\ stage' = "mined"
      /\ UNCHANGED <<opts_map, c_settings, specified_formula_events, printed, status>>
  BY <1>1, MinerFrame
<1>3. TypeOK'
  <2>1. Miner!TypeOK'
    BY <1>1, <1>2, OptionsFixed DEF IInv, TypeOK, Miner!TypeOK
  <2> QED BY <1>1, <1>2, <2>1 DEF IInv, TypeOK, Stages
<1>4. LoopPosition'
  BY <1>1, <1>2, OptionsFixed DEF IInv, LoopPosition
<1>5. Opened' /\ EventsLeft'
  BY <1>1, <1>2 DEF Opened, EventsLeft
<1> QED BY <1>1, <1>3, <1>4, <1>5, MinerKeepsRest, NoPoolMade DEF IInv

LEMMA MineKeeps ==
  ASSUME IInv, MinerStep, Miner!Mine PROVE IInv'
<1>1. /\ pc = "mine" /\ pc' = "restore"
      /\ UNCHANGED <<event_set, formula>>
  BY DEF Miner!Mine
<1>2. PICK found \in BOOLEAN :
        pools' = Append(pools, [kind   |-> Miner!PoolKind(formula),
                                vars   |-> Miner!variables(formula),
                                binds  |-> Miner!Binds(formula),
                                events |-> event_set,
                                found  |-> found])
  BY DEF Miner!Mine
<1> DEFINE pool == [kind   |-> Miner!PoolKind(formula),
                    vars   |-> Miner!variables(formula),
                    binds  |-> Miner!Binds(formula),
                    events |-> event_set,
                    found  |-> found]
<1>3. /\ stage = "mining" /\ stage' = "mining"
      /\ UNCHANGED <<opts_map, c_settings, specified_formula_events, printed, status>>
  BY <1>1, MinerFrame
<1>4. IsOptionMap(opts_map)
  BY DEF IInv, Merged
<1>5. formula \in 1 .. Len(prop_types) /\ Len(prop_types) \in Nat /\ formula \in DOMAIN prop_types
  BY <1>1, <1>4, OptionTypes DEF IInv, LoopPosition, TypeOK, Miner!TypeOK
<1>6. pool \in Pools
  BY <1>4, <1>5, PoolTypes DEF Pools, IInv, TypeOK, Miner!TypeOK
<1>7. /\ pools \in Seq(Pools) /\ Len(pools) = formula - 1
  BY <1>1 DEF IInv, LoopPosition
<1> HIDE DEF pool
<1>8. /\ pools' \in Seq(Pools) /\ Len(pools') = formula
      /\ DOMAIN pools' = 1 .. formula
      /\ pools'[formula] = pool
      /\ \A i \in DOMAIN pools' : i # formula => i \in DOMAIN pools /\ pools'[i] = pools[i]
      /\ \A i \in DOMAIN pools : i \in DOMAIN pools' /\ pools'[i] = pools[i]
  BY <1>2, <1>5, <1>6, <1>7 DEF pool
<1>9. LoopPosition'
  BY <1>1, <1>3, <1>5, <1>8, OptionsFixed DEF IInv, LoopPosition
<1>10. PoolsMade'
  <2>1. ASSUME NEW i \in DOMAIN pools'
        PROVE  /\ i \in DOMAIN prop_types
               /\ pools'[i].kind = Miner!PoolKind(i)
               /\ pools'[i].vars = Miner!variables(i)
               /\ pools'[i].binds = Miner!Binds(i)
    <3>1. CASE i = formula
      BY <1>5, <1>8, <3>1 DEF pool
    <3>2. CASE i # formula
      BY <1>8, <2>1, <3>2 DEF IInv, PoolsMade
    <3> QED BY <3>1, <3>2
  <2> QED BY <1>3, <2>1, OptionsFixed DEF PoolsMade
<1>11. PoolsEvents'
  <2>1. Missing = Miner!exclude_events(formula)
    BY <1>1 DEF Missing
  <2>2. ASSUME NEW i \in DOMAIN pools'
        PROVE  /\ pools'[i].events \cap Miner!exclude_events(i) = {}
               /\ Miner!Constants \subseteq log_events =>
                    pools'[i].events = log_events \ Miner!exclude_events(i)
    <3>1. CASE i = formula
      BY <1>3, <1>8, <2>1, <3>1 DEF pool, IInv, EventsLeft
    <3>2. CASE i # formula
      BY <1>8, <2>2, <3>2 DEF IInv, PoolsEvents
    <3> QED BY <3>1, <3>2
  <2> QED BY <1>3, <2>2, OptionsFixed DEF PoolsEvents
<1>12. TypeOK'
  <2>1. \A i \in DOMAIN pools' : /\ pools'[i].binds \subseteq Names
                                 /\ pools'[i].events \subseteq Names
                                 /\ pools'[i].kind = "const" <=> pools'[i].vars = {}
    <3>1. ASSUME NEW i \in DOMAIN pools'
          PROVE  pools'[i].binds \subseteq Names /\ pools'[i].events \subseteq Names
      <4>1. pools'[i] \in Pools
        BY <1>8, <3>1
      <4> QED BY <4>1 DEF Pools
    <3>2. ASSUME NEW i \in DOMAIN pools'
          PROVE  pools'[i].kind = "const" <=> pools'[i].vars = {}
      <4>1. /\ i \in DOMAIN prop_types
            /\ pools'[i].kind = Miner!PoolKind(i) /\ pools'[i].vars = Miner!variables(i)
        BY <1>3, <1>10, <3>2, OptionsFixed DEF PoolsMade
      <4> QED BY <1>4, <4>1, PoolTypes
    <3> QED BY <3>1, <3>2
  <2>2. formula' \in 1 .. Len(prop_types') + 1 /\ Len(pools') \in {formula' - 1, formula'}
    BY <1>1, <1>3, <1>5, <1>8, OptionsFixed
  <2>3. Miner!TypeOK'
    BY <1>1, <2>1, <2>2 DEF IInv, TypeOK, Miner!TypeOK
  <2>4. Len(printed') <= Len(pools')
    BY <1>3, <1>5, <1>7, <1>8 DEF IInv, TypeOK, Printing
  <2> QED BY <1>3, <2>3, <2>4 DEF IInv, TypeOK
<1>13. Opened'
  BY <1>1, <1>3, OptionsFixed DEF IInv, Opened
<1>14. EventsLeft'
  BY <1>1, <1>3, OptionsFixed DEF IInv, EventsLeft, Missing
<1>15. Printing' /\ PrintedAsFound'
  <2>1. Printing'
    BY <1>3, OptionsFixed DEF IInv, Printing
  <2>2. \A i \in DOMAIN printed : i \in DOMAIN pools /\ pools'[i] = pools[i]
    <3>1. printed \in Seq(SUBSET Names) /\ Len(printed) <= Len(pools)
      BY DEF IInv, TypeOK, Printing
    <3>2. DOMAIN printed \subseteq DOMAIN pools
      BY <1>7, <3>1
    <3> QED BY <1>8, <3>2
  <2> QED BY <1>3, <2>1, <2>2, OptionsFixed DEF IInv, PrintedAsFound
<1> QED BY <1>9, <1>10, <1>11, <1>12, <1>13, <1>14, <1>15, MinerKeepsRest DEF IInv

\* The pool has all the events of the log but the constants of its own property type, so
\* when it has nothing to bind, neither has the log.
LEMMA DecrementEndKeeps ==
  ASSUME IInv, DecrementEnd PROVE IInv'
<1>1. /\ stage = "mining" /\ stage' = "undefined" /\ pc = "mine"
      /\ Miner!NothingToBind(Miner!PoolKind(formula), event_set)
      /\ UNCHANGED <<command_line, opts_map, c_settings, event_set, formula, pools, pc,
                     specified_formula_events, printed, status>>
  BY DEF DecrementEnd, Goto, mining, printing
<1>2. formula \in DOMAIN prop_types
  <2>1. formula <= Len(prop_types) /\ formula \in 1 .. Len(prop_types) + 1
    BY <1>1 DEF IInv, LoopPosition, TypeOK, Miner!TypeOK
  <2> QED BY <2>1, OptionTypes DEF IInv, Merged
<1>3. log_events \ Miner!exclude_events(formula) \subseteq event_set
  BY <1>1 DEF IInv, EventsLeft, Missing
<1>4. LogHasNothingToBind(formula)
  BY <1>1, <1>3 DEF LogHasNothingToBind, Miner!NothingToBind, Miner!Bindable
<1>5. UndefinedForAReason'
  BY <1>1, <1>2, <1>4, OptionsFixed, ReasonsFixed DEF UndefinedForAReason
<1>6. status = -1
  BY <1>1 DEF IInv, TypeOK
<1> QED BY <1>1, <1>5, <1>6, UndefinedKeeps

-----------------------------------------------------------------------------
(***************************************************************************)
(* Printing.                                                               *)
(***************************************************************************)

\* The results are shorter than the list of property types only if there was no log.
LEMMA IndexBeyondEndKeeps ==
  ASSUME IInv, IndexBeyondEnd PROVE IInv'
<1>1. /\ stage = "mined" /\ stage' = "undefined" /\ Len(pools) < Len(prop_types)
      /\ UNCHANGED <<command_line, opts_map, c_settings, event_set, formula, pools, pc,
                     specified_formula_events, printed, status>>
  BY DEF IndexBeyondEnd, Goto, mining, printing
<1>2. log_file = Unreadable
  <2>1. SUFFICES ASSUME pc = "returned" PROVE FALSE
    BY <1>1 DEF IInv, Opened
  <2>2. formula > Len(prop_types) /\ Len(pools) = formula - 1
    BY <2>1 DEF IInv, LoopPosition
  <2>3. formula \in Nat /\ Len(prop_types) \in Nat
    BY OptionTypes DEF IInv, Merged, TypeOK, Miner!TypeOK
  <2> QED BY <1>1, <2>2, <2>3
<1>3. UndefinedForAReason'
  BY <1>1, <1>2, OptionsFixed DEF UndefinedForAReason
<1>4. status = -1
  BY <1>1 DEF IInv, TypeOK
<1> QED BY <1>1, <1>3, <1>4, UndefinedKeeps

\* What a finding leaves unbound are constants.
LEMMA CollectSpecifiedKeeps ==
  ASSUME IInv, CollectSpecified PROVE IInv'
<1>1. /\ stage = "mined" /\ stage' = "printing" /\ Len(pools) >= Len(prop_types)
      /\ specified_formula_events' = UNION {UnboundIn(i) : i \in DOMAIN prop_types}
      /\ UNCHANGED <<command_line, opts_map, c_settings, event_set, formula, pools, pc,
                     printed, status>>
  BY DEF CollectSpecified, Goto, mining
<1>2. IsOptionMap(opts_map)
  BY DEF IInv, Merged
<1>3. \A i \in DOMAIN prop_types : i \in DOMAIN pools
  <2>1. pools \in Seq(Pools)
    BY DEF IInv, LoopPosition
  <2> QED BY <1>1, <1>2, <2>1, OptionTypes
<1>4. \A i \in DOMAIN prop_types : UnboundIn(i) \subseteq Names
  BY <1>2, OptionTypes DEF UnboundIn
<1>5. ASSUME ScopesHavePredicates, NEW i \in DOMAIN prop_types
      PROVE  UnboundIn(i) \subseteq Miner!Constants
  <2>1. Miner!variables(i) \subseteq pools[i].binds
    BY <1>3, <1>5, BindsVariables DEF IInv, PoolsMade
  <2>2. prop_types[i] \ Miner!Constants \subseteq pools[i].binds
    BY <2>1 DEF Miner!variables
  <2> QED BY <2>2 DEF UnboundIn
<1>6. specified_formula_events' \subseteq Names
  BY <1>1, <1>4
<1>7. Printing'
  BY <1>1, <1>5, OptionsFixed DEF IInv, Printing
<1>8. TypeOK'
  <2>1. Miner!TypeOK'
    BY <1>1, OptionsFixed DEF IInv, TypeOK, Miner!TypeOK
  <2> QED BY <1>1, <1>6, <2>1 DEF IInv, TypeOK, Stages
<1>9. Merged'
  BY <1>1 DEF IInv, Merged, Asked, IsOptionMap
<1>10. Accepted'
  BY <1>1, OptionsFixed DEF IInv, Accepted, Supported, Given
<1>11. Untouched' /\ UndefinedForAReason' /\ EventsLeft'
  BY <1>1 DEF Untouched, UndefinedForAReason, EventsLeft
<1>12. Opened' /\ LoopPosition'
  BY <1>1, OptionsFixed DEF IInv, Opened, LoopPosition
<1>13. PoolsMade' /\ PoolsEvents' /\ PrintedAsFound'
  BY <1>1, OptionsFixed DEF IInv, PoolsMade, PoolsEvents, PrintedAsFound
<1> QED BY <1>7, <1>8, <1>9, <1>10, <1>11, <1>12, <1>13 DEF IInv

LEMMA PrintFindingsKeeps ==
  ASSUME IInv, PrintFindings PROVE IInv'
<1> DEFINE j == Len(printed) + 1
           shown == IF pools[j].found THEN Replaced(j) ELSE {}
<1>1. /\ stage = "printing" /\ stage' = "printing" /\ j <= Len(prop_types)
      /\ printed' = Append(printed, shown)
      /\ UNCHANGED <<command_line, opts_map, c_settings, event_set, formula, pools, pc,
                     specified_formula_events, status>>
  BY DEF PrintFindings, Goto, mining
<1>2. IsOptionMap(opts_map)
  BY DEF IInv, Merged
<1>3. /\ printed \in Seq(SUBSET Names) /\ pools \in Seq(Pools)
      /\ Len(pools) >= Len(prop_types)
  BY <1>1 DEF IInv, Printing, LoopPosition, Opened
<1>4. j \in DOMAIN prop_types /\ j \in DOMAIN pools /\ j <= Len(pools)
  BY <1>1, <1>2, <1>3, OptionTypes
<1>5. shown \subseteq Names
  <2>1. \A i \in DOMAIN pools : pools[i].binds \subseteq Names
    BY DEF IInv, TypeOK, Miner!TypeOK
  <2>2. pools[j].binds \subseteq Names
    BY <1>4, <2>1
  <2> QED BY <2>2 DEF Replaced
<1>6. ScopesHavePredicates /\ pools[j].found => Miner!variables(j) \subseteq shown
  <2>1. SUFFICES ASSUME ScopesHavePredicates, pools[j].found
                 PROVE  Miner!variables(j) \subseteq Replaced(j)
    OBVIOUS
  <2>2. Miner!variables(j) \subseteq pools[j].binds
    BY <1>4, <2>1, BindsVariables DEF IInv, PoolsMade
  <2>3. specified_formula_events \subseteq Miner!Constants
    BY <2>1 DEF IInv, Printing
  <2> QED BY <2>2, <2>3 DEF Replaced, Miner!variables
<1> HIDE DEF shown
<1>7. /\ printed' \in Seq(SUBSET Names) /\ Len(printed') = j
      /\ \A i \in DOMAIN printed' :
           \/ i = j /\ printed'[i] = shown
           \/ i \in DOMAIN printed /\ printed'[i] = printed[i]
  BY <1>1, <1>3, <1>5
<1>8. PrintedAsFound'
  BY <1>1, <1>6, <1>7, OptionsFixed DEF IInv, PrintedAsFound
<1>9. Printing'
  BY <1>1, <1>7, OptionsFixed DEF IInv, Printing
<1>10. TypeOK'
  <2>1. Miner!TypeOK'
    BY <1>1, OptionsFixed DEF IInv, TypeOK, Miner!TypeOK
  <2> QED BY <1>1, <1>4, <1>7, <2>1 DEF IInv, TypeOK
<1>11. Merged'
  BY <1>1 DEF IInv, Merged, Asked, IsOptionMap
<1>12. Accepted'
  BY <1>1, OptionsFixed DEF IInv, Accepted, Supported, Given
<1>13. Untouched' /\ UndefinedForAReason' /\ EventsLeft'
  BY <1>1 DEF Untouched, UndefinedForAReason, EventsLeft
<1>14. Opened' /\ LoopPosition'
  BY <1>1, OptionsFixed DEF IInv, Opened, LoopPosition
<1>15. PoolsMade' /\ PoolsEvents'
  BY <1>1, OptionsFixed DEF IInv, PoolsMade, PoolsEvents
<1> QED BY <1>8, <1>9, <1>10, <1>11, <1>12, <1>13, <1>14, <1>15 DEF IInv

\* For JSON, and of a property type with a proposition within another, the places of which
\* may not overlap.
LEMMA EraseEndKeeps ==
  ASSUME IInv, EraseEnd PROVE IInv'
<1> DEFINE j == Len(printed) + 1
<1>1. /\ stage = "printing" /\ stage' = "undefined"
      /\ Given("output-json") /\ Len(printed) < Len(prop_types) /\ PartOfAnother(j)
      /\ UNCHANGED <<command_line, opts_map, c_settings, event_set, formula, pools, pc,
                     specified_formula_events, printed, status>>
  BY DEF EraseEnd, Goto, mining, printing
<1>2. j \in DOMAIN prop_types
  <2>1. Len(printed) \in Nat
    BY DEF IInv, Printing
  <2> QED BY <1>1, <2>1, OptionTypes DEF IInv, Merged
<1> HIDE DEF j
<1>3. UndefinedForAReason'
  BY <1>1, <1>2, OptionsFixed, ReasonsFixed DEF UndefinedForAReason, Given
<1>4. status = -1
  BY <1>1 DEF IInv, TypeOK
<1> QED BY <1>1, <1>3, <1>4, UndefinedKeeps

-----------------------------------------------------------------------------
LEMMA InitInvariant == Init => IInv
<1> SUFFICES ASSUME Init PROVE IInv
  OBVIOUS
<1>1. /\ command_line \in CommandLines /\ opts_map = command_line
      /\ c_settings = DefaultSettings
      /\ event_set = {} /\ formula = 1 /\ pools = <<>> /\ pc = "exclude"
      /\ specified_formula_events = {} /\ printed = <<>>
      /\ status = -1 /\ stage = "called"
  BY DEF Init
<1>2. Merged
  BY <1>1, CommandLinesAssumption DEF Merged, Asked
<1>3. Len(prop_types) \in Nat
  BY <1>2, OptionTypes DEF Merged
<1>4. DefaultSettings \in Settings
  BY DEF DefaultSettings, Settings, Confidences, Ratio
<1>5. TypeOK
  BY <1>1, <1>3, <1>4 DEF TypeOK, Miner!TypeOK, Stages
<1>6. Accepted /\ Untouched /\ Opened /\ EventsLeft /\ UndefinedForAReason
  BY <1>1 DEF Accepted, Untouched, Opened, EventsLeft, UndefinedForAReason
<1>7. LoopPosition /\ PoolsMade /\ PoolsEvents /\ Printing /\ PrintedAsFound
  BY <1>1 DEF LoopPosition, PoolsMade, PoolsEvents, Printing, PrintedAsFound
<1> QED BY <1>2, <1>5, <1>6, <1>7 DEF IInv

LEMMA UnchangedKeeps ==
  ASSUME IInv, UNCHANGED vars PROVE IInv'
<1>1. UNCHANGED <<command_line, opts_map, c_settings, event_set, formula, pools, pc,
                  specified_formula_events, printed, status, stage>>
  BY DEF vars, mining, printing
<1>2. TypeOK'
  BY <1>1, TypesKept DEF IInv, TypeOK
<1>3. Merged'
  BY <1>1 DEF IInv, Merged, Asked, IsOptionMap
<1>4. Accepted' /\ Untouched' /\ Opened'
  BY <1>1, OptionsFixed DEF IInv, Accepted, Untouched, Opened, Supported, Given
<1>5. EventsLeft' /\ LoopPosition'
  BY <1>1, OptionsFixed DEF IInv, EventsLeft, Missing, LoopPosition
<1>6. PoolsMade' /\ PoolsEvents' /\ Printing' /\ PrintedAsFound'
  BY <1>1, OptionsFixed DEF IInv, PoolsMade, PoolsEvents, Printing, PrintedAsFound
<1>7. UndefinedForAReason'
  BY <1>1, OptionsFixed, ReasonsFixed DEF IInv, UndefinedForAReason, Given
<1> QED BY <1>2, <1>3, <1>4, <1>5, <1>6, <1>7 DEF IInv

LEMMA NextKeeps ==
  ASSUME IInv, [Next]_vars PROVE IInv'
<1>1. CASE NoArguments \/ Help \/ Refuse \/ ParserExits \/ CheckerThrows \/ Finish
  BY <1>1, ExitKeeps DEF NoArguments, Help, Refuse, ParserExits, CheckerThrows, Finish, Exit,
                         mining, printing
<1>2. CASE MinerStep
  BY <1>2, MinerFrame, ExcludeEventsKeeps, MineKeeps, RestoreEventsKeeps, ReturnKeeps
<1> QED BY <1>1, <1>2, ReadConfigFileKeeps, NoConfigFileKeeps, ConfigureKeeps, CannotOpenLogKeeps,
           ParseLogKeeps, DereferenceNullKeeps, DecrementEndKeeps, IndexBeyondEndKeeps,
           CollectSpecifiedKeeps, PrintFindingsKeeps, EraseEndKeeps, UnchangedKeeps
        DEF Next, Start, Setup, Parse, Output

\* Every reachable state of the program satisfies the inductive invariant.
THEOREM Invariant == Spec => []IInv
<1>1. IInv /\ [Next]_vars => IInv'
  BY NextKeeps
<1> QED BY InitInvariant, <1>1, PTL DEF Spec

-----------------------------------------------------------------------------
(***************************************************************************)
(* The theorems.                                                           *)
(***************************************************************************)

\* The variables of main and of mine_property_type keep their types.
THEOREM TypeCorrect == Spec => []TypeOK
<1>1. IInv => TypeOK
  BY DEF IInv
<1> QED BY <1>1, Invariant, PTL

\* What is mined is what the command line asks for, or else the file, with one trace
\* representation.
THEOREM OptionsAsAsked == Spec => []MinesWhatWasAsked
<1>1. IInv => MinesWhatWasAsked
  BY DEF IInv, Merged, Accepted, Required, MinesWhatWasAsked
<1> QED BY <1>1, Invariant, PTL

\* No checker but the linear one is run with thresholds, with full statistics or for findings
\* that are not vacuous.
THEOREM StatisticsAreLinear == Spec => []OnlyLinearHasStatistics
<1>1. IInv => OnlyLinearHasStatistics
  <2> SUFFICES ASSUME IInv, stage \in {"mining", "mined", "printing"}, ~ Given("linear-trace")
               PROVE  /\ IsVanilla(c_settings)
                      /\ Given("no-vacuous-findings") => Value("sup-threshold", 1) = 0
    BY DEF OnlyLinearHasStatistics
  <2>1. IsVanilla(c_settings) /\ c_settings = Requested
    BY DEF IInv, Accepted, Supported
  <2>2. Requested.sup_t = 0
    BY <2>1 DEF IsVanilla
  <2> QED BY <2>1, <2>2 DEF Requested, Value
<1> QED BY <1>1, Invariant, PTL

\* Whatever the options, the log, the parser's flags and the property types mined before: what
\* is undefined is so for lack of a log, of an event in a trace or of one to bind in the log,
\* or for overlapping names in JSON, and for no other reason.
THEOREM DefinedBehaviour == Spec => []UndefinedForAReason
<1>1. IInv => UndefinedForAReason
  BY DEF IInv
<1> QED BY <1>1, Invariant, PTL

\* However many property types exclude and restore whatever constants, each is mined with
\* the events of the log but its own constants.
THEOREM EachMinedAlone == Spec => []MinedAlone
<1>1. IInv => MinedAlone
  BY DEF IInv, PoolsEvents, MinedAlone, Miner!MinedAlone
<1> QED BY <1>1, Invariant, PTL

\* No property type is instantiated with a constant of its own.
THEOREM NoOwnConstants == Spec => []OwnConstantsExcluded
<1>1. IInv => OwnConstantsExcluded
  BY DEF IInv, PoolsEvents, OwnConstantsExcluded, Miner!OwnConstantsExcluded, Miner!exclude_events
<1> QED BY <1>1, Invariant, PTL

\* What one property type leaves unbound never keeps a variable of another from being
\* replaced in print.
THEOREM VariablesReplaced == Spec => []PrintedAsFound
<1>1. IInv => PrintedAsFound
  BY DEF IInv
<1> QED BY <1>1, Invariant, PTL
=============================================================================
