--------------------------------- MODULE Main ---------------------------------
(***************************************************************************)
(* texadamain: from the command line, by way of a configuration file, to   *)
(* the settings of a checker, through the loop of mine_property_type, to   *)
(* what is printed of the findings.                                        *)
(*                                                                         *)
(* An option map is a function from the options that are given to their    *)
(* values.  A file is what is in it: a configuration file its option map,  *)
(* a log its lines.  What the parser makes of these is that of LogFormat.  *)
(***************************************************************************)
EXTENDS Statistic, Sequences

CONSTANTS
  Names, PredicateEvents, ScopeOf,  \* as in PropertyTypeMiner
  TwoCharNames,    \* names ".." matches, which end events if these have many propositions
  Within,          \* the pairs of a name and another one it is a part of
  CommandLines,    \* the option maps the program may be called with
  Unreadable,      \* a file that cannot be opened
  Malformed        \* a configuration file Boost does not accept

TraceSep == "--"

\* The values Boost lets the options have; of regular expressions, what they match.
IsOptionMap(m) ==
  /\ "property-type" \in DOMAIN m => m["property-type"] \in Seq(SUBSET Names)
  /\ "log-file" \in DOMAIN m => m["log-file"] = Unreadable \/ m["log-file"] \in Seq(Names \cup {TraceSep})
  /\ "regex" \in DOMAIN m => m["regex"] \subseteq Names
  /\ "event" \in DOMAIN m => m["event"] \in Seq(Names)
  /\ "sup-threshold" \in DOMAIN m => m["sup-threshold"] \in Int
  /\ "sup-pot-threshold" \in DOMAIN m => m["sup-pot-threshold"] \in Int
  /\ "conf-threshold" \in DOMAIN m => m["conf-threshold"] \in [num : Int, den : Nat \ {0}]

ASSUME CommandLinesAssumption ==
  \A line \in CommandLines :
    /\ IsOptionMap(line)
    /\ "config-file" \in DOMAIN line =>
         \/ line["config-file"] \in {Unreadable, Malformed}
         \/ IsOptionMap(line["config-file"])

ASSUME NamesAssumption ==
  /\ ScopeOf \in [DOMAIN ScopeOf -> Names] /\ DOMAIN ScopeOf \subseteq Names
  /\ TraceSep \notin Names

VARIABLES
  command_line,    \* history
  opts_map,
  c_settings,
  event_set, formula, pools, pc,  \* of PropertyTypeMiner
  specified_formula_events,
  printed,         \* for each property type, the propositions replaced in its findings
  status,          \* what the program exits with
  stage

mining   == <<event_set, formula, pools, pc>>
printing == <<specified_formula_events, printed>>
vars     == <<command_line, opts_map, c_settings, mining, printing, status, stage>>

Given(option)          == option \in DOMAIN opts_map
Value(option, default) == IF Given(option) THEN opts_map[option] ELSE default

prop_types == Value("property-type", <<>>)
log_file   == Value("log-file", <<>>)

Format == INSTANCE LogFormat
            WITH lines      <- log_file,
                 matched    <- Value("regex", Names),
                 event_seps <- IF Given("parse-mult-prop") THEN TwoCharNames ELSE {}

\* What return_props returns.
log_events == IF log_file = Unreadable THEN {} ELSE Format!Propositions

Miner == INSTANCE PropertyTypeMiner
           WITH formulae        <- prop_types,
                constant_events <- Value("event", <<>>),
                allow_reps      <- Given("allow-same-bindings"),
                pregen_instants <- Given("pregen-instants"),
                scope_semantics <- Given("scope-semantics"),
                parsed_events   <- log_events

-----------------------------------------------------------------------------
DefaultSettings == [sup_t |-> 0, sup_pot_t |-> 0, conf_t |-> Ratio(1, 1),
                    use_global_t |-> FALSE, compute_full_stats |-> FALSE]

Init == /\ command_line \in CommandLines
        /\ opts_map = command_line
        /\ c_settings = DefaultSettings
        /\ event_set = {}
        /\ formula = 1
        /\ pools = <<>>
        /\ pc = "exclude"
        /\ specified_formula_events = {}
        /\ printed = <<>>
        /\ status = -1
        /\ stage = "called"

Goto(next) == stage' = next /\ UNCHANGED <<command_line, status>>
Exit(code) == /\ stage' = "exited"
              /\ status' = code
              /\ UNCHANGED command_line

NoArguments == /\ stage = "called"
               /\ DOMAIN opts_map = {}
               /\ Exit(1)
               /\ UNCHANGED <<opts_map, c_settings, mining, printing>>

Help == /\ stage = "called"
        /\ Given("help")
        /\ Exit(0)
        /\ UNCHANGED <<opts_map, c_settings, mining, printing>>

Over(first, second) == [option \in DOMAIN first \cup DOMAIN second |->
                          IF option \in DOMAIN first THEN first[option] ELSE second[option]]

\* A variant that lets the file override.
FileWins(opts, file) == Over(file, opts)

\* opts_map.insert: what is there stays.
Inserted(opts, file) == Over(opts, file)

ReadConfigFile ==
  /\ stage = "called"
  /\ Given("config-file") /\ ~ Given("help")
  /\ LET file == opts_map["config-file"]
     IN \/ /\ file \in {Unreadable, Malformed}
           /\ Exit(1)
           /\ UNCHANGED opts_map
        \/ /\ file \notin {Unreadable, Malformed}
           /\ opts_map' = Inserted(opts_map, file)
           /\ Goto("given")
  /\ UNCHANGED <<c_settings, mining, printing>>

NoConfigFile == /\ stage = "called"
                /\ DOMAIN opts_map \cap {"help", "config-file"} = {}
                /\ DOMAIN opts_map # {}
                /\ Goto("given")
                /\ UNCHANGED <<opts_map, c_settings, mining, printing>>

-----------------------------------------------------------------------------
TraceTypes == {"map-trace", "linear-trace", "prefix-tree-trace"}

Required == /\ \E t \in TraceTypes : TraceTypes \cap DOMAIN opts_map = {t}
            /\ Given("property-type")
            /\ Given("log-file")

\* The settings asked for, in the order in which the options are looked at.
Requested ==
  [sup_t              |-> Value("sup-threshold", IF Given("no-vacuous-findings") THEN 1 ELSE 0),
   sup_pot_t          |-> Value("sup-pot-threshold", 0),
   conf_t             |-> Value("conf-threshold", Ratio(1, 1)),
   use_global_t       |-> Given("no-vacuous-findings") \/ Given("use-global-thresholds"),
   compute_full_stats |-> Given("print-stats")]

\* set_sup_t, set_sup_pot_t and set_conf_t.
InRange(c) == /\ c.sup_t >= 0
              /\ c.sup_pot_t >= 0
              /\ c.conf_t.num \in 0 .. c.conf_t.den

\* A variant that forgets about the prefix tree checker.
SupportedButForMaps(c) == Given("map-trace") => IsVanilla(c)

\* The map and prefix tree checkers have no statistics.
Supported(c) == Given("linear-trace") \/ IsVanilla(c)

Refuse == /\ stage = "given"
          /\ ~ Required \/ ~ InRange(Requested) \/ ~ Supported(Requested)
          /\ Exit(1)
          /\ UNCHANGED <<opts_map, c_settings, mining, printing>>

Configure == /\ stage = "given"
             /\ Required /\ InRange(Requested) /\ Supported(Requested)
             /\ c_settings' = Requested
             /\ Goto("configured")
             /\ UNCHANGED <<opts_map, mining, printing>>

\* Without a log mine_property_type returns as if there were no property types.
CannotOpenLog == /\ stage = "configured"
                 /\ log_file = Unreadable
                 /\ Goto("mined")
                 /\ UNCHANGED <<opts_map, c_settings, mining, printing>>

\* Lines at which the parser exits, and those at which the prefix tree parser asks a node
\* that is not there for its child; it gets to a line if there is none before.
ExitsAt(n)         == Format!Silent(n) /\ ~ Given("ignore-nm-lines")
DereferencesAt(n)  == Format!ClosesNothing(n) /\ Given("prefix-tree-trace")
StopsAt(n)         == ExitsAt(n) \/ DereferencesAt(n)
GetsTo(n)          == \A m \in 1 .. n - 1 : ~ StopsAt(m)

ParserReads == stage = "configured" /\ log_file # Unreadable

ParseLog == /\ ParserReads
            /\ \A n \in DOMAIN log_file : ~ StopsAt(n)
            /\ event_set' = log_events
            /\ Goto("mining")
            /\ UNCHANGED <<opts_map, c_settings, formula, pools, pc, printing>>

ParserExits == /\ ParserReads
               /\ \E n \in DOMAIN log_file : GetsTo(n) /\ ExitsAt(n)
               /\ Exit(1)
               /\ UNCHANGED <<opts_map, c_settings, mining, printing>>

DereferenceNull == /\ ParserReads
                   /\ \E n \in DOMAIN log_file : GetsTo(n) /\ DereferencesAt(n)
                   /\ Goto("undefined")
                   /\ UNCHANGED <<opts_map, c_settings, mining, printing>>

MinerStep == /\ stage = "mining"
             /\ UNCHANGED <<opts_map, c_settings, printing>>
             /\ Miner!Next
             /\ Goto(IF pc' = "returned" THEN "mined" ELSE "mining")

\* A pool is made with nothing to bind its variables to.
DecrementEnd == /\ stage = "mining"
                /\ pc = "mine"
                /\ Miner!NothingToBind(Miner!PoolKind(formula), event_set)
                /\ Goto("undefined")
                /\ UNCHANGED <<opts_map, c_settings, mining, printing>>

\* A checker that meets an operator it does not have throws; main catches.
CheckerThrows == /\ stage = "mining"
                 /\ pc = "mine"
                 /\ Exit(1)
                 /\ UNCHANGED <<opts_map, c_settings, mining, printing>>

-----------------------------------------------------------------------------
\* main indexes the result by property type, whether or not there are as many.
IndexBeyondEnd == /\ stage = "mined"
                  /\ Len(pools) < Len(prop_types)
                  /\ Goto("undefined")
                  /\ UNCHANGED <<opts_map, c_settings, mining, printing>>

\* A variant that takes a property type without findings for one that binds nothing.
UnboundWithoutFinding(i) == IF pools[i].found THEN prop_types[i] \ pools[i].binds
                            ELSE prop_types[i]

\* What the first finding of a property type leaves unbound is not to be replaced.
UnboundIn(i) == IF pools[i].found THEN prop_types[i] \ pools[i].binds ELSE {}

CollectSpecified ==
  /\ stage = "mined"
  /\ Len(pools) >= Len(prop_types)
  /\ specified_formula_events' = UNION {UnboundIn(i) : i \in DOMAIN prop_types}
  /\ Goto("printing")
  /\ UNCHANGED <<opts_map, c_settings, mining, printed>>

\* What instantiate replaces in a finding; the JSON output gives the bindings instead.
Replaced(i) == IF Given("output-json") THEN pools[i].binds
               ELSE (prop_types[i] \cap pools[i].binds) \ specified_formula_events

PrintFindings ==
  LET i == Len(printed) + 1
  IN /\ stage = "printing"
     /\ i <= Len(prop_types)
     /\ printed' = Append(printed, IF pools[i].found THEN Replaced(i) ELSE {})
     /\ Goto("printing")
     /\ UNCHANGED <<opts_map, c_settings, mining, specified_formula_events>>

\* For JSON the places of each proposition in the property type are looked for, and those
\* within a longer one are to be dropped: remove_overlapping_locations erases the end
\* where there are none.  Whether there are is up to the text.
PartOfAnother(i) == \E part, name \in prop_types[i] : <<part, name>> \in Within

EraseEnd == /\ stage = "printing"
            /\ Given("output-json")
            /\ Len(printed) < Len(prop_types)
            /\ PartOfAnother(Len(printed) + 1)
            /\ Goto("undefined")
            /\ UNCHANGED <<opts_map, c_settings, mining, printing>>

Finish == /\ stage = "printing"
          /\ Len(printed) = Len(prop_types)
          /\ Exit(0)
          /\ UNCHANGED <<opts_map, c_settings, mining, printing>>

Start == NoArguments \/ Help \/ ReadConfigFile \/ NoConfigFile
Setup == Refuse \/ Configure
Parse == CannotOpenLog \/ ParseLog \/ ParserExits \/ DereferenceNull
Output == IndexBeyondEnd \/ CollectSpecified \/ PrintFindings \/ EraseEnd \/ Finish

Next == Start \/ Setup \/ Parse \/ MinerStep \/ DecrementEnd \/ CheckerThrows \/ Output

Spec == Init /\ [][Next]_vars

-----------------------------------------------------------------------------
Stages == {"called", "given", "configured", "mining", "mined", "printing", "exited", "undefined"}

TypeOK == /\ Miner!TypeOK
          /\ c_settings \in Settings
          /\ specified_formula_events \subseteq Names
          /\ Len(printed) <= Len(pools)
          /\ status \in {-1, 0, 1}
          /\ stage \in Stages
          /\ status # -1 <=> stage = "exited"

\* What is mined is what the command line asks for, or else the configuration file, option
\* by option; there is one trace representation, that of the command line if it has one.
\* (opts.cpp: "Any options entered directly to command line will override file options";
\* a second representation in the file is not overridden but refused.)
Asked(option) ==
  opts_map[option] = IF option \in DOMAIN command_line THEN command_line[option]
                     ELSE command_line["config-file"][option]

MinesWhatWasAsked ==
  stage \in {"mining", "mined", "printing"} =>
    /\ \A option \in DOMAIN opts_map : Asked(option)
    /\ \E t \in TraceTypes : /\ TraceTypes \cap DOMAIN opts_map = {t}
                             /\ TraceTypes \cap DOMAIN command_line \subseteq {t}

\* Only the linear checker is ever run with thresholds or full statistics, which the others
\* would ignore; nor are these asked for findings that are not vacuous, unless a support
\* threshold of zero takes that back.  So a call as in Example 1 of README.md, "./texada -m
\* -f 'G(x -> X(F(y)))' --log-file basic_log.txt --no-vacuous-findings", which "produces
\* the following output", is refused.
OnlyLinearHasStatistics ==
  stage \in {"mining", "mined", "printing"} =>
    \/ Given("linear-trace")
    \/ /\ IsVanilla(c_settings)
       /\ Given("no-vacuous-findings") => Value("sup-threshold", 1) = 0

\* What the property types before this one did to the events does not matter.
LogHasNothingToBind(i) == Miner!NothingToBind(Miner!PoolKind(i), log_events \ Miner!exclude_events(i))

\* From its options to its output, parsers and checkers taken as single steps, the program
\* runs into undefined behaviour for four reasons only.  A log could not be opened, and main
\* indexes the results beyond their end.  The prefix tree parser gets to the end of a trace
\* of no event.  The log has nothing to bind the variables of a property type to, or nothing
\* but its own constants: never have property types mined before it kept the events.  And
\* the JSON output may come to a property type with a proposition within another.
UndefinedForAReason ==
  stage = "undefined" =>
    \/ log_file = Unreadable
    \/ \E n \in DOMAIN log_file : GetsTo(n) /\ DereferencesAt(n)
    \/ formula \in DOMAIN prop_types /\ LogHasNothingToBind(formula)
    \/ Given("output-json") /\ \E i \in DOMAIN prop_types : PartOfAnother(i)

\* Every scope variable to be bound goes with a predicate variable.
ScopesHavePredicates ==
  Given("scope-semantics") =>
    \A i \in DOMAIN prop_types : \A s \in Miner!variables(i) \cap DOMAIN ScopeOf :
      ScopeOf[s] \in Miner!variables(i) \ DOMAIN ScopeOf

\* A property type is mined as if it were the only one of the call, with the events of
\* the log and without its own constants, whatever those mined before it excluded -- as
\* long as the constants are events of the log.
MinedAlone == stage \in {"mining", "mined"} /\ log_file # Unreadable => Miner!MinedAlone

\* Unless repetitions are allowed, no variable of a property type is bound to one of its
\* own constants, not even to one an earlier property type brought in.
OwnConstantsExcluded == Miner!OwnConstantsExcluded

\* README.md: "the variable atomic propositions are replaced with events from the log".
VariablesBecomeLogEvents == stage = "mining" => Miner!VariablesBecomeLogEvents

\* A finding is printed with every variable of its property type replaced, although the
\* propositions that are not to be are collected over all property types, each seen
\* through its own first finding, and used for each.
PrintedAsFound ==
  ScopesHavePredicates =>
    \A i \in DOMAIN printed : pools[i].found => Miner!variables(i) \subseteq printed[i]
=============================================================================
