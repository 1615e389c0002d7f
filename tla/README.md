# A TLA+ model of Texada

Texada mines temporal properties: given a *property type* (an LTL formula over
variables) and a log, it finds every *instantiation* (a binding of the variables to
events of the log) under which the formula holds on the traces of the log, or holds
often enough for the thresholds asked for. This directory models the program in
`src/texada-src/src` and the web server in `src/www` that runs it, checks the models with
TLC and proves theorems about them with TLAPS.

Texada itself is one sequential process that persists nothing; what makes it hard is
loops that stop early, two forms of one formula, three representations of one log,
objects that are mutated between uses and must be put back, iterators that are moved and
not reset, and results that are remembered. The web server is the concurrent part: a
goroutine for each request, files in shared directories, calls that fail half way, and
what a server that died has left. The list of these hazards, each at its line, is in
`PROJECT.json`.

## 1. Inventory

| Part | Files | State it keeps | Operations |
|---|---|---|---|
| statistics and settings | `checkers/statistic.h`, `settings.h` | verdict, support, support potential; thresholds and two flags | combine, confidence, satisfies_thresholds, is_vanilla |
| linear checker | `checkers/lineartracechecker.*`, `boolbasedchecker.h`, `ltlformulachecker.h`, `interval.h` | settings | one check function for each LTL operator |
| search for instantiations | `lineartracechecker.cpp` 300-390 (and one each for the other checkers) | the sum so far, validity, the findings | the loop over instantiations and traces |
| instantiation pools | `instantiation-tools/*pool*` | a counter; wheels (on the fly, scoped) or a vector (pregenerated) | get_next_instantiation, reset_instantiations |
| formula instantiation | `apsubbingcloner.*`, `subformulaapcollector.*` | none | visitors over Spot's formulas |
| parsers | `parsers/parser.*`, `linearparser.*`, `mapparser.*`, `prefixtreeparser.*` | the event under construction; the trace under construction; the traces | get_event, parse_line, add_event |
| traces | `trace/event.*`, `prefixtree.*`, `prefixtreenode.*` | propositions; children under sets of trace ids | add_child, add_id_to_child, get_child |
| map checker | `maptracechecker.*` | memo maps by formula, interval and binding | first/last occurrence over an interval, one check function for each LTL operator |
| prefix tree checker | `prefixtreechecker.*` | memo maps by formula, node and trace id | one check function for each LTL operator, over sets of traces |
| miner | `main/propertytypeminer.cpp` | the event set shared by all property types | mine_property_type |
| command line, output | `main/opts.*`, `texadamain.cpp`, `jsontreeprinter.*` | the option map, the settings, the results, the propositions not to replace | merge a file into the options, refuse, mine, print |
| invariant semantics | `invariant-semantics/`, `translationsparser.*` | translations of data invariants | ap_holds, by the solver Z3 |
| web server | `src/www/server.go` | for each request a log file and an args file in `/tmp`, and an uploaded file; a random number generator | mineHandler, uploadMineHandler, mine |
| quarry | `src/quarry-src` | none | turns Daikon output into logs |

How they interact: `main` merges the options of the command line and of a configuration file,
refuses what does not go together and calls the miner. The miner lets a parser read the log, then
for each property type takes the constants out of the event set, makes a pool over that very set
(it is shared, not copied), hands formula, pool and traces to `valid_instants_on_traces`, and puts
the constants back. `valid_instants_on_traces` resets the pool, asks it for instantiations until
it gets NULL, instantiates the formula, asks a checker for the statistic on each different trace,
and decides; `main` prints what was found. All these calls are synchronous. The web server writes
the log and the options of a request to two files, starts a texada process on them, waits for its
output and removes the files.

What makes each part correct:

- *linear checker*: its verdict is the LTL meaning on finite traces, whatever is
  skipped; its confidence agrees with the verdict; stopping early does not change
  whether thresholds are met.
- *search*: exactly the instantiations that meet the thresholds are returned, with
  the statistics of the whole log.
- *pools*: every admissible instantiation once, then NULL, again after a reset.
- *parsers*: the three representations hold the same traces, those of the log.
- *command line, miner*: what is mined is what was asked for, thresholds never reach a
  checker that would ignore them, and property types do not disturb each other, neither
  through the event set nor in print.
- *web server*: each request is mined on its own log and options, whatever other requests
  are served and whatever was left behind; its files go with it; it gets an answer.
- *prefix tree checker*: what is remembered is right for every instantiation it may be
  used for; a verdict on a shared node is never that of another trace; the findings are
  the instantiations that hold on every trace.
- *map checker*: what is remembered is the first or last occurrence for every
  instantiation it may be used for; the same verdicts as the linear checker.

## 2. The modules

| Module | Models | State and actions |
|---|---|---|
| `Statistic` | `statistic.h`, `settings.h`, `is_short_circuiting` | operators only |
| `Ltl` | formulas as Spot builds them; for one operator, what it means on a finite trace (`Meaning`) and its negative normal form in Spot (`NormalForm`, external), given those of its operands | operators only |
| `LtlLanguage` | a set of formulas by how deep they nest; `Holds`, the reference, on them | functions by recursion over formulas |
| `LtlRecursive` | the same for any formula, with normal forms and the closure a language needs, for the modules nothing is proved of | recursive operators |
| `LinearChecker` | `linear_trace_checker`, `bool_based_checker`, and the normal forms they check (`NegativeNormalForm`) | one operator for each check function, `CheckOn` is the recursion; one action is one `check_on_trace` |
| `ValidInstants` | `valid_instants_on_traces` | `NextInstantiation` and `NoMoreInstantiations` (the outer loop), `CheckTrace` (one round of the inner loop with its exits), `Conclude` |
| `InstantsSearch` | what the miner expects of a search (abstract) | `Find`, `Drop`, `Return` |
| `InstantsPool` | what the search expects of a pool (abstract) | `HandOut`, `ReturnNull`, `Reset` |
| `InstantsPoolCreator` | `instants_pool_creator`, the pools' superclass | the counter, what a pass handed out; `ResetCounter` |
| `OtfPool` | `otf_instants_pool` | one action per iteration of the do-while loop: `ReturnNext`, `SkipDuplicates`, `ReturnNull`; `ResetInstantiations` |
| `ScopedPool` | `scoped_instants_pool_creator` | the odometer of `OtfPool`, over predicates: `ReturnScoped`, `SkipRepetition` |
| `PregenPool` | `pregen_instants_pool` | `FillPosition`, `NextLevel` (construction), `ReturnNext`, `ReturnNull`, `ResetInstantiations` |
| `ConstPool` | `const_instants_pool` | `ReturnNext`, `ReturnNull` |
| `InstantsPools` | the four pools the miner chooses from | the steps of the chosen pool |
| `Events`, `LinearParser`, `MapParser`, `PrefixTreeParser` | `event`, and `add_event` of each parser | operators on the state of one parser |
| `Parser` | `parser::parse` and `get_event`, with all three parsers | one action per kind of line: `ReadTraceSep`, `ReadEventSep`, `ReadProp`, `ReadNoMatch`, `ReadEndOfFile` |
| `Instantiations` | `subformula_ap_collector`, the bindings a pool hands to a checker, a trace as they make a property type see it (`Under`) | operators only |
| `MemoizingChecker` | what the `valid_instants_on_traces` of the two checkers with a memory share | `GetNextInstantiation`, `KeepIf`, `GetNull` (the outer loop) |
| `PrefixTreeChecker` | `prefix_tree_checker` and its `valid_instants_on_traces` | `CheckAt` is one call, given those of the operands and of the children; `CheckTree` the recursion down the tree and `CheckOn` that over the formula, as functions from trace ids and memory to verdicts and memory; `CheckOnTrace` (one first event of the tree), `Conclude` |
| `MapChecker` | `map_trace_checker` and its `valid_instants_on_traces` | `Check`, `FindFirst` and `FindLast` are one recursion (`Ask`), from interval and memory to answer and memory; `CheckOnTrace` (one round of the inner loop), `Conclude` |
| `MemoizingCheckers` | the choice between these two | the steps of the chosen checker (`EitherSpec`) |
| `LogFormat` | what the miner gets to see of a log: which lines stop the parser, which propositions it returns | operators only |
| `PropertyTypeMiner` | the loop of `mine_property_type` | `ExcludeEvents`, `Mine`, `RestoreEvents`, `Return` |
| `Main` | `main`, and the start of `mine_property_type` | `ReadConfigFile`, `Refuse`, `Configure`, `CannotOpenLog`, `ParseLog`, `ParserExits`, `DereferenceNull`, `MinerStep`, `DecrementEnd`, `CheckerThrows`, `IndexBeyondEnd`, `CollectSpecified`, `PrintFindings`, `EraseEnd`, `Finish` and the other exits |
| `Server` | `server.go` | one action for each call a handler makes, and its failure: `CreateUpload`, `CopyUpload`, `ReadUpload`, `RemoveUpload`, `MakeLogFile`, `WriteLog`, `MakeArgsFile`, `WriteArgs`, the reads of the texada process, its failure, `Answer`; `Restart` |
| `NatFacts`, `LinearCheckerProofs`, `PrefixTreeCheckerProofs`, `ValidInstantsProofs`, `PoolProofs`, `ParserProofs`, `MainProofs`, `ServerProofs` | lemmas and theorems | |

`MC*` modules hold the values of the constants (`MCFormulas` the formulas of `LinearChecker`,
`MCPropertyTypes` those of the checkers with a memory, each with all they are made of and
their normal forms). Definitions keep the names of the
source. A definition whose comment calls it a *variant* is wrong on purpose: it is what
a plausible mistake in the next definition would look like, and one of the properties
fails if it takes its place. No specification uses it.

Composition. `Parser` composes the three trace builders on one stream of events so that they can
be compared. `PrefixTreeChecker` checks the tree of its log (`TreeOf`), which is the one
`PrefixTreeParser`'s `TreeAdd` makes of it event by event (`TreeIsOfTheLog` of `Parser`, checked
and proved); `MapChecker` the maps that `MapParser`'s `MapAdd` makes. `Main` runs the loop of
`PropertyTypeMiner` with the options it has merged. It takes the call of the parser as one step
with the outcomes `LogFormat` gives it (the propositions returned, an exit, a null dereference),
and `MinerSeesTheLog` of `Parser` says that the parser, line by line, has these outcomes: it
is checked, and proved for every log. There are two abstract specifications.
`InstantsPool` is what a search expects of a pool, and `InstantsPools` composes the four pools
under it: a behaviour is that of any one of them. `InstantsSearch` is what the miner expects of
`valid_instants_on_traces`, and all three implementations of that function, `ValidInstants` and
the two in `MemoizingCheckers`, are shown to implement it, each with its own meaning of "valid on
the log". `LinearChecker`, the pools and `ValidInstants` meet at two interfaces: the statistic of
an instantiation on a trace, which `ValidInstants` takes as any value with support at most
potential (`ConfidenceIsVerdict` of `LinearChecker` says the checker returns no other), and the
abstract pool, which hands out the instantiations that `ValidInstants` numbers. `Server` takes
texada as a process that reads its two files, the options first, and ends.

### Abstractions

- Confidence is an exact ratio; the code divides floats. Counts are unbounded; the code
  has ints. What rounding and overflow would do is not modelled.
- A line of a log is one of: trace separator, event separator, a proposition of three
  or of two characters, a line no regular expression matches. `".."` is modelled as the
  regular expression it is: it matches every line of two characters.
- Events and formula variables of a pool are numbers, in the order of the set that
  holds them. The powers the code computes with `pow` are exact. In the scoped pool they
  are the predicates, and a scope is a number below zero that each predicate names. A scope
  variable without its predicate variable, which this pool never binds, is left out there,
  and so is a plain event, which it never binds to.
- A node of the prefix tree is named by the events on the way to it. Dereferencing the
  null pointer is a flag; what follows is undefined and not modelled.
- The tree checker's memory is a set of entries: subformula, node, bindings the subformula
  sees, trace id and verdict. The hash of a key is left out, and so is the overload that
  checks without memory, which only tests call. Like the map checker's, its counts are left
  out: the loop over the first events reads only whether each trace is satisfied. The start
  nodes are held in a set of pointers: their order is left open, as is that of the branches
  under a node, which share neither traces nor nodes. The pool hands out every binding, in an
  order that is one of `Passes`: in the runs, that of an odometer with any variable fastest.
- A property type under a binding is checked by what its propositions are bound to. Its
  reference is the property type itself, on the trace as the binding shows it: a proposition
  holds at an event where what it is bound to does (`Under`).
- The tree checker looks a proposition up in a map of bindings that may lack it
  (constants are always there): that the lookup of an unbound name is false is modelled,
  and no property type of a run has one.
- The map checker keeps verdicts without counts: its loop over the traces reads only
  whether a statistic is satisfied, and the findings carry counts nobody filters by. Its
  binary search for the first occurrence of a proposition is what it returns, the least
  position in the interval; the one for the last occurrence is modelled probe by probe,
  because on an empty interval it may return a position outside. The set of trace maps is
  walked in any order. Occurrences are looked for backwards only under a negation, where
  memory is off for everything but propositions, and Xor, Implies and Equiv are gone.
- A check function of the linear checker is handed what the checks of its operands return at
  every position, and its loop is the position it stops at and the statistics combined on the
  way there; the code calls the check of an operand when it comes to a position. The
  checker keeps no state, so the answers are the same.
- `LONG_MAX` in intervals is the number `Infinity`, larger than any interval of the
  formulas used.
- A file is what is in it: a log its lines, a configuration file an option map, or
  neither, if it cannot be opened or is malformed. In `Main` a regular expression is the set
  of the lines it matches, `PredicateEvents` are the names that begin with `???` (in the runs
  `a` stands for one), and which proposition's text lies within another's is the constant
  `Within`. A property type is the set of its atomic propositions, and what mining it finds
  is left open but for what the pool binds: the other modules say what is found.
- In the server a text is the set of pieces it is made of, tagged with the request they
  come from, so that a mixture is seen to be one; a call that fails may have written any
  part. `math/rand` is not seeded, hence the n-th random name of every life of the server is
  the same number n. `TempFile` may make up any name that is free.

## 3. The runs

| Run | What it shows | Bounds |
|---|---|---|
| `linear` | the verdict is the LTL meaning under the default settings; with thresholds and full statistics, negative normal form and the interval scheme of `or_check` keep it, confidence is one exactly when satisfied, and stopping early keeps the result | formulas of one operator, or of two nested ones with a leaf operand, over two propositions, and three-operand disjunctions and conjunctions alone and under another operator; all traces of up to two events, those of three events with one proposition each; five settings |
| `valid_instants` | findings are exact and their statistics totals; the loop implements `InstantsSearch`, and returns | two instantiations, two different traces that occur once or twice, four statistics, 48 settings |
| `pools` | each of the four pools implements `InstantsPool`, and hands instantiations out in order | one to four events, one to three variables, two scopes, with and without repetition, two passes |
| `parser_logs` | the three representations hold the traces of the log, and the tree nothing else; what `Main` takes for a call of the parser is what the parser does | every log of up to seven lines: both separators, two propositions of three characters and one of two, lines that match nothing; every flag |
| `memoizing` | what the checkers with a memory remember is right, and both implement `InstantsSearch` for the instantiations that hold on every trace | *prefix tree*: formulas of one or two nested operators over two variables and a constant; logs of two or three traces that share nothing, a beginning or everything. *Maps*: formulas of one operator over another, of an operator over a last in a first occurrence or the other way round, and pairs that search one subformula twice, without the nestings listed below; logs of one trace of up to three events or two different ones of two. Both: two events, every binding with repetition, every odometer order |
| `main` | what is mined is what was asked for; statistics only where there are any; property types mined as if alone and printed as found; undefined behaviour for one of four reasons only | options in the command line, in the file, in both or nowhere; thresholds inside and outside their range with every representation; every log of up to three lines (trace separator, `..`, `a`, `x`), read with every parser flag and with a regular expression that misses `x`, for the linear or the prefix tree checker, with scopes or with JSON output; up to two property types of any propositions over three names with up to two constants, or three of one proposition each with one, on logs of `a`, of `a` and `x`, of all three |
| `server` | requests are mined on their own texts through files of their own, which go when they end; each is answered | two requests to either handler, four temporary names, two uploads in a life of the server, one restart, every call failing or not |

Why these bounds are enough to meet the interesting cases. *Checker*: each loop stops
at the first, a middle or the last event or runs into the terminal one, an operand's
loop may do so inside another's, and X steps onto the terminal event from the last one;
the three operands of `or_check` lie left of, right of and across each other in every
order, which reaches each of its returns. *Search*: with two traces an exit can leave
the second one out, with two instantiations something left over from the first would
show in the second. The statistics include a good one, a vacuous one and one whose counts are equal
though it failed, and a poor one; the counts let a threshold be met by repetition only.
*Pools*: three
variables give a wheel at either end and one between, fewer events than variables gives
a pass in which everything is skipped, and the second pass starts from the wheels of the
first; two scopes for four predicates let two predicates of one instantiation share a
scope. *Parser*: seven lines hold two traces of two events and a third one begun, empty
events, empty traces, and every ending of the file. *Prefix tree*: traces part at the
first event, later, at the terminal event, or not at all, so that a node's ids are
decided together, one by one, or some from memory and the rest by checking; four
bindings of two variables give subformulas that see one, both or none of the bindings
that change; an operand that occurs twice is answered from memory within one check.
*Map*: three events put an occurrence before, at and behind the end of an interval that
another search has cut; the pairs that search a subformula twice do so on two intervals.
*Main*: a constant excluded for the first property type is or is not in the second, and
is restored before the third; a log whose only event is a constant leaves a pool nothing
to bind; of the three names one is a scope variable and one its predicate variable. Three
lines hold a separator that closes nothing at the start, after another one and after lines
that do not match, either before a line the parser exits at or after it, an event that is
never closed, and no line at all.
*Server*: two requests meet in both directories, the second may come after a restart that
left the files of the first, under the same random name; four names are as many as two
requests can hold, or have left, at once.

### Where the code and what is said of it disagree

Five runs end in a violation. Each checks one statement of a comment or of
`src/README.md`; `PROJECT.json` quotes it. A sixth disagreement is shown by a property that holds.

- `linear_zero_confidence`: with confidence threshold 0, "no further checking can change
  the result" is not so: a loop inside a formula stops once its own counts reach the
  thresholds, and the statistic of the formula then differs from the full one.
- `repeated_traces`: per-trace thresholds are applied to the statistics of a trace
  multiplied by its occurrences, so that a trace too weak by itself passes.
- `parser_cut_log`: a multi-propositional log without a final separator loses its last
  event, and a last trace of one event altogether.
- `map_until`: the trace representations are said not to impact the output, but the map
  checker does not find `F(x U y)` where `y` holds at the first event.
- `miner_unknown_constant`: a constant that is not in the log is *added* to the event set
  by the restoration; property types mined later are instantiated with it.
- `main`, which passes: Example 1 of `src/README.md` (lines 214-218) calls texada with `-m` and
  `--no-vacuous-findings` and shows its findings. The option sets the support threshold to one
  (`propertytypeminer.cpp:104`), and a map checker with a threshold that is not the default is
  refused (line 134, as the comment above it says): the program exits with 1 and finds nothing.
  `OnlyLinearHasStatistics` says that nothing is ever mined after such a call, and
  `StatisticsAreLinear` proves it. With `-l` the call is accepted, and so it is with
  `--sup-threshold 0` added, which turns the filter off.

The map checker departs from LTL, and from the other two checkers, in more places. The
property types of `memoizing` (`Sound` in `MCPropertyTypes`) leave out these five:

1. U and W where their first occurrence is searched for, as in `F(x U y)`, `z U (x U y)`,
   `(x U y) R z`: when q holds at the start, the last !p is sought in the empty interval
   before it, the negated proposition is reported at -2, and the place after that is -1,
   which means never (run `map_until`).
2. G, R and W at the terminal event: `X(G p)`, `X(p R q)`, `X(p W q)` are false at the
   last event, since the first !p is found in the empty interval behind it.
3. W and M searched for backwards, as in `F G (x W y)` or `G F (x M y)`: W forgets its
   weak case at the last event, M looks for its second operand at the start of the
   interval.
4. A search for X remembers its answer for the shifted interval it asked its operand
   about, so that `F(X p) & F(X X p)` reads the wrong entry. `MapMemoIsRight` says nothing of
   entries for X.
5. A trace without events (`LogsAssumption`): G, R and W are false on it.

The default event separator, too, does more than the documentation says: it is the
regular expression `..`, matched before the propositions, so that any line of two
characters separates events. `Parser` models such propositions (`TwoCharProps`), and the
logs of `parser_logs` have one; `OnlyDotsSeparate` says of a log that none is in it or that
it is not multi-propositional.

`LinearIsTheLog`, `TreeUnfoldsToTheLog` and `TreeIsOfTheLog` therefore say what holds of logs in
which only `..` separates events and whose last event is followed by a separator, and the last
two of logs without empty traces; `TreeFailsOnEmptyTraces` shows that the tree parser fails on these
alone: a closed trace without a proposition and without an event separator.
`MinedAlone` speaks of constants that are events of the log.

Other things the code does that a reader may not expect, all of them in the models:

- A trace representation given both on the command line and, another one, in the
  configuration file is refused; only options of one name are overridden (`opts.cpp:34`).
- `--no-vacuous-findings` with `--sup-threshold 0` filters nothing, and the map and prefix
  tree checkers, which take no thresholds, accept the pair: `is_vanilla` does not look at
  `use_global_t`, nor does it need to.
- A log that cannot be opened makes the miner return an empty vector, which `main` then
  indexes by property type (`texadamain.cpp:291`). Under `-p` a trace separator that closes no
  event, one at the start of the log or two in a row, dereferences null
  (`prefixtreeparser.cpp:45`), unless the parser exits at an earlier line that does not match.
  Nor is a log defended against in which no event is left for a pool: the odometer is set
  up by decrementing the end of an empty set (`otfinstantspool.cpp:42`), as in `-e a` with a
  property type of `a` and a variable and a log of `a` alone. The scoped pool does the same on
  every log without an event that begins with `???`, constants aside. And the JSON output
  erases the end of a vector, when one proposition of a property type is part of another and
  `remove_if` finds no place of it to drop (`texadamain.cpp:98`), for which the longer name must
  not occur in the text as it is, such as one with an escaped quote. `UndefinedForAReason` says that nothing
  else leads the program, parsers and checkers taken as single steps, into undefined
  behaviour, and that events other than the property type's own constants are never what is
  missing, whatever the property types before it excluded.
- The scoped pool binds `scope_x` for each predicate variable `x`, even where `scope_x` was
  given as a constant, and never a scope variable that comes alone. The latter then stays
  unbound and, the list of what not to replace being shared, keeps `scope_x` from being
  replaced in the findings of the other property types: hence the condition
  `ScopesHavePredicates` in `PrintedAsFound`.
- When `WriteFile` fails, the server calls a method of an error that is nil, panics, and the
  connection is dropped without an answer; after a failed write of the log its file stays.

### Fairness and deadlock

Liveness is stated of three systems. A pass through a pool ends (`InstantsPools`): `WF` on
the steps of a call stands for sequential code that nothing blocks, called by
`valid_instants_on_traces`, which asks until it gets NULL; the reset is not fair, since
nobody need go through a pool twice. The refinement carries this to the abstract pool: NULL
is returned even when every instantiation is skipped. The search returns (`SearchReturns` of
`ValidInstants`): `WF` on its one next step, again sequential code. Every request is
answered (`EveryRequestIsAnswered` of `Server`): `WF` for each goroutine on the calls it makes
once it serves, which the scheduler of Go, system calls that return and a texada that ends
justify; that clients come or that the server dies is nothing to rely on, and neither is
fair. `Main`, `Parser`, and the checkers with a memory state safety only: their loops run over
finite sequences, and a search that stops early would violate `ImplementsSearch`, which has
it return only when it is through with all.

All the systems end when their function returns or their clients are served, so the
configurations do not check for deadlock, each with the reason in a comment.

## 4. The proofs

### The search

`ValidInstantsProofs` proves, for any number of instantiations and traces, any
statistics with support at most potential, any occurrence counts and any settings:

- `TypeCorrect`: `Spec => []TypeOK`;
- `ExactFindings`: `Spec => []FindingsAreExact`;
- `TotalFindingStats`: `Spec => []FindingStatsAreTotals`;
- `Refinement`: `Spec => ImplementsSearch`.

They rest on the constants' assumptions in `ValidInstants` (natural numbers, settings
within their types, `TraceStatsAssumption`).

`FindingsAreExact` is not inductive: it says nothing of the instantiation being
checked. `IInv` adds what the loop relies on: while it runs, the sum is that of the
traces passed, and every one of those met the conditions an exit would have taken; once
it is left early, there is a reason, a trace that refutes the instantiation or sums that
suffice for good; the findings are those of the concluded instantiations, each with its
statistics. Two arguments carry the proof. An unsatisfied trace makes every larger sum
unsatisfied, and with support at most potential an unsatisfied sum has confidence below
one (`UnsatStays`, `FalseMeetsNoFullConfidence`): the exit for confidence one is exact.
Counts only grow along the traces, and a confidence threshold of zero asks nothing of
the ratio (`MoreMeetsZeroConfidence`, `PrefixMonotone`): the exit for confidence zero is
exact. Without the assumption that support is at most potential the first would fail.
`LeftEarlyIsExact` and `AtEndIsExact` draw the conclusion; one lemma per action shows
that it keeps the invariant. `NatFacts` proves the induction over an initial segment of
the naturals that the lemmas on sums, and those on powers below, use, since the library's
induction theorem takes an operator as parameter.

`Refinement` is a step simulation on top of the invariant. Fetching an instantiation and
checking a trace are steps the abstract search does not see (`NothingConcluded`); the
conclusion decides exactly one instantiation, and by `FindingsAreExact` as the log has it
(`ConcludeDecides`, `FoundAreValid`); the pool's NULL comes when all are decided
(`NoMoreReturns`). `StepSimulation` puts them together.

### Pools

`PoolProofs` proves, for any number of events, variables and passes and any scopes below
zero, with repetition and without:

- `TypeCorrect`: `Spec => []TypeOK`;
- `WheelsFollowTheCounter`: `Spec => []WheelsShowTheCounter`;
- `NoneTwice`: `Spec => []ReturnedInOrder`;
- `PoolsImplementInstantsPool`: `Spec => Pool!Init /\ [][Pool!Next]_(Pool!vars)`, which is
  `ImplementsPool` without its fairness.

The assumptions are those of `InstantsPoolCreator` and `InstantsPools` on the constants: at
least one event, one variable and one pass, and scopes that are no events.

All but the constant pool are counters in disguise: what they hand out for a number are its
`Digits` in base `num_events`, for the pregenerated pool read backwards, for the scoped one
with the scopes added (`Give`). Two facts about digits carry the proof. A smaller number
comes before a larger one (`DigitsInOrder`: at the first wheel whose quotient differs, the
quotients before it agree), so none comes twice. Every instantiation is that of a number
below `num_events` to the power of `num_vars` (`DigitsReachAll`, by induction on the
variables from the last back), so none is missing when NULL comes. The invariant `PoolInv`
says that what was handed out is what the numbers below the counter stand for (`CountInv`),
and how each pool comes to know the digits: the wheels show the last number, and `num_events`
everywhere before the first one, which is where the end of a pass leaves them (`LastDigits`;
hence a reset may leave them alone); the vector of the pregenerated pool holds one digit for
each level filled in, and `event_iterator` and `switch_var` are the digit and the remainder
that its position calls for (`FillInv`, `RunsGoOn`).

### Parsers

`ParserProofs` proves, for any propositions, any lines a log may be made of, logs of any
length and every flag:

- `ParserTypes`: `Spec => []TypeOK`;
- `MapsOfTheLog`: `Spec => []MapsAreTheTraces`;
- `TreeFailures`: `Spec => []TreeFailsOnEmptyTraces`;
- `LinearHoldsTheLog`: `Spec => []LinearIsTheLog`;
- `TreeHoldsTheLog`: `Spec => []TreeUnfoldsToTheLog`;
- `TreeIsTheTreeOfTheLog`: `Spec => []TreeIsOfTheLog`;
- `MinerIsShownTheLog`: `Spec => []MinerSeesTheLog`.

They assume of the constants that the propositions are none of the other lines and none of
them has both two and three characters (`PropsAssumption`), and that lines, bound and flags
have their types.

The properties speak of the end of the log or compare finished traces, and say nothing of
the trace being built. `IInv` says at each line what get_event has collected (`GetEventOK`)
and that each parser has built, in a form of its own, one and the same pair
(`BuiltOK`): the traces closed so far and the events of the one begun. These are functions of the lines
read: `TracesIn`, `EndedIn` and `CollectedIn`, defined with all the separators the parser
takes, so that nothing need be assumed of the log before its end. The proof has three layers.

*Lines*: the positions of separators in a log of one line more are the old ones and perhaps
the new one (`WhereAppend`), hence either the last piece takes the line or a new piece begins
(`PiecesAppend`), and traces and events follow suit (`LineOfTrace`, `LineOfLog`).

*Builders*: one event more, plain or terminal, keeps the form each parser holds the pair in
(`LinearAdds`, `MapAdds`, `TreeAdds`): the multiset of the traces; the map of each trace and the
positions of the one begun; and the nodes, each named by a beginning of some trace, which hold and
stand under the set of the ids of exactly the traces that begin so (`NodesAre`; with all traces
closed, that is `TreeOf` the log: `NodesAreTree`). The last is why a node that is shared, and
split from its set of ids when a later trace comes through it, still leads each id along its own
trace (`IdLeadsThroughTrace`). The id counter and the traces agree except after an empty trace,
where the tree parser fails; from then on nothing is claimed of the tree but that it has failed.

*The log's meaning*: the map of a trace determines the trace (`MapOfInjective`: an event is
the set of names at whose positions it stands), so the set of maps is as large as the set of
traces; and `LogIsGiven` says that, once the last event is closed and only `..` separates
events, the pair is what `LogAsTraces` says of the log. Its crux is the separator
after the last event of a trace, which may be left out: `Whole` is the reading with and
without it.

`MinerIsShownTheLog` has an invariant of its own on top, `SInv`, which ties what the parser knows
at a line to the lines before it: the event being collected is the propositions since the last
separator of any kind (`Pending`), and there is neither an event pending nor a trace begun
exactly if every line since the last trace separator is silent (`WhereItIs`). A line more
changes both sides alike (`SeparatorsSeen`, `PropositionsSeen`).

### Command line and miner

`MainProofs` proves all seven invariants of the run `main` for every set of names, every set
of command lines and files and every list of property types: `TypeCorrect`,
`OptionsAsAsked`, `StatisticsAreLinear`, `DefinedBehaviour`, `EachMinedAlone`, `NoOwnConstants`
and `VariablesReplaced`. They assume of the constants that options have the types Boost
gives them (`CommandLinesAssumption`) and that scope variables and what they belong to are
names (`NamesAssumption`).

None of the properties of the loop is inductive, since they speak of pools already made. The
invariant `IInv` adds where each option came from (`Merged`), what the checks have let
through (`Accepted`), that nothing is mined before the options are final (`Untouched`), how
far the loop is and what it has made so far (`Opened`, `LoopPosition`, `PoolsMade`,
`PoolsEvents`). Two facts carry the proof. `EventsLeft`: at any time at most the constants of the
property type being mined are missing from the shared event set, and nothing else if the
constants are events of the log; so each pool has the right events, and where one has nothing
to bind the log, without the constants of its own property type, has nothing either. That
is the third reason of `UndefinedForAReason`; the other three are the guards of the steps
that lead there, which nothing undoes later, since the options stay. `Printing`: only constants are ever left unbound, since
every pool binds the variables of its property type (`BindsVariables`); so no entry of the
shared list can keep a variable of another property type from being replaced.

### Web server

`ServerProofs` proves the four invariants of the run `server` (`TypeCorrect`, `OwnRequest`,
`UnsharedFiles`, `LeftFiles`) for any requests, texts, names, uploads and restarts, assuming
only that `NoName` and `NoFile` are neither a name nor a file and that the bounds are natural
numbers. `MinesItsOwnRequest` speaks of one moment; the invariant says for each call which
variables of the goroutine are set, that they name files the goroutine made, and what is in
each (`UploadKept`, `LogKept`, `ArgsKept`, `GivenRight`). `StepOfOne` is the argument: a step
that touches only files of its own request, or names that are free or not drawn since the
last restart, keeps what every other goroutine relies on. That `os.Create` empties a
file left by an earlier life of the server is where the restart comes in.

### Linear checker

`LinearCheckerProofs` proves, of every formula of the language, every trace and every
position, `NormalFormsKeepMeaning`: the normal form of a formula holds where the formula
does, that of its negation where it does not. Then, for any formulas, any traces and any
settings:

- `LinearTypeCorrect`: `Spec => []TypeOK`;
- `ConfidenceAlwaysVerdict`: `Spec => []ConfidenceIsVerdict`;
- `VerdictAlwaysLtl`: `Spec => []VerdictIsLtl`, if each configuration computes full statistics
  or has a confidence threshold above zero;
- `StoppingAlwaysKeepsResult`: `Spec => []ShortCircuitKeepsResult`, if each configuration has
  a confidence threshold above zero.

The two conditions are not ours to drop: with confidence threshold zero the checker gives up the
verdict for the counts, and run `linear_zero_confidence` shows that the last property then fails.
The constants' assumptions are that of `LtlLanguage` (`LevelsAssumption`: `Language` is the union
of a sequence of sets, of any length and size, each made of formulas of earlier ones, and every
formula is built as Spot builds them) and those of `LinearChecker` (`NormalFormsAssumption`: it is
closed under normal forms; the formulas checked are in it, traces are finite, settings are
settings). Every finite set of formulas has such a closure; `MCFormulas` computes that of the
formulas of the run, and TLC checks the assumptions of it. The levels are there for the provers,
who know of no induction over formulas: what is defined by recursion over a formula is a function
on `Language`, built level by level, and what is claimed of it is proved by induction on the
number of the level, which is a natural number (`NatFacts`).

The invariant `CheckInv` says that what `check_on_trace` returned is `Check` of the formula it
was given; the weight is in what `Check` is. Two facts about formulas are proved by induction,
each with one lemma for each operator.

*Right* (`CheckAgrees`): with settings whose loops stop only where the verdict is decided
(`Exact`), the statistic of a formula at a position is satisfied exactly if the formula holds
there, and it is `Good` under any settings: support is at most potential, and equal to it where
the formula is satisfied, which makes the confidence one. That the two are equal is what
`ConfidenceIsVerdict` lacks to be inductive: without it a conjunction of satisfied operands
could come out below one. A loop stops first where an
operand is satisfied or short-circuiting (`FirstStopIsFirst`), has met only satisfied ones
before (`LoopRuns`, `StopsUnsatisfied`), and so the position it stops at decides U, W, R and M
(`UntilStopped`, `ReleaseStopped`). In `or_check` an operand is satisfied or the best statistic
is that of an unsatisfied one (`OrStepRight`), wherever the intervals lie.

*Kept* (`CheckKept`): two such settings, neither of them the default ones, return the very same
statistic for a formula that is satisfied, and agree on which are. So the loops must not only stop
at the same verdict but have counted the same on the way: each of them is described by where it
was satisfied alone (`UntilWhole`, `ReleaseWhole` and the like), without a word on what made it
stop. `ThresholdsKept` concludes: with a confidence threshold of one, an unsatisfied formula
misses the thresholds whatever was counted, and a satisfied one was counted in full; with one
between zero and one nothing ever stops early (`CheckUnchanged`).

`PreparedMeans` brings in the normal form, which is checked instead of the formula under all
but the default settings. Its proof follows Spot's construction: operands spliced into a
conjunction or disjunction that they are operands of, repeated ones dropped (`Splice`), and
one duality for each temporal operator, the terminal event included.

### Prefix tree checker

`PrefixTreeCheckerProofs` proves, for any property types of any language, any logs, any
constants and any order in which the pool hands out the bindings:

- `CheckAlwaysAnswers`: a call with some of the traces through a node and a memory that is
  right returns exactly those LTL has the formula hold on, from that event on, and leaves a
  memory that is right;
- `TypesKept`: `Spec => []TypeOK`;
- `MemoStaysRight`: `Spec => []MemoIsRight`;
- `FindingsAreRight`: `Spec => []FindingsHoldOnTheLog`;
- `SearchImplemented`: `Spec => ImplementsSearch`.

The constants' assumptions are `LevelsAssumption` and those of `MemoizingChecker`: property types
are formulas of the language, constants are events, a pass is a sequence of all the bindings
without repetition (`PassesAssumption`, which is what the pool's theorems say of it), and a log is a
sequence of sequences of sets of events.

`MemoIsRight` is not inductive. A wrong answer is one step away from a wrong entry, so the
invariant must know that everything a check returns is right, in the middle of a recursion
over formula and tree that hands one memory from call to call. Three arguments carry the
proof.

*One call* (`CheckAtRight`). An accumulator is right (`AccRight`) if the ids it has decided are
decided as LTL has it at the node, and its memory is right; whether they were remembered, decided
by one operand and then by the other, or down a branch, is no longer seen. Each operator has a
lemma: what it decides by an operand is decided (`MayDecide`), and where nothing is left over by
the rest, by the formula itself at the next event (`LoopMeans`) or, for `or_check` and
`and_check`, by default. `OnKidsRight` is about the branches: each id goes down the one that has
its trace (`BranchIs`), with the others that share it, and comes back with the verdict for the
next event. The recursion ends because a node's children are longer beginnings of traces
(`TreeInduction`, an induction on what is left of the longest trace) and operands are of an
earlier level (`LanguageInduction`); the two are nested in `CheckAnswers`.

*What an entry may be used for* (`RetrieveRight`, `AddToMemoRight`). The key holds only the
bindings that the subformula sees, and the node stands for the events on the way to it. An entry
is read under another instantiation, for a node that several traces share. `RelevantBindings`
says that a formula means the same under all bindings and under those of its propositions;
`NodeIs` that an event of a node is that of every trace through it. The invariant has one thing
more than `MemoIsRight`, which the proof could not do without: at a terminal event no verdict of a
temporal operator is remembered (`EntryRight`), because `AtTerminal` answers
for the ids still to be decided alone, and drops what memory had decided: none is lost, only
because there is none.

*The search* (`Inv`). The pool is what has not been tried; while the loop runs, the instantiation
held on every trace of the first events that are done with, or it failed on one and the loop is
over (`InProgressRight`). Every trace passes through one of the first events (`StartsAre`), so at
its end the verdict is that of the log (`StartsSay`). Taking an instantiation and checking the
traces of a first event are steps that the abstract search does not see; `Conclude` is its
`Find` or `Drop`, the pool's NULL its `Return`.

TLC has checked `Inv` on the states of `memoizing`. That the tree is `TreeOf` the log is the
parser's theorem `TreeIsTheTreeOfTheLog`.

### Only model-checked

The map checker: its three recursions call each other with intervals that shrink by turns at
either end and with normal forms of negated operands, and are RECURSIVE operators, which are
outside the prover's reach; `MapTypeOK`, `MapMemoIsRight` and that it implements `InstantsSearch`
stay with TLC. And all liveness: `SearchReturns`, `EveryRequestIsAnswered` and the end of a pass.

## 5. Not modelled, and the plan

Not modelled, and why:

- *Invariant semantics*: a build option; whether a data invariant implies another is asked
  of the SMT solver Z3, and what is around that call is the translation of its text.
- *The visitors that substitute propositions* (`apsubbingcloner`): they have no state, and
  the checkers' modules substitute by function application.
- *Splitting a configuration file into arguments*, and *the layout of the output*: text.
  Of the positions the JSON output gives, `Main` models only that
  `remove_overlapping_locations` may erase the end of a vector (`EraseEnd`); that it erases one
  element where it means the rest, so that wrong positions stay, is not modelled.
- *Quarry*, a separate program in Java.
- *Float rounding, overflow of the counts and of the pools' counters*, the proposition
  `EndOfTraceVar` as a line of a log: what they would do is listed among the hazards.

What is left to do, in this order:

1. The map checker without RECURSIVE operators, like the other two, and the proof that what
   it remembers is right.
2. One specification of pool, checker and search together, refined to `InstantsSearch`.
3. The positions of propositions in a property type that the JSON output gives.
