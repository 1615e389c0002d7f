-------------------------------- MODULE MCMain --------------------------------
(***************************************************************************)
(* Command lines for Main: some about where options come from, some about  *)
(* settings, some about what the parser makes of a log, most about what is *)
(* mined.  "a" stands for a name that begins with "???".                   *)
(***************************************************************************)
EXTENDS Main, TLC

CONSTANTS
  MaxConstants,  \* bound: uses of the option -e
  MaxLines       \* bound: lines of a log that is parsed in every way

Maybe(option, values) == {<<>>} \cup {option :> v : v \in values}
Maybes(flags)         == {[option \in given |-> TRUE] : given \in SUBSET flags}
Plus(S, T)            == {s @@ t : s \in S, t \in T}
UpTo(S, n)            == UNION {[1 .. m -> S] : m \in 0 .. n}

-----------------------------------------------------------------------------
\* Each option on the command line, in the file, in both or nowhere.
Sources(formula_list, log, threshold) ==
  Plus(Plus(Maybes({"linear-trace", "map-trace"}), Maybe("property-type", {formula_list})),
       Plus(Maybe("log-file", {log}), Maybe("sup-threshold", {threshold})))

InFile == Sources(<<{"x"}>>, <<"x">>, 0)

FromTwoSources == Plus(Plus(Sources(<<{"a"}>>, <<"a">>, 1), Maybes({"help"})),
                       Maybe("config-file", InFile \cup {Unreadable, Malformed}))

\* Thresholds in and out of range.
Ratios == {Ratio(-1, 2), Ratio(0, 1), Ratio(1, 2), Ratio(1, 1), Ratio(3, 2)}

Thresholds ==
  Plus(Plus(Maybe("sup-threshold", {-1, 0, 2}), Maybe("sup-pot-threshold", {-1, 0, 1})),
       Plus(Maybe("conf-threshold", Ratios),
            Maybes({"no-vacuous-findings", "print-stats", "use-global-thresholds"})))

Represented(types) == {t :> TRUE : t \in types}

WithSettings == Plus(Plus(Represented(TraceTypes), Thresholds),
                     {"property-type" :> <<{"x"}>> @@ "log-file" :> <<"a">>})

-----------------------------------------------------------------------------
\* No log, and every log of a few lines, read with each flag; what is mined has a pool that
\* needs events or predicates, and a name within another.
Lines == {TraceSep, "a", "x", ".."}

Parsing == Plus(Plus(Maybe("regex", {{"a"}}), Maybes({"ignore-nm-lines", "parse-mult-prop"})),
                {"log-file" :> log : log \in {Unreadable} \cup UpTo(Lines, MaxLines)})

WithParsing == Plus(Plus(Represented({"linear-trace", "prefix-tree-trace"}), Parsing),
                    Plus({"property-type" :> <<{"x", "scope_x"}>>},
                         Maybes({"scope-semantics"}) \cup Maybes({"output-json"})))

-----------------------------------------------------------------------------
\* Up to two property types of any propositions, with up to MaxConstants constants, or
\* three of one proposition each, with at most one.
Mined == Names \ TwoCharNames

Logs == {SubSeq(<<"a", "x", "scope_x">>, 1, n) : n \in 1 .. 3}

Calls(lists) == {"linear-trace" :> TRUE @@ "property-type" :> list @@ "log-file" :> log :
                   list \in lists, log \in Logs}

Constants(n) == Maybe("event", UpTo(Mined, n))

Mining == Plus(Plus(Calls(UpTo(SUBSET Mined \ {{}}, 2)), Constants(MaxConstants))
                 \cup Plus(Calls([1 .. 3 -> {{n} : n \in Mined}]), Constants(1)),
               Maybes({"allow-same-bindings", "pregen-instants", "scope-semantics"}))

AllCommandLines == FromTwoSources \cup WithSettings \cup WithParsing \cup Mining

ScopeOfX == "scope_x" :> "x"
XInScope == {<<"x", "scope_x">>}
=============================================================================
