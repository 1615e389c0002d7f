-------------------------------- MODULE Parser --------------------------------
(***************************************************************************)
(* parser::parse, line by line, with the three parsers that build the      *)
(* traces the checkers read.  A run of the program has one of them; here   *)
(* they are all handed the events of the same log, so that what they make  *)
(* of it can be compared.                                                  *)
(*                                                                         *)
(* Of a line only what the parser asks of it is kept: whether it matches   *)
(* the trace separator, whether it matches the event separator, and the    *)
(* proposition the first matching regex captures, if one matches.          *)
(***************************************************************************)
EXTENDS LinearParser, MapParser, PrefixTreeParser, SequencesExt

CONSTANTS
  Props,        \* propositions of three characters or more
  TwoCharProps, \* propositions whose line has two characters
  LogLines,     \* the lines a log may be made of
  MaxLines,     \* bound: how many lines a log has
  Modes         \* the flags the parser may be configured with

TraceSep  == "--"
EventSep  == ".."
NoMatch   == "no match"  \* a line none of the regular expressions matches
Lines     == {TraceSep, EventSep, NoMatch} \cup Props \cup TwoCharProps

ASSUME PropsAssumption ==
  /\ (Props \cup TwoCharProps) \cap {TraceSep, EventSep, NoMatch, EndOfTrace} = {}
  /\ Props \cap TwoCharProps = {}
ASSUME LogLinesAssumption == LogLines \subseteq Lines
ASSUME MaxLinesAssumption == MaxLines \in Nat
ASSUME ModesAssumption ==
  Modes \subseteq [parses_mult_prop : BOOLEAN, ignores_nm_lines : BOOLEAN]

VARIABLES
  mode,          \* parses_mult_prop and ignores_nm_lines
  log,           \* history: the lines read so far
  event,         \* the propositions of the event get_event is building
  last_terminal, \* last_event_was_terminal of this call of get_event
  unique_props,
  linear, mapped, tree, \* what each parser has built
  status         \* "reading", "parsed" (has_been_parsed) or "exited"

parsers == <<unique_props, linear, mapped, tree>>
vars    == <<mode, log, event, last_terminal, parsers, status>>

-----------------------------------------------------------------------------
Init == /\ mode \in Modes
        /\ log = <<>>
        /\ event = {}
        /\ last_terminal = TRUE
        /\ unique_props = {}
        /\ linear = NewLinear
        /\ mapped = NewMap
        /\ tree = NewTree
        /\ status = "reading"

Read(line) == /\ status = "reading"
              /\ line \in LogLines
              /\ Len(log) < MaxLines
              /\ log' = Append(log, line)

\* add_event of one of the parsers: for the event before e, if there is one, and for e.
Added(Add(_, _), parser, before, e) ==
  Add(IF before = {} THEN parser ELSE Add(parser, Event(before)), e)

AddEvents(before, e) ==
  /\ unique_props' = unique_props \cup before \cup e.props
  /\ linear' = Added(LinearAdd, linear, before, e)
  /\ mapped' = Added(MapAdd, mapped, before, e)
  /\ tree'   = Added(TreeAdd, tree, before, e)

\* get_event returns to parse, which adds the event and asks for the next one.
Return(e, before) == /\ AddEvents(before, e)
                     /\ last_terminal' = e.terminal
                     /\ event' = {}

\* A variant that ends the trace without the event before the separator.
ReadTraceSepDropping ==
  /\ Read(TraceSep)
  /\ Return(TerminalEvent, {})
  /\ UNCHANGED <<mode, status>>

\* A trace separator: what was collected is an event, and the trace ends.
ReadTraceSep ==
  /\ Read(TraceSep)
  /\ Return(TerminalEvent, event)
  /\ UNCHANGED <<mode, status>>

\* The event separator is the regular expression "..", which every line of two
\* characters matches.  It is looked for in multi-propositional logs only.
ReadEventSep ==
  /\ mode.parses_mult_prop
  /\ \E line \in {EventSep} \cup TwoCharProps : Read(line)
  /\ Return(Event(event), {})
  /\ UNCHANGED <<mode, status>>

\* A variant that tries the expression for propositions first.
IsPropFirst(line) == line \in Props \cup TwoCharProps \cup {EventSep}

IsProp(line) == IF mode.parses_mult_prop THEN line \in Props
                ELSE line \in Props \cup TwoCharProps \cup {EventSep}

ReadProp ==
  /\ \E line \in Lines :
       /\ IsProp(line)
       /\ Read(line)
       /\ IF mode.parses_mult_prop
          THEN /\ event' = event \cup {line}
               /\ UNCHANGED <<last_terminal, parsers>>
          ELSE Return(Event({line}), {})
  /\ UNCHANGED <<mode, status>>

ReadNoMatch ==
  /\ Read(NoMatch)
  /\ status' = IF mode.ignores_nm_lines THEN status ELSE "exited"
  /\ UNCHANGED <<mode, event, last_terminal, parsers>>

\* A variant that ends a trace even if the last event did.
ReadEndOfFileTwice ==
  /\ status = "reading"
  /\ status' = "parsed"
  /\ AddEvents({}, TerminalEvent)
  /\ UNCHANGED <<mode, log, event, last_terminal>>

\* End of file: the last trace is ended if the last event did not end it.
ReadEndOfFile ==
  /\ status = "reading"
  /\ status' = "parsed"
  /\ IF last_terminal THEN UNCHANGED parsers ELSE AddEvents({}, TerminalEvent)
  /\ UNCHANGED <<mode, log, event, last_terminal>>

Next == ReadTraceSep \/ ReadEventSep \/ ReadProp \/ ReadNoMatch \/ ReadEndOfFile

Spec == Init /\ [][Next]_vars

-----------------------------------------------------------------------------
(***************************************************************************)
(* What a log says, as README.md describes its format: "--" separates      *)
(* traces; in a multi-propositional log ".." separates events and the      *)
(* lines between are the propositions of one, otherwise a line is an event.*)
(***************************************************************************)
Matched == Props \cup TwoCharProps

\* The numbers up to n that are in S, the smallest first.
Ascending(S, n) ==
  LET upto[k \in 0 .. n] == IF k = 0 THEN <<>>
                            ELSE IF k \in S THEN Append(upto[k - 1], k)
                            ELSE upto[k - 1]
  IN upto[n]

\* The positions of the lines that are in S.
Where(lines, S) == Ascending({n \in DOMAIN lines : lines[n] \in S}, Len(lines))

\* The pieces of lines between the separators, the last one not yet closed.
Pieces(lines, seps) ==
  LET starts == <<0>> \o Where(lines, seps)
      End(i) == IF i = Len(starts) THEN Len(lines) ELSE starts[i + 1] - 1
  IN [i \in DOMAIN starts |-> SubSeq(lines, starts[i] + 1, End(i))]

SinglePropEvents(lines) ==
  LET at == Where(lines, Matched \cup {EventSep})
  IN [n \in DOMAIN at |-> Event({lines[at[n]]})]

MultiPropEvents(lines, seps) ==
  LET piece  == Pieces(lines, seps)
      events == [n \in DOMAIN piece |-> Event(ToSet(piece[n]) \cap (Matched \ seps))]
  \* the separator after the last event may be left out
  IN IF Last(events).props = {} THEN Front(events) ELSE events

EventsOf(lines) == IF mode.parses_mult_prop THEN MultiPropEvents(lines, {EventSep})
                   ELSE SinglePropEvents(lines)

TraceOf(lines) == Append(EventsOf(lines), TerminalEvent)

\* The traces closed by a separator, and all of them once the log is read.
ClosedTraces == LET piece == Pieces(log, {TraceSep})
                IN [n \in 1 .. Len(piece) - 1 |-> TraceOf(piece[n])]

LogAsTraces == LET rest == TraceOf(Last(Pieces(log, {TraceSep})))
               IN IF Len(rest) = 1 THEN ClosedTraces ELSE Append(ClosedTraces, rest)

-----------------------------------------------------------------------------
TypeOK ==
  /\ mode \in Modes
  /\ Len(log) <= MaxLines /\ ToSet(log) \subseteq LogLines
  /\ event \subseteq Props
  /\ last_terminal \in BOOLEAN
  /\ unique_props \subseteq Lines
  /\ IsABag(linear.vector_trace_set)
  /\ mapped.pos_count \in 0 .. MaxLines
  /\ tree.trace_id \in 0 .. MaxLines
  /\ status \in {"reading", "parsed", "exited"}

\* The last event of the log was followed by a separator, and what separates events
\* in it are the lines "..", though the parser takes any line of two characters.
LastEventIsClosed == event = {}
OnlyDotsSeparate  == mode.parses_mult_prop => ToSet(log) \cap TwoCharProps = {}

\* The linear checker reads the traces of the log, each as often as it occurs,
\* with no event lost, split or moved to another trace.
LinearIsTheLog ==
  status = "parsed" /\ LastEventIsClosed /\ OnlyDotsSeparate =>
    linear.vector_trace_set = ToBag(LogAsTraces)

\* parser.cpp: "if EOF is reached without an explicit trace separator to
\* indicate terminal event, add terminal event to include the last trace".
LastTraceIsIncluded ==
  status = "parsed" => linear.vector_trace_set = ToBag(LogAsTraces)

\* The map checker reads the same traces: the maps are those of the traces the
\* linear parser made of the log, and no two traces share a map.
PositionsOf(trace, name) ==
  LET At(n) == IF name = EndOfTrace THEN trace[n].terminal ELSE name \in trace[n].props
      at    == Ascending({n \in DOMAIN trace : At(n)}, Len(trace))
  IN [i \in DOMAIN at |-> at[i] - 1]

MapOf(trace) == [name \in {EndOfTrace} \cup UNION {e.props : e \in ToSet(trace)}
                   |-> PositionsOf(trace, name)]

MapsAreTheTraces ==
  LET traces == BagToSet(linear.vector_trace_set)
  IN /\ mapped.map_trace_set = {MapOf(tr) : tr \in traces}
     /\ Cardinality(mapped.map_trace_set) = Cardinality(traces)

\* The prefix tree checker reads the same traces: following any trace's id down
\* the tree leads through exactly that trace, whatever traces share its nodes.
FollowsTrace(id, trace) ==
  \A n \in DOMAIN trace :
    ChildOfTrace(tree.nodes, SubSeq(trace, 1, n - 1), id) = {SubSeq(trace, 1, n)}

TreeUnfoldsToTheLog ==
  /\ status = "parsed" /\ LastEventIsClosed /\ OnlyDotsSeparate
  /\ ~ tree.null_dereferenced
  =>
    /\ tree.trace_id = Len(LogAsTraces)
    /\ \A id \in DOMAIN LogAsTraces : FollowsTrace(id, LogAsTraces[id])

\* The tree is the one PrefixTreeChecker starts from: a node for each beginning of a trace
\* of the log, and none else, kept under and holding the ids of all that begin so.
TreeIsOfTheLog ==
  /\ status = "parsed" /\ LastEventIsClosed /\ OnlyDotsSeparate
  /\ ~ tree.null_dereferenced
  => tree.nodes = TreeOf(LogAsTraces)

\* prefixtreeparser.cpp: "what if two -- follow each other. Let's assume they
\* don't" -- the one thing that fails it is a trace of no event, and of no event
\* separator, which makes one of no propositions.
TreeFailsOnEmptyTraces ==
  LET piece == Pieces(log, {TraceSep})
  IN tree.null_dereferenced <=>
       \E n \in 1 .. Len(piece) - 1 : ToSet(piece[n]) \cap (Matched \cup {EventSep}) = {}

Format == INSTANCE LogFormat
            WITH lines      <- log,
                 matched    <- Matched \cup {EventSep},
                 event_seps <- IF mode.parses_mult_prop THEN {EventSep} \cup TwoCharProps ELSE {}

\* What Main takes for the call of the parser is what becomes of it line by line: where it
\* exits, where the prefix tree parser dereferences null, and the propositions returned,
\* those of an event the log ends in the middle of not among them.
MinerSeesTheLog ==
  /\ status = "exited" <=> ~ mode.ignores_nm_lines /\ \E n \in DOMAIN log : Format!Silent(n)
  /\ tree.null_dereferenced <=> \E n \in DOMAIN log : Format!ClosesNothing(n)
  /\ unique_props = Format!Propositions
=============================================================================
