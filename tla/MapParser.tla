------------------------------ MODULE MapParser ------------------------------
(***************************************************************************)
(* map_parser: the log as a set of traces, a trace as the map from each    *)
(* proposition, and from the end of the trace, to its positions.           *)
(***************************************************************************)
EXTENDS Events, Integers

EndOfTrace == "EndOfTraceVar"

NewMap == [temp_trace |-> <<>>, pos_count |-> 0, map_trace_set |-> {}]

PositionsIn(trace, name) == IF name \in DOMAIN trace THEN trace[name] ELSE <<>>

\* A variant that keeps the last position only.
Overwritten(trace, names, position) ==
  [name \in names \cup DOMAIN trace |-> IF name \in names THEN <<position>> ELSE trace[name]]

\* The position pushed back for every one of the names.
Pushed(trace, names, position) ==
  [name \in names \cup DOMAIN trace |->
     IF name \in names THEN Append(PositionsIn(trace, name), position) ELSE trace[name]]

\* map_parser::add_event.
MapAdd(s, event) ==
  IF event.terminal
  THEN [temp_trace |-> <<>>, pos_count |-> 0,
        map_trace_set |-> s.map_trace_set
                            \cup {Pushed(s.temp_trace, {EndOfTrace}, s.pos_count)}]
  ELSE [s EXCEPT !.temp_trace = Pushed(@, event.props, s.pos_count),
                 !.pos_count  = @ + 1]
=============================================================================
