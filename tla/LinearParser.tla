----------------------------- MODULE LinearParser -----------------------------
(***************************************************************************)
(* linear_parser: the log as a multiset of traces, a trace as the vector   *)
(* of its events with the terminal event last.                             *)
(***************************************************************************)
EXTENDS Events, Bags

NewLinear == [temp_trace |-> <<>>, vector_trace_set |-> EmptyBag]

\* linear_parser::add_event.
LinearAdd(s, event) ==
  LET temp_trace == Append(s.temp_trace, event)
  IN IF event.terminal
     THEN [temp_trace |-> <<>>,
           vector_trace_set |-> s.vector_trace_set (+) SetToBag({temp_trace})]
     ELSE [s EXCEPT !.temp_trace = temp_trace]
=============================================================================
