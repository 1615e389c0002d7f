-------------------------------- MODULE Events --------------------------------
(***************************************************************************)
(* The events of a log (trace/event.h): the propositions that hold at a    *)
(* point in time, or the terminal event that ends a trace.  The terminal   *)
(* event's own proposition EndOfTraceVar is not modelled; a log line of    *)
(* that text would be taken for it.                                        *)
(***************************************************************************)
EXTENDS Sequences

Event(props)  == [props |-> props, terminal |-> FALSE]
TerminalEvent == [props |-> {}, terminal |-> TRUE]
=============================================================================
