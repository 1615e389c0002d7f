------------------------------- MODULE LogFormat -------------------------------
(***************************************************************************)
(* What the caller of a parser gets to see of a log: which lines stop the  *)
(* parser, and the propositions it returns.  Main takes these for its call *)
(* of parser::parse; Parser, which reads the log line by line, is shown to *)
(* agree (MinerSeesTheLog).                                                *)
(***************************************************************************)
EXTENDS Naturals, Sequences

CONSTANT TraceSep  \* a line the regular expression for trace separators matches

VARIABLES
  lines,
  matched,    \* the lines the regular expressions for propositions match
  event_seps  \* the lines that end an event, none unless it may have several propositions

Silent(n) == lines[n] \notin {TraceSep} \cup matched \cup event_seps

\* A separator with nothing to separate: all lines since the last one are silent.
ClosesNothing(n) ==
  /\ lines[n] = TraceSep
  /\ \A m \in 1 .. n - 1 : ~ Silent(m) => \E k \in m .. n - 1 : lines[k] = TraceSep

\* A line that is one proposition of an event, which counts once the event is ended.
IsProposition(n) ==
  /\ lines[n] \in matched \ ({TraceSep} \cup event_seps)
  /\ event_seps # {} =>
       \E m \in n + 1 .. Len(lines) : lines[m] \in {TraceSep} \cup event_seps

Propositions == {lines[n] : n \in {m \in DOMAIN lines : IsProposition(m)}}
=============================================================================
