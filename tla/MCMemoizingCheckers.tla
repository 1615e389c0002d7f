------------------------- MODULE MCMemoizingCheckers -------------------------
(***************************************************************************)
(* Logs and pools for the two checkers with a memory.                      *)
(***************************************************************************)
EXTENDS MemoizingCheckers, MCPropertyTypes

Traces(m) == [1 .. m -> {{"a"}, {"b"}}]

\* For the prefix tree.
\* The second trace begins with "a", as the first one does or does not.
Branching    == {<<s, t>> : s \in Traces(1) \cup Traces(2), t \in {t \in Traces(2) : t[1] = {"a"}}}
ThreeTraces  == { << <<{"a"}, {"b"}, {"a"}>>, <<{"a"}, {"b"}>>, <<{"a"}, {"a"}, {"b"}>> >> }
SharingLogs  == Branching \cup ThreeTraces

\* For the maps.
OneTrace  == {<<t>> : t \in UNION {Traces(m) : m \in 1 .. 3}}
TwoTraces == {<<s, <<{"a"}, {"b"}>>>> : s \in Traces(2)}
OneOrTwo  == OneTrace \cup TwoTraces

-----------------------------------------------------------------------------
EitherTypes == [prefix_tree |-> TreeTypes, map |-> Sound]
EitherLogs  == [prefix_tree |-> SharingLogs, map |-> OneOrTwo]

MapUntilTypes == [map |-> Until]
MapLogs       == [map |-> OneOrTwo]

\* The first of vs changes fastest and the last slowest, as in OtfPool and PregenPool.
BindingsInOrder(vs) ==
  LET event == SetToSeq(EventNames)
      Extend(v, seq) ==
        FlattenSeq([e \in DOMAIN event |-> [k \in DOMAIN seq |-> (v :> event[e]) @@ seq[k]]])
  IN FoldLeft(LAMBDA seq, v : Extend(v, seq), << <<>> >>, vs)

PassesInOrder ==
  [variables \in SUBSET {"x", "y"} |-> {BindingsInOrder(vs) : vs \in SetToSeqs(variables)}]
=============================================================================
