--------------------------- MODULE PrefixTreeChecker ---------------------------
(***************************************************************************)
(* prefix_tree_checker and its valid_instants_on_traces: a property type   *)
(* is checked on all the traces that share a beginning at once, and what   *)
(* was found out is remembered from one instantiation to the next.         *)
(*                                                                         *)
(* The tree is the one PrefixTreeParser makes of the log.  A check maps    *)
(* trace ids to statistics, of which only the verdicts are used: here it   *)
(* is given the ids and the memory, and returns the ids the formula holds  *)
(* on, those it fails on and the memory it leaves.                         *)
(***************************************************************************)
EXTENDS PrefixTreeParser, MemoizingChecker, Statistic

VARIABLES
  nodes,          \* the prefix tree
  memo_map,       \* a set of entries, one for each statistic that is remembered
  start_nodes,    \* the first events the inner loop has left
  global_stat

vars == <<search, nodes, memo_map, start_nodes, global_stat>>

IsTerminalNode(pt) == Last(pt).terminal

-----------------------------------------------------------------------------
(***************************************************************************)
(* The memory.                                                             *)
(***************************************************************************)
Propositions == UNION {ApsOf(f) : f \in Language}
Mappings     == UNION {[ps -> EventNames] : ps \in SUBSET Propositions}

\* memo_key, and with it one pair of the map that is remembered under it.  Spot makes
\* equal subformulas one object, so the subformula is its pointer.
Entries == [node : Language, trace_pt : DOMAIN nodes, relevant_mappings : Mappings,
            id : Nat, sat : BOOLEAN]

\* A variant that takes what was remembered for any binding.
NoMappings(f) == <<>>

\* The bindings a subformula sees.
RelevantMappings(f) == Restrict(instantiations, ApsOf(f) \cap DOMAIN instantiations)

Entry(f, pt, id, sat) ==
  [node |-> f, trace_pt |-> pt, relevant_mappings |-> RelevantMappings(f), id |-> id, sat |-> sat]

\* What a check is given.
Call(ids, memo) == [ids |-> ids, memo |-> memo]
Calls == [ids : SUBSET Nat, memo : SUBSET Entries]

\* retrieve_memo, and what each operator does with it: the ids whose statistics
\* are remembered need no checking.
Retrieve(f, pt, call) ==
  LET Known(sat) == {id \in call.ids : Entry(f, pt, id, sat) \in call.memo}
  IN [ids   |-> call.ids \ (Known(TRUE) \cup Known(FALSE)),
      holds |-> Known(TRUE),
      fails |-> Known(FALSE),
      memo  |-> call.memo]

\* add_to_memo_map: a statistic that is there is not replaced.
AddToMemo(f, pt, acc) ==
  LET New(ids, sat) ==
        {Entry(f, pt, id, sat) : id \in {id \in ids : Entry(f, pt, id, ~ sat) \notin acc.memo}}
  IN [acc EXCEPT !.memo = @ \cup New(acc.holds, TRUE) \cup New(acc.fails, FALSE)]

-----------------------------------------------------------------------------
(***************************************************************************)
(* The operators.  An accumulator holds the ids still to be decided, those *)
(* the formula holds on, those it fails on, and the memory.  The checks of *)
(* the operands, and of the formula further down the tree, are functions   *)
(* on calls.                                                               *)
(***************************************************************************)
met   == Stat(TRUE, 1, 1)
unmet == Stat(FALSE, 0, 1)

Start(call) == [ids |-> call.ids, holds |-> {}, fails |-> {}, memo |-> call.memo]

Decided(acc, holds, fails, memo) ==
  [ids   |-> acc.ids \ (holds \cup fails),
   holds |-> acc.holds \cup holds,
   fails |-> acc.fails \cup fails,
   memo  |-> memo]

\* create_int_bool_map, of the ids that are left.
Settle(acc, value) ==
  Decided(acc, IF value THEN acc.ids ELSE {}, IF value THEN {} ELSE acc.ids, acc.memo)

\* add_satisfying_values: the ids decided are not checked any further.
AddSatisfying(acc, holds, fails, memo, value) ==
  Decided(acc, IF value THEN holds ELSE {}, IF value THEN {} ELSE fails, memo)

\* Check an operand and keep the ids it is satisfied (or not satisfied) on.
Decide(acc, operand, value) ==
  LET r == operand[Call(acc.ids, acc.memo)]
  IN IF acc.ids = {} THEN acc ELSE AddSatisfying(acc, r.holds, r.fails, r.memo, value)

\* The branch a trace takes.
Branch(pt, id) == CHOOSE kid \in ChildOfTrace(nodes, pt, id) : TRUE

\* A variant that takes every id down every branch.
OnAllKids(acc, check, pt) ==
  LET Descend(a, id) == LET r == check[Branch(pt, id)][Call(a.ids, a.memo)]
                        IN IF id \in a.ids THEN Decided(a, r.holds, r.fails, r.memo) ELSE a
      fold[n \in 0 .. Len(log)] == IF n = 0 THEN acc ELSE Descend(fold[n - 1], n)
  IN fold[Len(log)]

\* check_on_kids: each branch with the ids that take it.  Branches share neither ids
\* nor nodes, so that their order makes no difference.
OnKids(acc, check, pt) ==
  LET Descend(a, id) ==
        LET branch == Branch(pt, id)
            r      == check[branch][Call(a.ids \cap nodes[branch].key, a.memo)]
        IN IF id \in a.ids THEN Decided(a, r.holds, r.fails, r.memo) ELSE a
      fold[n \in 0 .. Len(log)] == IF n = 0 THEN acc ELSE Descend(fold[n - 1], n)
  IN fold[Len(log)]

ApHoldsAt(f, pt) == f.name \in DOMAIN instantiations
                    /\ instantiations[f.name] \in Last(pt).props

\* xor_check and equiv_check: both operands on every id.
CompareCheck(f, first, second, acc) ==
  LET q      == second[Call(acc.ids, acc.memo)]
      p      == first[Call(acc.ids, q.memo)]
      differ == (p.holds \cap q.fails) \cup (p.fails \cap q.holds)
      agree  == (p.holds \cap q.holds) \cup (p.fails \cap q.fails)
  IN IF f.op = "Xor" THEN Decided(acc, differ, agree, p.memo)
     ELSE Decided(acc, agree, differ, p.memo)

\* An id that fails p is decided by not_map; the others by q.
ImpliesCheck(first, second, acc) ==
  LET p    == first[Call(acc.ids, acc.memo)]
      rest == AddSatisfying(acc, p.fails, p.holds, p.memo, TRUE)
      q    == second[Call(rest.ids, rest.memo)]
  IN IF rest.ids = {} THEN rest ELSE Decided(rest, q.holds, q.fails, q.memo)

\* not_map exchanges the verdicts.
NotCheck(kid, acc) ==
  LET p == kid[Call(acc.ids, acc.memo)] IN Decided(acc, p.fails, p.holds, p.memo)

\* globally_check and finally_check; check is of the formula itself.
GloballyCheck(kid, check, pt, acc) == OnKids(Decide(acc, kid, FALSE), check, pt)
FinallyCheck(kid, check, pt, acc)  == OnKids(Decide(acc, kid, TRUE), check, pt)

\* A variant that looks at p before q.
UntilFirstOperandFirst(first, second, check, pt, acc) ==
  OnKids(Decide(Decide(acc, first, FALSE), second, TRUE), check, pt)

\* True where q holds, else false where p does not; before the terminal event, W too.
UntilCheck(first, second, check, pt, acc) ==
  OnKids(Decide(Decide(acc, second, TRUE), first, FALSE), check, pt)
WeakUntilCheck(first, second, check, pt, acc) == UntilCheck(first, second, check, pt, acc)

\* False where q does not hold, else true where p does; before the terminal event, M too.
ReleaseCheck(first, second, check, pt, acc) ==
  OnKids(Decide(Decide(acc, second, FALSE), first, TRUE), check, pt)
StrongReleaseCheck(first, second, check, pt, acc) == ReleaseCheck(first, second, check, pt, acc)

\* or_check and and_check: an operand decides where it has the given value, and where
\* none has it the formula has the other one.
MultopCheck(kids, value, acc) ==
  LET fold[n \in 0 .. Len(kids)] == IF n = 0 THEN acc ELSE Decide(fold[n - 1], kids[n], value)
  IN Settle(fold[Len(kids)], ~ value)
OrCheck(kids, acc)  == MultopCheck(kids, TRUE, acc)
AndCheck(kids, acc) == MultopCheck(kids, FALSE, acc)

\* What the temporal operators return at a terminal event.  None remembers it; W
\* leaves an entry that is empty, and which nothing tells from none.
AtTerminal(f, acc) ==
  Settle(Start(Call(acc.ids, acc.memo)), f.op \notin {"U", "M", "F"})

\* operands[p][node] checks operand p at a node, check[kid] the formula itself at a
\* child of this one.
Operator(f, pt, operands, check, acc) ==
  LET kid    == operands[f.kid][pt]
      first  == operands[f.first][pt]
      second == operands[f.second][pt]
      kids   == [n \in DOMAIN f.kids |-> operands[f.kids[n]][pt]]
  IN CASE f.op \in {"Xor", "Equiv"} -> CompareCheck(f, first, second, acc)
       [] f.op = "Implies" -> ImpliesCheck(first, second, acc)
       [] f.op = "Not"     -> NotCheck(kid, acc)
       [] f.op = "X"       -> OnKids(acc, operands[f.kid], pt)
       [] f.op = "G"       -> GloballyCheck(kid, check, pt, acc)
       [] f.op = "F"       -> FinallyCheck(kid, check, pt, acc)
       [] f.op = "U"       -> UntilCheck(first, second, check, pt, acc)
       [] f.op = "W"       -> WeakUntilCheck(first, second, check, pt, acc)
       [] f.op = "R"       -> ReleaseCheck(first, second, check, pt, acc)
       [] f.op = "M"       -> StrongReleaseCheck(first, second, check, pt, acc)
       [] f.op = "Or"      -> OrCheck(kids, acc)
       [] f.op = "And"     -> AndCheck(kids, acc)

CheckAt(f, pt, operands, check, call) ==
  LET acc == Retrieve(f, pt, call)
  IN CASE f.op = "ap"    -> Settle(Start(call), ApHoldsAt(f, pt))
       [] f.op \in {"true", "false"} -> Settle(Start(call), f.op = "true")
       [] f.op = "X" /\ IsTerminalNode(pt) -> operands[f.kid][pt][call]
       [] OTHER ->
            IF acc.ids = {} THEN acc
            ELSE IF IsTerminalNode(pt) /\ f.op \in {"G", "F", "U", "W", "R", "M"}
            THEN AtTerminal(f, acc)
            ELSE AddToMemo(f, pt, Operator(f, pt, operands, check, acc))

\* check, the recursion down the tree and over the formula.
CheckTree(f, operands) ==
  LET check[pt \in DOMAIN nodes] ==
        [call \in Calls |->
           CheckAt(f, pt, operands, [kid \in Children(nodes, pt) |-> check[kid]], call)]
  IN check

CheckOn ==
  LET checks[f \in Language] == CheckTree(f, [p \in Operands(f) |-> checks[p]])
  IN checks

Check(f, pt, ids, memo) == CheckOn[f][pt][Call(ids, memo)]

-----------------------------------------------------------------------------
(***************************************************************************)
(* valid_instants_on_traces.                                               *)
(***************************************************************************)
Init == /\ InitSearch("prefix_tree")
        /\ nodes = TreeOf([id \in DOMAIN log |-> EventsOf(log[id])])
        /\ memo_map = {}
        /\ start_nodes = {}
        /\ global_stat = VacuouslyTrue

NextInstantiation == /\ GetNextInstantiation
                     /\ start_nodes' = Children(nodes, NoNode)
                     /\ global_stat' = VacuouslyTrue
                     /\ UNCHANGED <<nodes, memo_map>>

\* One round of the inner loop.  The start nodes are held in a set of pointers:
\* their order is that of their addresses.
CheckOnTrace(start) ==
  LET r == Check(prop_type, start, nodes[start].trace_ids, memo_map)
  IN /\ pc = "traces"
     /\ memo_map' = r.memo
     /\ global_stat' = Combine(global_stat, IF r.fails = {} THEN met ELSE unmet)
     /\ start_nodes' = IF global_stat'.sat THEN start_nodes \ {start} ELSE {}
     /\ UNCHANGED <<search, nodes>>

Conclude == /\ start_nodes = {}
            /\ KeepIf(global_stat.sat)
            /\ UNCHANGED <<nodes, memo_map, start_nodes, global_stat>>

NoMoreInstantiations == /\ GetNull
                        /\ UNCHANGED <<nodes, memo_map, start_nodes, global_stat>>

Next == \/ NextInstantiation
        \/ \E start \in start_nodes : CheckOnTrace(start)
        \/ Conclude
        \/ NoMoreInstantiations

Spec == Init /\ [][Next]_vars

-----------------------------------------------------------------------------
TypeOK ==
  /\ SearchTypeOK
  /\ start_nodes \subseteq Children(nodes, NoNode)
  /\ global_stat \in Stats
  /\ memo_map \subseteq Entries
  /\ \A entry \in memo_map : entry.id \in nodes[entry.trace_pt].trace_ids

\* What the prefix tree checker remembers is right for every instantiation it may serve:
\* the verdict kept for a trace at a node is the LTL meaning of the subformula, under the
\* bindings of the entry, at that event of that trace -- one trace's answer never
\* another's, one binding's never another's.
MemoIsRight ==
  \A entry \in memo_map :
    entry.sat <=> Holds(entry.node, Under(entry.relevant_mappings, log[entry.id]),
                        Len(entry.trace_pt))
=============================================================================
