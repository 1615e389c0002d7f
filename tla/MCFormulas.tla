------------------------------- MODULE MCFormulas -----------------------------
(***************************************************************************)
(* Formulas for LinearChecker: all those of one operator over two          *)
(* propositions, those of two nested operators with one leaf operand, and  *)
(* disjunctions and conjunctions of three operands.                        *)
(***************************************************************************)
EXTENDS Ltl, FiniteSets

Recursive == INSTANCE LtlRecursive

Props  == {"a", "b"}
Leaves == {Ap(p) : p \in Props}

Unary(ps) == {Unop(op, p) : op \in {"Not", "X", "G", "F"}, p \in ps}
\* Spot reduces f xor f, f <-> f, f -> f, f & f and f | f when it builds them.
Binary(ps, qs) ==
  {Binop(op, p, q) : op \in {"U", "W", "R", "M"}, p \in ps, q \in qs}
  \cup UNION { {Binop(op, pq[1], pq[2]) : op \in {"Xor", "Equiv", "Implies"}}
               \cup {Multop(op, pq) : op \in {"And", "Or"}}
               : pq \in {pq \in ps \X qs : pq[1] # pq[2]} }

Simple == Leaves \cup Unary(Leaves) \cup Binary(Leaves, Leaves)

\* One leaf is enough beside a nested operand: Simple and the traces are closed
\* under exchanging the two propositions.
Leaf   == {Ap("a")}
Nested == Simple \cup Unary(Simple) \cup Binary(Simple, Leaf) \cup Binary(Leaf, Simple)

\* Operands whose intervals lie left of, right of and across each other.
Disjuncts == {Ap("a"), Unop("X", Ap("b")), Unop("G", Ap("b")), Unop("X", Unop("F", Ap("a")))}
Wide == {Multop(op, ps) : op \in {"And", "Or"},
                          ps \in {ps \in Disjuncts \X Disjuncts \X Disjuncts :
                                    Cardinality({ps[1], ps[2], ps[3]}) = 3}}
Disjunctive == Wide \cup Unary(Wide)
                    \cup {Binop(op, p, Ap("b")) : op \in {"U", "R"}, p \in Wide}
                    \cup {Binop(op, Ap("b"), p) : op \in {"W", "M"}, p \in Wide}

NestedOrWide == Nested \cup Disjunctive

NestedClosure       == Recursive!Closure(Nested)
NestedOrWideClosure == Recursive!Closure(NestedOrWide)
NestedDepths        == Recursive!ByDepth(NestedClosure)
NestedOrWideDepths  == Recursive!ByDepth(NestedOrWideClosure)

\* TLC evaluates a definition once, but not one that a constant is replaced with.
NestedLanguage       == NestedClosure
NestedLevels         == NestedDepths
NestedOrWideLanguage == NestedOrWideClosure
NestedOrWideLevels   == NestedOrWideDepths
=============================================================================
