------------------------- MODULE MCPropertyTypes --------------------------
(***************************************************************************)
(* Property types for the two checkers with a memory.  The map checker's   *)
(* leave out what it decides differently from the others, as the README    *)
(* lists it: U and W where their first occurrence is searched for, W and M *)
(* where their last one is, and G, R and W under X.                        *)
(***************************************************************************)
EXTENDS Ltl

Formulas == INSTANCE LtlRecursive

x == Ap("x")
y == Ap("y")
b == Ap("b")  \* a constant of the property type

Unary(ps)      == {Unop(op, p) : op \in {"Not", "X", "G", "F"}, p \in ps}
Temporal(p, q) == {Binop(op, p, q) : op \in {"U", "W", "R", "M"}}
Boolean(p, q)  == {Binop(op, p, q) : op \in {"Xor", "Equiv", "Implies"}}
                  \cup {Multop(op, <<p, q>>) : op \in {"And", "Or"}}
Binary(p, q)   == Temporal(p, q) \cup Boolean(p, q)

Without(ops, ps) == {p \in ps : p.op \notin ops}

-----------------------------------------------------------------------------
\* For the prefix tree: operands that need more of a trace than its first event, and
\* some that do not.
TreeInner == {Unop("X", y), Unop("F", y), Unop("G", y)} \cup Temporal(x, y)
             \cup {Not(y), Binop("Equiv", x, y), Binop("Xor", x, y), Multop("And", <<x, b>>)}

\* The same operand twice, so that some traces are answered from memory only.
Repeated == { Multop("Or", <<Multop("And", <<x, p>>), p>>) : p \in {Unop("X", y), Unop("G", y)} }

TreeTypes == Unary(TreeInner) \cup Repeated \cup Temporal(x, y)
             \cup UNION {Binary(x, p) \cup Temporal(p, x) : p \in TreeInner}

-----------------------------------------------------------------------------
\* For the maps: one operator over another.
Inner == Unary({y}) \cup Temporal(x, y) \cup Boolean(x, y) \cup {Multop("And", <<x, Not(b)>>)}

Outer(p) == {Not(p), Unop("G", p)} \cup Boolean(x, p)
            \cup {Binop(op, p, x) : op \in {"U", "W", "Implies"}}
            \cup {Binop(op, x, p) : op \in {"R", "M"}}

Search(p) == {Unop("F", p), Binop("U", x, p), Binop("W", x, p),
              Binop("R", p, x), Binop("M", p, x)}

Pairs == UNION {Outer(p) : p \in Inner}
         \cup UNION {Search(p) : p \in Without({"U", "W"}, Inner)}
         \cup {Unop("X", p) : p \in Without({"G", "R", "W"}, Inner)}

\* A last occurrence inside the search for a first one, and the other way round.
Nested(p) == {Unop("F", Unop("G", p)), Unop("G", Unop("F", p)),
              Unop("F", Binop("R", y, p)), Unop("F", Binop("M", y, p)),
              Unop("F", Multop("And", <<Unop("G", p), y>>))}
Triples == UNION {Nested(p) : p \in Without({"W", "M"}, Inner)}

\* The same subformula searched for twice.
Twice(p) == {Multop("And", <<Unop("F", p), Binop("U", y, p)>>),
             Binop("Implies", Unop("F", p), Unop("F", Multop("And", <<y, p>>)))}
Shared == UNION {Twice(p) : p \in Without({"U", "W"}, Inner)}

Sound == Pairs \cup Triples \cup Shared

Until == {Unop("F", Binop("U", x, y))}

-----------------------------------------------------------------------------
\* All that the property types are made of, and what the map checker makes of them.
EitherClosure    == Formulas!Closure(TreeTypes \cup Sound)
EitherDepths     == Formulas!ByDepth(EitherClosure)
MapUntilClosure  == Formulas!Closure(Until)
MapUntilDepths   == Formulas!ByDepth(MapUntilClosure)

\* TLC evaluates a definition once, but not one that a constant is replaced with; and
\* when it counts how often an expression is evaluated it looks through every use of a
\* constant that is replaced with anything but a LET.
EitherLanguage   == LET fs == EitherClosure IN fs
EitherLevels     == LET fs == EitherDepths IN fs
MapUntilLanguage == LET fs == MapUntilClosure IN fs
MapUntilLevels   == LET fs == MapUntilDepths IN fs
=============================================================================
