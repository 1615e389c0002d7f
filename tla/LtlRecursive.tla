----------------------------- MODULE LtlRecursive -----------------------------
(***************************************************************************)
(* The meaning and the normal form of any formula whatever, by recursion   *)
(* over its operands.                                                      *)
(***************************************************************************)
EXTENDS Ltl, FiniteSetsExt

RECURSIVE Holds(_, _, _)
Holds(f, tr, i) ==
  Meaning(f, [p \in Operands(f) |-> [k \in 1 .. Terminal(tr) |-> Holds(p, tr, k)]], tr, i)

RECURSIVE NegativeNormalForm(_, _)
NegativeNormalForm(f, negated) ==
  NormalForm(f, [p \in Operands(f) |-> [neg \in BOOLEAN |-> NegativeNormalForm(p, neg)]],
             negated)

\* A formula and all it is made of.
RECURSIVE Subformulas(_)
Subformulas(f) == {f} \cup UNION {Subformulas(p) : p \in Operands(f)}

\* All that formulas are made of and their normal forms, by how deep they nest.
NormalFormsOf(fs) == {NegativeNormalForm(f, neg) : f \in fs, neg \in BOOLEAN}
Closed(fs) == UNION {Subformulas(f) : f \in fs}

RECURSIVE Closure(_)
Closure(fs) == LET more == Closed(fs \cup NormalFormsOf(fs))
               IN IF more = fs THEN fs ELSE Closure(more)

RECURSIVE Depth(_)
Depth(f) == 1 + Max({0} \cup {Depth(p) : p \in Operands(f)})

ByDepth(fs) ==
  [n \in 1 .. Max({Depth(f) : f \in fs}) |-> {f \in fs : Depth(f) = n}]
=============================================================================
