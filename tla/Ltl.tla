--------------------------------- MODULE Ltl ---------------------------------
(***************************************************************************)
(* LTL formulas as the trees Spot hands to the checkers, and what they     *)
(* mean on a finite trace.                                                 *)
(*                                                                         *)
(* A trace is a sequence of events, an event the set of propositions that  *)
(* hold at it.  The terminal event the parsers append is position          *)
(* Len(trace) + 1; no proposition holds at it and it is its own successor. *)
(***************************************************************************)
EXTENDS Naturals, Sequences

Const(v)       == [op |-> v]
Ap(name)       == [op |-> "ap", name |-> name]
Unop(op, p)    == [op |-> op, kid |-> p]
Binop(op, p, q) == [op |-> op, first |-> p, second |-> q]
Multop(op, ps) == [op |-> op, kids |-> ps]

Not(p) == Unop("Not", p)

Terminal(tr)      == Len(tr) + 1
IsTerminal(tr, i) == i = Terminal(tr)
ApHolds(name, tr, i) == ~ IsTerminal(tr, i) /\ name \in tr[i]

Constants      == {"true", "false"}
UnaryOperators == {"Not", "X", "G", "F"}
BinaryOperators == {"U", "W", "R", "M", "Xor", "Equiv", "Implies"}
Multiples      == {"And", "Or"}
Operators      == {"ap"} \cup Constants \cup UnaryOperators \cup BinaryOperators \cup Multiples

\* The formulas a formula is made of.
Operands(f) == CASE f.op \in UnaryOperators  -> {f.kid}
                 [] f.op \in BinaryOperators -> {f.first, f.second}
                 [] f.op \in Multiples       -> {f.kids[n] : n \in DOMAIN f.kids}
                 [] OTHER                    -> {}

(***************************************************************************)
(* The meaning of a formula at position i of a trace, where val says of    *)
(* each operand at which positions it holds.  The temporal operators       *)
(* quantify over the events of the trace and not over the terminal one; at *)
(* the terminal event Xp is p there.                                       *)
(***************************************************************************)
UntilHolds(p, q, rest, i)   == \E k \in rest : q[k] /\ \A j \in i .. k - 1 : p[j]
ReleaseHolds(p, q, rest, i) == \A k \in rest : q[k] \/ \E j \in i .. k - 1 : p[j]

Meaning(f, val, tr, i) ==
  LET rest   == i .. Len(tr)
      kid    == val[f.kid]
      first  == val[f.first]
      second == val[f.second]
  IN CASE f.op = "true"    -> TRUE
       [] f.op = "false"   -> FALSE
       [] f.op = "ap"      -> ApHolds(f.name, tr, i)
       [] f.op = "Not"     -> ~ kid[i]
       [] f.op = "X"       -> kid[IF IsTerminal(tr, i) THEN i ELSE i + 1]
       [] f.op = "G"       -> \A k \in rest : kid[k]
       [] f.op = "F"       -> \E k \in rest : kid[k]
       [] f.op = "U"       -> UntilHolds(first, second, rest, i)
       [] f.op = "W"       -> UntilHolds(first, second, rest, i) \/ \A k \in rest : first[k]
       [] f.op = "R"       -> ReleaseHolds(first, second, rest, i)
       [] f.op = "M"       -> /\ ReleaseHolds(first, second, rest, i)
                              /\ \E k \in rest : first[k] /\ second[k]
       [] f.op = "Xor"     -> first[i] # second[i]
       [] f.op = "Equiv"   -> first[i] = second[i]
       [] f.op = "Implies" -> first[i] => second[i]
       [] f.op = "And"     -> \A n \in DOMAIN f.kids : val[f.kids[n]][i]
       [] f.op = "Or"      -> \E n \in DOMAIN f.kids : val[f.kids[n]][i]

-----------------------------------------------------------------------------
(***************************************************************************)
(* Spot's negative_normal_form, which the linear checker calls on every    *)
(* instantiated formula unless its settings are the default ones: Not ends *)
(* up on propositions only, and Xor, Equiv and Implies disappear.  Spot    *)
(* builds And and Or flat and without repeated operands.                   *)
(***************************************************************************)
Flat(op, ps) ==
  LET Kids(p) == IF p.op = op THEN p.kids ELSE <<p>>
      flat[n \in 0 .. Len(ps)] == IF n = 0 THEN <<>> ELSE flat[n - 1] \o Kids(ps[n])
  IN flat[Len(ps)]

Once(all) ==
  LET isFirst(n) == \A m \in 1 .. n - 1 : all[m] # all[n]
      once[n \in 0 .. Len(all)] ==
        IF n = 0 THEN <<>>
        ELSE IF isFirst(n) THEN Append(once[n - 1], all[n]) ELSE once[n - 1]
  IN once[Len(all)]

Splice(op, ps) == LET kids == Once(Flat(op, ps))
                  IN IF Len(kids) = 1 THEN kids[1] ELSE Multop(op, kids)

Both(p, q)   == Splice("And", <<p, q>>)
Either(p, q) == Splice("Or", <<p, q>>)

Dual(op) == CASE op = "true" -> "false" [] op = "false" -> "true"
              [] op = "G" -> "F"     [] op = "F" -> "G"   [] op = "X" -> "X"
              [] op = "U" -> "R"     [] op = "R" -> "U"
              [] op = "W" -> "M"     [] op = "M" -> "W"
              [] op = "And" -> "Or"  [] op = "Or" -> "And"

\* The normal form of a formula, or of its negation, where nnf[p][negated] is
\* that of the operand p or of its negation.
NormalForm(f, nnf, negated) ==
  LET op          == IF negated THEN Dual(f.op) ELSE f.op
      first(neg)  == nnf[f.first][neg]
      second(neg) == nnf[f.second][neg]
      differ == Either(Both(first(FALSE), second(TRUE)), Both(first(TRUE), second(FALSE)))
      agree  == Either(Both(first(FALSE), second(FALSE)), Both(first(TRUE), second(TRUE)))
  IN CASE f.op = "ap"      -> IF negated THEN Not(f) ELSE f
       [] f.op = "Not"     -> nnf[f.kid][~ negated]
       [] f.op = "Implies" -> IF negated THEN Both(first(FALSE), second(TRUE))
                              ELSE Either(first(TRUE), second(FALSE))
       [] f.op = "Xor"     -> IF negated THEN agree ELSE differ
       [] f.op = "Equiv"   -> IF negated THEN differ ELSE agree
       [] f.op \in {"true", "false"} -> Const(op)
       [] f.op \in {"G", "F", "X"}   -> Unop(op, nnf[f.kid][negated])
       [] f.op \in {"U", "R", "W", "M"} -> Binop(op, first(negated), second(negated))
       [] f.op \in {"And", "Or"} ->
            Splice(op, [n \in DOMAIN f.kids |-> nnf[f.kids[n]][negated]])
=============================================================================
