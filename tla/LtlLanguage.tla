----------------------------- MODULE LtlLanguage ------------------------------
(***************************************************************************)
(* The formulas a checker may meet: those that it is handed, and all       *)
(* they are made of.  They are given by how deep they nest, and what       *)
(* follows by recursion over a formula is a function on them.              *)
(***************************************************************************)
EXTENDS Ltl

CONSTANTS
  Language, \* the formulas
  Levels    \* a sequence of sets of them: those in Levels[n] are made of those in levels below n

LevelsBelow(n) == UNION {Levels[m] : m \in 1 .. n - 1}

WellFormed(f) == /\ f.op \in Operators
                 /\ f.op \in Multiples => f.kids \in Seq(Operands(f))

ASSUME LevelsAssumption ==
  /\ Len(Levels) \in Nat
  /\ Language = LevelsBelow(Len(Levels) + 1)
  /\ \A n \in 1 .. Len(Levels) :
       UNION {Operands(f) : f \in Levels[n]} \subseteq LevelsBelow(n)
  /\ \A f \in Language : WellFormed(f)

\* A formula holds at a position of a trace.
HoldsOn(tr) ==
  LET holds[f \in Language] ==
        [i \in 1 .. Terminal(tr) |-> Meaning(f, [p \in Operands(f) |-> holds[p]], tr, i)]
  IN holds

Holds(f, tr, i) == HoldsOn(tr)[f][i]
=============================================================================
