------------------------- MODULE LinearCheckerProofs -------------------------
(***************************************************************************)
(* The linear checker, for every language of formulas, every set of traces *)
(* and every settings: what it returns is a statistic, its verdict is the  *)
(* meaning of the formula, and stopping early keeps the result.  First,    *)
(* what the negative normal form of a formula means.                       *)
(***************************************************************************)
EXTENDS LinearChecker, SequencesExt, NatFacts

-----------------------------------------------------------------------------
(***************************************************************************)
(* Induction over the formulas of the language, and the functions defined  *)
(* by recursion over them.                                                 *)
(***************************************************************************)

\* The operands of each kind of formula.
LEMMA OperandsAre ==
  ASSUME NEW f
  PROVE  /\ f.op \in {"true", "false", "ap"} => Operands(f) = {}
         /\ f.op \in {"Not", "X", "G", "F"} => Operands(f) = {f.kid}
         /\ f.op \in {"U", "W", "R", "M", "Xor", "Equiv", "Implies"}
              => Operands(f) = {f.first, f.second}
         /\ f.op \in {"And", "Or"} => Operands(f) = {f.kids[n] : n \in DOMAIN f.kids}
BY DEF Operands, UnaryOperators, BinaryOperators, Multiples

\* What a formula is made of is in the language.
LEMMA OperandsInLanguage ==
  ASSUME NEW f \in Language
  PROVE  Operands(f) \subseteq Language
<1>1. PICK n \in 1 .. Len(Levels) : f \in Levels[n]
  BY LevelsAssumption DEF LevelsBelow
<1>2. Operands(f) \subseteq LevelsBelow(n)
  BY <1>1, LevelsAssumption
<1> QED BY <1>2, LevelsAssumption DEF LevelsBelow

\* The level after n is made of formulas of the levels up to n.
LEMMA NextLevel ==
  ASSUME NEW n \in Nat, n + 1 <= Len(Levels)
  PROVE  \A f \in LevelsBelow(n + 2) :
           f \in Language /\ Operands(f) \subseteq LevelsBelow(n + 1)
<1> SUFFICES ASSUME NEW f \in LevelsBelow(n + 2)
             PROVE  f \in Language /\ Operands(f) \subseteq LevelsBelow(n + 1)
  OBVIOUS
<1>1. PICK m \in 1 .. n + 1 : f \in Levels[m]
  BY DEF LevelsBelow
<1>2. m \in 1 .. Len(Levels) /\ m - 1 <= n
  BY LevelsAssumption
<1>3. f \in Language
  BY <1>1, <1>2, LevelsAssumption DEF LevelsBelow
<1>4. Operands(f) \subseteq LevelsBelow(m)
  BY <1>1, <1>2, LevelsAssumption
<1>5. LevelsBelow(m) \subseteq LevelsBelow(n + 1)
  BY <1>2 DEF LevelsBelow
<1> QED BY <1>3, <1>4, <1>5

\* A set that holds every formula whose operands it holds is the whole language.
LEMMA LanguageInduction ==
  ASSUME NEW S, \A f \in Language : Operands(f) \subseteq S => f \in S
  PROVE  Language \subseteq S
<1> DEFINE N == {n \in Nat : n <= Len(Levels) => LevelsBelow(n + 1) \subseteq S}
<1>1. 0 \in N
  BY DEF LevelsBelow
<1>2. ASSUME NEW n \in Nat, n \in N PROVE n + 1 \in N
  <2> SUFFICES ASSUME n + 1 <= Len(Levels) PROVE LevelsBelow(n + 2) \subseteq S
    OBVIOUS
  <2>1. LevelsBelow(n + 1) \subseteq S
    BY <1>2, LevelsAssumption
  <2> QED BY <2>1, NextLevel
<1>3. Len(Levels) \in N
  <2> HIDE DEF N
  <2> QED BY <1>1, <1>2, NatSetInduction, LevelsAssumption
<1> QED BY <1>3, LevelsAssumption

\* The meanings of a formula on a trace follow from those of its operands.
LEMMA HoldsOnDef ==
  ASSUME NEW tr, NEW f \in Language, NEW i \in 1 .. Terminal(tr)
  PROVE  HoldsOn(tr)[f][i] = Meaning(f, [p \in Operands(f) |-> HoldsOn(tr)[p]], tr, i)
<1> DEFINE Node(g, val) == [k \in 1 .. Terminal(tr) |-> Meaning(g, val, tr, k)]
           IsOn(h, S) == h = [g \in S |-> Node(g, [p \in Operands(g) |-> h[p]])]
           N == {n \in Nat : n <= Len(Levels) => \E h : IsOn(h, LevelsBelow(n + 1))}
<1> HIDE DEF Node
<1>1. 0 \in N
  <2>1. IsOn([g \in {} |-> g], LevelsBelow(0 + 1))
    BY DEF LevelsBelow
  <2> QED BY <2>1
<1>2. ASSUME NEW n \in Nat, n \in N PROVE n + 1 \in N
  <2> SUFFICES ASSUME n + 1 <= Len(Levels) PROVE \E h : IsOn(h, LevelsBelow(n + 2))
    OBVIOUS
  <2>1. PICK h : IsOn(h, LevelsBelow(n + 1))
    BY <1>2, LevelsAssumption
  <2> DEFINE next == [g \in LevelsBelow(n + 2) |-> Node(g, [p \in Operands(g) |-> h[p]])]
  <2>2. LevelsBelow(n + 1) \subseteq LevelsBelow(n + 2)
    BY DEF LevelsBelow
  <2>3. \A p \in LevelsBelow(n + 1) : next[p] = h[p]
    BY <2>1, <2>2
  <2> HIDE DEF next
  <2>4. ASSUME NEW g \in LevelsBelow(n + 2)
        PROVE  [p \in Operands(g) |-> next[p]] = [p \in Operands(g) |-> h[p]]
    BY <2>3, NextLevel
  <2>5. IsOn(next, LevelsBelow(n + 2))
    BY <2>4 DEF next
  <2> QED BY <2>5
<1>3. Len(Levels) \in N
  <2> HIDE DEF N
  <2> QED BY <1>1, <1>2, NatSetInduction, LevelsAssumption
<1>4. PICK h : IsOn(h, Language)
  BY <1>3, LevelsAssumption
<1>5. IsOn(HoldsOn(tr), Language)
  BY <1>4 DEF HoldsOn, Node
<1> DEFINE val == [p \in Operands(f) |-> HoldsOn(tr)[p]]
<1>6. HoldsOn(tr)[f] = Node(f, val)
  BY <1>5
<1> HIDE DEF val
<1>7. HoldsOn(tr)[f][i] = Meaning(f, val, tr, i)
  BY <1>6 DEF Node
<1> QED BY <1>7 DEF val

\* So do its normal form and that of its negation.
LEMMA NormalFormsDef ==
  ASSUME NEW f \in Language, NEW negated \in BOOLEAN
  PROVE  NormalForms[f][negated]
           = NormalForm(f, [p \in Operands(f) |-> NormalForms[p]], negated)
<1> DEFINE Node(g, val) == [neg \in BOOLEAN |-> NormalForm(g, val, neg)]
           IsOn(h, S) == h = [g \in S |-> Node(g, [p \in Operands(g) |-> h[p]])]
           N == {n \in Nat : n <= Len(Levels) => \E h : IsOn(h, LevelsBelow(n + 1))}
<1> HIDE DEF Node
<1>1. 0 \in N
  <2>1. IsOn([g \in {} |-> g], LevelsBelow(0 + 1))
    BY DEF LevelsBelow
  <2> QED BY <2>1
<1>2. ASSUME NEW n \in Nat, n \in N PROVE n + 1 \in N
  <2> SUFFICES ASSUME n + 1 <= Len(Levels) PROVE \E h : IsOn(h, LevelsBelow(n + 2))
    OBVIOUS
  <2>1. PICK h : IsOn(h, LevelsBelow(n + 1))
    BY <1>2, LevelsAssumption
  <2> DEFINE next == [g \in LevelsBelow(n + 2) |-> Node(g, [p \in Operands(g) |-> h[p]])]
  <2>2. LevelsBelow(n + 1) \subseteq LevelsBelow(n + 2)
    BY DEF LevelsBelow
  <2>3. \A p \in LevelsBelow(n + 1) : next[p] = h[p]
    BY <2>1, <2>2
  <2> HIDE DEF next
  <2>4. ASSUME NEW g \in LevelsBelow(n + 2)
        PROVE  [p \in Operands(g) |-> next[p]] = [p \in Operands(g) |-> h[p]]
    BY <2>3, NextLevel
  <2>5. IsOn(next, LevelsBelow(n + 2))
    BY <2>4 DEF next
  <2> QED BY <2>5
<1>3. Len(Levels) \in N
  <2> HIDE DEF N
  <2> QED BY <1>1, <1>2, NatSetInduction, LevelsAssumption
<1>4. PICK h : IsOn(h, Language)
  BY <1>3, LevelsAssumption
<1>5. IsOn(NormalForms, Language)
  BY <1>4 DEF NormalForms, Node
<1> DEFINE val == [p \in Operands(f) |-> NormalForms[p]]
<1>6. NormalForms[f] = Node(f, val)
  BY <1>5
<1> HIDE DEF val
<1>7. NormalForms[f][negated] = NormalForm(f, val, negated)
  BY <1>6 DEF Node
<1> QED BY <1>7 DEF val

-----------------------------------------------------------------------------
(***************************************************************************)
(* Conjunctions and disjunctions are built flat and without repetitions.   *)
(***************************************************************************)

\* The operands that p brings into a conjunction or disjunction.
Brings(op, p) == IF p.op = op THEN ToSet(p.kids) ELSE {p}
AllBring(op, ps, n) == UNION {Brings(op, ps[m]) : m \in 1 .. n}

\* The elements of a concatenation.
LEMMA ElementsJoined ==
  ASSUME NEW S, NEW s \in Seq(S), NEW t \in Seq(S)
  PROVE  s \o t \in Seq(S) /\ ToSet(s \o t) = ToSet(s) \cup ToSet(t)
<1>1. s \o t \in Seq(S)
  OBVIOUS
<1>2. ToSet(s \o t) = ToSet(s) \cup ToSet(t)
  <2>1. /\ DOMAIN (s \o t) = 1 .. Len(s) + Len(t) /\ DOMAIN s = 1 .. Len(s) /\ DOMAIN t = 1 .. Len(t)
        /\ Len(s) \in Nat /\ Len(t) \in Nat
    OBVIOUS
  <2>2. \A n \in 1 .. Len(s) : (s \o t)[n] = s[n]
    OBVIOUS
  <2>3. \A n \in 1 .. Len(t) : (s \o t)[Len(s) + n] = t[n] /\ Len(s) + n \in DOMAIN (s \o t)
    OBVIOUS
  <2>4. \A n \in DOMAIN (s \o t) : n \in 1 .. Len(s) \/ \E m \in 1 .. Len(t) : n = Len(s) + m
    <3> SUFFICES ASSUME NEW n \in DOMAIN (s \o t), n \notin 1 .. Len(s)
                 PROVE  \E m \in 1 .. Len(t) : n = Len(s) + m
      OBVIOUS
    <3>1. n - Len(s) \in 1 .. Len(t) /\ n = Len(s) + (n - Len(s))
      BY <2>1
    <3> QED BY <3>1
  <2>5. ToSet(s \o t) \subseteq ToSet(s) \cup ToSet(t)
    BY <2>1, <2>2, <2>3, <2>4 DEF ToSet
  <2>6. ToSet(s) \subseteq ToSet(s \o t)
    BY <2>1, <2>2 DEF ToSet
  <2>7. ToSet(t) \subseteq ToSet(s \o t)
    BY <2>1, <2>3 DEF ToSet
  <2> QED BY <2>5, <2>6, <2>7
<1> QED BY <1>1, <1>2

\* The elements of a sequence with one more.
LEMMA ElementsAppended ==
  ASSUME NEW S, NEW s \in Seq(S), NEW e \in S
  PROVE  Append(s, e) \in Seq(S) /\ ToSet(Append(s, e)) = ToSet(s) \cup {e}
<1>1. Append(s, e) \in Seq(S)
  OBVIOUS
<1>2. ToSet(Append(s, e)) = ToSet(s) \cup {e}
  <2>1. /\ DOMAIN Append(s, e) = 1 .. Len(s) + 1 /\ DOMAIN s = 1 .. Len(s) /\ Len(s) \in Nat
        /\ Append(s, e)[Len(s) + 1] = e
        /\ \A n \in 1 .. Len(s) : Append(s, e)[n] = s[n]
    OBVIOUS
  <2>2. ToSet(Append(s, e)) \subseteq ToSet(s) \cup {e}
    BY <2>1 DEF ToSet
  <2>3. ToSet(s) \cup {e} \subseteq ToSet(Append(s, e))
    BY <2>1 DEF ToSet
  <2> QED BY <2>2, <2>3
<1> QED BY <1>1, <1>2

\* Flat holds all that the operands bring.
LEMMA FlatElements ==
  ASSUME NEW op, NEW ps, Len(ps) \in Nat,
         \A n \in 1 .. Len(ps) : ps[n].op = op => ps[n].kids \in Seq(ToSet(ps[n].kids))
  PROVE  LET all == AllBring(op, ps, Len(ps))
         IN Flat(op, ps) \in Seq(all) /\ ToSet(Flat(op, ps)) = all
<1> DEFINE Kids(p) == IF p.op = op THEN p.kids ELSE <<p>>
           Body(f, n) == IF n = 0 THEN <<>> ELSE f[n - 1] \o Kids(ps[n])
           IsOn(f, m) == f = [n \in 0 .. m |-> Body(f, n)]
           N == {m \in Nat : \E f : IsOn(f, m)}
<1>1. 0 \in N
  <2>1. IsOn([n \in 0 .. 0 |-> <<>>], 0)
    OBVIOUS
  <2> QED BY <2>1
<1>2. ASSUME NEW m \in Nat, m \in N PROVE m + 1 \in N
  <2>1. PICK p : IsOn(p, m)
    BY <1>2
  <2> DEFINE q == [n \in 0 .. m + 1 |-> Body(p, n)]
  <2> HIDE DEF Kids
  <2>2. \A n \in 0 .. m : p[n] = Body(p, n)
    BY <2>1
  <2>3. \A n \in 0 .. m : q[n] = p[n]
    BY <2>2
  <2> HIDE DEF q
  <2>4. \A n \in 0 .. m + 1 : Body(q, n) = Body(p, n)
    <3> SUFFICES ASSUME NEW n \in 0 .. m + 1 PROVE Body(q, n) = Body(p, n)
      OBVIOUS
    <3>1. n = 0 \/ n - 1 \in 0 .. m
      OBVIOUS
    <3> QED BY <3>1, <2>3
  <2>5. IsOn(q, m + 1)
    <3> HIDE DEF Body
    <3> QED BY <2>4 DEF q
  <2> HIDE DEF IsOn
  <2> QED BY <2>5
<1>3. Len(ps) \in N
  <2> HIDE DEF N
  <2>1. Nat \subseteq N
    BY <1>1, <1>2, NatSetInduction
  <2> QED BY <2>1
<1>4. PICK flat : IsOn(flat, Len(ps)) /\ Flat(op, ps) = flat[Len(ps)]
  BY <1>3 DEF Flat
<1>5. flat[0] = <<>>
  BY <1>4
<1>6. \A n \in 0 .. Len(ps) - 1 : flat[n + 1] = flat[n] \o Kids(ps[n + 1])
  <2> HIDE DEF Kids
  <2> QED BY <1>4
<1> DEFINE all == AllBring(op, ps, Len(ps))
           Right(n) == flat[n] \in Seq(all) /\ ToSet(flat[n]) = AllBring(op, ps, n)
           R == {n \in Nat : n <= Len(ps) => Right(n)}
<1>7. 0 \in R
  <2>1. ToSet(<<>>) = {}
    BY DEF ToSet
  <2>2. AllBring(op, ps, 0) = {}
    BY DEF AllBring
  <2>3. flat[0] \in Seq(all)
    <3> HIDE DEF all
    <3> QED BY <1>5
  <2>4. Right(0)
    BY <1>5, <2>1, <2>2, <2>3
  <2> QED BY <2>4
<1>8. ASSUME NEW n \in Nat, n \in R PROVE n + 1 \in R
  <2> SUFFICES ASSUME n + 1 <= Len(ps) PROVE Right(n + 1)
    OBVIOUS
  <2> DEFINE p == ps[n + 1]
  <2>1. n \in 0 .. Len(ps) - 1 /\ n + 1 \in 1 .. Len(ps) /\ Right(n)
    BY <1>8
  <2>2. ToSet(Kids(p)) = Brings(op, p)
    <3>1. CASE p.op = op
      BY <3>1 DEF Brings
    <3>2. CASE p.op # op
      BY <3>2 DEF Brings, ToSet
    <3> QED BY <3>1, <3>2
  <2>3. Brings(op, p) \subseteq all
    BY <2>1 DEF AllBring
  <2>4. Kids(p) \in Seq(all)
    <3>1. CASE p.op = op
      <4>1. p.kids \in Seq(ToSet(p.kids)) /\ ToSet(p.kids) \subseteq all
        BY <2>1, <2>3, <3>1 DEF Brings
      <4> HIDE DEF all
      <4> QED BY <3>1, <4>1
    <3>2. CASE p.op # op
      BY <2>3, <3>2 DEF Brings
    <3> QED BY <3>1, <3>2
  <2>5. AllBring(op, ps, n + 1) = AllBring(op, ps, n) \cup Brings(op, p)
    <3>1. \A m : m \in 1 .. n + 1 <=> m \in 1 .. n \/ m = n + 1
      OBVIOUS
    <3> QED BY <3>1 DEF AllBring
  <2>6. flat[n + 1] = flat[n] \o Kids(p)
    BY <1>6, <2>1
  <2> HIDE DEF Kids, all
  <2>7. flat[n + 1] \in Seq(all) /\ ToSet(flat[n + 1]) = ToSet(flat[n]) \cup ToSet(Kids(p))
    BY <2>1, <2>4, <2>6, ElementsJoined
  <2> QED BY <2>1, <2>2, <2>5, <2>7
<1>9. Len(ps) \in R
  <2> HIDE DEF R
  <2>1. Nat \subseteq R
    BY <1>7, <1>8, NatSetInduction
  <2> QED BY <2>1
<1>10. Right(Len(ps))
  BY <1>9
<1> QED BY <1>4, <1>10

\* Once holds the same elements, each once.
LEMMA OnceElements ==
  ASSUME NEW S, NEW all \in Seq(S)
  PROVE  Once(all) \in Seq(S) /\ ToSet(Once(all)) = ToSet(all)
<1> DEFINE isFirst(n) == \A m \in 1 .. n - 1 : all[m] # all[n]
           Body(f, n) == IF n = 0 THEN <<>>
                         ELSE IF isFirst(n) THEN Append(f[n - 1], all[n]) ELSE f[n - 1]
           IsOn(f, m) == f = [n \in 0 .. m |-> Body(f, n)]
           N == {m \in Nat : \E f : IsOn(f, m)}
<1>1. 0 \in N
  <2>1. IsOn([n \in 0 .. 0 |-> <<>>], 0)
    OBVIOUS
  <2> QED BY <2>1
<1>2. ASSUME NEW m \in Nat, m \in N PROVE m + 1 \in N
  <2>1. PICK p : IsOn(p, m)
    BY <1>2
  <2> DEFINE q == [n \in 0 .. m + 1 |-> Body(p, n)]
  <2> HIDE DEF isFirst
  <2>2. \A n \in 0 .. m : p[n] = Body(p, n)
    BY <2>1
  <2>3. \A n \in 0 .. m : q[n] = p[n]
    BY <2>2
  <2> HIDE DEF q
  <2>4. \A n \in 0 .. m + 1 : Body(q, n) = Body(p, n)
    <3> SUFFICES ASSUME NEW n \in 0 .. m + 1 PROVE Body(q, n) = Body(p, n)
      OBVIOUS
    <3>1. n = 0 \/ n - 1 \in 0 .. m
      OBVIOUS
    <3> QED BY <3>1, <2>3
  <2>5. IsOn(q, m + 1)
    <3> HIDE DEF Body
    <3> QED BY <2>4 DEF q
  <2> HIDE DEF IsOn
  <2> QED BY <2>5
<1>3. Len(all) \in N
  <2> HIDE DEF N
  <2>1. Nat \subseteq N
    BY <1>1, <1>2, NatSetInduction
  <2> QED BY <2>1
<1>4. PICK once : IsOn(once, Len(all)) /\ Once(all) = once[Len(all)]
  BY <1>3 DEF Once
<1>5. once[0] = <<>>
  BY <1>4
<1>6. \A n \in 0 .. Len(all) - 1 :
        once[n + 1] = IF isFirst(n + 1) THEN Append(once[n], all[n + 1]) ELSE once[n]
  <2> HIDE DEF isFirst
  <2> SUFFICES ASSUME NEW n \in 0 .. Len(all) - 1
               PROVE  once[n + 1] = IF isFirst(n + 1) THEN Append(once[n], all[n + 1]) ELSE once[n]
    OBVIOUS
  <2>1. n + 1 \in 0 .. Len(all) /\ n + 1 # 0 /\ (n + 1) - 1 = n
    OBVIOUS
  <2>2. once[n + 1] = Body(once, n + 1)
    <3> HIDE DEF Body
    <3> QED BY <1>4, <2>1
  <2> QED BY <2>1, <2>2
<1> DEFINE Seen(n) == {all[m] : m \in 1 .. n}
           Right(n) == once[n] \in Seq(S) /\ ToSet(once[n]) = Seen(n)
           R == {n \in Nat : n <= Len(all) => Right(n)}
<1>7. 0 \in R
  <2>1. ToSet(<<>>) = {}
    BY DEF ToSet
  <2>2. Seen(0) = {}
    OBVIOUS
  <2>3. once[0] \in Seq(S)
    BY <1>5
  <2>4. Right(0)
    BY <1>5, <2>1, <2>2, <2>3
  <2> QED BY <2>4
<1>8. ASSUME NEW n \in Nat, n \in R PROVE n + 1 \in R
  <2> SUFFICES ASSUME n + 1 <= Len(all) PROVE Right(n + 1)
    OBVIOUS
  <2>1. n \in 0 .. Len(all) - 1 /\ n + 1 \in 1 .. Len(all) /\ Right(n) /\ all[n + 1] \in S
    BY <1>8
  <2>2. Seen(n + 1) = Seen(n) \cup {all[n + 1]}
    <3>1. \A m : m \in 1 .. n + 1 <=> m \in 1 .. n \/ m = n + 1
      OBVIOUS
    <3> QED BY <3>1
  <2>3. CASE isFirst(n + 1)
    <3>1. once[n + 1] = Append(once[n], all[n + 1])
      BY <1>6, <2>1, <2>3
    <3>2. once[n] \in Seq(S) /\ all[n + 1] \in S /\ ToSet(once[n]) = Seen(n)
      BY <2>1
    <3> HIDE DEF Seen, Right
    <3>3. /\ Append(once[n], all[n + 1]) \in Seq(S)
          /\ ToSet(Append(once[n], all[n + 1])) = ToSet(once[n]) \cup {all[n + 1]}
      BY <3>2, ElementsAppended
    <3> QED BY <2>2, <3>1, <3>2, <3>3 DEF Right
  <2>4. CASE ~ isFirst(n + 1)
    <3>1. once[n + 1] = once[n]
      BY <1>6, <2>1, <2>4
    <3>2. all[n + 1] \in Seen(n)
      <4>1. \E m \in 1 .. (n + 1) - 1 : all[m] = all[n + 1]
        BY <2>4
      <4>2. (n + 1) - 1 = n
        OBVIOUS
      <4> QED BY <4>1, <4>2
    <3> HIDE DEF Seen
    <3> QED BY <2>1, <2>2, <3>1, <3>2
  <2> QED BY <2>3, <2>4
<1>9. Len(all) \in R
  <2> HIDE DEF R
  <2>1. Nat \subseteq R
    BY <1>7, <1>8, NatSetInduction
  <2> QED BY <2>1
<1>10. Right(Len(all))
  BY <1>9
<1>11. Seen(Len(all)) = ToSet(all)
  BY DEF ToSet
<1> QED BY <1>4, <1>10, <1>11

\* A spliced formula is its only operand, or made of all that is brought into it.
IsSpliced(r, op, all) ==
  \/ all = {r}
  \/ r.op = op /\ r.kids \in Seq(all) /\ ToSet(r.kids) = all

\* What Splice returns.
LEMMA SpliceIsSpliced ==
  ASSUME NEW op, NEW ps, Len(ps) \in Nat,
         \A n \in 1 .. Len(ps) : ps[n].op = op => ps[n].kids \in Seq(ToSet(ps[n].kids))
  PROVE  IsSpliced(Splice(op, ps), op, AllBring(op, ps, Len(ps)))
<1> DEFINE all  == AllBring(op, ps, Len(ps))
           kids == Once(Flat(op, ps))
<1>1. Flat(op, ps) \in Seq(all) /\ ToSet(Flat(op, ps)) = all
  BY FlatElements
<1>2. kids \in Seq(all) /\ ToSet(kids) = all
  BY <1>1, OnceElements
<1>3. Splice(op, ps) = IF Len(kids) = 1 THEN kids[1] ELSE Multop(op, kids)
  BY DEF Splice
<1> HIDE DEF all, kids
<1>4. CASE Len(kids) = 1
  <2>1. ToSet(kids) = {kids[1]}
    BY <1>2, <1>4 DEF ToSet
  <2> QED BY <1>2, <1>3, <1>4, <2>1 DEF IsSpliced, all
<1>5. CASE Len(kids) # 1
  <2>1. Splice(op, ps).op = op /\ Splice(op, ps).kids = kids
    BY <1>3, <1>5 DEF Multop
  <2> QED BY <1>2, <2>1 DEF IsSpliced, all
<1> QED BY <1>4, <1>5

-----------------------------------------------------------------------------
(***************************************************************************)
(* What formulas mean, those of the language and those made of them.       *)
(***************************************************************************)

\* What a formula means whose operands are in the language.
Means(g, tr, i) == Meaning(g, [p \in Operands(g) |-> HoldsOn(tr)[p]], tr, i)

Known(g) == WellFormed(g) /\ Operands(g) \subseteq Language

\* A formula of the language holds or does not.
LEMMA HoldsBoolean ==
  ASSUME NEW tr, Len(tr) \in Nat, NEW f \in Language, NEW i \in 1 .. Terminal(tr)
  PROVE  HoldsOn(tr)[f][i] \in BOOLEAN
<1> DEFINE S == {g \in Language : \A k \in 1 .. Terminal(tr) : HoldsOn(tr)[g][k] \in BOOLEAN}
<1>1. ASSUME NEW g \in Language, Operands(g) \subseteq S PROVE g \in S
  <2> SUFFICES ASSUME NEW k \in 1 .. Terminal(tr) PROVE HoldsOn(tr)[g][k] \in BOOLEAN
    OBVIOUS
  <2> DEFINE val == [p \in Operands(g) |-> HoldsOn(tr)[p]]
  <2>1. HoldsOn(tr)[g][k] = Meaning(g, val, tr, k)
    BY HoldsOnDef
  <2>2. WellFormed(g)
    BY LevelsAssumption
  <2>3. CASE g.op = "X"
    <3> DEFINE next == IF IsTerminal(tr, k) THEN k ELSE k + 1
    <3>1. g.kid \in S
      BY <1>1, <2>3, OperandsAre
    <3>2. next \in 1 .. Terminal(tr)
      BY DEF Terminal, IsTerminal
    <3>3. Meaning(g, val, tr, k) = val[g.kid][next]
      BY <2>3 DEF Meaning
    <3>4. val[g.kid] = HoldsOn(tr)[g.kid]
      BY <2>3, OperandsAre
    <3> HIDE DEF val, next
    <3> QED BY <2>1, <3>1, <3>2, <3>3, <3>4
  <2>4. CASE g.op \in {"true", "false", "ap", "Not", "G", "F", "And", "Or"}
    <3> HIDE DEF val
    <3>1. Meaning(g, val, tr, k) \in BOOLEAN
      BY <2>4 DEF Meaning, ApHolds
    <3> QED BY <2>1, <3>1
  <2>5. CASE g.op \in {"U", "W", "R", "M", "Xor", "Equiv", "Implies"}
    <3> HIDE DEF val
    <3>1. Meaning(g, val, tr, k) \in BOOLEAN
      BY <2>5 DEF Meaning, UntilHolds, ReleaseHolds
    <3> QED BY <2>1, <3>1
  <2> QED BY <2>2, <2>3, <2>4, <2>5
       DEF WellFormed, Operators, Constants, UnaryOperators, BinaryOperators, Multiples
<1>2. Language \subseteq S
  <2> HIDE DEF S
  <2> QED BY <1>1, LanguageInduction
<1> QED BY <1>2

\* In the language a formula holds where it means so, and is made of the language.
LEMMA LanguageKnown ==
  ASSUME NEW g \in Language
  PROVE  /\ Known(g)
         /\ \A tr : \A i \in 1 .. Terminal(tr) : Means(g, tr, i) = HoldsOn(tr)[g][i]
<1>1. Known(g)
  BY OperandsInLanguage, LevelsAssumption DEF Known
<1>2. ASSUME NEW tr, NEW i \in 1 .. Terminal(tr) PROVE Means(g, tr, i) = HoldsOn(tr)[g][i]
  BY HoldsOnDef DEF Means
<1> QED BY <1>1, <1>2

\* A conjunction means that all of its operands hold, a disjunction that one does.
LEMMA MultipleMeans ==
  ASSUME NEW g, NEW tr, NEW i
  PROVE  /\ g.op = "And" => Means(g, tr, i) = \A e \in ToSet(g.kids) : HoldsOn(tr)[e][i]
         /\ g.op = "Or"  => Means(g, tr, i) = \E e \in ToSet(g.kids) : HoldsOn(tr)[e][i]
<1> DEFINE val == [p \in Operands(g) |-> HoldsOn(tr)[p]]
<1>1. ASSUME g.op \in {"And", "Or"}
      PROVE  \A n \in DOMAIN g.kids : val[g.kids[n]] = HoldsOn(tr)[g.kids[n]]
  BY <1>1, OperandsAre
<1>2. Means(g, tr, i) = Meaning(g, val, tr, i)
  BY DEF Means
<1> HIDE DEF val
<1>3. ASSUME g.op = "And"
      PROVE  Means(g, tr, i) = \A e \in ToSet(g.kids) : HoldsOn(tr)[e][i]
  <2>1. Meaning(g, val, tr, i) = \A n \in DOMAIN g.kids : val[g.kids[n]][i]
    BY <1>3 DEF Meaning
  <2> QED BY <1>1, <1>2, <1>3, <2>1 DEF ToSet
<1>4. ASSUME g.op = "Or"
      PROVE  Means(g, tr, i) = \E e \in ToSet(g.kids) : HoldsOn(tr)[e][i]
  <2>1. Meaning(g, val, tr, i) = \E n \in DOMAIN g.kids : val[g.kids[n]][i]
    BY <1>4 DEF Meaning
  <2> QED BY <1>1, <1>2, <1>4, <2>1 DEF ToSet
<1> QED BY <1>3, <1>4

\* All of a set of formulas hold, or one of them does.
Together(op, all, tr, i) == IF op = "And" THEN \A e \in all : HoldsOn(tr)[e][i]
                            ELSE \E e \in all : HoldsOn(tr)[e][i]

\* A spliced formula means that of what was brought into it, and so does an operand
\* of what it brings.
LEMMA SplicedMeans ==
  ASSUME NEW op \in {"And", "Or"}, NEW tr, Len(tr) \in Nat, NEW i \in 1 .. Terminal(tr),
         NEW r, NEW all, all \subseteq Language, IsSpliced(r, op, all)
  PROVE  Means(r, tr, i) = Together(op, all, tr, i)
<1>1. CASE all = {r}
  <2>1. r \in Language
    BY <1>1
  <2>2. Means(r, tr, i) = HoldsOn(tr)[r][i] /\ HoldsOn(tr)[r][i] \in BOOLEAN
    BY <2>1, LanguageKnown, HoldsBoolean
  <2> QED BY <1>1, <2>2 DEF Together
<1>2. CASE r.op = op /\ r.kids \in Seq(all) /\ ToSet(r.kids) = all
  BY <1>2, MultipleMeans DEF Together
<1> QED BY <1>1, <1>2 DEF IsSpliced

\* The operands of a conjunction or disjunction are what it brings into another.
LEMMA OperandsBrought ==
  ASSUME NEW p, Known(p), p.op \in {"And", "Or"}
  PROVE  p.kids \in Seq(ToSet(p.kids)) /\ ToSet(p.kids) = Operands(p)
<1>1. ToSet(p.kids) = Operands(p)
  BY OperandsAre DEF ToSet
<1> QED BY <1>1 DEF Known, WellFormed, Multiples

\* An operand is like what it brings.
LEMMA BringsSpliced ==
  ASSUME NEW p, Known(p), NEW op \in {"And", "Or"}
  PROVE  IsSpliced(p, op, Brings(op, p))
BY OperandsBrought DEF IsSpliced, Brings

\* It means what it brings.
LEMMA BringsMean ==
  ASSUME NEW op \in {"And", "Or"}, NEW tr, Len(tr) \in Nat, NEW i \in 1 .. Terminal(tr),
         NEW p, Known(p), Brings(op, p) \subseteq Language
  PROVE  Means(p, tr, i) = Together(op, Brings(op, p), tr, i)
<1>1. IsSpliced(p, op, Brings(op, p))
  BY BringsSpliced
<1> QED BY <1>1, SplicedMeans

\* A spliced conjunction means that all of what it was built from does, a disjunction
\* that some of it does.
LEMMA SpliceMeans ==
  ASSUME NEW op \in {"And", "Or"}, NEW ps, Len(ps) \in Nat, \A n \in 1 .. Len(ps) : Known(ps[n]),
         AllBring(op, ps, Len(ps)) \subseteq Language
  PROVE  /\ Known(Splice(op, ps))
         /\ \A tr : \A i \in 1 .. Terminal(tr) : Len(tr) \in Nat =>
              Means(Splice(op, ps), tr, i)
                = IF op = "And" THEN \A n \in 1 .. Len(ps) : Means(ps[n], tr, i)
                  ELSE \E n \in 1 .. Len(ps) : Means(ps[n], tr, i)
<1> DEFINE r   == Splice(op, ps)
           all == AllBring(op, ps, Len(ps))
<1>1. \A n \in 1 .. Len(ps) : ps[n].op = op => ps[n].kids \in Seq(ToSet(ps[n].kids))
  BY OperandsBrought
<1>2. IsSpliced(r, op, all)
  BY <1>1, SpliceIsSpliced
<1> HIDE DEF r
<1>3. Known(r)
  <2>1. CASE all = {r}
    BY <2>1, LanguageKnown
  <2>2. CASE r.op = op /\ r.kids \in Seq(all) /\ ToSet(r.kids) = all
    <3>1. Operands(r) = all
      BY <2>2, OperandsAre DEF ToSet
    <3>2. r.op \in Operators
      BY <2>2 DEF Operators, Multiples
    <3> HIDE DEF all
    <3> QED BY <2>2, <3>1, <3>2 DEF Known, WellFormed, all
  <2> QED BY <1>2, <2>1, <2>2 DEF IsSpliced
<1>4. ASSUME NEW tr, NEW i \in 1 .. Terminal(tr), Len(tr) \in Nat
      PROVE  Means(r, tr, i) = IF op = "And" THEN \A n \in 1 .. Len(ps) : Means(ps[n], tr, i)
                               ELSE \E n \in 1 .. Len(ps) : Means(ps[n], tr, i)
  <2>1. Means(r, tr, i) = Together(op, all, tr, i)
    BY <1>2, <1>4, SplicedMeans
  <2>2. ASSUME NEW n \in 1 .. Len(ps)
        PROVE  Means(ps[n], tr, i) = Together(op, Brings(op, ps[n]), tr, i)
    <3>1. Known(ps[n]) /\ Brings(op, ps[n]) \subseteq Language
      BY DEF AllBring
    <3> QED BY <1>4, <3>1, BringsMean
  <2>3. CASE op = "And"
    <3>1. Together(op, all, tr, i) = \A n \in 1 .. Len(ps) : Together(op, Brings(op, ps[n]), tr, i)
      BY <2>3 DEF Together, AllBring
    <3> QED BY <2>1, <2>2, <2>3, <3>1
  <2>4. CASE op = "Or"
    <3>1. Together(op, all, tr, i) = \E n \in 1 .. Len(ps) : Together(op, Brings(op, ps[n]), tr, i)
      BY <2>4 DEF Together, AllBring
    <3> QED BY <2>1, <2>2, <2>4, <3>1
  <2> QED BY <2>3, <2>4
<1> QED BY <1>3, <1>4 DEF r

\* What a formula of the language brings is in the language, and what was spliced
\* into one is, too.
LEMMA BringsInLanguage ==
  ASSUME NEW op \in {"And", "Or"}
  PROVE  /\ \A p \in Language : Brings(op, p) \subseteq Language
         /\ \A r \in Language : \A all : IsSpliced(r, op, all) => all \subseteq Language
<1>1. ASSUME NEW p \in Language PROVE Brings(op, p) \subseteq Language
  BY LanguageKnown, OperandsBrought DEF Known, Brings
<1>2. ASSUME NEW r \in Language, NEW all, IsSpliced(r, op, all) PROVE all \subseteq Language
  <2>1. CASE all = {r}
    BY <2>1
  <2>2. CASE r.op = op /\ ToSet(r.kids) = all
    BY <2>2, LanguageKnown, OperandsBrought DEF Known
  <2> QED BY <1>2, <2>1, <2>2 DEF IsSpliced
<1> QED BY <1>1, <1>2

\* Two operands.
LEMMA PairMeans ==
  ASSUME NEW op \in {"And", "Or"}, NEW p, NEW q, Known(p), Known(q),
         Brings(op, p) \cup Brings(op, q) \subseteq Language
  PROVE  /\ Known(Splice(op, <<p, q>>))
         /\ \A tr : \A i \in 1 .. Terminal(tr) : Len(tr) \in Nat =>
              Means(Splice(op, <<p, q>>), tr, i)
                = IF op = "And" THEN Means(p, tr, i) /\ Means(q, tr, i)
                  ELSE Means(p, tr, i) \/ Means(q, tr, i)
<1> DEFINE ps == <<p, q>>
<1>1. Len(ps) = 2 /\ Len(ps) \in Nat /\ ps[1] = p /\ ps[2] = q /\ \A n : n \in 1 .. 2 <=> n = 1 \/ n = 2
  OBVIOUS
<1> HIDE DEF ps
<1>2. \A n \in 1 .. Len(ps) : Known(ps[n])
  BY <1>1
<1>3. AllBring(op, ps, Len(ps)) \subseteq Language
  BY <1>1 DEF AllBring
<1>4. /\ Known(Splice(op, ps))
      /\ \A tr : \A i \in 1 .. Terminal(tr) : Len(tr) \in Nat =>
           Means(Splice(op, ps), tr, i)
             = IF op = "And" THEN \A n \in 1 .. Len(ps) : Means(ps[n], tr, i)
               ELSE \E n \in 1 .. Len(ps) : Means(ps[n], tr, i)
  BY <1>1, <1>2, <1>3, SpliceMeans
<1>5. /\ \A tr, i : (\A n \in 1 .. Len(ps) : Means(ps[n], tr, i)) = (Means(p, tr, i) /\ Means(q, tr, i))
      /\ \A tr, i : (\E n \in 1 .. Len(ps) : Means(ps[n], tr, i)) = (Means(p, tr, i) \/ Means(q, tr, i))
  BY <1>1
<1> QED BY <1>4, <1>5 DEF ps

\* What a formula of one operand means, given where the operand holds.
IsUnary(op, holds, kid, tr, i) ==
  /\ op = "Not" => holds = ~ kid[i]
  /\ op = "X" => holds = kid[IF IsTerminal(tr, i) THEN i ELSE i + 1]
  /\ op = "G" => holds = \A k \in i .. Len(tr) : kid[k]
  /\ op = "F" => holds = \E k \in i .. Len(tr) : kid[k]

\* Every formula of one operand means that.
LEMMA UnaryMeans ==
  ASSUME NEW g, NEW tr, NEW i, g.op \in UnaryOperators
  PROVE  IsUnary(g.op, Means(g, tr, i), HoldsOn(tr)[g.kid], tr, i)
<1> DEFINE val == [p \in Operands(g) |-> HoldsOn(tr)[p]]
<1>1. val[g.kid] = HoldsOn(tr)[g.kid]
  BY OperandsAre DEF UnaryOperators
<1>2. Means(g, tr, i) = Meaning(g, val, tr, i)
  BY DEF Means
<1> HIDE DEF val
<1> QED BY <1>1, <1>2 DEF Meaning, IsUnary

\* And so does one that is built.
LEMMA UnopMeans ==
  ASSUME NEW op \in UnaryOperators, NEW p, NEW tr, NEW i
  PROVE  IsUnary(op, Means(Unop(op, p), tr, i), HoldsOn(tr)[p], tr, i)
<1> DEFINE g == Unop(op, p)
<1>1. g.op = op /\ g.kid = p
  BY DEF Unop
<1> HIDE DEF g
<1>2. IsUnary(g.op, Means(g, tr, i), HoldsOn(tr)[g.kid], tr, i)
  BY <1>1, UnaryMeans
<1> QED BY <1>1, <1>2 DEF g

\* The meanings of W and M.
WeakHolds(p, q, rest, i)   == UntilHolds(p, q, rest, i) \/ \A k \in rest : p[k]
StrongHolds(p, q, rest, i) == ReleaseHolds(p, q, rest, i) /\ \E k \in rest : p[k] /\ q[k]

\* What a formula of two operands means, given where they hold.
IsBinary(op, holds, p, q, tr, i) ==
  LET rest == i .. Len(tr)
  IN /\ op = "U" => holds = UntilHolds(p, q, rest, i)
     /\ op = "W" => holds = WeakHolds(p, q, rest, i)
     /\ op = "R" => holds = ReleaseHolds(p, q, rest, i)
     /\ op = "M" => holds = StrongHolds(p, q, rest, i)
     /\ op = "Xor" => holds = (p[i] # q[i])
     /\ op = "Equiv" => holds = (p[i] = q[i])
     /\ op = "Implies" => holds = (p[i] => q[i])

\* Every formula of two operands means that.
LEMMA BinaryMeans ==
  ASSUME NEW g, NEW tr, NEW i, g.op \in BinaryOperators
  PROVE  IsBinary(g.op, Means(g, tr, i), HoldsOn(tr)[g.first], HoldsOn(tr)[g.second], tr, i)
<1> DEFINE val == [p \in Operands(g) |-> HoldsOn(tr)[p]]
<1>1. val[g.first] = HoldsOn(tr)[g.first] /\ val[g.second] = HoldsOn(tr)[g.second]
  BY OperandsAre DEF BinaryOperators
<1>2. Means(g, tr, i) = Meaning(g, val, tr, i)
  BY DEF Means
<1> HIDE DEF val
<1> QED BY <1>1, <1>2 DEF Meaning, WeakHolds, StrongHolds, IsBinary

\* And so does one that is built.
LEMMA BinopMeans ==
  ASSUME NEW op \in BinaryOperators, NEW p, NEW q, NEW tr, NEW i
  PROVE  IsBinary(op, Means(Binop(op, p, q), tr, i), HoldsOn(tr)[p], HoldsOn(tr)[q], tr, i)
<1> DEFINE g == Binop(op, p, q)
<1>1. g.op = op /\ g.first = p /\ g.second = q
  BY DEF Binop
<1> HIDE DEF g
<1>2. IsBinary(g.op, Means(g, tr, i), HoldsOn(tr)[g.first], HoldsOn(tr)[g.second], tr, i)
  BY <1>1, BinaryMeans
<1> QED BY <1>1, <1>2 DEF g

-----------------------------------------------------------------------------
(***************************************************************************)
(* Operators and their duals.                                              *)
(***************************************************************************)

\* The meanings of a formula and of its negation.
Opposite(p, np, tr) == \A k \in 1 .. Terminal(tr) : p[k] \in BOOLEAN /\ np[k] = ~ p[k]

\* R is the dual of U, and M that of W.
LEMMA LoopDuals ==
  ASSUME NEW tr, Len(tr) \in Nat, NEW i \in 1 .. Terminal(tr),
         NEW p, NEW q, NEW np, NEW nq, Opposite(p, np, tr), Opposite(q, nq, tr)
  PROVE  LET rest == i .. Len(tr)
         IN /\ ReleaseHolds(np, nq, rest, i) = ~ UntilHolds(p, q, rest, i)
            /\ StrongHolds(np, nq, rest, i) = ~ WeakHolds(p, q, rest, i)
<1> DEFINE rest == i .. Len(tr)
<1>1. \A k \in rest : np[k] = ~ p[k] /\ nq[k] = ~ q[k]
  BY DEF Opposite, Terminal
<1>2. \A k \in rest : \A j \in i .. k - 1 : j \in rest
  BY DEF Terminal
<1>3. ReleaseHolds(np, nq, rest, i) <=> ~ UntilHolds(p, q, rest, i)
  <2> HIDE DEF rest
  <2> QED BY <1>1, <1>2 DEF ReleaseHolds, UntilHolds
<1>4. ASSUME NEW k \in rest, ~ p[k]
      PROVE  \E least \in rest : ~ p[least] /\ \A j \in i .. least - 1 : p[j]
  <2> DEFINE T == {j \in rest : ~ p[j]}
  <2>1. T \subseteq Nat /\ k \in T
    BY <1>4 DEF Terminal
  <2>2. PICK least \in T : \A x \in T : least <= x
    <3> HIDE DEF T
    <3> QED BY <2>1, LeastNat
  <2>3. \A j \in i .. least - 1 : j \in rest /\ ~ (least <= j)
    BY <2>1, <1>2
  <2>4. \A j \in i .. least - 1 : p[j]
    BY <2>2, <2>3
  <2> QED BY <2>4
<1>5. StrongHolds(np, nq, rest, i) <=> ~ WeakHolds(p, q, rest, i)
  <2>1. ASSUME StrongHolds(np, nq, rest, i) PROVE ~ WeakHolds(p, q, rest, i)
    <3> HIDE DEF rest
    <3> QED BY <1>1, <1>3, <2>1 DEF StrongHolds, WeakHolds
  <2>2. ASSUME ~ WeakHolds(p, q, rest, i) PROVE StrongHolds(np, nq, rest, i)
    <3>1. ReleaseHolds(np, nq, rest, i) /\ \E k \in rest : ~ p[k]
      BY <1>3, <2>2 DEF WeakHolds
    <3>2. PICK least \in rest : ~ p[least] /\ \A j \in i .. least - 1 : p[j]
      BY <1>4, <3>1
    <3>3. ~ \E j \in i .. least - 1 : np[j]
      BY <1>1, <1>2, <3>2
    <3>4. nq[least]
      BY <3>1, <3>3 DEF ReleaseHolds
    <3>5. np[least]
      BY <1>1, <3>2
    <3> QED BY <3>1, <3>4, <3>5 DEF StrongHolds
  <2> QED BY <2>1, <2>2
<1> QED BY <1>3, <1>5 DEF ReleaseHolds, UntilHolds, StrongHolds, WeakHolds

-----------------------------------------------------------------------------
(***************************************************************************)
(* The normal form of a formula means what the formula does, and that of   *)
(* its negation the opposite.                                              *)
(***************************************************************************)

\* The two normal forms of a formula are in the language and mean the right thing.
FormsMean(f, tr) ==
  \A i \in 1 .. Terminal(tr) :
    /\ HoldsOn(tr)[NormalForms[f][FALSE]][i] = HoldsOn(tr)[f][i]
    /\ HoldsOn(tr)[NormalForms[f][TRUE]][i] = ~ HoldsOn(tr)[f][i]

\* The normal forms of what a formula is made of.
FormsOf(f) == [p \in Operands(f) |-> NormalForms[p]]

\* It is enough to look at the meaning of what NormalForm builds.
LEMMA FormsByMeaning ==
  ASSUME NEW f \in Language, NEW tr, Len(tr) \in Nat,
         \A i \in 1 .. Terminal(tr) :
           /\ Means(NormalForm(f, FormsOf(f), FALSE), tr, i) = Means(f, tr, i)
           /\ Means(NormalForm(f, FormsOf(f), TRUE), tr, i) = ~ Means(f, tr, i)
  PROVE  FormsMean(f, tr)
<1>1. /\ NormalForms[f][FALSE] = NormalForm(f, FormsOf(f), FALSE)
      /\ NormalForms[f][TRUE] = NormalForm(f, FormsOf(f), TRUE)
  BY NormalFormsDef DEF FormsOf
<1>2. NormalForms[f][FALSE] \in Language /\ NormalForms[f][TRUE] \in Language
  BY NormalFormsAssumption DEF NegativeNormalForm
<1> DEFINE pos == NormalForms[f][FALSE]
           neg == NormalForms[f][TRUE]
<1> HIDE DEF pos, neg
<1>3. ASSUME NEW i \in 1 .. Terminal(tr)
      PROVE  /\ HoldsOn(tr)[pos][i] = HoldsOn(tr)[f][i]
             /\ HoldsOn(tr)[neg][i] = ~ HoldsOn(tr)[f][i]
  <2>1. /\ Means(pos, tr, i) = Means(f, tr, i)
        /\ Means(neg, tr, i) = ~ Means(f, tr, i)
    BY <1>1 DEF pos, neg
  <2>2. pos \in Language /\ neg \in Language
    BY <1>2 DEF pos, neg
  <2>3. /\ Means(pos, tr, i) = HoldsOn(tr)[pos][i]
        /\ Means(neg, tr, i) = HoldsOn(tr)[neg][i]
        /\ Means(f, tr, i) = HoldsOn(tr)[f][i]
    BY <2>2, LanguageKnown
  <2> QED BY <2>1, <2>3
<1> QED BY <1>3 DEF FormsMean, pos, neg

\* What the constants mean.
LEMMA ConstantsMean ==
  ASSUME NEW g, NEW tr, NEW i
  PROVE  /\ g.op = "true" => Means(g, tr, i) = TRUE
         /\ g.op = "false" => Means(g, tr, i) = FALSE
BY DEF Means, Meaning

\* Constants, propositions and their negations.
LEMMA LeafForms ==
  ASSUME NEW f \in Language, NEW tr, Len(tr) \in Nat, f.op \in {"true", "false", "ap"}
  PROVE  FormsMean(f, tr)
<1> DEFINE form(neg) == NormalForm(f, FormsOf(f), neg)
<1>1. SUFFICES ASSUME NEW i \in 1 .. Terminal(tr)
               PROVE  /\ Means(form(FALSE), tr, i) = Means(f, tr, i)
                      /\ Means(form(TRUE), tr, i) = ~ Means(f, tr, i)
  <2> HIDE DEF form
  <2>1. \A i \in 1 .. Terminal(tr) : /\ Means(form(FALSE), tr, i) = Means(f, tr, i)
                                     /\ Means(form(TRUE), tr, i) = ~ Means(f, tr, i)
    BY <1>1
  <2> QED BY <2>1, FormsByMeaning DEF form
<1>2. CASE f.op = "true"
  <2>1. form(FALSE) = Const("true") /\ form(TRUE) = Const("false")
    BY <1>2 DEF NormalForm, Dual
  <2>2. Const("true").op = "true" /\ Const("false").op = "false"
    BY DEF Const
  <2> HIDE DEF form
  <2> QED BY <1>2, <2>1, <2>2, ConstantsMean
<1>3. CASE f.op = "false"
  <2>1. form(FALSE) = Const("false") /\ form(TRUE) = Const("true")
    BY <1>3 DEF NormalForm, Dual
  <2>2. Const("true").op = "true" /\ Const("false").op = "false"
    BY DEF Const
  <2> HIDE DEF form
  <2> QED BY <1>3, <2>1, <2>2, ConstantsMean
<1>4. CASE f.op = "ap"
  <2>1. form(FALSE) = f /\ form(TRUE) = Not(f)
    BY <1>4 DEF NormalForm
  <2>2. Means(f, tr, i) = ApHolds(f.name, tr, i)
    BY <1>4 DEF Means, Meaning
  <2>3. Means(f, tr, i) \in BOOLEAN
    BY <2>2 DEF ApHolds
  <2>4. Means(Not(f), tr, i) = ~ HoldsOn(tr)[f][i]
    <3>1. IsUnary("Not", Means(Not(f), tr, i), HoldsOn(tr)[f], tr, i)
      BY UnopMeans DEF Not, UnaryOperators
    <3> QED BY <3>1 DEF IsUnary
  <2>5. HoldsOn(tr)[f][i] = Means(f, tr, i)
    BY LanguageKnown
  <2> HIDE DEF form
  <2> QED BY <2>1, <2>3, <2>4, <2>5
<1> QED BY <1>2, <1>3, <1>4

\* Operators of one operand.
LEMMA UnaryForms ==
  ASSUME NEW f \in Language, NEW tr, Len(tr) \in Nat, f.op \in {"Not", "X", "G", "F"},
         \A p \in Operands(f) : FormsMean(p, tr)
  PROVE  FormsMean(f, tr)
<1> DEFINE form(neg) == NormalForm(f, FormsOf(f), neg)
           kid == HoldsOn(tr)[f.kid]
           pos == HoldsOn(tr)[NormalForms[f.kid][FALSE]]
           neg == HoldsOn(tr)[NormalForms[f.kid][TRUE]]
<1>1. SUFFICES ASSUME NEW i \in 1 .. Terminal(tr)
               PROVE  /\ Means(form(FALSE), tr, i) = Means(f, tr, i)
                      /\ Means(form(TRUE), tr, i) = ~ Means(f, tr, i)
  <2> HIDE DEF form
  <2>1. \A i \in 1 .. Terminal(tr) : /\ Means(form(FALSE), tr, i) = Means(f, tr, i)
                                     /\ Means(form(TRUE), tr, i) = ~ Means(f, tr, i)
    BY <1>1
  <2> QED BY <2>1, FormsByMeaning DEF form
<1>2. f.kid \in Operands(f) /\ f.kid \in Language /\ FormsMean(f.kid, tr)
  BY OperandsAre, OperandsInLanguage
<1>3. \A k \in 1 .. Terminal(tr) : kid[k] \in BOOLEAN
  BY <1>2, HoldsBoolean
<1>4. \A k \in 1 .. Terminal(tr) : pos[k] = kid[k] /\ neg[k] = ~ kid[k]
  BY <1>2 DEF FormsMean
<1>5. FormsOf(f)[f.kid] = NormalForms[f.kid]
  BY <1>2 DEF FormsOf
<1>6. /\ NormalForms[f.kid][FALSE] \in Language
      /\ NormalForms[f.kid][TRUE] \in Language
  BY <1>2, NormalFormsAssumption DEF NegativeNormalForm
<1>10. IsUnary(f.op, Means(f, tr, i), kid, tr, i)
  BY UnaryMeans DEF UnaryOperators
<1>11. ASSUME NEW op \in UnaryOperators
       PROVE  /\ IsUnary(op, Means(Unop(op, NormalForms[f.kid][FALSE]), tr, i), pos, tr, i)
              /\ IsUnary(op, Means(Unop(op, NormalForms[f.kid][TRUE]), tr, i), neg, tr, i)
  BY UnopMeans
<1>7. CASE f.op = "Not"
  <2>1. form(FALSE) = NormalForms[f.kid][TRUE] /\ form(TRUE) = NormalForms[f.kid][FALSE]
    BY <1>5, <1>7 DEF NormalForm
  <2>2. /\ Means(NormalForms[f.kid][TRUE], tr, i) = neg[i]
        /\ Means(NormalForms[f.kid][FALSE], tr, i) = pos[i]
    BY <1>6, LanguageKnown
  <2>3. Means(f, tr, i) = ~ kid[i]
    BY <1>7, <1>10 DEF IsUnary
  <2> HIDE DEF form, kid, pos, neg
  <2>4. kid[i] \in BOOLEAN /\ pos[i] = kid[i] /\ neg[i] = ~ kid[i]
    BY <1>3, <1>4
  <2> QED BY <2>1, <2>2, <2>3, <2>4
<1>8. CASE f.op = "X"
  <2> DEFINE next == IF IsTerminal(tr, i) THEN i ELSE i + 1
  <2>1. form(FALSE) = Unop("X", NormalForms[f.kid][FALSE]) /\ form(TRUE) = Unop("X", NormalForms[f.kid][TRUE])
    BY <1>5, <1>8 DEF NormalForm, Dual
  <2>2. Means(form(FALSE), tr, i) = pos[next] /\ Means(form(TRUE), tr, i) = neg[next]
    <3>1. "X" \in UnaryOperators
      BY DEF UnaryOperators
    <3> HIDE DEF form, kid, pos, neg
    <3> QED BY <1>11, <2>1, <3>1 DEF IsUnary
  <2>3. Means(f, tr, i) = kid[next]
    BY <1>8, <1>10 DEF IsUnary
  <2>4. next \in 1 .. Terminal(tr)
    BY DEF Terminal, IsTerminal
  <2> HIDE DEF form, kid, pos, neg, next
  <2> QED BY <1>4, <2>2, <2>3, <2>4
<1>9. CASE f.op \in {"G", "F"}
  <2> DEFINE rest == i .. Len(tr)
             all(h)  == \A k \in rest : h[k]
             some(h) == \E k \in rest : h[k]
  <2>1. /\ f.op = "G" => form(FALSE) = Unop("G", NormalForms[f.kid][FALSE])
                         /\ form(TRUE) = Unop("F", NormalForms[f.kid][TRUE])
        /\ f.op = "F" => form(FALSE) = Unop("F", NormalForms[f.kid][FALSE])
                         /\ form(TRUE) = Unop("G", NormalForms[f.kid][TRUE])
    BY <1>5, <1>9 DEF NormalForm, Dual
  <2>2. /\ Means(Unop("G", NormalForms[f.kid][FALSE]), tr, i) = all(pos)
        /\ Means(Unop("G", NormalForms[f.kid][TRUE]), tr, i) = all(neg)
        /\ Means(Unop("F", NormalForms[f.kid][FALSE]), tr, i) = some(pos)
        /\ Means(Unop("F", NormalForms[f.kid][TRUE]), tr, i) = some(neg)
    <3>1. "G" \in UnaryOperators /\ "F" \in UnaryOperators
      BY DEF UnaryOperators
    <3> HIDE DEF form, kid, pos, neg
    <3> QED BY <1>11, <3>1 DEF IsUnary
  <2>3. /\ f.op = "G" => Means(f, tr, i) = all(kid)
        /\ f.op = "F" => Means(f, tr, i) = some(kid)
    BY <1>9, <1>10 DEF IsUnary
  <2>4. \A k \in rest : k \in 1 .. Terminal(tr)
    BY DEF Terminal
  <2> HIDE DEF form, kid, pos, neg
  <2>5. all(pos) = all(kid) /\ some(pos) = some(kid)
    BY <1>4, <2>4
  <2>6. all(neg) = ~ some(kid) /\ some(neg) = ~ all(kid)
    BY <1>4, <2>4
  <2> HIDE DEF all, some
  <2> QED BY <1>9, <2>1, <2>2, <2>3, <2>5, <2>6
<1> QED BY <1>7, <1>8, <1>9

\* Where two formulas hold at the same positions.
SamePlaces(p, q, tr) == \A k \in 1 .. Terminal(tr) : p[k] = q[k]

\* The loops mean the same for operands that hold at the same positions.
LEMMA LoopsSame ==
  ASSUME NEW tr, Len(tr) \in Nat, NEW i \in 1 .. Terminal(tr),
         NEW p, NEW q, NEW r, NEW s, SamePlaces(p, r, tr), SamePlaces(q, s, tr)
  PROVE  LET rest == i .. Len(tr)
         IN /\ UntilHolds(p, q, rest, i) = UntilHolds(r, s, rest, i)
            /\ ReleaseHolds(p, q, rest, i) = ReleaseHolds(r, s, rest, i)
            /\ WeakHolds(p, q, rest, i) = WeakHolds(r, s, rest, i)
            /\ StrongHolds(p, q, rest, i) = StrongHolds(r, s, rest, i)
<1> DEFINE rest == i .. Len(tr)
<1>1. \A k \in rest : p[k] = r[k] /\ q[k] = s[k]
  BY DEF SamePlaces, Terminal
<1>2. \A k \in rest : \A j \in i .. k - 1 : j \in rest
  BY DEF Terminal
<1> HIDE DEF rest
<1>3. UntilHolds(p, q, rest, i) = UntilHolds(r, s, rest, i)
  BY <1>1, <1>2 DEF UntilHolds
<1>4. ReleaseHolds(p, q, rest, i) = ReleaseHolds(r, s, rest, i)
  BY <1>1, <1>2 DEF ReleaseHolds
<1>5. WeakHolds(p, q, rest, i) = WeakHolds(r, s, rest, i)
  BY <1>1, <1>3 DEF WeakHolds
<1>6. StrongHolds(p, q, rest, i) = StrongHolds(r, s, rest, i)
  BY <1>1, <1>4 DEF StrongHolds
<1> QED BY <1>3, <1>4, <1>5, <1>6 DEF rest

\* The forms of an operand hold where it does and where it does not.
LEMMA OperandForms ==
  ASSUME NEW tr, Len(tr) \in Nat, NEW p \in Language, FormsMean(p, tr)
  PROVE  LET h == HoldsOn(tr)
         IN /\ SamePlaces(h[NormalForms[p][FALSE]], h[p], tr)
            /\ Opposite(h[p], h[NormalForms[p][TRUE]], tr)
            /\ Opposite(h[NormalForms[p][TRUE]], h[p], tr)
<1> DEFINE h   == HoldsOn(tr)
           pos == NormalForms[p][FALSE]
           neg == NormalForms[p][TRUE]
<1>1. \A k \in 1 .. Terminal(tr) : h[p][k] \in BOOLEAN
  BY HoldsBoolean
<1>2. \A k \in 1 .. Terminal(tr) : h[pos][k] = h[p][k] /\ h[neg][k] = ~ h[p][k]
  BY DEF FormsMean
<1> HIDE DEF h, pos, neg
<1>3. SamePlaces(h[pos], h[p], tr)
  BY <1>2 DEF SamePlaces
<1>4. Opposite(h[p], h[neg], tr)
  BY <1>1, <1>2 DEF Opposite
<1>5. ASSUME NEW k \in 1 .. Terminal(tr) PROVE h[neg][k] \in BOOLEAN /\ h[p][k] = ~ h[neg][k]
  BY <1>1, <1>2
<1>6. Opposite(h[neg], h[p], tr)
  BY <1>5 DEF Opposite
<1> QED BY <1>3, <1>4, <1>6 DEF h, pos, neg

\* U, R, W and M.
LEMMA LoopForms ==
  ASSUME NEW f \in Language, NEW tr, Len(tr) \in Nat, f.op \in {"U", "R", "W", "M"},
         \A p \in Operands(f) : FormsMean(p, tr)
  PROVE  FormsMean(f, tr)
<1> DEFINE form(neg) == NormalForm(f, FormsOf(f), neg)
           First(neg)  == NormalForms[f.first][neg]
           Second(neg) == NormalForms[f.second][neg]
           p  == HoldsOn(tr)[f.first]
           q  == HoldsOn(tr)[f.second]
           pp == HoldsOn(tr)[First(FALSE)]
           pq == HoldsOn(tr)[Second(FALSE)]
           np == HoldsOn(tr)[First(TRUE)]
           nq == HoldsOn(tr)[Second(TRUE)]
<1>1. SUFFICES ASSUME NEW i \in 1 .. Terminal(tr)
               PROVE  /\ Means(form(FALSE), tr, i) = Means(f, tr, i)
                      /\ Means(form(TRUE), tr, i) = ~ Means(f, tr, i)
  <2> HIDE DEF form
  <2>1. \A i \in 1 .. Terminal(tr) : /\ Means(form(FALSE), tr, i) = Means(f, tr, i)
                                     /\ Means(form(TRUE), tr, i) = ~ Means(f, tr, i)
    BY <1>1
  <2> QED BY <2>1, FormsByMeaning DEF form
<1> DEFINE rest == i .. Len(tr)
<1>2. {f.first, f.second} \subseteq Operands(f) /\ f.first \in Language /\ f.second \in Language
  BY OperandsAre, OperandsInLanguage
<1>3. FormsMean(f.first, tr) /\ FormsMean(f.second, tr)
  BY <1>2
<1>4. SamePlaces(pp, p, tr) /\ Opposite(p, np, tr) /\ Opposite(np, p, tr)
  BY <1>2, <1>3, OperandForms
<1>5. SamePlaces(pq, q, tr) /\ Opposite(q, nq, tr) /\ Opposite(nq, q, tr)
  BY <1>2, <1>3, OperandForms
<1>6. FormsOf(f)[f.first] = NormalForms[f.first] /\ FormsOf(f)[f.second] = NormalForms[f.second]
  BY <1>2 DEF FormsOf
<1>7. /\ form(FALSE) = Binop(f.op, First(FALSE), Second(FALSE))
      /\ form(TRUE) = Binop(Dual(f.op), First(TRUE), Second(TRUE))
  BY <1>6 DEF NormalForm
<1>8. f.op \in BinaryOperators /\ Dual(f.op) \in BinaryOperators
  BY DEF BinaryOperators, Dual
<1>9. /\ IsBinary(f.op, Means(f, tr, i), p, q, tr, i)
      /\ IsBinary(f.op, Means(form(FALSE), tr, i), pp, pq, tr, i)
      /\ IsBinary(Dual(f.op), Means(form(TRUE), tr, i), np, nq, tr, i)
  BY <1>7, <1>8, BinaryMeans, BinopMeans
<1> HIDE DEF form, p, q, pp, pq, np, nq
<1>10. /\ UntilHolds(pp, pq, rest, i) = UntilHolds(p, q, rest, i)
       /\ ReleaseHolds(pp, pq, rest, i) = ReleaseHolds(p, q, rest, i)
       /\ WeakHolds(pp, pq, rest, i) = WeakHolds(p, q, rest, i)
       /\ StrongHolds(pp, pq, rest, i) = StrongHolds(p, q, rest, i)
  BY <1>4, <1>5, LoopsSame
<1>11. /\ ReleaseHolds(np, nq, rest, i) = ~ UntilHolds(p, q, rest, i)
       /\ StrongHolds(np, nq, rest, i) = ~ WeakHolds(p, q, rest, i)
  BY <1>4, <1>5, LoopDuals
<1>12. /\ ReleaseHolds(p, q, rest, i) = ~ UntilHolds(np, nq, rest, i)
       /\ StrongHolds(p, q, rest, i) = ~ WeakHolds(np, nq, rest, i)
  BY <1>4, <1>5, LoopDuals
<1>13. UntilHolds(np, nq, rest, i) \in BOOLEAN /\ WeakHolds(np, nq, rest, i) \in BOOLEAN
  BY DEF UntilHolds, WeakHolds
<1>14. /\ UntilHolds(np, nq, rest, i) = ~ ReleaseHolds(p, q, rest, i)
       /\ WeakHolds(np, nq, rest, i) = ~ StrongHolds(p, q, rest, i)
  BY <1>12, <1>13
<1>15. CASE f.op = "U"
  <2>1. Dual(f.op) = "R"
    BY <1>15 DEF Dual
  <2>2. /\ Means(f, tr, i) = UntilHolds(p, q, rest, i)
        /\ Means(form(FALSE), tr, i) = UntilHolds(pp, pq, rest, i)
        /\ Means(form(TRUE), tr, i) = ReleaseHolds(np, nq, rest, i)
    BY <1>9, <1>15, <2>1 DEF IsBinary
  <2> HIDE DEF rest
  <2> QED BY <1>10, <1>11, <2>2
<1>16. CASE f.op = "R"
  <2>1. Dual(f.op) = "U"
    BY <1>16 DEF Dual
  <2>2. /\ Means(f, tr, i) = ReleaseHolds(p, q, rest, i)
        /\ Means(form(FALSE), tr, i) = ReleaseHolds(pp, pq, rest, i)
        /\ Means(form(TRUE), tr, i) = UntilHolds(np, nq, rest, i)
    BY <1>9, <1>16, <2>1 DEF IsBinary
  <2> HIDE DEF rest
  <2> QED BY <1>10, <1>14, <2>2
<1>17. CASE f.op = "W"
  <2>1. Dual(f.op) = "M"
    BY <1>17 DEF Dual
  <2>2. /\ Means(f, tr, i) = WeakHolds(p, q, rest, i)
        /\ Means(form(FALSE), tr, i) = WeakHolds(pp, pq, rest, i)
        /\ Means(form(TRUE), tr, i) = StrongHolds(np, nq, rest, i)
    BY <1>9, <1>17, <2>1 DEF IsBinary
  <2> HIDE DEF rest
  <2> QED BY <1>10, <1>11, <2>2
<1>18. CASE f.op = "M"
  <2>1. Dual(f.op) = "W"
    BY <1>18 DEF Dual
  <2>2. /\ Means(f, tr, i) = StrongHolds(p, q, rest, i)
        /\ Means(form(FALSE), tr, i) = StrongHolds(pp, pq, rest, i)
        /\ Means(form(TRUE), tr, i) = WeakHolds(np, nq, rest, i)
    BY <1>9, <1>18, <2>1 DEF IsBinary
  <2> HIDE DEF rest
  <2> QED BY <1>10, <1>14, <2>2
<1> QED BY <1>15, <1>16, <1>17, <1>18

\* Both and Either of two formulas.
LEMMA BothMeans ==
  ASSUME NEW p, NEW q, Known(p), Known(q), Brings("And", p) \cup Brings("And", q) \subseteq Language,
         NEW tr, Len(tr) \in Nat, NEW i \in 1 .. Terminal(tr)
  PROVE  Means(Both(p, q), tr, i) = (Means(p, tr, i) /\ Means(q, tr, i))
BY PairMeans DEF Both

\* The same for Either.
LEMMA EitherMeans ==
  ASSUME NEW p, NEW q, Known(p), Known(q), Brings("Or", p) \cup Brings("Or", q) \subseteq Language,
         NEW tr, Len(tr) \in Nat, NEW i \in 1 .. Terminal(tr)
  PROVE  Means(Either(p, q), tr, i) = (Means(p, tr, i) \/ Means(q, tr, i))
<1>1. Means(Splice("Or", <<p, q>>), tr, i)
        = IF "Or" = "And" THEN Means(p, tr, i) /\ Means(q, tr, i)
          ELSE Means(p, tr, i) \/ Means(q, tr, i)
  BY PairMeans
<1> QED BY <1>1 DEF Either

\* What is spliced into a formula of the language is in it.
LEMMA PairBrings ==
  ASSUME NEW op \in {"And", "Or"}, NEW p, NEW q, Known(p), Known(q),
         Splice(op, <<p, q>>) \in Language
  PROVE  Brings(op, p) \cup Brings(op, q) \subseteq Language
<1> DEFINE ps == <<p, q>>
<1>1. Len(ps) = 2 /\ Len(ps) \in Nat /\ ps[1] = p /\ ps[2] = q
  OBVIOUS
<1>2. p.op = op => p.kids \in Seq(ToSet(p.kids))
  BY OperandsBrought
<1>3. q.op = op => q.kids \in Seq(ToSet(q.kids))
  BY OperandsBrought
<1> HIDE DEF ps
<1>4. \A n \in 1 .. Len(ps) : ps[n].op = op => ps[n].kids \in Seq(ToSet(ps[n].kids))
  <2> SUFFICES ASSUME NEW n \in 1 .. Len(ps)
               PROVE  ps[n].op = op => ps[n].kids \in Seq(ToSet(ps[n].kids))
    OBVIOUS
  <2>1. n = 1 \/ n = 2
    BY <1>1
  <2> QED BY <1>1, <1>2, <1>3, <2>1
<1>5. IsSpliced(Splice(op, ps), op, AllBring(op, ps, Len(ps)))
  BY <1>1, <1>4, SpliceIsSpliced
<1>6. AllBring(op, ps, Len(ps)) \subseteq Language
  BY <1>5, BringsInLanguage DEF ps
<1>7. Brings(op, ps[1]) \subseteq AllBring(op, ps, 2) /\ Brings(op, ps[2]) \subseteq AllBring(op, ps, 2)
  BY DEF AllBring
<1> QED BY <1>1, <1>6, <1>7

\* A disjunction of two conjunctions.
LEMMA EitherBothMeans ==
  ASSUME NEW a \in Language, NEW b \in Language, NEW c \in Language, NEW d \in Language,
         Either(Both(a, b), Both(c, d)) \in Language,
         NEW tr, Len(tr) \in Nat, NEW i \in 1 .. Terminal(tr)
  PROVE  LET h == HoldsOn(tr)
         IN Means(Either(Both(a, b), Both(c, d)), tr, i)
              = ((h[a][i] /\ h[b][i]) \/ (h[c][i] /\ h[d][i]))
<1> DEFINE p == Both(a, b)
           q == Both(c, d)
<1>1. /\ Known(a) /\ Known(b) /\ Known(c) /\ Known(d)
      /\ Brings("And", a) \cup Brings("And", b) \subseteq Language
      /\ Brings("And", c) \cup Brings("And", d) \subseteq Language
  BY LanguageKnown, BringsInLanguage
<1>2. Known(p) /\ Known(q)
  BY <1>1, PairMeans DEF Both
<1>3. /\ Means(p, tr, i) = (Means(a, tr, i) /\ Means(b, tr, i))
      /\ Means(q, tr, i) = (Means(c, tr, i) /\ Means(d, tr, i))
  BY <1>1, BothMeans
<1>4. /\ Means(a, tr, i) = HoldsOn(tr)[a][i] /\ Means(b, tr, i) = HoldsOn(tr)[b][i]
      /\ Means(c, tr, i) = HoldsOn(tr)[c][i] /\ Means(d, tr, i) = HoldsOn(tr)[d][i]
  BY LanguageKnown
<1> HIDE DEF p, q
<1>5. Brings("Or", p) \cup Brings("Or", q) \subseteq Language
  BY <1>2, PairBrings DEF Either, p, q
<1>6. Means(Either(p, q), tr, i) = (Means(p, tr, i) \/ Means(q, tr, i))
  BY <1>2, <1>5, EitherMeans
<1> QED BY <1>3, <1>4, <1>6 DEF p, q

\* Xor, Equiv and Implies, which the normal form does without.
LEMMA DerivedForms ==
  ASSUME NEW f \in Language, NEW tr, Len(tr) \in Nat, f.op \in {"Xor", "Equiv", "Implies"},
         \A p \in Operands(f) : FormsMean(p, tr)
  PROVE  FormsMean(f, tr)
<1> DEFINE form(neg) == NormalForm(f, FormsOf(f), neg)
           a  == NormalForms[f.first][FALSE]
           na == NormalForms[f.first][TRUE]
           b  == NormalForms[f.second][FALSE]
           nb == NormalForms[f.second][TRUE]
           differ == Either(Both(a, nb), Both(na, b))
           agree  == Either(Both(a, b), Both(na, nb))
           h == HoldsOn(tr)
<1>1. SUFFICES ASSUME NEW i \in 1 .. Terminal(tr)
               PROVE  /\ Means(form(FALSE), tr, i) = Means(f, tr, i)
                      /\ Means(form(TRUE), tr, i) = ~ Means(f, tr, i)
  <2> HIDE DEF form
  <2>1. \A i \in 1 .. Terminal(tr) : /\ Means(form(FALSE), tr, i) = Means(f, tr, i)
                                     /\ Means(form(TRUE), tr, i) = ~ Means(f, tr, i)
    BY <1>1
  <2> QED BY <2>1, FormsByMeaning DEF form
<1> DEFINE x == h[f.first][i]
           y == h[f.second][i]
<1>2. {f.first, f.second} \subseteq Operands(f) /\ f.first \in Language /\ f.second \in Language
  BY OperandsAre, OperandsInLanguage
<1>3. FormsMean(f.first, tr) /\ FormsMean(f.second, tr) /\ x \in BOOLEAN /\ y \in BOOLEAN
  BY <1>2, HoldsBoolean
<1>4. h[a][i] = x /\ h[na][i] = ~ x /\ h[b][i] = y /\ h[nb][i] = ~ y
  BY <1>3 DEF FormsMean
<1>5. a \in Language /\ na \in Language /\ b \in Language /\ nb \in Language
  BY <1>2, NormalFormsAssumption DEF NegativeNormalForm
<1>6. FormsOf(f)[f.first] = NormalForms[f.first] /\ FormsOf(f)[f.second] = NormalForms[f.second]
  BY <1>2 DEF FormsOf
<1>7. form(FALSE) \in Language /\ form(TRUE) \in Language
  BY NormalFormsDef, NormalFormsAssumption DEF NegativeNormalForm, FormsOf
<1>8. IsBinary(f.op, Means(f, tr, i), h[f.first], h[f.second], tr, i)
  BY BinaryMeans DEF BinaryOperators
<1>9. /\ f.op = "Implies" => form(FALSE) = Either(na, b) /\ form(TRUE) = Both(a, nb)
      /\ f.op = "Xor" => form(FALSE) = differ /\ form(TRUE) = agree
      /\ f.op = "Equiv" => form(FALSE) = agree /\ form(TRUE) = differ
  BY <1>6 DEF NormalForm
<1> HIDE DEF form, a, na, b, nb, h
<1>10. CASE f.op = "Implies"
  <2>1. /\ Known(a) /\ Known(na) /\ Known(b) /\ Known(nb)
        /\ Brings("Or", na) \cup Brings("Or", b) \subseteq Language
        /\ Brings("And", a) \cup Brings("And", nb) \subseteq Language
    BY <1>5, LanguageKnown, BringsInLanguage
  <2>2. Means(Either(na, b), tr, i) = (Means(na, tr, i) \/ Means(b, tr, i))
    BY <2>1, EitherMeans
  <2>3. Means(Both(a, nb), tr, i) = (Means(a, tr, i) /\ Means(nb, tr, i))
    BY <2>1, BothMeans
  <2>4. /\ Means(a, tr, i) = x /\ Means(na, tr, i) = ~ x
        /\ Means(b, tr, i) = y /\ Means(nb, tr, i) = ~ y
    BY <1>4, <1>5, LanguageKnown DEF h
  <2>5. Means(f, tr, i) = (x => y)
    BY <1>8, <1>10 DEF IsBinary
  <2> HIDE DEF x, y
  <2> QED BY <1>3, <1>9, <1>10, <2>2, <2>3, <2>4, <2>5
<1>11. CASE f.op \in {"Xor", "Equiv"}
  <2>1. differ \in Language /\ agree \in Language
    BY <1>7, <1>9, <1>11
  <2>2. Means(differ, tr, i) = ((h[a][i] /\ h[nb][i]) \/ (h[na][i] /\ h[b][i]))
    BY <1>5, <2>1, EitherBothMeans DEF h
  <2>3. Means(agree, tr, i) = ((h[a][i] /\ h[b][i]) \/ (h[na][i] /\ h[nb][i]))
    BY <1>5, <2>1, EitherBothMeans DEF h
  <2>4. /\ f.op = "Xor" => Means(f, tr, i) = (x # y)
        /\ f.op = "Equiv" => Means(f, tr, i) = (x = y)
    BY <1>8, <1>11 DEF IsBinary
  <2> HIDE DEF x, y, differ, agree
  <2>5. Means(differ, tr, i) = (x # y) /\ Means(agree, tr, i) = (x = y)
    BY <1>3, <1>4, <2>2, <2>3
  <2> QED BY <1>3, <1>9, <1>11, <2>4, <2>5
<1> QED BY <1>10, <1>11

\* And and Or.
LEMMA MultipleForms ==
  ASSUME NEW f \in Language, NEW tr, Len(tr) \in Nat, f.op \in {"And", "Or"},
         \A p \in Operands(f) : FormsMean(p, tr)
  PROVE  FormsMean(f, tr)
<1> DEFINE form(neg) == NormalForm(f, FormsOf(f), neg)
           Kid(n)    == f.kids[n]
           Kids(neg) == [n \in DOMAIN f.kids |-> NormalForms[Kid(n)][neg]]
           last      == Len(f.kids)
           h         == HoldsOn(tr)
<1>1. SUFFICES ASSUME NEW i \in 1 .. Terminal(tr)
               PROVE  /\ Means(form(FALSE), tr, i) = Means(f, tr, i)
                      /\ Means(form(TRUE), tr, i) = ~ Means(f, tr, i)
  <2> HIDE DEF form
  <2>1. \A i \in 1 .. Terminal(tr) : /\ Means(form(FALSE), tr, i) = Means(f, tr, i)
                                     /\ Means(form(TRUE), tr, i) = ~ Means(f, tr, i)
    BY <1>1
  <2> QED BY <2>1, FormsByMeaning DEF form
<1>2. f.kids \in Seq(Operands(f))
  BY LevelsAssumption DEF WellFormed, Multiples
<1>3. last \in Nat /\ DOMAIN f.kids = 1 .. last
  BY <1>2
<1>4. \A n \in 1 .. last : Kid(n) \in Operands(f) /\ Kid(n) \in Language
  BY <1>2, OperandsInLanguage
<1>5. \A n \in 1 .. last : h[Kid(n)][i] \in BOOLEAN
  BY <1>4, HoldsBoolean
<1>6. \A n \in 1 .. last : FormsOf(f)[Kid(n)] = NormalForms[Kid(n)]
  BY <1>4 DEF FormsOf
<1>7. \A neg \in BOOLEAN :
        Kids(neg) = [n \in DOMAIN f.kids |-> FormsOf(f)[f.kids[n]][neg]]
  BY <1>3, <1>6
<1>8. /\ form(FALSE) = Splice(f.op, Kids(FALSE))
      /\ form(TRUE) = Splice(Dual(f.op), Kids(TRUE))
  BY <1>7 DEF NormalForm
<1>9. \A neg \in BOOLEAN : /\ Len(Kids(neg)) = last
                           /\ \A n \in 1 .. last : Kids(neg)[n] = NormalForms[Kid(n)][neg]
  BY <1>3
<1>10. \A neg \in BOOLEAN : \A n \in 1 .. last : NormalForms[Kid(n)][neg] \in Language
  BY <1>4, NormalFormsAssumption DEF NegativeNormalForm
<1>11. \A n \in 1 .. last : /\ h[NormalForms[Kid(n)][FALSE]][i] = h[Kid(n)][i]
                            /\ h[NormalForms[Kid(n)][TRUE]][i] = ~ h[Kid(n)][i]
  BY <1>4 DEF FormsMean
<1> HIDE DEF form, Kids, h, last
<1>12. ASSUME NEW op \in {"And", "Or"}, NEW neg \in BOOLEAN
       PROVE  Means(Splice(op, Kids(neg)), tr, i)
                = IF op = "And" THEN \A n \in 1 .. last : h[NormalForms[Kid(n)][neg]][i]
                  ELSE \E n \in 1 .. last : h[NormalForms[Kid(n)][neg]][i]
  <2> DEFINE ps == Kids(neg)
  <2>1. /\ Len(ps) = last /\ Len(ps) \in Nat
        /\ \A n \in 1 .. Len(ps) : ps[n] \in Language /\ ps[n] = NormalForms[Kid(n)][neg]
    BY <1>3, <1>9, <1>10
  <2> HIDE DEF ps
  <2>2. \A n \in 1 .. Len(ps) : Known(ps[n]) /\ Means(ps[n], tr, i) = h[ps[n]][i]
    BY <2>1, LanguageKnown DEF h
  <2>3. AllBring(op, ps, Len(ps)) \subseteq Language
    BY <2>1, BringsInLanguage DEF AllBring
  <2>4. Means(Splice(op, ps), tr, i)
          = IF op = "And" THEN \A n \in 1 .. Len(ps) : Means(ps[n], tr, i)
            ELSE \E n \in 1 .. Len(ps) : Means(ps[n], tr, i)
    BY <2>1, <2>2, <2>3, SpliceMeans
  <2> QED BY <2>1, <2>2, <2>4 DEF ps
<1> HIDE DEF Kid
<1>13. /\ f.op = "And" => Means(f, tr, i) = \A n \in 1 .. last : h[Kid(n)][i]
       /\ f.op = "Or" => Means(f, tr, i) = \E n \in 1 .. last : h[Kid(n)][i]
  <2>1. ToSet(f.kids) = {Kid(n) : n \in 1 .. last}
    BY <1>3 DEF ToSet, Kid
  <2> QED BY <2>1, MultipleMeans DEF h
<1>14. CASE f.op = "And"
  <2>1. Dual(f.op) = "Or"
    BY <1>14 DEF Dual
  <2>2. Means(form(FALSE), tr, i) = \A n \in 1 .. last : h[NormalForms[Kid(n)][FALSE]][i]
    BY <1>8, <1>12, <1>14
  <2>3. Means(form(TRUE), tr, i) = \E n \in 1 .. last : h[NormalForms[Kid(n)][TRUE]][i]
    BY <1>8, <1>12, <2>1
  <2> QED BY <1>5, <1>11, <1>13, <1>14, <2>2, <2>3
<1>15. CASE f.op = "Or"
  <2>1. Dual(f.op) = "And"
    BY <1>15 DEF Dual
  <2>2. Means(form(FALSE), tr, i) = \E n \in 1 .. last : h[NormalForms[Kid(n)][FALSE]][i]
    BY <1>8, <1>12, <1>15
  <2>3. Means(form(TRUE), tr, i) = \A n \in 1 .. last : h[NormalForms[Kid(n)][TRUE]][i]
    BY <1>8, <1>12, <2>1
  <2> QED BY <1>5, <1>11, <1>13, <1>15, <2>2, <2>3
<1> QED BY <1>14, <1>15

\* The normal form of any formula of the language holds at a position of any trace
\* where the formula does, and the normal form of its negation where it does not.
THEOREM NormalFormsKeepMeaning ==
  ASSUME NEW f \in Language, NEW tr, Len(tr) \in Nat, NEW i \in 1 .. Terminal(tr)
  PROVE  /\ Holds(NegativeNormalForm(f, FALSE), tr, i) = Holds(f, tr, i)
         /\ Holds(NegativeNormalForm(f, TRUE), tr, i) = ~ Holds(f, tr, i)
<1> DEFINE S == {g \in Language : FormsMean(g, tr)}
<1>1. ASSUME NEW g \in Language, Operands(g) \subseteq S PROVE g \in S
  <2>1. \A p \in Operands(g) : FormsMean(p, tr)
    BY <1>1
  <2>2. \/ g.op \in {"true", "false", "ap"}
        \/ g.op \in {"Not", "X", "G", "F"}
        \/ g.op \in {"U", "R", "W", "M"}
        \/ g.op \in {"Xor", "Equiv", "Implies"}
        \/ g.op \in {"And", "Or"}
    BY LevelsAssumption
       DEF WellFormed, Operators, Constants, UnaryOperators, BinaryOperators, Multiples
  <2>3. FormsMean(g, tr)
    BY <2>1, <2>2, LeafForms, UnaryForms, LoopForms, DerivedForms, MultipleForms
  <2> QED BY <2>3
<1>2. Language \subseteq S
  <2> HIDE DEF S
  <2> QED BY <1>1, LanguageInduction
<1>3. FormsMean(f, tr)
  BY <1>2
<1> QED BY <1>3 DEF FormsMean, Holds, NegativeNormalForm

-----------------------------------------------------------------------------
(***************************************************************************)
(* Statistics.                                                             *)
(***************************************************************************)

\* What every statistic of the checker is: the support counted as potential, and
\* all of the potential supported where the formula is satisfied.
Good(s) == s \in Stats /\ s.sup <= s.pot /\ (s.sat => s.sup = s.pot)

\* Settings under which a loop stops early on an unsatisfied operand only.
Exact(c) == c.compute_full_stats \/ ~ ConfidenceZero(c)

\* Two good statistics combined are one, satisfied where both are.
LEMMA CombineGood ==
  ASSUME NEW p, NEW q, Good(p), Good(q)
  PROVE  Good(Combine(p, q)) /\ (Combine(p, q).sat <=> p.sat /\ q.sat)
BY DEF Good, Combine, Stat, Stats

\* The statistics that are written out in the checks.
LEMMA ConstantsGood ==
  /\ Good(VacuouslyTrue) /\ VacuouslyTrue.sat
  /\ Good(unmet) /\ ~ unmet.sat
  /\ Good(Stat(FALSE, 0, 0)) /\ ~ Stat(FALSE, 0, 0).sat
  /\ Good(Stat(TRUE, 1, 1)) /\ Stat(TRUE, 1, 1).sat
BY DEF Good, VacuouslyTrue, unmet, Stat, Stats

\* A statistic a loop stops at is not satisfied.
LEMMA StopsUnsatisfied ==
  ASSUME NEW c, NEW s, Exact(c), ShortCircuiting(c, s)
  PROVE  ~ s.sat
BY DEF Exact, ShortCircuiting

\* A good statistic is satisfied exactly when its confidence is one.
LEMMA ConfidenceOfGood ==
  ASSUME NEW s, Good(s)
  PROVE  s.sat <=> AtMost(Ratio(1, 1), Confidence(s))
BY DEF Good, Stats, AtMost, Ratio, Confidence

-----------------------------------------------------------------------------
(***************************************************************************)
(* The loops.                                                              *)
(***************************************************************************)

\* The position s is the first of stops, or the terminal one where there is none.
IsFirst(s, tr, i, stops) == /\ s \in i .. Terminal(tr)
                            /\ ~ IsTerminal(tr, s) => s \in stops
                            /\ \A k \in i .. s - 1 : k \notin stops

\* FirstStop is that position.
LEMMA FirstStopIsFirst ==
  ASSUME NEW tr, Len(tr) \in Nat, NEW i \in 1 .. Terminal(tr),
         NEW stops \in SUBSET (i .. Len(tr))
  PROVE  IsFirst(FirstStop(tr, stops), tr, i, stops)
<1> DEFINE T == stops \cup {Terminal(tr)}
<1>1. T \subseteq Nat /\ Terminal(tr) \in T
  <2>1. Terminal(tr) \in Nat /\ i \in Nat
    BY DEF Terminal
  <2>2. i .. Len(tr) \subseteq Nat
    BY <2>1
  <2> QED BY <2>1, <2>2
<1>2. \E least \in T : \A x \in T : least <= x
  <2> HIDE DEF T
  <2> QED BY <1>1, LeastNat
<1>3. FirstStop(tr, stops) \in T /\ \A x \in T : FirstStop(tr, stops) <= x
  BY <1>2 DEF FirstStop, Min
<1> DEFINE s == FirstStop(tr, stops)
<1> HIDE DEF s
<1>4. s \in T /\ (\A x \in T : s <= x)
  BY <1>3 DEF s
<1>5. s \in i .. Terminal(tr) /\ (~ IsTerminal(tr, s) => s \in stops)
  BY <1>4 DEF Terminal, IsTerminal
<1>6. \A k \in i .. s - 1 : k \notin stops
  BY <1>4, <1>5 DEF Terminal
<1> QED BY <1>5, <1>6 DEF IsFirst, s

\* The function that Collected is defined with.
IsFold(fold, stats, i, k) ==
  fold = [n \in i .. k |->
            IF n = i THEN VacuouslyTrue ELSE Combine(stats[n - 1], fold[n - 1])]

\* There is one, and Collected is its last value.
LEMMA CollectedDef ==
  ASSUME NEW stats, NEW i \in Nat, NEW k \in Nat, i <= k
  PROVE  \E fold : IsFold(fold, stats, i, k) /\ Collected(stats, i, k) = fold[k]
<1> DEFINE N == {n \in Nat : \E fold : IsFold(fold, stats, i, i + n)}
<1>1. 0 \in N
  <2>1. IsFold([n \in i .. i + 0 |-> VacuouslyTrue], stats, i, i + 0)
    BY DEF IsFold
  <2> QED BY <2>1
<1>2. ASSUME NEW m \in Nat, m \in N PROVE m + 1 \in N
  <2>1. PICK p : IsFold(p, stats, i, i + m)
    BY <1>2
  <2> DEFINE Body(f, n) == IF n = i THEN VacuouslyTrue ELSE Combine(stats[n - 1], f[n - 1])
             q == [n \in i .. i + (m + 1) |-> Body(p, n)]
  <2>2. \A n \in i .. i + m : p[n] = Body(p, n)
    BY <2>1 DEF IsFold
  <2>3. \A n \in i .. i + m : q[n] = p[n]
    BY <2>2
  <2> HIDE DEF q
  <2>4. \A n \in i .. i + (m + 1) : Body(q, n) = Body(p, n)
    <3> SUFFICES ASSUME NEW n \in i .. i + (m + 1) PROVE Body(q, n) = Body(p, n)
      OBVIOUS
    <3>1. n = i \/ n - 1 \in i .. i + m
      OBVIOUS
    <3> QED BY <3>1, <2>3
  <2>5. q = [n \in i .. i + (m + 1) |-> Body(q, n)]
    <3> HIDE DEF Body
    <3> QED BY <2>4 DEF q
  <2>6. IsFold(q, stats, i, i + (m + 1))
    BY <2>5 DEF IsFold
  <2> QED BY <2>6
<1>3. k - i \in N
  <2> HIDE DEF N
  <2>1. Nat \subseteq N
    BY <1>1, <1>2, NatSetInduction
  <2> QED BY <2>1
<1>4. i + (k - i) = k
  OBVIOUS
<1>5. PICK p : IsFold(p, stats, i, k)
  BY <1>3, <1>4
<1> QED BY <1>5 DEF Collected, IsFold

\* A loop over good statistics has a good one, satisfied if all of them are.
LEMMA CollectedGood ==
  ASSUME NEW stats, NEW i \in Nat, NEW k \in Nat, i <= k,
         \A j \in i .. k - 1 : Good(stats[j])
  PROVE  /\ Good(Collected(stats, i, k))
         /\ Collected(stats, i, k).sat <=> \A j \in i .. k - 1 : stats[j].sat
<1>1. PICK fold : IsFold(fold, stats, i, k) /\ Collected(stats, i, k) = fold[k]
  BY CollectedDef
<1>2. fold[i] = VacuouslyTrue
  BY <1>1 DEF IsFold
<1>3. \A n \in i .. k - 1 : fold[n + 1] = Combine(stats[n], fold[n])
  BY <1>1 DEF IsFold
<1> DEFINE Right(n) == Good(fold[n]) /\ (fold[n].sat <=> \A j \in i .. n - 1 : stats[j].sat)
           N == {n \in Nat : i + n <= k => Right(i + n)}
<1>4. 0 \in N
  BY <1>2, ConstantsGood
<1>5. ASSUME NEW n \in Nat, n \in N PROVE n + 1 \in N
  <2> SUFFICES ASSUME i + (n + 1) <= k PROVE Right(i + (n + 1))
    OBVIOUS
  <2> DEFINE m == i + n
  <2>1. m \in i .. k - 1 /\ m \in Nat /\ i + (n + 1) = m + 1
    OBVIOUS
  <2>2. Right(m)
    BY <1>5, <2>1
  <2> HIDE DEF m
  <2>3. fold[m + 1] = Combine(stats[m], fold[m])
    BY <1>3, <2>1
  <2>4. /\ Good(fold[m + 1])
        /\ fold[m + 1].sat <=> stats[m].sat /\ fold[m].sat
    BY <2>1, <2>2, <2>3, CombineGood
  <2>5. \A j : j \in i .. (m + 1) - 1 <=> j \in i .. m - 1 \/ j = m
    BY <2>1
  <2> QED BY <2>1, <2>2, <2>4, <2>5
<1>6. k - i \in N
  <2> HIDE DEF N
  <2>1. Nat \subseteq N
    BY <1>4, <1>5, NatSetInduction
  <2> QED BY <2>1
<1>7. i + (k - i) = k
  OBVIOUS
<1>8. Right(k)
  BY <1>6, <1>7
<1> QED BY <1>1, <1>8

\* It depends on the statistics it goes over alone.
LEMMA CollectedSame ==
  ASSUME NEW s, NEW t, NEW i \in Nat, NEW k \in Nat, i <= k,
         \A j \in i .. k - 1 : s[j] = t[j]
  PROVE  Collected(s, i, k) = Collected(t, i, k)
<1>1. PICK f : IsFold(f, s, i, k) /\ Collected(s, i, k) = f[k]
  BY CollectedDef
<1>2. PICK g : IsFold(g, t, i, k) /\ Collected(t, i, k) = g[k]
  BY CollectedDef
<1> DEFINE N == {n \in Nat : i + n <= k => f[i + n] = g[i + n]}
<1>3. 0 \in N
  BY <1>1, <1>2 DEF IsFold
<1>4. ASSUME NEW n \in Nat, n \in N PROVE n + 1 \in N
  <2> SUFFICES ASSUME i + (n + 1) <= k PROVE f[i + (n + 1)] = g[i + (n + 1)]
    OBVIOUS
  <2> DEFINE m == i + n
  <2>1. m + 1 \in i .. k /\ m \in i .. k - 1 /\ m + 1 # i /\ (m + 1) - 1 = m /\ i + (n + 1) = m + 1
    OBVIOUS
  <2>2. f[m] = g[m]
    BY <1>4, <2>1
  <2> HIDE DEF m
  <2>3. f[m + 1] = Combine(s[m], f[m]) /\ g[m + 1] = Combine(t[m], g[m])
    BY <1>1, <1>2, <2>1 DEF IsFold
  <2> QED BY <2>1, <2>2, <2>3
<1>5. k - i \in N
  <2> HIDE DEF N
  <2>1. Nat \subseteq N
    BY <1>3, <1>4, NatSetInduction
  <2> QED BY <2>1
<1>6. i + (k - i) = k
  OBVIOUS
<1> QED BY <1>1, <1>2, <1>5, <1>6

\* Every statistic a loop goes over is good.
AllGood(stats, tr) == \A k \in 1 .. Terminal(tr) : Good(stats[k])

\* What is known where a loop over stats has stopped at s.
HasRun(stats, tr, i, s, stops) ==
  LET ret == Collected(stats, i, s)
  IN /\ s \in 1 .. Terminal(tr)
     /\ IsTerminal(tr, s) => i .. s - 1 = i .. Len(tr) /\ \A k \in i .. Len(tr) : k \notin stops
     /\ ~ IsTerminal(tr, s) => s \in i .. Len(tr) /\ s \in stops
     /\ \A j \in i .. s - 1 : j \in i .. Len(tr) /\ j \notin stops
     /\ Good(stats[s]) /\ Good(ret)
     /\ ret.sat <=> \A j \in i .. s - 1 : stats[j].sat

\* A loop over good statistics stops at the first of its stops.
LEMMA LoopRuns ==
  ASSUME NEW stats, NEW tr, Len(tr) \in Nat, AllGood(stats, tr),
         NEW i \in 1 .. Terminal(tr), NEW stops \in SUBSET (i .. Len(tr))
  PROVE  HasRun(stats, tr, i, FirstStop(tr, stops), stops)
<1> DEFINE s == FirstStop(tr, stops)
<1>1. IsFirst(s, tr, i, stops)
  BY FirstStopIsFirst
<1> HIDE DEF s
<1>2. i \in Nat /\ s \in Nat /\ i <= s /\ s \in 1 .. Terminal(tr) /\ Terminal(tr) = Len(tr) + 1
  BY <1>1 DEF IsFirst, Terminal
<1>3. \A j \in i .. s - 1 : j \in i .. Len(tr) /\ j \in 1 .. Terminal(tr) /\ j \notin stops
  BY <1>1, <1>2 DEF IsFirst
<1>4. ASSUME IsTerminal(tr, s)
      PROVE  i .. s - 1 = i .. Len(tr) /\ \A k \in i .. Len(tr) : k \notin stops
  <2>1. s - 1 = Len(tr)
    BY <1>2, <1>4 DEF IsTerminal
  <2> QED BY <2>1, <1>3
<1>5. ~ IsTerminal(tr, s) => s \in i .. Len(tr) /\ s \in stops
  BY <1>1, <1>2 DEF IsFirst, IsTerminal
<1>6. Good(stats[s]) /\ \A j \in i .. s - 1 : Good(stats[j])
  BY <1>2, <1>3 DEF AllGood
<1>7. /\ Good(Collected(stats, i, s))
      /\ Collected(stats, i, s).sat <=> \A j \in i .. s - 1 : stats[j].sat
  BY <1>2, <1>6, CollectedGood
<1> QED BY <1>2, <1>3, <1>4, <1>5, <1>6, <1>7 DEF HasRun, s

\* The loop of G is satisfied where the operand is at every event.
LEMMA GloballyRight ==
  ASSUME NEW c, NEW kid, NEW tr, Len(tr) \in Nat, AllGood(kid, tr), NEW i \in 1 .. Terminal(tr)
  PROVE  /\ Good(GloballyCheck(c, kid, tr, i))
         /\ Exact(c) => (GloballyCheck(c, kid, tr, i).sat <=> \A k \in i .. Len(tr) : kid[k].sat)
<1> DEFINE stops == {k \in i .. Len(tr) : ShortCircuiting(c, kid[k])}
           stop  == FirstStop(tr, stops)
           ret   == Collected(kid, i, stop)
<1>1. HasRun(kid, tr, i, stop, stops)
  BY LoopRuns
<1> HIDE DEF stop
<1>2. GloballyCheck(c, kid, tr, i) = IF IsTerminal(tr, stop) THEN ret ELSE Combine(kid[stop], ret)
  BY DEF GloballyCheck, stop
<1>3. CASE IsTerminal(tr, stop)
  BY <1>1, <1>2, <1>3 DEF HasRun
<1>4. CASE ~ IsTerminal(tr, stop)
  <2>1. stop \in i .. Len(tr) /\ ShortCircuiting(c, kid[stop]) /\ Good(kid[stop]) /\ Good(ret)
    BY <1>1, <1>4 DEF HasRun
  <2>2. /\ Good(Combine(kid[stop], ret))
        /\ Combine(kid[stop], ret).sat <=> kid[stop].sat /\ ret.sat
    BY <2>1, CombineGood
  <2>3. Exact(c) => ~ kid[stop].sat
    BY <2>1, StopsUnsatisfied
  <2> QED BY <1>2, <1>4, <2>1, <2>2, <2>3
<1> QED BY <1>3, <1>4

\* The loop of F is satisfied where the operand is at some event.
LEMMA FinallyRight ==
  ASSUME NEW kid, NEW tr, Len(tr) \in Nat, AllGood(kid, tr), NEW i \in 1 .. Terminal(tr)
  PROVE  /\ Good(FinallyCheck(kid, tr, i))
         /\ FinallyCheck(kid, tr, i).sat <=> \E k \in i .. Len(tr) : kid[k].sat
<1> DEFINE stops == {k \in i .. Len(tr) : kid[k].sat}
           stop  == FirstStop(tr, stops)
<1>1. HasRun(kid, tr, i, stop, stops)
  BY LoopRuns
<1> HIDE DEF stop
<1>2. FinallyCheck(kid, tr, i) = IF IsTerminal(tr, stop) THEN unmet ELSE kid[stop]
  BY DEF FinallyCheck, stop
<1>3. CASE IsTerminal(tr, stop)
  BY <1>1, <1>2, <1>3, ConstantsGood DEF HasRun
<1>4. CASE ~ IsTerminal(tr, stop)
  BY <1>1, <1>2, <1>4 DEF HasRun
<1> QED BY <1>3, <1>4

\* The meanings of U and R over the verdicts of the operands.
SatUntil(first, second, tr, i) ==
  \E k \in i .. Len(tr) : second[k].sat /\ \A j \in i .. k - 1 : first[j].sat
SatRelease(first, second, tr, i) ==
  \A k \in i .. Len(tr) : second[k].sat \/ \E j \in i .. k - 1 : first[j].sat

\* Where the loop of U and W has stopped at an event, its second operand decides.
LEMMA UntilStopped ==
  ASSUME NEW c, NEW first, NEW second, NEW tr, NEW i \in Nat, NEW s \in i .. Len(tr),
         Len(tr) \in Nat,
         Exact(c), second[s].sat \/ ShortCircuiting(c, first[s]),
         \A j \in i .. s - 1 : ~ second[j].sat
  PROVE  /\ SatUntil(first, second, tr, i)
              <=> second[s].sat /\ \A j \in i .. s - 1 : first[j].sat
         /\ ~ second[s].sat => ~ first[s].sat
<1>1. ~ second[s].sat => ~ first[s].sat
  BY StopsUnsatisfied
<1>2. ASSUME SatUntil(first, second, tr, i)
      PROVE  second[s].sat /\ \A j \in i .. s - 1 : first[j].sat
  <2>1. PICK k \in i .. Len(tr) : second[k].sat /\ \A j \in i .. k - 1 : first[j].sat
    BY <1>2 DEF SatUntil
  <2>2. k \notin i .. s - 1
    BY <2>1
  <2>3. k >= s /\ \A j \in i .. s - 1 : j \in i .. k - 1
    BY <2>2
  <2>4. s \in i .. k - 1 \/ s = k
    BY <2>3
  <2> QED BY <1>1, <2>1, <2>3, <2>4
<1>3. ASSUME second[s].sat, \A j \in i .. s - 1 : first[j].sat
      PROVE  SatUntil(first, second, tr, i)
  BY <1>3 DEF SatUntil
<1> QED BY <1>1, <1>2, <1>3

\* The loop of U.
LEMMA UntilRight ==
  ASSUME NEW c, NEW first, NEW second, NEW tr, Len(tr) \in Nat, NEW i \in 1 .. Terminal(tr),
         AllGood(first, tr), AllGood(second, tr)
  PROVE  /\ Good(UntilCheck(c, first, second, tr, i))
         /\ Exact(c) => (UntilCheck(c, first, second, tr, i).sat <=> SatUntil(first, second, tr, i))
<1> DEFINE stops == {k \in i .. Len(tr) : second[k].sat \/ ShortCircuiting(c, first[k])}
           stop  == FirstStop(tr, stops)
           ret   == Collected(first, i, stop)
           last  == IF second[stop].sat THEN second[stop] ELSE first[stop]
<1>1. HasRun(first, tr, i, stop, stops)
  BY LoopRuns
<1> HIDE DEF stop
<1>2. UntilCheck(c, first, second, tr, i)
        = IF IsTerminal(tr, stop) THEN Combine(ret, unmet) ELSE Combine(last, ret)
  BY DEF UntilCheck, UntilStop, stop
<1>3. CASE IsTerminal(tr, stop)
  <2>1. \A k \in i .. Len(tr) : ~ second[k].sat
    BY <1>1, <1>3 DEF HasRun
  <2>2. ~ SatUntil(first, second, tr, i)
    BY <2>1 DEF SatUntil
  <2>3. Good(Combine(ret, unmet)) /\ ~ Combine(ret, unmet).sat
    BY <1>1, CombineGood, ConstantsGood DEF HasRun
  <2> QED BY <1>2, <1>3, <2>2, <2>3
<1>4. CASE ~ IsTerminal(tr, stop)
  <2>1. /\ stop \in i .. Len(tr) /\ stop \in stops /\ Good(first[stop]) /\ Good(ret)
        /\ ret.sat <=> \A j \in i .. stop - 1 : first[j].sat
    BY <1>1, <1>4 DEF HasRun
  <2>2. Good(second[stop])
    BY <2>1 DEF AllGood, Terminal
  <2>3. Good(Combine(last, ret)) /\ (Combine(last, ret).sat <=> last.sat /\ ret.sat)
    BY <2>1, <2>2, CombineGood
  <2>4. \A j \in i .. stop - 1 : ~ second[j].sat
    BY <1>1 DEF HasRun
  <2>5. ASSUME Exact(c)
        PROVE  /\ SatUntil(first, second, tr, i)
                    <=> second[stop].sat /\ \A j \in i .. stop - 1 : first[j].sat
               /\ ~ second[stop].sat => ~ first[stop].sat
    <3>1. second[stop].sat \/ ShortCircuiting(c, first[stop])
      BY <2>1
    <3>2. i \in Nat
      BY DEF Terminal
    <3> HIDE DEF ret, last, stops
    <3> QED BY <2>1, <2>4, <2>5, <3>1, <3>2, UntilStopped
  <2>6. UntilCheck(c, first, second, tr, i) = Combine(last, ret)
    BY <1>2, <1>4
  <2>7. CASE second[stop].sat
    <3>1. last.sat
      BY <2>7
    <3> QED BY <2>1, <2>3, <2>5, <2>6, <2>7, <3>1
  <2>8. CASE ~ second[stop].sat
    <3>1. last = first[stop]
      BY <2>8
    <3> QED BY <2>3, <2>5, <2>6, <2>8, <3>1
  <2> QED BY <2>7, <2>8
<1> QED BY <1>3, <1>4

\* The loop of W, which holds as well where the first operand always does.
LEMMA WeakUntilRight ==
  ASSUME NEW c, NEW first, NEW second, NEW tr, Len(tr) \in Nat, NEW i \in 1 .. Terminal(tr),
         AllGood(first, tr), AllGood(second, tr)
  PROVE  /\ Good(WeakUntilCheck(c, first, second, tr, i))
         /\ Exact(c) => (WeakUntilCheck(c, first, second, tr, i).sat
                           <=> \/ SatUntil(first, second, tr, i)
                               \/ \A k \in i .. Len(tr) : first[k].sat)
<1> DEFINE stops == {k \in i .. Len(tr) : second[k].sat \/ ShortCircuiting(c, first[k])}
           stop  == FirstStop(tr, stops)
           ret   == Collected(first, i, stop)
           both  == Combine(first[stop], ret)
<1>1. HasRun(first, tr, i, stop, stops)
  BY LoopRuns
<1> HIDE DEF stop
<1>2. WeakUntilCheck(c, first, second, tr, i)
        = IF IsTerminal(tr, stop) \/ second[stop].sat THEN ret ELSE both
  BY DEF WeakUntilCheck, UntilStop, stop
<1>3. CASE IsTerminal(tr, stop)
  <2>1. \A k \in i .. Len(tr) : ~ second[k].sat
    BY <1>1, <1>3 DEF HasRun
  <2>2. ~ SatUntil(first, second, tr, i)
    BY <2>1 DEF SatUntil
  <2>3. Good(ret) /\ (ret.sat <=> \A k \in i .. Len(tr) : first[k].sat)
    BY <1>1, <1>3 DEF HasRun
  <2> QED BY <1>2, <1>3, <2>2, <2>3
<1>4. CASE ~ IsTerminal(tr, stop)
  <2>1. /\ stop \in i .. Len(tr) /\ stop \in stops /\ Good(first[stop]) /\ Good(ret)
        /\ ret.sat <=> \A j \in i .. stop - 1 : first[j].sat
    BY <1>1, <1>4 DEF HasRun
  <2>2. Good(both) /\ (both.sat <=> first[stop].sat /\ ret.sat)
    BY <2>1, CombineGood
  <2>3. \A j \in i .. stop - 1 : ~ second[j].sat /\ j \in i .. Len(tr)
    BY <1>1 DEF HasRun
  <2>4. ASSUME Exact(c)
        PROVE  /\ SatUntil(first, second, tr, i)
                    <=> second[stop].sat /\ \A j \in i .. stop - 1 : first[j].sat
               /\ ~ second[stop].sat => ~ first[stop].sat
    <3>1. second[stop].sat \/ ShortCircuiting(c, first[stop])
      BY <2>1
    <3>2. i \in Nat
      BY DEF Terminal
    <3> HIDE DEF ret, both, stops
    <3> QED BY <2>1, <2>3, <2>4, <3>1, <3>2, UntilStopped
  <2>5. CASE second[stop].sat
    <3>1. WeakUntilCheck(c, first, second, tr, i) = ret
      BY <1>2, <2>5
    <3>2. Exact(c) => (ret.sat <=> SatUntil(first, second, tr, i))
      BY <2>1, <2>4, <2>5
    <3>3. (\A k \in i .. Len(tr) : first[k].sat) => ret.sat
      BY <2>1, <2>3
    <3> QED BY <2>1, <3>1, <3>2, <3>3
  <2>6. CASE ~ second[stop].sat
    <3>1. WeakUntilCheck(c, first, second, tr, i) = both
      BY <1>2, <1>4, <2>6
    <3> QED BY <2>1, <2>2, <2>4, <2>6, <3>1
  <2> QED BY <2>5, <2>6
<1> QED BY <1>3, <1>4

\* Where the loop of R and M has stopped at an event, all before it decide with it.
LEMMA ReleaseStopped ==
  ASSUME NEW c, NEW first, NEW second, NEW tr, NEW i \in Nat, NEW s \in i .. Len(tr),
         Len(tr) \in Nat,
         Exact(c), ShortCircuiting(c, second[s]) \/ first[s].sat,
         \A j \in i .. s - 1 : ~ first[j].sat
  PROVE  /\ SatRelease(first, second, tr, i)
              <=> second[s].sat /\ \A j \in i .. s - 1 : second[j].sat
         /\ ~ first[s].sat => ~ second[s].sat
<1>1. ~ first[s].sat => ~ second[s].sat
  BY StopsUnsatisfied
<1>2. ASSUME SatRelease(first, second, tr, i), NEW k \in i .. s
      PROVE  second[k].sat
  <2>1. k \in i .. Len(tr) /\ \A j \in i .. k - 1 : j \in i .. s - 1
    OBVIOUS
  <2> QED BY <1>2, <2>1 DEF SatRelease
<1>3. s \in i .. s /\ \A j \in i .. s - 1 : j \in i .. s
  OBVIOUS
<1>4. ASSUME second[s].sat, \A j \in i .. s - 1 : second[j].sat
      PROVE  SatRelease(first, second, tr, i)
  <2> SUFFICES ASSUME NEW k \in i .. Len(tr), ~ second[k].sat
               PROVE  \E j \in i .. k - 1 : first[j].sat
    BY DEF SatRelease
  <2>1. k # s /\ k \notin i .. s - 1
    BY <1>4
  <2>2. s \in i .. k - 1
    BY <2>1
  <2>3. first[s].sat
    BY <1>1, <1>4
  <2> QED BY <2>2, <2>3
<1> QED BY <1>1, <1>2, <1>3, <1>4

\* The loop of R.
LEMMA ReleaseRight ==
  ASSUME NEW c, NEW first, NEW second, NEW tr, Len(tr) \in Nat, NEW i \in 1 .. Terminal(tr),
         AllGood(first, tr), AllGood(second, tr)
  PROVE  /\ Good(ReleaseCheck(c, first, second, tr, i))
         /\ Exact(c) => (ReleaseCheck(c, first, second, tr, i).sat
                           <=> SatRelease(first, second, tr, i))
<1> DEFINE stops == {k \in i .. Len(tr) : ShortCircuiting(c, second[k]) \/ first[k].sat}
           stop  == FirstStop(tr, stops)
           ret   == Collected(second, i, stop)
           both  == Combine(second[stop], ret)
<1>1. HasRun(second, tr, i, stop, stops)
  BY LoopRuns
<1> HIDE DEF stop
<1>2. ReleaseCheck(c, first, second, tr, i) = IF IsTerminal(tr, stop) THEN ret ELSE both
  BY DEF ReleaseCheck, ReleaseStop, stop
<1>3. CASE IsTerminal(tr, stop)
  <2>1. \A k \in i .. Len(tr) : ~ first[k].sat
    BY <1>1, <1>3 DEF HasRun
  <2>2. \A k \in i .. Len(tr) : \A j \in i .. k - 1 : j \in i .. Len(tr)
    OBVIOUS
  <2>3. SatRelease(first, second, tr, i) <=> \A k \in i .. Len(tr) : second[k].sat
    BY <2>1, <2>2 DEF SatRelease
  <2>4. Good(ret) /\ (ret.sat <=> \A k \in i .. Len(tr) : second[k].sat)
    BY <1>1, <1>3 DEF HasRun
  <2> QED BY <1>2, <1>3, <2>3, <2>4
<1>4. CASE ~ IsTerminal(tr, stop)
  <2>1. /\ stop \in i .. Len(tr) /\ stop \in stops /\ Good(second[stop]) /\ Good(ret)
        /\ ret.sat <=> \A j \in i .. stop - 1 : second[j].sat
    BY <1>1, <1>4 DEF HasRun
  <2>2. Good(both) /\ (both.sat <=> second[stop].sat /\ ret.sat)
    BY <2>1, CombineGood
  <2>3. \A j \in i .. stop - 1 : ~ first[j].sat
    BY <1>1 DEF HasRun
  <2>4. ASSUME Exact(c)
        PROVE  SatRelease(first, second, tr, i)
                 <=> second[stop].sat /\ \A j \in i .. stop - 1 : second[j].sat
    BY <2>1, <2>3, <2>4, ReleaseStopped
  <2> QED BY <1>2, <1>4, <2>1, <2>2, <2>4
<1> QED BY <1>3, <1>4

\* The loop of M, which asks as well for an event where both operands hold.
LEMMA StrongReleaseRight ==
  ASSUME NEW c, NEW first, NEW second, NEW tr, Len(tr) \in Nat, NEW i \in 1 .. Terminal(tr),
         AllGood(first, tr), AllGood(second, tr)
  PROVE  /\ Good(StrongReleaseCheck(c, first, second, tr, i))
         /\ Exact(c) => (StrongReleaseCheck(c, first, second, tr, i).sat
                           <=> /\ SatRelease(first, second, tr, i)
                               /\ \E k \in i .. Len(tr) : first[k].sat /\ second[k].sat)
<1> DEFINE stops == {k \in i .. Len(tr) : ShortCircuiting(c, second[k]) \/ first[k].sat}
           stop  == FirstStop(tr, stops)
           ret   == Collected(second, i, stop)
           pair  == Combine(second[stop], first[stop])
<1>1. HasRun(second, tr, i, stop, stops)
  BY LoopRuns
<1> HIDE DEF stop
<1>2. StrongReleaseCheck(c, first, second, tr, i)
        = IF IsTerminal(tr, stop) THEN Combine(ret, unmet)
          ELSE IF ShortCircuiting(c, second[stop]) THEN Combine(second[stop], ret)
          ELSE Combine(pair, ret)
  BY DEF StrongReleaseCheck, ReleaseStop, stop
<1>3. CASE IsTerminal(tr, stop)
  <2>1. \A k \in i .. Len(tr) : ~ first[k].sat
    BY <1>1, <1>3 DEF HasRun
  <2>2. Good(Combine(ret, unmet)) /\ ~ Combine(ret, unmet).sat
    BY <1>1, CombineGood, ConstantsGood DEF HasRun
  <2> QED BY <1>2, <1>3, <2>1, <2>2
<1>4. CASE ~ IsTerminal(tr, stop)
  <2>1. /\ stop \in i .. Len(tr) /\ stop \in stops /\ Good(second[stop]) /\ Good(ret)
        /\ ret.sat <=> \A j \in i .. stop - 1 : second[j].sat
    BY <1>1, <1>4 DEF HasRun
  <2>2. Good(first[stop])
    BY <2>1 DEF AllGood, Terminal
  <2>3. /\ Good(Combine(second[stop], ret))
        /\ Combine(second[stop], ret).sat <=> second[stop].sat /\ ret.sat
    BY <2>1, CombineGood
  <2>4. Good(pair) /\ (pair.sat <=> second[stop].sat /\ first[stop].sat)
    BY <2>1, <2>2, CombineGood
  <2>5. Good(Combine(pair, ret)) /\ (Combine(pair, ret).sat <=> pair.sat /\ ret.sat)
    BY <2>1, <2>4, CombineGood
  <2>6. \A j \in i .. stop - 1 : ~ first[j].sat
    BY <1>1 DEF HasRun
  <2>7. ASSUME Exact(c)
        PROVE  /\ SatRelease(first, second, tr, i)
                    <=> second[stop].sat /\ \A j \in i .. stop - 1 : second[j].sat
               /\ ~ first[stop].sat => ~ second[stop].sat
               /\ ShortCircuiting(c, second[stop]) => ~ second[stop].sat
    BY <2>1, <2>6, <2>7, ReleaseStopped, StopsUnsatisfied
  <2>8. ASSUME Exact(c), ShortCircuiting(c, second[stop])
        PROVE  ~ Combine(second[stop], ret).sat /\ ~ SatRelease(first, second, tr, i)
    BY <2>3, <2>7, <2>8
  <2>9. ASSUME ~ ShortCircuiting(c, second[stop]) PROVE first[stop].sat
    BY <2>1, <2>9
  <2> QED BY <1>2, <1>4, <2>1, <2>3, <2>4, <2>5, <2>7, <2>8, <2>9
<1> QED BY <1>3, <1>4

-----------------------------------------------------------------------------
(***************************************************************************)
(* The checks of And and Or.                                               *)
(***************************************************************************)

\* The function that AndCheck is defined with.
IsAndFold(fold, kids) ==
  fold = [n \in 0 .. Len(kids) |->
            IF n = 0 THEN VacuouslyTrue ELSE Combine(fold[n - 1], kids[n])]

\* There is one.
LEMMA AndFoldExists ==
  ASSUME NEW kids, Len(kids) \in Nat
  PROVE  \E fold : IsAndFold(fold, kids)
<1> DEFINE Body(f, n) == IF n = 0 THEN VacuouslyTrue ELSE Combine(f[n - 1], kids[n])
           IsOn(f, m) == f = [n \in 0 .. m |-> Body(f, n)]
           N == {m \in Nat : \E f : IsOn(f, m)}
<1>1. 0 \in N
  <2>1. IsOn([n \in 0 .. 0 |-> VacuouslyTrue], 0)
    OBVIOUS
  <2> QED BY <2>1
<1>2. ASSUME NEW m \in Nat, m \in N PROVE m + 1 \in N
  <2>1. PICK p : IsOn(p, m)
    BY <1>2
  <2> DEFINE q == [n \in 0 .. m + 1 |-> Body(p, n)]
  <2>2. \A n \in 0 .. m : p[n] = Body(p, n)
    BY <2>1
  <2>3. \A n \in 0 .. m : q[n] = p[n]
    BY <2>2
  <2> HIDE DEF q
  <2>4. \A n \in 0 .. m + 1 : Body(q, n) = Body(p, n)
    <3> SUFFICES ASSUME NEW n \in 0 .. m + 1 PROVE Body(q, n) = Body(p, n)
      OBVIOUS
    <3>1. n = 0 \/ n - 1 \in 0 .. m
      OBVIOUS
    <3> QED BY <3>1, <2>3
  <2>5. IsOn(q, m + 1)
    <3> HIDE DEF Body
    <3> QED BY <2>4 DEF q
  <2> QED BY <2>5
<1>3. Len(kids) \in N
  <2> HIDE DEF N
  <2> QED BY <1>1, <1>2, NatSetInduction
<1> QED BY <1>3 DEF IsAndFold

\* And is satisfied where all of its operands are, whichever it stops at.
LEMMA AndRight ==
  ASSUME NEW c, NEW kids, Len(kids) \in Nat, \A n \in 1 .. Len(kids) : Good(kids[n])
  PROVE  /\ Good(AndCheck(c, kids))
         /\ Exact(c) => (AndCheck(c, kids).sat <=> \A n \in 1 .. Len(kids) : kids[n].sat)
<1> DEFINE fold == CHOOSE fold : IsAndFold(fold, kids)
           stops == {n \in 1 .. Len(kids) : ShortCircuiting(c, fold[n])}
           T    == stops \cup {Len(kids)}
           last == Min(T)
<1>1. IsAndFold(fold, kids)
  BY AndFoldExists
<1>2. AndCheck(c, kids) = fold[last]
  BY DEF AndCheck, IsAndFold
<1> HIDE DEF fold
<1>3. fold[0] = VacuouslyTrue
  BY <1>1 DEF IsAndFold
<1>4. \A n \in 0 .. Len(kids) - 1 : fold[n + 1] = Combine(fold[n], kids[n + 1])
  BY <1>1 DEF IsAndFold
<1> DEFINE Right(n) == Good(fold[n]) /\ (fold[n].sat <=> \A j \in 1 .. n : kids[j].sat)
           N == {n \in Nat : n <= Len(kids) => Right(n)}
<1>5. 0 \in N
  BY <1>3, ConstantsGood
<1>6. ASSUME NEW n \in Nat, n \in N PROVE n + 1 \in N
  <2> SUFFICES ASSUME n + 1 <= Len(kids) PROVE Right(n + 1)
    OBVIOUS
  <2>1. n \in 0 .. Len(kids) - 1 /\ n + 1 \in 1 .. Len(kids)
    OBVIOUS
  <2>2. Right(n) /\ Good(kids[n + 1])
    BY <1>6, <2>1
  <2>3. fold[n + 1] = Combine(fold[n], kids[n + 1])
    BY <1>4, <2>1
  <2>4. Good(fold[n + 1]) /\ (fold[n + 1].sat <=> fold[n].sat /\ kids[n + 1].sat)
    BY <2>2, <2>3, CombineGood
  <2>5. \A j : j \in 1 .. n + 1 <=> j \in 1 .. n \/ j = n + 1
    OBVIOUS
  <2> QED BY <2>2, <2>4, <2>5
<1>7. Nat \subseteq N
  <2> HIDE DEF N
  <2> QED BY <1>5, <1>6, NatSetInduction
<1>8. last \in T
  <2>1. T \subseteq Nat /\ Len(kids) \in T
    OBVIOUS
  <2> HIDE DEF T
  <2>2. \E least \in T : \A x \in T : least <= x
    BY <2>1, LeastNat
  <2> QED BY <2>2 DEF Min
<1> HIDE DEF last
<1>9. last \in Nat /\ last <= Len(kids)
  BY <1>8
<1>10. Right(last)
  BY <1>7, <1>9
<1>11. CASE last = Len(kids)
  BY <1>2, <1>10, <1>11
<1>12. CASE last # Len(kids)
  <2>1. last \in 1 .. Len(kids) /\ ShortCircuiting(c, fold[last])
    BY <1>8, <1>12
  <2>2. Exact(c) => ~ fold[last].sat
    BY <2>1, StopsUnsatisfied
  <2>3. \A j \in 1 .. last : j \in 1 .. Len(kids)
    BY <1>9
  <2> QED BY <1>2, <1>10, <2>2, <2>3
<1> QED BY <1>11, <1>12

\* Or prefers a satisfied operand to one that is not.
LEMMA BetterDecides ==
  ASSUME NEW p, NEW q, Good(p), Good(q)
  PROVE  /\ ~ p.sat /\ q.sat => Better(p, q)
         /\ p.sat /\ ~ q.sat => ~ Better(p, q)
<1>1. /\ p.sup \in Nat /\ p.pot \in Nat /\ p.sat \in BOOLEAN
      /\ q.sup \in Nat /\ q.pot \in Nat /\ q.sat \in BOOLEAN
      /\ p.sup <= p.pot /\ q.sup <= q.pot
  BY DEF Good, Stats
<1>2. ASSUME ~ p.sat, q.sat PROVE Better(p, q)
  <2>1. Confidence(q) = Ratio(1, 1)
    BY <1>2 DEF Good, Confidence
  <2>2. CASE p.sup = p.pot
    BY <1>2, <2>1, <2>2 DEF Better, Below, Confidence, Ratio
  <2>3. CASE p.sup < p.pot
    BY <1>1, <2>1, <2>3 DEF Better, Below, Confidence, Ratio
  <2> QED BY <1>1, <2>2, <2>3
<1>3. ASSUME p.sat, ~ q.sat PROVE ~ Better(p, q)
  <2>1. Confidence(p) = Ratio(1, 1)
    BY <1>3 DEF Good, Confidence
  <2>2. CASE q.sup = q.pot
    BY <1>3, <2>1, <2>2 DEF Better, Below, Equal, Confidence, Ratio
  <2>3. CASE q.sup < q.pot
    BY <1>1, <2>1, <2>3 DEF Better, Below, Equal, Confidence, Ratio
  <2> QED BY <1>1, <2>2, <2>3
<1> QED BY <1>2, <1>3

\* One of the first n operands is satisfied.
SomeSat(kids, n) == \E j \in 1 .. n : kids[j].sat

\* What or_check has found after n operands.
Found(acc, kids, n) == /\ DOMAIN acc = {"done", "stat", "intvl"}
                       /\ acc.done \in BOOLEAN
                       /\ acc.done => acc.stat.sat
                       /\ Good(acc.stat)
                       /\ acc.stat.sat => SomeSat(kids, n)
                       /\ SomeSat(kids, n) => acc.stat.sat

\* One more operand, whatever its interval.
LEMMA OrStepRight ==
  ASSUME NEW c, NEW acc, NEW kids, NEW n \in Nat, NEW v, Found(acc, kids, n), Good(kids[n + 1])
  PROVE  Found(OrStep(c, acc, kids[n + 1], v), kids, n + 1)
<1> DEFINE s    == kids[n + 1]
           next == OrStep(c, acc, s, v)
           Return(r) == [acc EXCEPT !.done = TRUE, !.stat = r]
<1>0. SomeSat(kids, n + 1) <=> SomeSat(kids, n) \/ s.sat
  <2>1. \A j : j \in 1 .. n + 1 <=> j \in 1 .. n \/ j = n + 1
    OBVIOUS
  <2> QED BY <2>1 DEF SomeSat
<1> HIDE DEF s
<1>1. ASSUME NEW r, Good(r), r.sat, acc.stat.sat \/ s.sat PROVE Found(Return(r), kids, n + 1)
  BY <1>0, <1>1 DEF Found
<1>2. ASSUME acc.done PROVE Found(next, kids, n + 1)
  <2>1. next = acc
    BY <1>2 DEF OrStep, s
  <2> QED BY <1>0, <1>2, <2>1 DEF Found
<1>3. ASSUME ~ acc.done /\ s.sat /\ IsVanilla(c) PROVE Found(next, kids, n + 1)
  <2>1. next = Return(Stat(TRUE, 1, 1))
    BY <1>3 DEF OrStep, s
  <2> QED BY <1>1, <1>3, <2>1, ConstantsGood
<1>4. ASSUME ~ acc.done /\ ~ (s.sat /\ IsVanilla(c)) PROVE Found(next, kids, n + 1)
  <2> DEFINE before == LeftOf(v, acc.intvl)
             after  == LeftOf(acc.intvl, v)
  <2>1. next = IF before THEN IF s.sat THEN Return(VacuouslyTrue) ELSE acc
               ELSE IF after THEN
                 IF acc.stat.sat THEN Return(VacuouslyTrue)
                 ELSE [acc EXCEPT !.stat = s, !.intvl = v]
               ELSE IF acc.stat.sat /\ s.sat THEN Return(VacuouslyTrue)
               ELSE IF Better(acc.stat, s) THEN [acc EXCEPT !.stat = s] ELSE acc
    BY <1>4 DEF OrStep, s
  <2> HIDE DEF next, before, after
  <2>2. CASE next = Return(VacuouslyTrue) /\ (acc.stat.sat \/ s.sat)
    BY <1>1, <2>2, ConstantsGood
  <2>3. CASE next = acc /\ ~ s.sat
    BY <1>0, <2>3 DEF Found
  <2>4. CASE next = [acc EXCEPT !.stat = s, !.intvl = v] /\ ~ acc.stat.sat
    BY <1>0, <1>4, <2>4 DEF Found, s
  <2>5. CASE next = [acc EXCEPT !.stat = s] /\ ~ (acc.stat.sat /\ s.sat) /\ Better(acc.stat, s)
    <3>1. Good(acc.stat)
      BY DEF Found
    <3>2. ~ acc.stat.sat
      BY <2>5, <3>1, BetterDecides DEF s
    <3> QED BY <1>0, <1>4, <2>5, <3>2 DEF Found, s
  <2>6. CASE next = acc /\ ~ (acc.stat.sat /\ s.sat) /\ ~ Better(acc.stat, s)
    <3>1. Good(acc.stat)
      BY DEF Found
    <3>2. ~ s.sat \/ acc.stat.sat
      BY <2>6, <3>1, BetterDecides DEF s
    <3>3. ~ s.sat
      BY <2>6, <3>2
    <3> QED BY <1>0, <2>6, <3>3 DEF Found
  <2>7. \/ next = Return(VacuouslyTrue) /\ (acc.stat.sat \/ s.sat)
        \/ next = acc /\ ~ s.sat
        \/ next = [acc EXCEPT !.stat = s, !.intvl = v] /\ ~ acc.stat.sat
        \/ next = [acc EXCEPT !.stat = s] /\ ~ (acc.stat.sat /\ s.sat) /\ Better(acc.stat, s)
        \/ next = acc /\ ~ (acc.stat.sat /\ s.sat) /\ ~ Better(acc.stat, s)
    <3> HIDE DEF Return
    <3>1. CASE before
      BY <2>1, <3>1
    <3>2. CASE ~ before /\ after
      BY <2>1, <3>2
    <3>3. CASE ~ before /\ ~ after
      BY <2>1, <3>3
    <3> QED BY <3>1, <3>2, <3>3
  <2> HIDE DEF Return
  <2> QED BY <2>2, <2>3, <2>4, <2>5, <2>6, <2>7
<1>5. acc.done \in BOOLEAN
  BY DEF Found
<1>6. Found(next, kids, n + 1)
  <2> HIDE DEF next
  <2> QED BY <1>2, <1>3, <1>4, <1>5
<1> QED BY <1>6 DEF s

\* The function that OrCheck is defined with.
IsOrFold(fold, c, kids, intvls) ==
  fold = [n \in 0 .. Len(kids) |->
            IF n = 0
            THEN [done |-> FALSE, stat |-> Stat(FALSE, 0, 0), intvl |-> Interval(-1, -1)]
            ELSE OrStep(c, fold[n - 1], kids[n], intvls[n])]

\* There is one.
LEMMA OrFoldExists ==
  ASSUME NEW c, NEW kids, NEW intvls, Len(kids) \in Nat
  PROVE  \E fold : IsOrFold(fold, c, kids, intvls)
<1> DEFINE start == [done |-> FALSE, stat |-> Stat(FALSE, 0, 0), intvl |-> Interval(-1, -1)]
           Body(f, n) == IF n = 0 THEN start ELSE OrStep(c, f[n - 1], kids[n], intvls[n])
           IsOn(f, m) == f = [n \in 0 .. m |-> Body(f, n)]
           N == {m \in Nat : \E f : IsOn(f, m)}
<1> HIDE DEF start
<1>1. 0 \in N
  <2>1. IsOn([n \in 0 .. 0 |-> start], 0)
    OBVIOUS
  <2> QED BY <2>1
<1>2. ASSUME NEW m \in Nat, m \in N PROVE m + 1 \in N
  <2>1. PICK p : IsOn(p, m)
    BY <1>2
  <2> DEFINE q == [n \in 0 .. m + 1 |-> Body(p, n)]
  <2>2. \A n \in 0 .. m : p[n] = Body(p, n)
    BY <2>1
  <2>3. \A n \in 0 .. m : q[n] = p[n]
    BY <2>2
  <2> HIDE DEF q
  <2>4. \A n \in 0 .. m + 1 : Body(q, n) = Body(p, n)
    <3> SUFFICES ASSUME NEW n \in 0 .. m + 1 PROVE Body(q, n) = Body(p, n)
      OBVIOUS
    <3>1. n = 0 \/ n - 1 \in 0 .. m
      OBVIOUS
    <3> QED BY <3>1, <2>3
  <2>5. IsOn(q, m + 1)
    <3> HIDE DEF Body
    <3> QED BY <2>4 DEF q
  <2> QED BY <2>5
<1>3. Len(kids) \in N
  <2> HIDE DEF N
  <2> QED BY <1>1, <1>2, NatSetInduction
<1> QED BY <1>3 DEF IsOrFold, start

\* Or is satisfied where one of its operands is, whatever their intervals.
LEMMA OrRight ==
  ASSUME NEW c, NEW kids, NEW intvls, Len(kids) \in Nat, \A n \in 1 .. Len(kids) : Good(kids[n])
  PROVE  /\ Good(OrCheck(c, kids, intvls))
         /\ OrCheck(c, kids, intvls).sat <=> \E n \in 1 .. Len(kids) : kids[n].sat
<1> DEFINE fold == CHOOSE fold : IsOrFold(fold, c, kids, intvls)
           N == {n \in Nat : n <= Len(kids) => Found(fold[n], kids, n)}
<1>1. IsOrFold(fold, c, kids, intvls)
  BY OrFoldExists
<1>2. OrCheck(c, kids, intvls) = fold[Len(kids)].stat
  BY DEF OrCheck, IsOrFold
<1> HIDE DEF fold
<1>3. fold[0] = [done |-> FALSE, stat |-> Stat(FALSE, 0, 0), intvl |-> Interval(-1, -1)]
  BY <1>1 DEF IsOrFold
<1>4. \A n \in 0 .. Len(kids) - 1 :
        fold[n + 1] = OrStep(c, fold[n], kids[n + 1], intvls[n + 1])
  BY <1>1 DEF IsOrFold
<1>5. 0 \in N
  <2>1. ~ SomeSat(kids, 0)
    BY DEF SomeSat
  <2>2. fold[0].stat = Stat(FALSE, 0, 0)
    BY <1>3
  <2>3. Good(fold[0].stat) /\ ~ fold[0].stat.sat
    BY <2>2, ConstantsGood
  <2>4. DOMAIN fold[0] = {"done", "stat", "intvl"} /\ fold[0].done = FALSE
    BY <1>3
  <2>5. Found(fold[0], kids, 0)
    BY <2>1, <2>3, <2>4 DEF Found
  <2> QED BY <2>5
<1>6. ASSUME NEW n \in Nat, n \in N PROVE n + 1 \in N
  <2> SUFFICES ASSUME n + 1 <= Len(kids) PROVE Found(fold[n + 1], kids, n + 1)
    OBVIOUS
  <2>1. n \in 0 .. Len(kids) - 1 /\ n + 1 \in 1 .. Len(kids)
    OBVIOUS
  <2>2. Found(fold[n], kids, n) /\ Good(kids[n + 1])
    BY <1>6, <2>1
  <2>3. fold[n + 1] = OrStep(c, fold[n], kids[n + 1], intvls[n + 1])
    BY <1>4, <2>1
  <2> QED BY <2>2, <2>3, OrStepRight
<1>7. Len(kids) \in N
  <2> HIDE DEF N
  <2> QED BY <1>5, <1>6, NatSetInduction
<1>8. Found(fold[Len(kids)], kids, Len(kids))
  BY <1>7
<1> QED BY <1>2, <1>8 DEF Found, SomeSat

-----------------------------------------------------------------------------
(***************************************************************************)
(* One formula, given the statistics and the meanings of its operands.     *)
(***************************************************************************)

\* The statistics of a formula over the trace and what it means there.
Agrees(c, stats, val, tr) ==
  \A k \in 1 .. Terminal(tr) : /\ Good(stats[k]) /\ val[k] \in BOOLEAN
                               /\ Exact(c) => (stats[k].sat <=> val[k])

OperandsAgree(c, f, stats, val, tr) == \A p \in Operands(f) : Agrees(c, stats[p], val[p], tr)

\* The statistic of a formula at one position and what it means there.
NodeAgrees(c, f, stats, val, tr, i) ==
  LET node == CheckNode(c, f, stats, tr, i)
  IN /\ Good(node) /\ Meaning(f, val, tr, i) \in BOOLEAN
     /\ Exact(c) => (node.sat <=> Meaning(f, val, tr, i))

\* The positions from i on are positions of the trace.
LEMMA RestOfTrace ==
  ASSUME NEW tr, Len(tr) \in Nat, NEW i \in 1 .. Terminal(tr)
  PROVE  /\ \A k \in i .. Len(tr) : k \in 1 .. Terminal(tr)
         /\ \A k \in i .. Len(tr) : \A j \in i .. k - 1 : j \in 1 .. Terminal(tr)
         /\ ~ IsTerminal(tr, i) => i + 1 \in 1 .. Terminal(tr)
BY DEF Terminal, IsTerminal

\* Constants and propositions.
LEMMA LeafAgrees ==
  ASSUME NEW c, NEW f, NEW stats, NEW val, NEW tr, NEW i, f.op \in {"true", "false", "ap"}
  PROVE  NodeAgrees(c, f, stats, val, tr, i)
<1>1. CASE f.op = "true"
  <2>1. CheckNode(c, f, stats, tr, i) = VacuouslyTrue /\ Meaning(f, val, tr, i) = TRUE
    BY <1>1 DEF CheckNode, Meaning
  <2> QED BY <2>1, ConstantsGood DEF NodeAgrees
<1>2. CASE f.op = "false"
  <2>1. CheckNode(c, f, stats, tr, i) = Stat(FALSE, 0, 0) /\ Meaning(f, val, tr, i) = FALSE
    BY <1>2 DEF CheckNode, Meaning
  <2> QED BY <2>1, ConstantsGood DEF NodeAgrees
<1>3. CASE f.op = "ap"
  <2>1. CheckNode(c, f, stats, tr, i) = IF ApHolds(f.name, tr, i) THEN Stat(TRUE, 1, 1) ELSE unmet
    BY <1>3 DEF CheckNode
  <2>2. Meaning(f, val, tr, i) = ApHolds(f.name, tr, i)
    BY <1>3 DEF Meaning
  <2> QED BY <2>1, <2>2, ConstantsGood DEF NodeAgrees, ApHolds
<1> QED BY <1>1, <1>2, <1>3

\* Operators that look at their operands at one position.
LEMMA BooleanAgrees ==
  ASSUME NEW c, NEW f, NEW stats, NEW val, NEW tr, Len(tr) \in Nat, NEW i \in 1 .. Terminal(tr),
         f.op \in {"Not", "X", "Xor", "Equiv", "Implies"}, OperandsAgree(c, f, stats, val, tr)
  PROVE  NodeAgrees(c, f, stats, val, tr, i)
<1> DEFINE node == CheckNode(c, f, stats, tr, i)
<1>1. CASE f.op = "Not"
  <2>1. Agrees(c, stats[f.kid], val[f.kid], tr)
    BY <1>1, OperandsAre DEF OperandsAgree
  <2>2. /\ node = IF stats[f.kid][i].sat THEN unmet ELSE Stat(TRUE, 1, 1)
        /\ Meaning(f, val, tr, i) = ~ val[f.kid][i]
    BY <1>1 DEF CheckNode, Meaning
  <2> QED BY <2>1, <2>2, ConstantsGood DEF Agrees, NodeAgrees
<1>2. CASE f.op = "X"
  <2> DEFINE next == IF IsTerminal(tr, i) THEN i ELSE i + 1
  <2>1. Agrees(c, stats[f.kid], val[f.kid], tr)
    BY <1>2, OperandsAre DEF OperandsAgree
  <2>2. /\ node = stats[f.kid][next]
        /\ Meaning(f, val, tr, i) = val[f.kid][next]
    BY <1>2 DEF CheckNode, Meaning
  <2>3. next \in 1 .. Terminal(tr)
    BY RestOfTrace
  <2> HIDE DEF next
  <2> QED BY <2>1, <2>2, <2>3 DEF Agrees, NodeAgrees
<1>3. CASE f.op \in {"Xor", "Equiv", "Implies"}
  <2> DEFINE p == stats[f.first][i]
             q == stats[f.second][i]
             x == val[f.first][i]
             y == val[f.second][i]
  <2>1. Agrees(c, stats[f.first], val[f.first], tr) /\ Agrees(c, stats[f.second], val[f.second], tr)
    BY <1>3, OperandsAre DEF OperandsAgree
  <2>2. /\ Good(p) /\ Good(q)
        /\ Exact(c) => p.sat = x /\ q.sat = y
    BY <2>1 DEF Agrees, Good, Stats
  <2>3. CASE f.op = "Xor"
    <3>1. node = Stat(p.sat # q.sat, 0, 0) /\ (Meaning(f, val, tr, i) = (x # y))
      BY <2>3 DEF CheckNode, Meaning
    <3>2. node = IF p.sat # q.sat THEN VacuouslyTrue ELSE Stat(FALSE, 0, 0)
      BY <3>1 DEF VacuouslyTrue
    <3> QED BY <2>2, <3>1, <3>2, ConstantsGood DEF NodeAgrees
  <2>4. CASE f.op = "Equiv"
    <3>1. node = Stat(p.sat = q.sat, 0, 0) /\ (Meaning(f, val, tr, i) = (x = y))
      BY <2>4 DEF CheckNode, Meaning
    <3>2. node = IF p.sat = q.sat THEN VacuouslyTrue ELSE Stat(FALSE, 0, 0)
      BY <3>1 DEF VacuouslyTrue
    <3> QED BY <2>2, <3>1, <3>2, ConstantsGood DEF NodeAgrees
  <2>5. CASE f.op = "Implies"
    <3>1. /\ node = IF p.sat THEN q ELSE VacuouslyTrue
          /\ Meaning(f, val, tr, i) = (x => y)
      BY <2>5 DEF CheckNode, Meaning
    <3> QED BY <2>2, <3>1, ConstantsGood DEF NodeAgrees
  <2> QED BY <1>3, <2>3, <2>4, <2>5
<1> QED BY <1>1, <1>2, <1>3

\* And and Or, over the statistics of their operands at the position.
LEMMA MultipleAgrees ==
  ASSUME NEW c, NEW f, NEW stats, NEW val, NEW tr, Len(tr) \in Nat, NEW i \in 1 .. Terminal(tr),
         WellFormed(f), f.op \in {"And", "Or"}, OperandsAgree(c, f, stats, val, tr)
  PROVE  NodeAgrees(c, f, stats, val, tr, i)
<1> DEFINE node   == CheckNode(c, f, stats, tr, i)
           kids   == [n \in DOMAIN f.kids |-> stats[f.kids[n]][i]]
           intvls == [n \in DOMAIN f.kids |-> IntervalOf(f.kids[n])]
<1>1. f.kids \in Seq(Operands(f))
  BY DEF WellFormed, Multiples
<1>2. Len(f.kids) \in Nat /\ DOMAIN f.kids = 1 .. Len(f.kids)
  BY <1>1
<1>3. \A n \in 1 .. Len(f.kids) : f.kids[n] \in Operands(f)
  BY <1>1
<1>4. Len(kids) = Len(f.kids)
  BY <1>2
<1>5. \A n \in 1 .. Len(f.kids) :
        /\ Good(kids[n]) /\ val[f.kids[n]][i] \in BOOLEAN
        /\ Exact(c) => (kids[n].sat <=> val[f.kids[n]][i])
  BY <1>2, <1>3 DEF OperandsAgree, Agrees
<1>6. CASE f.op = "And"
  <2>1. /\ node = AndCheck(c, kids)
        /\ Meaning(f, val, tr, i) = \A n \in DOMAIN f.kids : val[f.kids[n]][i]
    BY <1>6 DEF CheckNode, Meaning
  <2> HIDE DEF node, kids
  <2>2. /\ Good(AndCheck(c, kids))
        /\ Exact(c) => (AndCheck(c, kids).sat <=> \A n \in 1 .. Len(kids) : kids[n].sat)
    BY <1>2, <1>4, <1>5, AndRight
  <2>3. Good(node) /\ Meaning(f, val, tr, i) \in BOOLEAN
    BY <2>1, <2>2
  <2>4. ASSUME Exact(c) PROVE node.sat <=> Meaning(f, val, tr, i)
    BY <1>2, <1>4, <1>5, <2>1, <2>2, <2>4
  <2> QED BY <2>3, <2>4 DEF NodeAgrees, node
<1>7. CASE f.op = "Or"
  <2>1. /\ node = OrCheck(c, kids, intvls)
        /\ Meaning(f, val, tr, i) = \E n \in DOMAIN f.kids : val[f.kids[n]][i]
    BY <1>7 DEF CheckNode, Meaning
  <2> HIDE DEF node, kids, intvls
  <2>2. /\ Good(OrCheck(c, kids, intvls))
        /\ OrCheck(c, kids, intvls).sat <=> \E n \in 1 .. Len(kids) : kids[n].sat
    BY <1>2, <1>4, <1>5, OrRight
  <2>3. Good(node) /\ Meaning(f, val, tr, i) \in BOOLEAN
    BY <2>1, <2>2
  <2>4. ASSUME Exact(c) PROVE node.sat <=> Meaning(f, val, tr, i)
    BY <1>2, <1>4, <1>5, <2>1, <2>2, <2>4
  <2> QED BY <2>3, <2>4 DEF NodeAgrees, node
<1> QED BY <1>6, <1>7

\* G and F.
LEMMA UnaryLoopAgrees ==
  ASSUME NEW c, NEW f, NEW stats, NEW val, NEW tr, Len(tr) \in Nat, NEW i \in 1 .. Terminal(tr),
         f.op \in {"G", "F"}, OperandsAgree(c, f, stats, val, tr)
  PROVE  NodeAgrees(c, f, stats, val, tr, i)
<1> DEFINE node == CheckNode(c, f, stats, tr, i)
           kid  == stats[f.kid]
           v    == val[f.kid]
<1>1. Agrees(c, kid, v, tr)
  BY OperandsAre DEF OperandsAgree
<1>2. AllGood(kid, tr)
  BY <1>1 DEF Agrees, AllGood
<1>3. Exact(c) => \A k \in i .. Len(tr) : kid[k].sat <=> v[k]
  BY <1>1, RestOfTrace DEF Agrees
<1>4. CASE f.op = "G"
  <2>1. /\ node = GloballyCheck(c, kid, tr, i)
        /\ Meaning(f, val, tr, i) = \A k \in i .. Len(tr) : v[k]
    BY <1>4 DEF CheckNode, Meaning
  <2> HIDE DEF node, kid, v
  <2>2. /\ Good(node)
        /\ Exact(c) => (node.sat <=> \A k \in i .. Len(tr) : kid[k].sat)
    BY <1>2, <2>1, GloballyRight
  <2> QED BY <1>3, <2>1, <2>2 DEF NodeAgrees, node
<1>5. CASE f.op = "F"
  <2>1. /\ node = FinallyCheck(kid, tr, i)
        /\ Meaning(f, val, tr, i) = \E k \in i .. Len(tr) : v[k]
    BY <1>5 DEF CheckNode, Meaning
  <2> HIDE DEF node, kid, v
  <2>2. Good(node) /\ (node.sat <=> \E k \in i .. Len(tr) : kid[k].sat)
    BY <1>2, <2>1, FinallyRight
  <2> QED BY <1>3, <2>1, <2>2 DEF NodeAgrees, node
<1> QED BY <1>4, <1>5

\* U, W, R and M.
LEMMA BinaryLoopAgrees ==
  ASSUME NEW c, NEW f, NEW stats, NEW val, NEW tr, Len(tr) \in Nat, NEW i \in 1 .. Terminal(tr),
         f.op \in {"U", "W", "R", "M"}, OperandsAgree(c, f, stats, val, tr)
  PROVE  NodeAgrees(c, f, stats, val, tr, i)
<1> DEFINE node   == CheckNode(c, f, stats, tr, i)
           first  == stats[f.first]
           second == stats[f.second]
           p      == val[f.first]
           q      == val[f.second]
           rest   == i .. Len(tr)
<1>1. Agrees(c, first, p, tr) /\ Agrees(c, second, q, tr)
  BY OperandsAre DEF OperandsAgree
<1>2. AllGood(first, tr) /\ AllGood(second, tr)
  BY <1>1 DEF Agrees, AllGood
<1>3. ASSUME Exact(c)
      PROVE  /\ \A k \in rest : (first[k].sat <=> p[k]) /\ (second[k].sat <=> q[k])
             /\ \A k \in rest : \A j \in i .. k - 1 : first[j].sat <=> p[j]
  BY <1>1, <1>3, RestOfTrace DEF Agrees
<1>4. Exact(c) => (SatUntil(first, second, tr, i) <=> UntilHolds(p, q, rest, i))
  <2> HIDE DEF first, second, p, q
  <2> QED BY <1>3 DEF SatUntil, UntilHolds
<1>5. Exact(c) => (SatRelease(first, second, tr, i) <=> ReleaseHolds(p, q, rest, i))
  <2> HIDE DEF first, second, p, q
  <2> QED BY <1>3 DEF SatRelease, ReleaseHolds
<1>6. CASE f.op = "U"
  <2>1. /\ node = UntilCheck(c, first, second, tr, i)
        /\ Meaning(f, val, tr, i) = UntilHolds(p, q, rest, i)
    BY <1>6 DEF CheckNode, Meaning
  <2> HIDE DEF node, first, second, p, q
  <2>2. /\ Good(node)
        /\ Exact(c) => (node.sat <=> SatUntil(first, second, tr, i))
    BY <1>2, <2>1, UntilRight
  <2>3. UntilHolds(p, q, rest, i) \in BOOLEAN
    BY DEF UntilHolds
  <2> QED BY <1>4, <2>1, <2>2, <2>3 DEF NodeAgrees, node
<1>7. CASE f.op = "W"
  <2>1. /\ node = WeakUntilCheck(c, first, second, tr, i)
        /\ Meaning(f, val, tr, i) = (UntilHolds(p, q, rest, i) \/ \A k \in rest : p[k])
    BY <1>7 DEF CheckNode, Meaning
  <2> HIDE DEF node, first, second, p, q
  <2>2. /\ Good(node)
        /\ Exact(c) => (node.sat <=> SatUntil(first, second, tr, i) \/ \A k \in rest : first[k].sat)
    BY <1>2, <2>1, WeakUntilRight
  <2>3. Exact(c) => ((\A k \in rest : first[k].sat) <=> \A k \in rest : p[k])
    BY <1>3
  <2> QED BY <1>4, <2>1, <2>2, <2>3 DEF NodeAgrees, node
<1>8. CASE f.op = "R"
  <2>1. /\ node = ReleaseCheck(c, first, second, tr, i)
        /\ Meaning(f, val, tr, i) = ReleaseHolds(p, q, rest, i)
    BY <1>8 DEF CheckNode, Meaning
  <2> HIDE DEF node, first, second, p, q
  <2>2. /\ Good(node)
        /\ Exact(c) => (node.sat <=> SatRelease(first, second, tr, i))
    BY <1>2, <2>1, ReleaseRight
  <2>3. ReleaseHolds(p, q, rest, i) \in BOOLEAN
    BY DEF ReleaseHolds
  <2> QED BY <1>5, <2>1, <2>2, <2>3 DEF NodeAgrees, node
<1>9. CASE f.op = "M"
  <2>1. /\ node = StrongReleaseCheck(c, first, second, tr, i)
        /\ Meaning(f, val, tr, i) = (ReleaseHolds(p, q, rest, i) /\ \E k \in rest : p[k] /\ q[k])
    BY <1>9 DEF CheckNode, Meaning
  <2> HIDE DEF node, first, second, p, q
  <2>2. /\ Good(node)
        /\ Exact(c) => (node.sat <=> /\ SatRelease(first, second, tr, i)
                                     /\ \E k \in rest : first[k].sat /\ second[k].sat)
    BY <1>2, <2>1, StrongReleaseRight
  <2>3. Exact(c) => ((\E k \in rest : first[k].sat /\ second[k].sat)
                       <=> \E k \in rest : p[k] /\ q[k])
    BY <1>3
  <2> QED BY <1>5, <2>1, <2>2, <2>3 DEF NodeAgrees, node
<1> QED BY <1>6, <1>7, <1>8, <1>9

\* The statistics of the operands of a formula, and of the formula at every position.
OperandStats(c, f, tr)     == [p \in Operands(f) |-> CheckOn(c, tr)[p]]
NodeStats(c, f, stats, tr) == [i \in 1 .. Terminal(tr) |-> CheckNode(c, f, stats, tr, i)]

\* The statistics that check returns for a formula follow from those of its operands.
LEMMA CheckOnIs ==
  ASSUME NEW c, NEW tr, NEW f \in Language
  PROVE  CheckOn(c, tr)[f] = NodeStats(c, f, OperandStats(c, f, tr), tr)
<1> DEFINE Node(g, val) == [k \in 1 .. Terminal(tr) |-> CheckNode(c, g, val, tr, k)]
           IsOn(h, S) == h = [g \in S |-> Node(g, [p \in Operands(g) |-> h[p]])]
           N == {n \in Nat : n <= Len(Levels) => \E h : IsOn(h, LevelsBelow(n + 1))}
<1> HIDE DEF Node
<1>1. 0 \in N
  <2>1. IsOn([g \in {} |-> g], LevelsBelow(0 + 1))
    BY DEF LevelsBelow
  <2> QED BY <2>1
<1>2. ASSUME NEW n \in Nat, n \in N PROVE n + 1 \in N
  <2> SUFFICES ASSUME n + 1 <= Len(Levels) PROVE \E h : IsOn(h, LevelsBelow(n + 2))
    OBVIOUS
  <2>1. PICK h : IsOn(h, LevelsBelow(n + 1))
    BY <1>2, LevelsAssumption
  <2> DEFINE next == [g \in LevelsBelow(n + 2) |-> Node(g, [p \in Operands(g) |-> h[p]])]
  <2>2. LevelsBelow(n + 1) \subseteq LevelsBelow(n + 2)
    BY DEF LevelsBelow
  <2>3. \A p \in LevelsBelow(n + 1) : next[p] = h[p]
    BY <2>1, <2>2
  <2> HIDE DEF next
  <2>4. ASSUME NEW g \in LevelsBelow(n + 2)
        PROVE  [p \in Operands(g) |-> next[p]] = [p \in Operands(g) |-> h[p]]
    BY <2>3, NextLevel
  <2>5. IsOn(next, LevelsBelow(n + 2))
    BY <2>4 DEF next
  <2> QED BY <2>5
<1>3. Len(Levels) \in N
  <2> HIDE DEF N
  <2> QED BY <1>1, <1>2, NatSetInduction, LevelsAssumption
<1>4. PICK h : IsOn(h, Language)
  BY <1>3, LevelsAssumption
<1>5. IsOn(CheckOn(c, tr), Language)
  BY <1>4 DEF CheckOn, Node
<1> DEFINE val == [p \in Operands(f) |-> CheckOn(c, tr)[p]]
<1>6. CheckOn(c, tr)[f] = Node(f, val)
  BY <1>5
<1> QED BY <1>6 DEF Node, NodeStats, OperandStats

\* The same at one position.
LEMMA CheckOnDef ==
  ASSUME NEW c, NEW tr, NEW f \in Language, NEW i \in 1 .. Terminal(tr)
  PROVE  CheckOn(c, tr)[f][i] = CheckNode(c, f, [p \in Operands(f) |-> CheckOn(c, tr)[p]], tr, i)
<1> DEFINE val == [p \in Operands(f) |-> CheckOn(c, tr)[p]]
<1>1. CheckOn(c, tr)[f] = NodeStats(c, f, OperandStats(c, f, tr), tr)
  BY CheckOnIs
<1>2. OperandStats(c, f, tr) = val
  BY DEF OperandStats
<1> HIDE DEF val
<1>3. CheckOn(c, tr)[f][i] = CheckNode(c, f, val, tr, i)
  BY <1>1, <1>2 DEF NodeStats
<1> QED BY <1>3 DEF val

\* Each operator, whatever it is.
LEMMA EveryNodeAgrees ==
  ASSUME NEW c, NEW f, NEW stats, NEW val, NEW tr, Len(tr) \in Nat, NEW i \in 1 .. Terminal(tr),
         WellFormed(f), OperandsAgree(c, f, stats, val, tr)
  PROVE  NodeAgrees(c, f, stats, val, tr, i)
<1>1. \/ f.op \in {"true", "false", "ap"}
      \/ f.op \in {"Not", "X", "Xor", "Equiv", "Implies"}
      \/ f.op \in {"And", "Or"}
      \/ f.op \in {"G", "F"}
      \/ f.op \in {"U", "W", "R", "M"}
  BY DEF WellFormed, Operators, Constants, UnaryOperators, BinaryOperators, Multiples
<1> QED BY <1>1, LeafAgrees, BooleanAgrees, MultipleAgrees, UnaryLoopAgrees, BinaryLoopAgrees

\* What check returns for a formula of the language at a position of a trace is a good
\* statistic, satisfied where the formula holds if the settings are exact.
LEMMA CheckAgrees ==
  ASSUME NEW c, NEW tr, Len(tr) \in Nat, NEW f \in Language
  PROVE  Agrees(c, CheckOn(c, tr)[f], HoldsOn(tr)[f], tr)
<1> DEFINE S == {g \in Language : Agrees(c, CheckOn(c, tr)[g], HoldsOn(tr)[g], tr)}
<1>1. ASSUME NEW g \in Language, Operands(g) \subseteq S PROVE g \in S
  <2> DEFINE stats == [p \in Operands(g) |-> CheckOn(c, tr)[p]]
             val   == [p \in Operands(g) |-> HoldsOn(tr)[p]]
  <2>1. OperandsAgree(c, g, stats, val, tr)
    BY <1>1 DEF OperandsAgree
  <2>2. WellFormed(g)
    BY LevelsAssumption
  <2>3. \A i \in 1 .. Terminal(tr) : CheckOn(c, tr)[g][i] = CheckNode(c, g, stats, tr, i)
    BY CheckOnDef
  <2>4. \A i \in 1 .. Terminal(tr) : HoldsOn(tr)[g][i] = Meaning(g, val, tr, i)
    BY HoldsOnDef
  <2> HIDE DEF stats, val
  <2>5. \A i \in 1 .. Terminal(tr) : NodeAgrees(c, g, stats, val, tr, i)
    BY <2>1, <2>2, EveryNodeAgrees
  <2>6. Agrees(c, CheckOn(c, tr)[g], HoldsOn(tr)[g], tr)
    BY <2>3, <2>4, <2>5 DEF Agrees, NodeAgrees
  <2> QED BY <2>6
<1>2. Language \subseteq S
  <2> HIDE DEF S
  <2> QED BY <1>1, LanguageInduction
<1> QED BY <1>2

\* The same at the first event, where check_on_trace calls it.
LEMMA CheckRight ==
  ASSUME NEW c, NEW tr, Len(tr) \in Nat, NEW f \in Language
  PROVE  /\ Good(Check(c, f, tr, 1))
         /\ Exact(c) => (Check(c, f, tr, 1).sat <=> Holds(f, tr, 1))
         /\ Holds(f, tr, 1) \in BOOLEAN
<1>1. 1 \in 1 .. Terminal(tr)
  BY DEF Terminal
<1> QED BY <1>1, CheckAgrees DEF Agrees, Check, Holds

-----------------------------------------------------------------------------
(***************************************************************************)
(* Stopping early.  Where a formula is satisfied no loop was left early,   *)
(* so that its statistic does not depend on when the settings let one be.  *)
(***************************************************************************)

\* Two statistics that are the same if they are satisfied.
Same(s, t) == s.sat = t.sat /\ (s.sat => s = t)

\* They are so at every position.
AllSame(stats, others, tr) == \A k \in 1 .. Terminal(tr) : Same(stats[k], others[k])

\* The position a loop stops at is that of another one, if what the other stops at
\* stops it too and the other stops there.
LEMMA StopKept ==
  ASSUME NEW tr, Len(tr) \in Nat, NEW i \in 1 .. Terminal(tr),
         NEW stops \in SUBSET (i .. Len(tr)), NEW others \in SUBSET stops,
         ~ IsTerminal(tr, FirstStop(tr, stops)) => FirstStop(tr, stops) \in others
  PROVE  FirstStop(tr, stops) = FirstStop(tr, others)
<1> DEFINE s == FirstStop(tr, stops)
           t == FirstStop(tr, others)
<1>1. IsFirst(s, tr, i, stops)
  BY FirstStopIsFirst
<1>2. others \in SUBSET (i .. Len(tr))
  OBVIOUS
<1>3. IsFirst(t, tr, i, others)
  BY <1>2, FirstStopIsFirst
<1>4. ~ IsTerminal(tr, s) => s \in others
  OBVIOUS
<1> HIDE DEF s, t
<1>5. i \in Nat /\ Terminal(tr) \in Nat /\ s \in i .. Terminal(tr) /\ t \in i .. Terminal(tr)
  BY <1>1, <1>3 DEF IsFirst, Terminal
<1>6. ~ (s < t)
  <2> SUFFICES ASSUME s < t PROVE FALSE
    OBVIOUS
  <2>1. s \in i .. t - 1 /\ ~ IsTerminal(tr, s)
    BY <1>5 DEF IsTerminal
  <2> QED BY <1>3, <1>4, <2>1 DEF IsFirst
<1>7. ~ (t < s)
  <2> SUFFICES ASSUME t < s PROVE FALSE
    OBVIOUS
  <2>1. t \in i .. s - 1 /\ ~ IsTerminal(tr, t)
    BY <1>5 DEF IsTerminal
  <2>2. t \in stops
    BY <1>3, <2>1 DEF IsFirst
  <2> QED BY <1>1, <2>1, <2>2 DEF IsFirst
<1>8. s = t
  BY <1>5, <1>6, <1>7
<1> QED BY <1>8 DEF s, t

\* A satisfied G has gone over the whole trace.
LEMMA GloballyWhole ==
  ASSUME NEW c, NEW kid, NEW tr, Len(tr) \in Nat, AllGood(kid, tr), NEW i \in 1 .. Terminal(tr),
         Exact(c), GloballyCheck(c, kid, tr, i).sat
  PROVE  /\ GloballyCheck(c, kid, tr, i) = Collected(kid, i, Terminal(tr))
         /\ \A k \in i .. Terminal(tr) - 1 : kid[k].sat
<1> DEFINE stops == {k \in i .. Len(tr) : ShortCircuiting(c, kid[k])}
           stop  == FirstStop(tr, stops)
           ret   == Collected(kid, i, stop)
<1>1. HasRun(kid, tr, i, stop, stops)
  BY LoopRuns
<1> HIDE DEF stop
<1>2. GloballyCheck(c, kid, tr, i) = IF IsTerminal(tr, stop) THEN ret ELSE Combine(kid[stop], ret)
  BY DEF GloballyCheck, stop
<1>3. CASE IsTerminal(tr, stop)
  <2>1. stop = Terminal(tr) /\ ret.sat
    BY <1>2, <1>3 DEF IsTerminal
  <2> QED BY <1>1, <1>2, <1>3, <2>1 DEF HasRun
<1>4. CASE ~ IsTerminal(tr, stop)
  <2>1. ShortCircuiting(c, kid[stop]) /\ Good(kid[stop]) /\ Good(ret)
    BY <1>1, <1>4 DEF HasRun
  <2>2. kid[stop].sat
    BY <1>2, <1>4, <2>1, CombineGood
  <2> QED BY <2>1, <2>2, StopsUnsatisfied
<1> QED BY <1>3, <1>4

\* Where a loop went over satisfied statistics only, it has collected those of another
\* one that are the same.
LEMMA CollectedKept ==
  ASSUME NEW stats, NEW others, NEW tr, Len(tr) \in Nat, AllSame(stats, others, tr),
         NEW i \in 1 .. Terminal(tr), NEW s \in i .. Terminal(tr),
         \A j \in i .. s - 1 : stats[j].sat
  PROVE  Collected(stats, i, s) = Collected(others, i, s)
<1>1. i \in Nat /\ s \in Nat /\ i <= s /\ Terminal(tr) \in Nat
  BY DEF Terminal
<1>2. \A j \in i .. s - 1 : j \in 1 .. Terminal(tr)
  BY <1>1
<1>3. \A j \in i .. s - 1 : stats[j] = others[j]
  BY <1>2 DEF AllSame, Same
<1> QED BY <1>1, <1>3, CollectedSame

\* G.
LEMMA GloballyKept ==
  ASSUME NEW c, NEW d, NEW kid, NEW other, NEW tr, Len(tr) \in Nat, NEW i \in 1 .. Terminal(tr),
         Exact(c), Exact(d), AllGood(kid, tr), AllGood(other, tr), AllSame(kid, other, tr),
         GloballyCheck(c, kid, tr, i).sat, GloballyCheck(d, other, tr, i).sat
  PROVE  GloballyCheck(c, kid, tr, i) = GloballyCheck(d, other, tr, i)
<1>1. /\ GloballyCheck(c, kid, tr, i) = Collected(kid, i, Terminal(tr))
      /\ \A k \in i .. Terminal(tr) - 1 : kid[k].sat
  BY GloballyWhole
<1>2. GloballyCheck(d, other, tr, i) = Collected(other, i, Terminal(tr))
  BY GloballyWhole
<1>3. Terminal(tr) \in i .. Terminal(tr)
  BY DEF Terminal
<1> QED BY <1>1, <1>2, <1>3, CollectedKept

\* F, which no settings let stop early.
LEMMA FinallyKept ==
  ASSUME NEW kid, NEW other, NEW tr, Len(tr) \in Nat, NEW i \in 1 .. Terminal(tr),
         AllGood(kid, tr), AllSame(kid, other, tr), FinallyCheck(kid, tr, i).sat
  PROVE  FinallyCheck(kid, tr, i) = FinallyCheck(other, tr, i)
<1> DEFINE stops == {k \in i .. Len(tr) : kid[k].sat}
           stop  == FirstStop(tr, stops)
<1>1. HasRun(kid, tr, i, stop, stops)
  BY LoopRuns
<1>2. stops = {k \in i .. Len(tr) : other[k].sat}
  BY RestOfTrace DEF AllSame, Same
<1>3. FinallyCheck(kid, tr, i) = IF IsTerminal(tr, stop) THEN unmet ELSE kid[stop]
  BY DEF FinallyCheck
<1>4. FinallyCheck(other, tr, i) = IF IsTerminal(tr, stop) THEN unmet ELSE other[stop]
  BY <1>2 DEF FinallyCheck
<1> HIDE DEF stop, stops
<1>5. ~ IsTerminal(tr, stop)
  BY <1>3, ConstantsGood
<1>6. stop \in 1 .. Terminal(tr) /\ kid[stop].sat
  BY <1>1, <1>5, <1>3 DEF HasRun
<1>7. kid[stop] = other[stop]
  BY <1>6 DEF AllSame, Same
<1> QED BY <1>3, <1>4, <1>5, <1>7

\* The positions at which an operand is satisfied.
SatAt(stats, tr, i) == {k \in i .. Len(tr) : stats[k].sat}

\* A position that the operand gone over is satisfied before.
CameTo(s, stats, tr, i) == s \in i .. Terminal(tr) /\ \A j \in i .. s - 1 : stats[j].sat

\* What a satisfied U returns: no settings occur in it.
UntilIs(check, first, second, tr, i) ==
  LET s == FirstStop(tr, SatAt(second, tr, i))
  IN /\ CameTo(s, first, tr, i) /\ ~ IsTerminal(tr, s) /\ second[s].sat
     /\ check = Combine(second[s], Collected(first, i, s))

\* U returns that, if the settings are exact.
LEMMA UntilWhole ==
  ASSUME NEW c, NEW first, NEW second, NEW tr, Len(tr) \in Nat, NEW i \in 1 .. Terminal(tr),
         AllGood(first, tr), AllGood(second, tr), Exact(c),
         UntilCheck(c, first, second, tr, i).sat
  PROVE  UntilIs(UntilCheck(c, first, second, tr, i), first, second, tr, i)
<1> DEFINE stops == {k \in i .. Len(tr) : second[k].sat \/ ShortCircuiting(c, first[k])}
           stop  == FirstStop(tr, stops)
           ret   == Collected(first, i, stop)
           last  == IF second[stop].sat THEN second[stop] ELSE first[stop]
<1>1. HasRun(first, tr, i, stop, stops)
  BY LoopRuns
<1>2. IsFirst(stop, tr, i, stops)
  BY FirstStopIsFirst
<1>3. SatAt(second, tr, i) \in SUBSET stops
  BY DEF SatAt
<1>4. stops \in SUBSET (i .. Len(tr))
  OBVIOUS
<1>5. UntilCheck(c, first, second, tr, i)
        = IF IsTerminal(tr, stop) THEN Combine(ret, unmet) ELSE Combine(last, ret)
  BY DEF UntilCheck, UntilStop
<1>6. ~ IsTerminal(tr, stop)
  <2>1. ~ Combine(ret, unmet).sat
    BY <1>1, CombineGood, ConstantsGood DEF HasRun
  <2> QED BY <1>5, <2>1
<1>7. stop \in i .. Len(tr) /\ Good(first[stop]) /\ Good(ret) /\ Good(second[stop])
  <2>1. stop \in i .. Len(tr) /\ Good(first[stop]) /\ Good(ret)
    BY <1>1, <1>6 DEF HasRun
  <2> HIDE DEF stop
  <2> QED BY <2>1, RestOfTrace DEF AllGood
<1>8. last.sat /\ ret.sat
  <2> HIDE DEF stop, ret
  <2>1. Good(last)
    BY <1>7
  <2> HIDE DEF last
  <2> QED BY <1>5, <1>6, <1>7, <2>1, CombineGood
<1>9. second[stop].sat
  <2>1. second[stop].sat \/ ShortCircuiting(c, first[stop])
    BY <1>1, <1>6 DEF HasRun
  <2> HIDE DEF stop
  <2> QED BY <1>8, <2>1, StopsUnsatisfied
<1>10. stop \in SatAt(second, tr, i)
  BY <1>7, <1>9 DEF SatAt
<1>11. stop = FirstStop(tr, SatAt(second, tr, i))
  <2> HIDE DEF stops
  <2> QED BY <1>3, <1>4, <1>10, StopKept
<1>12. CameTo(stop, first, tr, i)
  BY <1>1, <1>2, <1>8 DEF HasRun, IsFirst, CameTo
<1>13. UntilCheck(c, first, second, tr, i) = Combine(second[stop], Collected(first, i, stop))
  BY <1>5, <1>6, <1>9
<1> HIDE DEF stop
<1> QED BY <1>6, <1>9, <1>11, <1>12, <1>13 DEF UntilIs

\* What a satisfied W returns.
WeakUntilIs(check, first, second, tr, i) ==
  LET s == FirstStop(tr, SatAt(second, tr, i))
  IN CameTo(s, first, tr, i) /\ check = Collected(first, i, s)

\* W returns that.
LEMMA WeakUntilWhole ==
  ASSUME NEW c, NEW first, NEW second, NEW tr, Len(tr) \in Nat, NEW i \in 1 .. Terminal(tr),
         AllGood(first, tr), AllGood(second, tr), Exact(c),
         WeakUntilCheck(c, first, second, tr, i).sat
  PROVE  WeakUntilIs(WeakUntilCheck(c, first, second, tr, i), first, second, tr, i)
<1> DEFINE stops == {k \in i .. Len(tr) : second[k].sat \/ ShortCircuiting(c, first[k])}
           stop  == FirstStop(tr, stops)
           ret   == Collected(first, i, stop)
<1>1. HasRun(first, tr, i, stop, stops)
  BY LoopRuns
<1>2. IsFirst(stop, tr, i, stops)
  BY FirstStopIsFirst
<1>3. SatAt(second, tr, i) \in SUBSET stops
  BY DEF SatAt
<1>4. stops \in SUBSET (i .. Len(tr))
  OBVIOUS
<1>5. WeakUntilCheck(c, first, second, tr, i)
        = IF IsTerminal(tr, stop) \/ second[stop].sat THEN ret ELSE Combine(first[stop], ret)
  BY DEF WeakUntilCheck, UntilStop
<1>6. IsTerminal(tr, stop) \/ second[stop].sat
  <2> SUFFICES ASSUME ~ IsTerminal(tr, stop), ~ second[stop].sat PROVE FALSE
    OBVIOUS
  <2>1. ShortCircuiting(c, first[stop]) /\ Good(first[stop]) /\ Good(ret)
    BY <1>1 DEF HasRun
  <2>2. WeakUntilCheck(c, first, second, tr, i) = Combine(first[stop], ret)
    BY <1>5
  <2> HIDE DEF stop, ret
  <2>3. first[stop].sat
    BY <2>1, <2>2, CombineGood
  <2> QED BY <2>1, <2>3, StopsUnsatisfied
<1>7. ~ IsTerminal(tr, stop) => stop \in SatAt(second, tr, i)
  BY <1>1, <1>6 DEF HasRun, SatAt
<1>8. stop = FirstStop(tr, SatAt(second, tr, i))
  <2> HIDE DEF stops
  <2> QED BY <1>3, <1>4, <1>7, StopKept
<1>9. WeakUntilCheck(c, first, second, tr, i) = ret
  BY <1>5, <1>6
<1>10. CameTo(stop, first, tr, i)
  BY <1>1, <1>2, <1>9 DEF HasRun, IsFirst, CameTo
<1> HIDE DEF stop
<1> QED BY <1>8, <1>9, <1>10 DEF WeakUntilIs

\* What a satisfied R returns.
ReleaseIs(check, first, second, tr, i) ==
  LET s   == FirstStop(tr, SatAt(first, tr, i))
      ret == Collected(second, i, s)
  IN /\ CameTo(s, second, tr, i)
     /\ ~ IsTerminal(tr, s) => second[s].sat
     /\ check = IF IsTerminal(tr, s) THEN ret ELSE Combine(second[s], ret)

\* R returns that.
LEMMA ReleaseWhole ==
  ASSUME NEW c, NEW first, NEW second, NEW tr, Len(tr) \in Nat, NEW i \in 1 .. Terminal(tr),
         AllGood(first, tr), AllGood(second, tr), Exact(c),
         ReleaseCheck(c, first, second, tr, i).sat
  PROVE  ReleaseIs(ReleaseCheck(c, first, second, tr, i), first, second, tr, i)
<1> DEFINE stops == {k \in i .. Len(tr) : ShortCircuiting(c, second[k]) \/ first[k].sat}
           stop  == FirstStop(tr, stops)
           ret   == Collected(second, i, stop)
<1>1. HasRun(second, tr, i, stop, stops)
  BY LoopRuns
<1>2. IsFirst(stop, tr, i, stops)
  BY FirstStopIsFirst
<1>3. SatAt(first, tr, i) \in SUBSET stops
  BY DEF SatAt
<1>4. stops \in SUBSET (i .. Len(tr))
  OBVIOUS
<1>5. ReleaseCheck(c, first, second, tr, i)
        = IF IsTerminal(tr, stop) THEN ret ELSE Combine(second[stop], ret)
  BY DEF ReleaseCheck, ReleaseStop
<1>6. ret.sat /\ (~ IsTerminal(tr, stop) => second[stop].sat)
  <2>1. Good(second[stop]) /\ Good(ret)
    BY <1>1 DEF HasRun
  <2> HIDE DEF stop, ret
  <2>2. Combine(second[stop], ret).sat <=> second[stop].sat /\ ret.sat
    BY <2>1, CombineGood
  <2> QED BY <1>5, <2>2
<1>7. ~ IsTerminal(tr, stop) => stop \in SatAt(first, tr, i)
  <2> SUFFICES ASSUME ~ IsTerminal(tr, stop) PROVE stop \in SatAt(first, tr, i)
    OBVIOUS
  <2>1. stop \in i .. Len(tr) /\ (ShortCircuiting(c, second[stop]) \/ first[stop].sat)
    BY <1>1 DEF HasRun
  <2> HIDE DEF stop
  <2> QED BY <1>6, <2>1, StopsUnsatisfied DEF SatAt
<1>8. stop = FirstStop(tr, SatAt(first, tr, i))
  <2> HIDE DEF stops
  <2> QED BY <1>3, <1>4, <1>7, StopKept
<1>9. CameTo(stop, second, tr, i)
  BY <1>1, <1>2, <1>6 DEF HasRun, IsFirst, CameTo
<1> HIDE DEF stop
<1> QED BY <1>5, <1>6, <1>8, <1>9 DEF ReleaseIs

\* What a satisfied M returns.
StrongReleaseIs(check, first, second, tr, i) ==
  LET s == FirstStop(tr, SatAt(first, tr, i))
  IN /\ CameTo(s, second, tr, i) /\ ~ IsTerminal(tr, s) /\ second[s].sat /\ first[s].sat
     /\ check = Combine(Combine(second[s], first[s]), Collected(second, i, s))

\* M returns that.
LEMMA StrongReleaseWhole ==
  ASSUME NEW c, NEW first, NEW second, NEW tr, Len(tr) \in Nat, NEW i \in 1 .. Terminal(tr),
         AllGood(first, tr), AllGood(second, tr), Exact(c),
         StrongReleaseCheck(c, first, second, tr, i).sat
  PROVE  StrongReleaseIs(StrongReleaseCheck(c, first, second, tr, i), first, second, tr, i)
<1> DEFINE stops == {k \in i .. Len(tr) : ShortCircuiting(c, second[k]) \/ first[k].sat}
           stop  == FirstStop(tr, stops)
           ret   == Collected(second, i, stop)
           both  == Combine(second[stop], first[stop])
<1>1. HasRun(second, tr, i, stop, stops)
  BY LoopRuns
<1>2. IsFirst(stop, tr, i, stops)
  BY FirstStopIsFirst
<1>3. SatAt(first, tr, i) \in SUBSET stops
  BY DEF SatAt
<1>4. stops \in SUBSET (i .. Len(tr))
  OBVIOUS
<1>5. StrongReleaseCheck(c, first, second, tr, i)
        = IF IsTerminal(tr, stop) THEN Combine(ret, unmet)
          ELSE IF ShortCircuiting(c, second[stop]) THEN Combine(second[stop], ret)
          ELSE Combine(both, ret)
  BY DEF StrongReleaseCheck, ReleaseStop
<1>6. ~ IsTerminal(tr, stop)
  <2>1. ~ Combine(ret, unmet).sat
    BY <1>1, CombineGood, ConstantsGood DEF HasRun
  <2> QED BY <1>5, <2>1
<1>7. stop \in i .. Len(tr) /\ Good(second[stop]) /\ Good(ret) /\ Good(first[stop])
  <2>1. stop \in i .. Len(tr) /\ Good(second[stop]) /\ Good(ret)
    BY <1>1, <1>6 DEF HasRun
  <2> HIDE DEF stop
  <2> QED BY <2>1, RestOfTrace DEF AllGood
<1>8. ~ ShortCircuiting(c, second[stop])
  <2> HIDE DEF stop, ret
  <2>1. Combine(second[stop], ret).sat <=> second[stop].sat /\ ret.sat
    BY <1>7, CombineGood
  <2> QED BY <1>5, <1>6, <2>1, StopsUnsatisfied
<1>9. second[stop].sat /\ first[stop].sat /\ ret.sat
  <2> HIDE DEF stop, ret
  <2>1. Good(both) /\ (both.sat <=> second[stop].sat /\ first[stop].sat)
    BY <1>7, CombineGood
  <2>2. Combine(both, ret).sat <=> both.sat /\ ret.sat
    BY <1>7, <2>1, CombineGood
  <2> QED BY <1>5, <1>6, <1>8, <2>1, <2>2
<1>10. stop \in SatAt(first, tr, i)
  BY <1>7, <1>9 DEF SatAt
<1>11. stop = FirstStop(tr, SatAt(first, tr, i))
  <2> HIDE DEF stops
  <2> QED BY <1>3, <1>4, <1>10, StopKept
<1>12. CameTo(stop, second, tr, i)
  BY <1>1, <1>2, <1>9 DEF HasRun, IsFirst, CameTo
<1>13. StrongReleaseCheck(c, first, second, tr, i) = Combine(both, ret)
  BY <1>5, <1>6, <1>8
<1> HIDE DEF stop
<1> QED BY <1>6, <1>9, <1>11, <1>12, <1>13 DEF StrongReleaseIs

\* Statistics that are the same are satisfied at the same positions.
LEMMA SatKept ==
  ASSUME NEW stats, NEW others, NEW tr, Len(tr) \in Nat, AllSame(stats, others, tr),
         NEW i \in 1 .. Terminal(tr)
  PROVE  SatAt(stats, tr, i) = SatAt(others, tr, i)
BY RestOfTrace DEF AllSame, Same, SatAt

\* Each of the four loops returns the same where it is satisfied.
LEMMA LoopIsKept ==
  ASSUME NEW first, NEW second, NEW other, NEW another, NEW tr, Len(tr) \in Nat,
         NEW i \in 1 .. Terminal(tr), AllSame(first, other, tr), AllSame(second, another, tr),
         NEW p, NEW q
  PROVE  /\ UntilIs(p, first, second, tr, i) /\ UntilIs(q, other, another, tr, i) => p = q
         /\ WeakUntilIs(p, first, second, tr, i) /\ WeakUntilIs(q, other, another, tr, i) => p = q
         /\ ReleaseIs(p, first, second, tr, i) /\ ReleaseIs(q, other, another, tr, i) => p = q
         /\ StrongReleaseIs(p, first, second, tr, i) /\ StrongReleaseIs(q, other, another, tr, i)
              => p = q
<1>1. /\ SatAt(first, tr, i) = SatAt(other, tr, i)
      /\ SatAt(second, tr, i) = SatAt(another, tr, i)
  BY SatKept
<1>2. ASSUME NEW s, CameTo(s, first, tr, i)
      PROVE  Collected(first, i, s) = Collected(other, i, s)
  BY <1>2, CollectedKept DEF CameTo
<1>3. ASSUME NEW s, CameTo(s, second, tr, i)
      PROVE  Collected(second, i, s) = Collected(another, i, s)
  BY <1>3, CollectedKept DEF CameTo
<1>4. ASSUME NEW s \in i .. Terminal(tr)
      PROVE  /\ first[s].sat => first[s] = other[s]
             /\ second[s].sat => second[s] = another[s]
  <2>1. s \in 1 .. Terminal(tr)
    BY DEF Terminal
  <2> QED BY <2>1 DEF AllSame, Same
<1>5. ASSUME UntilIs(p, first, second, tr, i), UntilIs(q, other, another, tr, i) PROVE p = q
  <2> DEFINE s == FirstStop(tr, SatAt(second, tr, i))
  <2>1. /\ CameTo(s, first, tr, i) /\ second[s].sat
        /\ p = Combine(second[s], Collected(first, i, s))
    BY <1>5 DEF UntilIs
  <2>2. q = Combine(another[s], Collected(other, i, s))
    BY <1>1, <1>5 DEF UntilIs
  <2> HIDE DEF s
  <2>3. s \in i .. Terminal(tr)
    BY <2>1 DEF CameTo
  <2> QED BY <1>2, <1>4, <2>1, <2>2, <2>3
<1>6. ASSUME WeakUntilIs(p, first, second, tr, i), WeakUntilIs(q, other, another, tr, i)
      PROVE  p = q
  <2> DEFINE s == FirstStop(tr, SatAt(second, tr, i))
  <2>1. CameTo(s, first, tr, i) /\ p = Collected(first, i, s)
    BY <1>6 DEF WeakUntilIs
  <2>2. q = Collected(other, i, s)
    BY <1>1, <1>6 DEF WeakUntilIs
  <2> HIDE DEF s
  <2> QED BY <1>2, <2>1, <2>2
<1>7. ASSUME ReleaseIs(p, first, second, tr, i), ReleaseIs(q, other, another, tr, i) PROVE p = q
  <2> DEFINE s == FirstStop(tr, SatAt(first, tr, i))
  <2>1. /\ CameTo(s, second, tr, i)
        /\ ~ IsTerminal(tr, s) => second[s].sat
        /\ p = IF IsTerminal(tr, s) THEN Collected(second, i, s)
               ELSE Combine(second[s], Collected(second, i, s))
    BY <1>7 DEF ReleaseIs
  <2>2. q = IF IsTerminal(tr, s) THEN Collected(another, i, s)
            ELSE Combine(another[s], Collected(another, i, s))
    BY <1>1, <1>7 DEF ReleaseIs
  <2> HIDE DEF s
  <2>3. s \in i .. Terminal(tr)
    BY <2>1 DEF CameTo
  <2> QED BY <1>3, <1>4, <2>1, <2>2, <2>3
<1>8. ASSUME StrongReleaseIs(p, first, second, tr, i), StrongReleaseIs(q, other, another, tr, i)
      PROVE  p = q
  <2> DEFINE s == FirstStop(tr, SatAt(first, tr, i))
  <2>1. /\ CameTo(s, second, tr, i) /\ second[s].sat /\ first[s].sat
        /\ p = Combine(Combine(second[s], first[s]), Collected(second, i, s))
    BY <1>8 DEF StrongReleaseIs
  <2>2. q = Combine(Combine(another[s], other[s]), Collected(another, i, s))
    BY <1>1, <1>8 DEF StrongReleaseIs
  <2> HIDE DEF s
  <2>3. s \in i .. Terminal(tr)
    BY <2>1 DEF CameTo
  <2> QED BY <1>3, <1>4, <2>1, <2>2, <2>3
<1> QED BY <1>5, <1>6, <1>7, <1>8

\* A satisfied And has combined all of its operands.
LEMMA AndWhole ==
  ASSUME NEW c, NEW kids, Len(kids) \in Nat, \A n \in 1 .. Len(kids) : Good(kids[n]),
         Exact(c), \A n \in 1 .. Len(kids) : kids[n].sat
  PROVE  AndCheck(c, kids) = (CHOOSE fold : IsAndFold(fold, kids))[Len(kids)]
<1> DEFINE fold == CHOOSE fold : IsAndFold(fold, kids)
           stops == {n \in 1 .. Len(kids) : ShortCircuiting(c, fold[n])}
<1>1. IsAndFold(fold, kids)
  BY AndFoldExists
<1>2. AndCheck(c, kids) = fold[Min(stops \cup {Len(kids)})]
  BY DEF AndCheck, IsAndFold
<1> HIDE DEF fold
<1>3. fold[0] = VacuouslyTrue
  BY <1>1 DEF IsAndFold
<1>4. \A n \in 0 .. Len(kids) - 1 : fold[n + 1] = Combine(fold[n], kids[n + 1])
  BY <1>1 DEF IsAndFold
<1> DEFINE N == {n \in Nat : n <= Len(kids) => Good(fold[n]) /\ fold[n].sat}
<1>5. 0 \in N
  BY <1>3, ConstantsGood
<1>6. ASSUME NEW n \in Nat, n \in N PROVE n + 1 \in N
  <2> SUFFICES ASSUME n + 1 <= Len(kids) PROVE Good(fold[n + 1]) /\ fold[n + 1].sat
    OBVIOUS
  <2>1. n \in 0 .. Len(kids) - 1 /\ n + 1 \in 1 .. Len(kids)
    OBVIOUS
  <2>2. Good(fold[n]) /\ fold[n].sat /\ Good(kids[n + 1]) /\ kids[n + 1].sat
    BY <1>6, <2>1
  <2>3. fold[n + 1] = Combine(fold[n], kids[n + 1])
    BY <1>4, <2>1
  <2> QED BY <2>2, <2>3, CombineGood
<1>7. Nat \subseteq N
  <2> HIDE DEF N
  <2> QED BY <1>5, <1>6, NatSetInduction
<1>8. stops = {}
  <2> SUFFICES ASSUME NEW n \in 1 .. Len(kids), ShortCircuiting(c, fold[n]) PROVE FALSE
    OBVIOUS
  <2>1. fold[n].sat
    BY <1>7
  <2> QED BY <2>1, StopsUnsatisfied
<1>9. Min(stops \cup {Len(kids)}) = Len(kids)
  BY <1>8 DEF Min
<1> QED BY <1>2, <1>9 DEF fold

\* And.
LEMMA AndKept ==
  ASSUME NEW c, NEW d, NEW kids, NEW others, Len(kids) \in Nat, Len(others) = Len(kids),
         kids = [n \in 1 .. Len(kids) |-> kids[n]], others = [n \in 1 .. Len(kids) |-> others[n]],
         \A n \in 1 .. Len(kids) : Good(kids[n]) /\ Good(others[n]) /\ Same(kids[n], others[n]),
         Exact(c), Exact(d), AndCheck(c, kids).sat
  PROVE  AndCheck(c, kids) = AndCheck(d, others)
<1>1. \A n \in 1 .. Len(kids) : kids[n].sat
  BY AndRight
<1>2. \A n \in 1 .. Len(kids) : kids[n] = others[n]
  BY <1>1 DEF Same
<1>3. [n \in 1 .. Len(kids) |-> kids[n]] = [n \in 1 .. Len(kids) |-> others[n]]
  BY <1>2
<1>4. kids = others
  BY <1>3
<1>5. \A n \in 1 .. Len(kids) : Good(kids[n])
  OBVIOUS
<1>6. AndCheck(c, kids) = (CHOOSE fold : IsAndFold(fold, kids))[Len(kids)]
  BY <1>1, <1>5, AndWhole
<1>7. AndCheck(d, kids) = (CHOOSE fold : IsAndFold(fold, kids))[Len(kids)]
  BY <1>1, <1>5, AndWhole
<1> QED BY <1>4, <1>6, <1>7

\* What or_check has found under two settings.
FoundAlike(acc, other) == /\ DOMAIN acc = {"done", "stat", "intvl"}
                          /\ DOMAIN other = {"done", "stat", "intvl"}
                          /\ acc.done \in BOOLEAN /\ acc.done = other.done
                          /\ acc.intvl = other.intvl
                          /\ Good(acc.stat) /\ Good(other.stat) /\ Same(acc.stat, other.stat)

\* One more operand.
LEMMA OrStepKept ==
  ASSUME NEW c, NEW d, NEW acc, NEW other, NEW s, NEW t, NEW v, ~ IsVanilla(c), ~ IsVanilla(d),
         FoundAlike(acc, other), Good(s), Good(t), Same(s, t)
  PROVE  FoundAlike(OrStep(c, acc, s, v), OrStep(d, other, t, v))
<1> DEFINE next  == OrStep(c, acc, s, v)
           after == OrStep(d, other, t, v)
           Return(a, r) == [a EXCEPT !.done = TRUE, !.stat = r]
           Take(a, r)   == [a EXCEPT !.stat = r]
           Goes(a, r)   == [a EXCEPT !.stat = r, !.intvl = v]
           Step(a, r)   == IF LeftOf(v, a.intvl) THEN IF r.sat THEN Return(a, VacuouslyTrue) ELSE a
                           ELSE IF LeftOf(a.intvl, v) THEN
                             IF a.stat.sat THEN Return(a, VacuouslyTrue) ELSE Goes(a, r)
                           ELSE IF a.stat.sat /\ r.sat THEN Return(a, VacuouslyTrue)
                           ELSE IF Better(a.stat, r) THEN Take(a, r) ELSE a
<1>1. /\ acc.done \in BOOLEAN /\ acc.done = other.done /\ acc.intvl = other.intvl
      /\ Good(acc.stat) /\ Good(other.stat)
      /\ acc.stat.sat \in BOOLEAN /\ acc.stat.sat = other.stat.sat
      /\ s.sat \in BOOLEAN /\ s.sat = t.sat
  BY DEF FoundAlike, Same, Good, Stats
<1>2. FoundAlike(Return(acc, VacuouslyTrue), Return(other, VacuouslyTrue))
  BY ConstantsGood DEF FoundAlike, Same
<1>3. FoundAlike(Goes(acc, s), Goes(other, t))
  BY DEF FoundAlike
<1>4. FoundAlike(Take(acc, s), Take(other, t))
  BY DEF FoundAlike
<1>5. ~ acc.stat.sat /\ ~ s.sat
        => FoundAlike(Take(acc, s), other) /\ FoundAlike(acc, Take(other, t))
  BY <1>1 DEF FoundAlike, Same
<1>6. /\ next = IF acc.done THEN acc ELSE Step(acc, s)
      /\ after = IF acc.done THEN other ELSE Step(other, t)
  <2>1. next = IF acc.done THEN acc ELSE Step(acc, s)
    BY <1>1 DEF OrStep
  <2>2. after = IF other.done THEN other ELSE Step(other, t)
    BY <1>1 DEF OrStep
  <2> QED BY <1>1, <2>1, <2>2
<1>7. /\ ~ acc.stat.sat /\ s.sat => Better(acc.stat, s) /\ Better(other.stat, t)
      /\ acc.stat.sat /\ ~ s.sat => ~ Better(acc.stat, s) /\ ~ Better(other.stat, t)
  BY <1>1, BetterDecides
<1> HIDE DEF next, after, Return, Take, Goes
<1>8. FoundAlike(Step(acc, s), Step(other, t))
  <2>1. CASE LeftOf(v, acc.intvl)
    BY <1>1, <1>2, <2>1
  <2>2. CASE ~ LeftOf(v, acc.intvl) /\ LeftOf(acc.intvl, v)
    BY <1>1, <1>2, <1>3, <2>2
  <2>3. CASE ~ LeftOf(v, acc.intvl) /\ ~ LeftOf(acc.intvl, v)
    <3>1. CASE acc.stat.sat /\ s.sat
      BY <1>1, <1>2, <2>3, <3>1
    <3>2. CASE acc.stat.sat /\ ~ s.sat
      BY <1>1, <1>7, <2>3, <3>2
    <3>3. CASE ~ acc.stat.sat /\ s.sat
      BY <1>1, <1>4, <1>7, <2>3, <3>3
    <3>4. CASE ~ acc.stat.sat /\ ~ s.sat
      BY <1>1, <1>4, <1>5, <2>3, <3>4
    <3> QED BY <1>1, <3>1, <3>2, <3>3, <3>4
  <2> QED BY <2>1, <2>2, <2>3
<1>9. FoundAlike(next, after)
  <2> HIDE DEF Step
  <2> QED BY <1>1, <1>6, <1>8
<1> QED BY <1>9 DEF next, after

\* It goes from one operand to the next.
LEMMA OrFoldSteps ==
  ASSUME NEW fold, NEW c, NEW kids, NEW intvls, Len(kids) \in Nat, IsOrFold(fold, c, kids, intvls),
         NEW n \in 0 .. Len(kids) - 1
  PROVE  fold[n + 1] = OrStep(c, fold[n], kids[n + 1], intvls[n + 1])
<1>1. n + 1 \in 0 .. Len(kids) /\ n + 1 # 0 /\ (n + 1) - 1 = n
  OBVIOUS
<1> QED BY <1>1 DEF IsOrFold

\* Or.
LEMMA OrKept ==
  ASSUME NEW c, NEW d, NEW kids, NEW others, NEW intvls, Len(kids) \in Nat, Len(others) = Len(kids),
         \A n \in 1 .. Len(kids) : Good(kids[n]) /\ Good(others[n]) /\ Same(kids[n], others[n]),
         ~ IsVanilla(c), ~ IsVanilla(d)
  PROVE  Same(OrCheck(c, kids, intvls), OrCheck(d, others, intvls))
<1> DEFINE p == CHOOSE fold : IsOrFold(fold, c, kids, intvls)
           q == CHOOSE fold : IsOrFold(fold, d, others, intvls)
           N == {n \in Nat : n <= Len(kids) => FoundAlike(p[n], q[n])}
<1>1. IsOrFold(p, c, kids, intvls)
  BY OrFoldExists
<1>10. IsOrFold(q, d, others, intvls)
  BY OrFoldExists
<1>2. OrCheck(c, kids, intvls) = p[Len(kids)].stat /\ OrCheck(d, others, intvls) = q[Len(kids)].stat
  BY DEF OrCheck, IsOrFold
<1> HIDE DEF p, q
<1> DEFINE start == [done |-> FALSE, stat |-> Stat(FALSE, 0, 0), intvl |-> Interval(-1, -1)]
<1>3. p[0] = start /\ q[0] = start
  BY <1>1, <1>10 DEF IsOrFold
<1>4. \A n \in 0 .. Len(kids) - 1 : p[n + 1] = OrStep(c, p[n], kids[n + 1], intvls[n + 1])
  BY <1>1, OrFoldSteps
<1>9. \A n \in 0 .. Len(kids) - 1 : q[n + 1] = OrStep(d, q[n], others[n + 1], intvls[n + 1])
  BY <1>10, OrFoldSteps
<1>5. 0 \in N
  <2>1. FoundAlike(start, start)
    <3>1. /\ DOMAIN start = {"done", "stat", "intvl"}
          /\ start.done = FALSE /\ start.stat = Stat(FALSE, 0, 0)
      OBVIOUS
    <3> HIDE DEF start
    <3> QED BY <3>1, ConstantsGood DEF FoundAlike, Same
  <2> HIDE DEF start
  <2> QED BY <1>3, <2>1
<1>6. ASSUME NEW n \in Nat, n \in N PROVE n + 1 \in N
  <2> SUFFICES ASSUME n + 1 <= Len(kids) PROVE FoundAlike(p[n + 1], q[n + 1])
    OBVIOUS
  <2>1. n \in 0 .. Len(kids) - 1 /\ n + 1 \in 1 .. Len(kids)
    OBVIOUS
  <2>2. /\ FoundAlike(p[n], q[n])
        /\ Good(kids[n + 1]) /\ Good(others[n + 1]) /\ Same(kids[n + 1], others[n + 1])
    BY <1>6, <2>1
  <2>3. /\ p[n + 1] = OrStep(c, p[n], kids[n + 1], intvls[n + 1])
        /\ q[n + 1] = OrStep(d, q[n], others[n + 1], intvls[n + 1])
    BY <1>4, <1>9, <2>1
  <2> QED BY <2>2, <2>3, OrStepKept
<1>7. Len(kids) \in N
  <2> HIDE DEF N
  <2> QED BY <1>5, <1>6, NatSetInduction
<1>8. FoundAlike(p[Len(kids)], q[Len(kids)])
  BY <1>7
<1> QED BY <1>2, <1>8 DEF FoundAlike

\* The statistics of the operands of a formula under two settings.
OperandsSame(f, stats, others, tr) ==
  \A p \in Operands(f) : /\ AllGood(stats[p], tr) /\ AllGood(others[p], tr)
                         /\ AllSame(stats[p], others[p], tr)

\* What two settings return for a formula, if it is satisfied under both.
NodeKept(c, d, f, stats, others, tr, i) ==
  LET node  == CheckNode(c, f, stats, tr, i)
      other == CheckNode(d, f, others, tr, i)
  IN node.sat /\ other.sat => node = other

\* Operators that look at their operands at one position.
LEMMA SimpleKept ==
  ASSUME NEW c, NEW d, NEW f, NEW stats, NEW others, NEW tr, Len(tr) \in Nat,
         NEW i \in 1 .. Terminal(tr), OperandsSame(f, stats, others, tr),
         f.op \in {"true", "false", "ap", "Not", "X", "Xor", "Equiv", "Implies"}
  PROVE  NodeKept(c, d, f, stats, others, tr, i)
<1> DEFINE node  == CheckNode(c, f, stats, tr, i)
           other == CheckNode(d, f, others, tr, i)
           kid    == stats[f.kid]
           first  == stats[f.first]
           second == stats[f.second]
           kid2    == others[f.kid]
           first2  == others[f.first]
           second2 == others[f.second]
<1>1. CASE f.op \in {"true", "false", "ap"}
  BY <1>1 DEF CheckNode, NodeKept
<1>2. CASE f.op \in {"Not", "X"}
  <2> DEFINE next == IF IsTerminal(tr, i) THEN i ELSE i + 1
  <2>1. AllSame(kid, kid2, tr)
    BY <1>2, OperandsAre DEF OperandsSame
  <2>2. next \in 1 .. Terminal(tr)
    BY RestOfTrace
  <2>3. /\ f.op = "Not" => /\ node = IF kid[i].sat THEN unmet ELSE Stat(TRUE, 1, 1)
                           /\ other = IF kid2[i].sat THEN unmet ELSE Stat(TRUE, 1, 1)
        /\ f.op = "X" => node = kid[next] /\ other = kid2[next]
    BY <1>2 DEF CheckNode
  <2> HIDE DEF node, other, kid, kid2, next
  <2>4. Same(kid[i], kid2[i]) /\ Same(kid[next], kid2[next])
    BY <2>1, <2>2 DEF AllSame
  <2>5. CASE f.op = "Not"
    BY <2>3, <2>4, <2>5 DEF NodeKept, Same, node, other
  <2>6. CASE f.op = "X"
    BY <2>3, <2>4, <2>6 DEF NodeKept, Same, node, other
  <2> QED BY <1>2, <2>5, <2>6
<1>3. CASE f.op \in {"Xor", "Equiv", "Implies"}
  <2>1. AllSame(first, first2, tr) /\ AllSame(second, second2, tr)
    BY <1>3, OperandsAre DEF OperandsSame
  <2>2. /\ f.op = "Xor" => /\ node = Stat(first[i].sat # second[i].sat, 0, 0)
                           /\ other = Stat(first2[i].sat # second2[i].sat, 0, 0)
        /\ f.op = "Equiv" => /\ node = Stat(first[i].sat = second[i].sat, 0, 0)
                             /\ other = Stat(first2[i].sat = second2[i].sat, 0, 0)
        /\ f.op = "Implies" => /\ node = IF first[i].sat THEN second[i] ELSE VacuouslyTrue
                               /\ other = IF first2[i].sat THEN second2[i] ELSE VacuouslyTrue
    BY <1>3 DEF CheckNode
  <2> HIDE DEF node, other, first, first2, second, second2
  <2>3. Same(first[i], first2[i]) /\ Same(second[i], second2[i])
    BY <2>1 DEF AllSame
  <2> QED BY <1>3, <2>2, <2>3 DEF NodeKept, Same, node, other
<1> QED BY <1>1, <1>2, <1>3

\* And and Or.
LEMMA MultipleKept ==
  ASSUME NEW c, NEW d, NEW f, NEW stats, NEW others, NEW tr, Len(tr) \in Nat,
         NEW i \in 1 .. Terminal(tr), OperandsSame(f, stats, others, tr),
         WellFormed(f), f.op \in {"And", "Or"},
         Exact(c), Exact(d), ~ IsVanilla(c), ~ IsVanilla(d)
  PROVE  NodeKept(c, d, f, stats, others, tr, i)
<1> DEFINE node   == CheckNode(c, f, stats, tr, i)
           other  == CheckNode(d, f, others, tr, i)
           kids   == [n \in DOMAIN f.kids |-> stats[f.kids[n]][i]]
           kids2  == [n \in DOMAIN f.kids |-> others[f.kids[n]][i]]
           intvls == [n \in DOMAIN f.kids |-> IntervalOf(f.kids[n])]
<1>1. f.kids \in Seq(Operands(f))
  BY DEF WellFormed, Multiples
<1>2. /\ Len(f.kids) \in Nat /\ DOMAIN f.kids = 1 .. Len(f.kids)
      /\ \A n \in 1 .. Len(f.kids) : f.kids[n] \in Operands(f)
  BY <1>1
<1>3. Len(kids) = Len(f.kids) /\ Len(kids2) = Len(f.kids)
  BY <1>2
<1>4. \A n \in 1 .. Len(f.kids) : Good(kids[n]) /\ Good(kids2[n]) /\ Same(kids[n], kids2[n])
  BY <1>2 DEF OperandsSame, AllGood, AllSame
<1>5. /\ kids = [n \in 1 .. Len(kids) |-> kids[n]]
      /\ kids2 = [n \in 1 .. Len(kids) |-> kids2[n]]
  BY <1>2, <1>3
<1>6. /\ f.op = "And" => node = AndCheck(c, kids) /\ other = AndCheck(d, kids2)
      /\ f.op = "Or" => node = OrCheck(c, kids, intvls) /\ other = OrCheck(d, kids2, intvls)
  BY DEF CheckNode
<1> HIDE DEF node, other, kids, kids2, intvls
<1>7. CASE f.op = "And"
  <2>1. AndCheck(c, kids).sat => AndCheck(c, kids) = AndCheck(d, kids2)
    <3>1. \A n \in 1 .. Len(kids) : Good(kids[n]) /\ Good(kids2[n]) /\ Same(kids[n], kids2[n])
      BY <1>3, <1>4
    <3>2. Len(kids) \in Nat /\ Len(kids2) = Len(kids)
      BY <1>2, <1>3
    <3> QED BY <1>5, <3>1, <3>2, AndKept
  <2> QED BY <1>6, <1>7, <2>1 DEF NodeKept, node, other
<1>8. CASE f.op = "Or"
  <2>1. Same(OrCheck(c, kids, intvls), OrCheck(d, kids2, intvls))
    BY <1>2, <1>3, <1>4, OrKept
  <2> QED BY <1>6, <1>8, <2>1 DEF NodeKept, Same, node, other
<1> QED BY <1>7, <1>8

\* The loops.
LEMMA LoopKept ==
  ASSUME NEW c, NEW d, NEW f, NEW stats, NEW others, NEW tr, Len(tr) \in Nat,
         NEW i \in 1 .. Terminal(tr), OperandsSame(f, stats, others, tr),
         f.op \in {"G", "F", "U", "W", "R", "M"}, Exact(c), Exact(d)
  PROVE  NodeKept(c, d, f, stats, others, tr, i)
<1> DEFINE node  == CheckNode(c, f, stats, tr, i)
           other == CheckNode(d, f, others, tr, i)
<1> SUFFICES ASSUME node.sat, other.sat PROVE node = other
  BY DEF NodeKept
<1>1. CASE f.op \in {"G", "F"}
  <2> DEFINE kid  == stats[f.kid]
             kid2 == others[f.kid]
  <2>1. AllGood(kid, tr) /\ AllGood(kid2, tr) /\ AllSame(kid, kid2, tr)
    BY <1>1, OperandsAre DEF OperandsSame
  <2>2. /\ f.op = "G" => /\ node = GloballyCheck(c, kid, tr, i)
                         /\ other = GloballyCheck(d, kid2, tr, i)
        /\ f.op = "F" => node = FinallyCheck(kid, tr, i) /\ other = FinallyCheck(kid2, tr, i)
    BY <1>1 DEF CheckNode
  <2> HIDE DEF node, other, kid, kid2
  <2>3. CASE f.op = "G"
    BY <2>1, <2>2, <2>3, GloballyKept
  <2>4. CASE f.op = "F"
    BY <2>1, <2>2, <2>4, FinallyKept
  <2> QED BY <1>1, <2>3, <2>4
<1>2. CASE f.op \in {"U", "W", "R", "M"}
  <2> DEFINE first   == stats[f.first]
             second  == stats[f.second]
             first2  == others[f.first]
             second2 == others[f.second]
  <2>1. /\ AllGood(first, tr) /\ AllGood(first2, tr) /\ AllSame(first, first2, tr)
        /\ AllGood(second, tr) /\ AllGood(second2, tr) /\ AllSame(second, second2, tr)
    BY <1>2, OperandsAre DEF OperandsSame
  <2>2. /\ f.op = "U" => /\ node = UntilCheck(c, first, second, tr, i)
                         /\ other = UntilCheck(d, first2, second2, tr, i)
        /\ f.op = "W" => /\ node = WeakUntilCheck(c, first, second, tr, i)
                         /\ other = WeakUntilCheck(d, first2, second2, tr, i)
        /\ f.op = "R" => /\ node = ReleaseCheck(c, first, second, tr, i)
                         /\ other = ReleaseCheck(d, first2, second2, tr, i)
        /\ f.op = "M" => /\ node = StrongReleaseCheck(c, first, second, tr, i)
                         /\ other = StrongReleaseCheck(d, first2, second2, tr, i)
    BY <1>2 DEF CheckNode
  <2> HIDE DEF node, other, first, first2, second, second2
  <2>3. CASE f.op = "U"
    <3>1. UntilIs(node, first, second, tr, i) /\ UntilIs(other, first2, second2, tr, i)
      BY <2>1, <2>2, <2>3, UntilWhole
    <3> QED BY <2>1, <3>1, LoopIsKept
  <2>4. CASE f.op = "W"
    <3>1. WeakUntilIs(node, first, second, tr, i) /\ WeakUntilIs(other, first2, second2, tr, i)
      BY <2>1, <2>2, <2>4, WeakUntilWhole
    <3> QED BY <2>1, <3>1, LoopIsKept
  <2>5. CASE f.op = "R"
    <3>1. ReleaseIs(node, first, second, tr, i) /\ ReleaseIs(other, first2, second2, tr, i)
      BY <2>1, <2>2, <2>5, ReleaseWhole
    <3> QED BY <2>1, <3>1, LoopIsKept
  <2>6. CASE f.op = "M"
    <3>1. /\ StrongReleaseIs(node, first, second, tr, i)
          /\ StrongReleaseIs(other, first2, second2, tr, i)
      BY <2>1, <2>2, <2>6, StrongReleaseWhole
    <3> QED BY <2>1, <3>1, LoopIsKept
  <2> QED BY <1>2, <2>3, <2>4, <2>5, <2>6
<1> QED BY <1>1, <1>2

\* Two settings that stop early on nothing but a missed verdict return the same for a
\* satisfied formula at any position.
LEMMA CheckKept ==
  ASSUME NEW c, NEW d, NEW tr, Len(tr) \in Nat, NEW f \in Language,
         Exact(c), Exact(d), ~ IsVanilla(c), ~ IsVanilla(d)
  PROVE  AllSame(CheckOn(c, tr)[f], CheckOn(d, tr)[f], tr)
<1> DEFINE S == {g \in Language : AllSame(CheckOn(c, tr)[g], CheckOn(d, tr)[g], tr)}
<1>1. ASSUME NEW g \in Language, Operands(g) \subseteq S PROVE g \in S
  <2> DEFINE stats  == [p \in Operands(g) |-> CheckOn(c, tr)[p]]
             others == [p \in Operands(g) |-> CheckOn(d, tr)[p]]
  <2>1. \A p \in Operands(g) : /\ AllGood(stats[p], tr) /\ AllGood(others[p], tr)
                               /\ AllSame(stats[p], others[p], tr)
    <3> SUFFICES ASSUME NEW p \in Operands(g)
                 PROVE  /\ AllGood(CheckOn(c, tr)[p], tr) /\ AllGood(CheckOn(d, tr)[p], tr)
                        /\ AllSame(CheckOn(c, tr)[p], CheckOn(d, tr)[p], tr)
      OBVIOUS
    <3>1. p \in Language /\ AllSame(CheckOn(c, tr)[p], CheckOn(d, tr)[p], tr)
      BY <1>1
    <3>2. AllGood(CheckOn(c, tr)[p], tr) /\ AllGood(CheckOn(d, tr)[p], tr)
      BY <3>1, CheckAgrees DEF Agrees, AllGood
    <3> QED BY <3>1, <3>2
  <2>2. OperandsSame(g, stats, others, tr)
    BY <2>1 DEF OperandsSame
  <2>3. \A i \in 1 .. Terminal(tr) :
          /\ CheckOn(c, tr)[g][i] = CheckNode(c, g, stats, tr, i)
          /\ CheckOn(d, tr)[g][i] = CheckNode(d, g, others, tr, i)
    BY CheckOnDef
  <2>4. WellFormed(g)
    BY LevelsAssumption
  <2>5. \/ g.op \in {"true", "false", "ap", "Not", "X", "Xor", "Equiv", "Implies"}
        \/ g.op \in {"And", "Or"}
        \/ g.op \in {"G", "F", "U", "W", "R", "M"}
    BY <2>4 DEF WellFormed, Operators, Constants, UnaryOperators, BinaryOperators, Multiples
  <2> HIDE DEF stats, others
  <2>6. \A i \in 1 .. Terminal(tr) : NodeKept(c, d, g, stats, others, tr, i)
    BY <2>2, <2>4, <2>5, SimpleKept, MultipleKept, LoopKept
  <2>7. \A i \in 1 .. Terminal(tr) :
          CheckOn(c, tr)[g][i].sat /\ CheckOn(d, tr)[g][i].sat
            => CheckOn(c, tr)[g][i] = CheckOn(d, tr)[g][i]
    BY <2>3, <2>6 DEF NodeKept
  <2>8. \A i \in 1 .. Terminal(tr) : /\ CheckOn(c, tr)[g][i].sat = HoldsOn(tr)[g][i]
                                     /\ CheckOn(d, tr)[g][i].sat = HoldsOn(tr)[g][i]
    BY CheckAgrees DEF Agrees, Good, Stats
  <2>9. AllSame(CheckOn(c, tr)[g], CheckOn(d, tr)[g], tr)
    BY <2>7, <2>8 DEF AllSame, Same
  <2> QED BY <2>9
<1>2. Language \subseteq S
  <2> HIDE DEF S
  <2> QED BY <1>1, LanguageInduction
<1> QED BY <1>2

\* Settings under which nothing is ever left early.
NeverStops(c) == ~ IsVanilla(c) /\ \A s : ~ ShortCircuiting(c, s)

\* Or does not depend on them.
LEMMA OrUnchanged ==
  ASSUME NEW c, NEW d, NEW kids, NEW intvls, Len(kids) \in Nat, ~ IsVanilla(c), ~ IsVanilla(d)
  PROVE  OrCheck(c, kids, intvls) = OrCheck(d, kids, intvls)
<1> DEFINE p == CHOOSE fold : IsOrFold(fold, c, kids, intvls)
           q == CHOOSE fold : IsOrFold(fold, d, kids, intvls)
           N == {n \in Nat : n <= Len(kids) => p[n] = q[n]}
<1>1. IsOrFold(p, c, kids, intvls)
  BY OrFoldExists
<1>2. IsOrFold(q, d, kids, intvls)
  BY OrFoldExists
<1>3. OrCheck(c, kids, intvls) = p[Len(kids)].stat /\ OrCheck(d, kids, intvls) = q[Len(kids)].stat
  BY DEF OrCheck, IsOrFold
<1> HIDE DEF p, q
<1>4. 0 \in N
  BY <1>1, <1>2 DEF IsOrFold
<1>5. \A acc, s, v : OrStep(c, acc, s, v) = OrStep(d, acc, s, v)
  BY DEF OrStep
<1>6. ASSUME NEW n \in Nat, n \in N PROVE n + 1 \in N
  <2> SUFFICES ASSUME n + 1 <= Len(kids) PROVE p[n + 1] = q[n + 1]
    OBVIOUS
  <2>1. n \in 0 .. Len(kids) - 1
    OBVIOUS
  <2>2. p[n] = q[n]
    BY <1>6, <2>1
  <2>3. p[n + 1] = OrStep(c, p[n], kids[n + 1], intvls[n + 1])
    BY <1>1, <2>1, OrFoldSteps
  <2>4. q[n + 1] = OrStep(d, q[n], kids[n + 1], intvls[n + 1])
    BY <1>2, <2>1, OrFoldSteps
  <2> QED BY <1>5, <2>2, <2>3, <2>4
<1>7. Len(kids) \in N
  <2> HIDE DEF N
  <2> QED BY <1>4, <1>6, NatSetInduction
<1> QED BY <1>3, <1>7

\* Nor does any other operator.
LEMMA NodeUnchanged ==
  ASSUME NEW c, NEW d, NeverStops(c), NeverStops(d),
         NEW f, WellFormed(f), NEW stats, NEW tr, NEW i
  PROVE  CheckNode(c, f, stats, tr, i) = CheckNode(d, f, stats, tr, i)
<1>1. \A s : ~ ShortCircuiting(c, s) /\ ~ ShortCircuiting(d, s)
  BY DEF NeverStops
<1> DEFINE kid    == stats[f.kid]
           first  == stats[f.first]
           second == stats[f.second]
           kids   == [n \in DOMAIN f.kids |-> stats[f.kids[n]][i]]
           intvls == [n \in DOMAIN f.kids |-> IntervalOf(f.kids[n])]
<1>2. CASE f.op \in {"true", "false", "ap", "Not", "Xor", "Equiv", "Implies", "X", "F"}
  BY <1>2 DEF CheckNode
<1>3. CASE f.op = "And"
  <2>1. AndCheck(c, kids) = AndCheck(d, kids)
    <3> HIDE DEF kids
    <3> QED BY <1>1 DEF AndCheck
  <2> QED BY <1>3, <2>1 DEF CheckNode
<1>4. CASE f.op = "Or"
  <2>1. f.kids \in Seq(Operands(f))
    BY <1>4 DEF WellFormed, Multiples
  <2>2. Len(kids) \in Nat
    BY <2>1
  <2>3. OrCheck(c, kids, intvls) = OrCheck(d, kids, intvls)
    <3> HIDE DEF kids, intvls
    <3> QED BY <2>2, OrUnchanged DEF NeverStops
  <2> QED BY <1>4, <2>3 DEF CheckNode
<1>5. CASE f.op = "G"
  <2>1. GloballyCheck(c, kid, tr, i) = GloballyCheck(d, kid, tr, i)
    <3> HIDE DEF kid
    <3> QED BY <1>1 DEF GloballyCheck
  <2> QED BY <1>5, <2>1 DEF CheckNode
<1>6. CASE f.op \in {"U", "W"}
  <2>1. UntilStop(c, first, second, tr, i) = UntilStop(d, first, second, tr, i)
    <3> HIDE DEF first, second
    <3> QED BY <1>1 DEF UntilStop
  <2>2. /\ UntilCheck(c, first, second, tr, i) = UntilCheck(d, first, second, tr, i)
        /\ WeakUntilCheck(c, first, second, tr, i) = WeakUntilCheck(d, first, second, tr, i)
    BY <2>1 DEF UntilCheck, WeakUntilCheck
  <2> QED BY <1>6, <2>2 DEF CheckNode
<1>7. CASE f.op \in {"R", "M"}
  <2>1. ReleaseStop(c, first, second, tr, i) = ReleaseStop(d, first, second, tr, i)
    <3> HIDE DEF first, second
    <3> QED BY <1>1 DEF ReleaseStop
  <2>2. /\ ReleaseCheck(c, first, second, tr, i) = ReleaseCheck(d, first, second, tr, i)
        /\ StrongReleaseCheck(c, first, second, tr, i) = StrongReleaseCheck(d, first, second, tr, i)
    BY <1>1, <2>1 DEF ReleaseCheck, StrongReleaseCheck
  <2> QED BY <1>7, <2>2 DEF CheckNode
<1>8. f.op \in {"true", "false", "ap", "Not", "Xor", "Equiv", "Implies", "X", "F"}
        \cup {"And", "Or", "G", "U", "W", "R", "M"}
  BY DEF WellFormed, Operators, Constants, UnaryOperators, BinaryOperators, Multiples
<1> QED BY <1>2, <1>3, <1>4, <1>5, <1>6, <1>7, <1>8

\* Two settings that never stop return the same for every formula.
LEMMA CheckUnchanged ==
  ASSUME NEW c, NEW d, NeverStops(c), NeverStops(d), NEW tr, NEW f \in Language
  PROVE  CheckOn(c, tr)[f] = CheckOn(d, tr)[f]
<1> DEFINE S == {g \in Language : CheckOn(c, tr)[g] = CheckOn(d, tr)[g]}
<1>1. ASSUME NEW g \in Language, Operands(g) \subseteq S PROVE g \in S
  <2> DEFINE stats == OperandStats(c, g, tr)
  <2>1. stats = OperandStats(d, g, tr)
    BY <1>1 DEF OperandStats
  <2>2. CheckOn(c, tr)[g] = NodeStats(c, g, stats, tr)
    BY CheckOnIs
  <2>3. CheckOn(d, tr)[g] = NodeStats(d, g, OperandStats(d, g, tr), tr)
    BY CheckOnIs
  <2>4. WellFormed(g)
    BY LevelsAssumption
  <2> HIDE DEF stats
  <2>5. \A i : CheckNode(c, g, stats, tr, i) = CheckNode(d, g, stats, tr, i)
    BY <2>4, NodeUnchanged
  <2>6. CheckOn(c, tr)[g] = CheckOn(d, tr)[g]
    BY <2>1, <2>2, <2>3, <2>5 DEF NodeStats
  <2> QED BY <2>6
<1>2. Language \subseteq S
  <2> HIDE DEF S
  <2> QED BY <1>1, LanguageInduction
<1> QED BY <1>2

-----------------------------------------------------------------------------
(***************************************************************************)
(* Thresholds.                                                             *)
(***************************************************************************)

\* The settings ShortCircuitKeepsResult compares with.
Full(c) == [c EXCEPT !.compute_full_stats = TRUE]

\* They compute the full statistics and never stop.
LEMMA FullNeverStops ==
  ASSUME NEW c \in Settings
  PROVE  Exact(Full(c)) /\ NeverStops(Full(c)) /\ ~ IsVanilla(Full(c))
<1>1. Full(c).compute_full_stats = TRUE
  BY DEF Full, Settings
<1> QED BY <1>1 DEF Exact, NeverStops, IsVanilla, ShortCircuiting

\* A confidence threshold of one is met by the satisfied statistics.
LEMMA ConfidenceOneMet ==
  ASSUME NEW c \in Settings, ConfidenceOne(c), NEW s, Good(s)
  PROVE  AtMost(c.conf_t, Confidence(s)) <=> s.sat
<1> DEFINE k == c.conf_t.num
<1>1. k \in Nat \ {0} /\ c.conf_t.den = k
  BY DEF Settings, Confidences, ConfidenceOne
<1> HIDE DEF k
<1>2. AtMost(c.conf_t, Confidence(s)) <=> k * Confidence(s).den <= Confidence(s).num * k
  BY <1>1 DEF AtMost, k
<1>3. /\ s.sup \in Nat /\ s.pot \in Nat /\ s.sat \in BOOLEAN
      /\ s.sup <= s.pot /\ (s.sat => s.sup = s.pot)
  BY DEF Good, Stats
<1>4. CASE s.sup = s.pot
  <2>1. Confidence(s).den = 1 /\ Confidence(s).num = IF s.sat THEN 1 ELSE 0
    BY <1>4 DEF Confidence, Ratio
  <2> QED BY <1>1, <1>2, <1>3, <2>1
<1>5. CASE s.sup # s.pot
  <2>1. Confidence(s).den = s.pot /\ Confidence(s).num = s.sup
    BY <1>5 DEF Confidence, Ratio
  <2>2. s.pot - s.sup \in Nat \ {0}
    BY <1>3, <1>5
  <2>3. (s.pot - s.sup) * k \in Nat /\ s.pot - s.sup <= (s.pot - s.sup) * k
    BY <1>1, <2>2, ProductBound
  <2>4. k * s.pot = s.sup * k + (s.pot - s.sup) * k
    BY <1>1, <1>3
  <2>5. s.sup * k \in Nat
    BY <1>1, <1>3
  <2>6. ~ (k * s.pot <= s.sup * k)
    BY <2>2, <2>3, <2>4, <2>5
  <2> QED BY <1>2, <1>3, <1>5, <2>1, <2>6
<1> QED BY <1>4, <1>5

\* What the checker is handed is a formula of the language that means the same.
LEMMA PreparedMeans ==
  ASSUME NEW c, NEW f \in Formulas, NEW tr, Len(tr) \in Nat
  PROVE  Prepared(c, f) \in Language /\ Holds(Prepared(c, f), tr, 1) = Holds(f, tr, 1)
<1>1. f \in Language /\ 1 \in 1 .. Terminal(tr)
  BY FormulasAssumption DEF Terminal
<1>2. CASE IsVanilla(c)
  BY <1>1, <1>2 DEF Prepared
<1>3. CASE ~ IsVanilla(c)
  <2>1. Prepared(c, f) = NegativeNormalForm(f, FALSE)
    BY <1>3 DEF Prepared
  <2>2. NegativeNormalForm(f, FALSE) \in Language
    BY <1>1, NormalFormsAssumption
  <2>3. Holds(NegativeNormalForm(f, FALSE), tr, 1) = Holds(f, tr, 1)
    BY <1>1, NormalFormsKeepMeaning
  <2> QED BY <2>1, <2>2, <2>3
<1> QED BY <1>2, <1>3

\* What check_on_trace returns under the settings c.
Returned(c, f, tr) == Check(c, Prepared(c, f), tr, 1)

\* It is a good statistic whose verdict is the meaning of the formula.
LEMMA ReturnedRight ==
  ASSUME NEW c, NEW f \in Formulas, NEW tr, Len(tr) \in Nat
  PROVE  /\ Good(Returned(c, f, tr))
         /\ Exact(c) => (Returned(c, f, tr).sat <=> Holds(f, tr, 1))
<1>1. Prepared(c, f) \in Language /\ Holds(Prepared(c, f), tr, 1) = Holds(f, tr, 1)
  BY PreparedMeans
<1> QED BY <1>1, CheckRight DEF Returned

\* Where the confidence threshold is not zero, stopping early does not change whether
\* the thresholds are met.
LEMMA ThresholdsKept ==
  ASSUME NEW c \in Settings, ~ ConfidenceZero(c), NEW f \in Formulas, NEW tr, Len(tr) \in Nat
  PROVE  SatisfiesThresholds(c, Returned(c, f, tr))
           <=> SatisfiesThresholds(c, Returned(Full(c), f, tr))
<1> DEFINE s == Returned(c, f, tr)
           t == Returned(Full(c), f, tr)
<1>1. Exact(c) /\ Exact(Full(c)) /\ NeverStops(Full(c)) /\ ~ IsVanilla(Full(c))
  BY FullNeverStops DEF Exact
<1>2. /\ Good(s) /\ (s.sat <=> Holds(f, tr, 1))
      /\ Good(t) /\ (t.sat <=> Holds(f, tr, 1))
  BY <1>1, ReturnedRight
<1> HIDE DEF s, t
<1>3. s.sat \in BOOLEAN /\ t.sat \in BOOLEAN /\ s.sat = t.sat
  BY <1>2 DEF Good, Stats
<1>4. SatisfiesThresholds(c, s) <=> SatisfiesThresholds(c, t)
  <2>1. CASE IsVanilla(c)
    <3>1. ConfidenceOne(c) /\ c.sup_t = 0 /\ c.sup_pot_t = 0
      BY <2>1 DEF IsVanilla
    <3>2. s.sup \in Nat /\ s.pot \in Nat /\ t.sup \in Nat /\ t.pot \in Nat
      BY <1>2 DEF Good, Stats
    <3>3. /\ AtMost(c.conf_t, Confidence(s)) <=> s.sat
          /\ AtMost(c.conf_t, Confidence(t)) <=> t.sat
      BY <1>2, <3>1, ConfidenceOneMet
    <3> QED BY <1>3, <3>1, <3>2, <3>3 DEF SatisfiesThresholds
  <2>2. CASE ~ IsVanilla(c) /\ ConfidenceOne(c)
    <3> DEFINE g == NegativeNormalForm(f, FALSE)
    <3>1. s = Check(c, g, tr, 1) /\ t = Check(Full(c), g, tr, 1)
      BY <1>1, <2>2 DEF s, t, Returned, Prepared
    <3>2. g \in Language /\ 1 \in 1 .. Terminal(tr)
      <4>1. f \in Language
        BY FormulasAssumption
      <4>2. g \in Language
        BY <4>1, NormalFormsAssumption
      <4>3. 1 \in 1 .. Terminal(tr)
        BY DEF Terminal
      <4> QED BY <4>2, <4>3
    <3>3. AllSame(CheckOn(c, tr)[g], CheckOn(Full(c), tr)[g], tr)
      BY <1>1, <2>2, <3>2, CheckKept
    <3> HIDE DEF g
    <3>4. s.sat => s = t
      BY <3>1, <3>2, <3>3 DEF AllSame, Same, Check
    <3>5. /\ AtMost(c.conf_t, Confidence(s)) <=> s.sat
          /\ AtMost(c.conf_t, Confidence(t)) <=> t.sat
      BY <1>2, <2>2, ConfidenceOneMet
    <3>6. CASE s.sat
      BY <3>4, <3>6
    <3>7. CASE ~ s.sat
      BY <1>3, <3>5, <3>7 DEF SatisfiesThresholds
    <3> QED BY <1>3, <3>6, <3>7
  <2>3. CASE ~ IsVanilla(c) /\ ~ ConfidenceOne(c)
    <3> DEFINE g == NegativeNormalForm(f, FALSE)
    <3>1. s = Check(c, g, tr, 1) /\ t = Check(Full(c), g, tr, 1)
      BY <1>1, <2>3 DEF s, t, Returned, Prepared
    <3>2. g \in Language
      BY FormulasAssumption, NormalFormsAssumption
    <3>3. NeverStops(c)
      BY <2>3 DEF NeverStops, ShortCircuiting
    <3> HIDE DEF g
    <3>4. CheckOn(c, tr)[g] = CheckOn(Full(c), tr)[g]
      <4> DEFINE d == Full(c)
      <4>1. NeverStops(d)
        BY <1>1
      <4> HIDE DEF d
      <4>2. CheckOn(c, tr)[g] = CheckOn(d, tr)[g]
        BY <3>2, <3>3, <4>1, CheckUnchanged
      <4> QED BY <4>2 DEF d
    <3> QED BY <3>1, <3>4 DEF Check
  <2> QED BY <2>1, <2>2, <2>3
<1> QED BY <1>4 DEF s, t

-----------------------------------------------------------------------------
(***************************************************************************)
(* The behaviours of the checker.                                          *)
(***************************************************************************)

\* The inductive invariant: what was returned is the check of the prepared formula.
CheckInv ==
  /\ settings \in Configurations /\ formula \in Formulas
  /\ checked \in Traces \cup {NoTrace}
  /\ checked = NoTrace => trace_stat = Stat(FALSE, 0, 0)
  /\ checked # NoTrace => trace_stat = Returned(settings, formula, checked)

\* It holds initially and is kept by a call.
LEMMA Checks == Spec => []CheckInv
<1>1. Init => CheckInv
  BY DEF Init, CheckInv
<1>2. CheckInv /\ [Next]_vars => CheckInv'
  <2> SUFFICES ASSUME CheckInv, [Next]_vars PROVE CheckInv'
    OBVIOUS
  <2>1. CASE UNCHANGED vars
    BY <2>1 DEF CheckInv, vars
  <2>2. ASSUME NEW tr \in Traces, CheckOnTrace(tr) PROVE CheckInv'
    <3>1. /\ checked' = tr /\ settings' = settings /\ formula' = formula
          /\ trace_stat' = Returned(settings, formula, tr)
      BY <2>2 DEF CheckOnTrace, Returned
    <3>2. tr # NoTrace
      BY TracesAssumption
    <3> QED BY <3>1, <3>2 DEF CheckInv
  <2> QED BY <2>1, <2>2 DEF Next
<1> QED BY <1>1, <1>2, PTL DEF Spec

\* A checked trace is one of Traces, and what was returned is good.
LEMMA CheckedGood ==
  ASSUME CheckInv, checked # NoTrace
  PROVE  /\ checked \in Traces /\ Len(checked) \in Nat
         /\ settings \in Settings /\ Good(trace_stat)
         /\ Exact(settings) => (trace_stat.sat <=> Holds(formula, checked, 1))
<1>1. checked \in Traces /\ Len(checked) \in Nat /\ settings \in Settings /\ formula \in Formulas
  BY TracesAssumption, ConfigurationsAssumption DEF CheckInv
<1>2. trace_stat = Returned(settings, formula, checked)
  BY DEF CheckInv
<1> QED BY <1>1, <1>2, ReturnedRight

\* Every statistic the linear checker returns has counts in the naturals and a verdict,
\* whatever the loops of the checker summed (lineartracechecker.cpp).
THEOREM LinearTypeCorrect == Spec => []TypeOK
<1>1. CheckInv => TypeOK
  <2> SUFFICES ASSUME CheckInv PROVE TypeOK
    OBVIOUS
  <2>1. settings \in Settings /\ checked \in Traces \cup {NoTrace}
    BY ConfigurationsAssumption DEF CheckInv
  <2>2. CASE checked = NoTrace
    <3>1. trace_stat \in Stats
      BY <2>2, ConstantsGood DEF CheckInv, Good
    <3> QED BY <2>1, <3>1 DEF TypeOK
  <2>3. CASE checked # NoTrace
    <3>1. trace_stat \in Stats
      BY <2>3, CheckedGood DEF Good
    <3> QED BY <2>1, <3>1 DEF TypeOK
  <2> QED BY <2>2, <2>3
<1> QED BY <1>1, Checks, PTL

\* For every formula, trace and settings, support never exceeds potential and the
\* confidence is one exactly for the satisfied formulas: what the comparison of
\* confidences in or_check and in valid_instants_on_traces relies on.
THEOREM ConfidenceAlwaysVerdict == Spec => []ConfidenceIsVerdict
<1>1. CheckInv => ConfidenceIsVerdict
  <2> SUFFICES ASSUME CheckInv, checked # NoTrace
               PROVE  /\ trace_stat.sup <= trace_stat.pot
                      /\ trace_stat.sat <=> AtMost(Ratio(1, 1), Confidence(trace_stat))
    BY DEF ConfidenceIsVerdict
  <2>1. Good(trace_stat)
    BY CheckedGood
  <2> QED BY <2>1, ConfidenceOfGood DEF Good
<1> QED BY <1>1, Checks, PTL

\* The verdict of the linear checker is the LTL meaning of the formula at the first
\* event of the trace, for settings that compute the full statistics or ask for some
\* confidence: whatever the loops skipped, whatever and_check and or_check returned
\* early, and whatever the negative normal form replaced.
THEOREM VerdictAlwaysLtl ==
  ASSUME \A c \in Configurations : c.compute_full_stats \/ ~ ConfidenceZero(c)
  PROVE  Spec => []VerdictIsLtl
<1>1. CheckInv => VerdictIsLtl
  <2> SUFFICES ASSUME CheckInv, checked # NoTrace
               PROVE  trace_stat.sat <=> Holds(formula, checked, 1)
    BY DEF VerdictIsLtl
  <2>1. Exact(settings)
    BY DEF CheckInv, Exact
  <2> QED BY <2>1, CheckedGood
<1> QED BY <1>1, Checks, PTL

\* "No further checking can change the result" (boolbasedchecker.h) holds where the
\* settings ask for some confidence: a trace meets the thresholds with what the checker
\* returns exactly if it does with the full statistics.
THEOREM StoppingAlwaysKeepsResult ==
  ASSUME \A c \in Configurations : ~ ConfidenceZero(c)
  PROVE  Spec => []ShortCircuitKeepsResult
<1>1. CheckInv => ShortCircuitKeepsResult
  <2> SUFFICES ASSUME CheckInv, checked # NoTrace
               PROVE  SatisfiesThresholds(settings, trace_stat)
                        <=> SatisfiesThresholds(settings, Returned(Full(settings), formula, checked))
    BY DEF ShortCircuitKeepsResult, Full, Returned
  <2>1. /\ settings \in Settings /\ ~ ConfidenceZero(settings) /\ formula \in Formulas
        /\ trace_stat = Returned(settings, formula, checked) /\ Len(checked) \in Nat
    BY CheckedGood DEF CheckInv
  <2> QED BY <2>1, ThresholdsKept
<1> QED BY <1>1, Checks, PTL
=============================================================================
